------------------------ MODULE AcceleratorsProofs ------------------------
(***************************************************************************)
(* Proofs about Accelerators, for arrays of any size anywhere in a memory  *)
(* of any size: the components are at rest whenever the processor does not *)
(* wait for them, and amap_cc maps what it should and writes nowhere else  *)
(* but one word further.                                                   *)
(***************************************************************************)
EXTENDS Accelerators, FiniteSetTheorems, WellFoundedInduction, TLAPS

\* A component that is at work has been started by the call in progress, and does
\* not claim to be ready.
Rest ==
  /\ pc \in {"idle", "write", "start", "poll", "result"}
  /\ k \in Nat \ {0}
  /\ l_state # "Idle" => pc = "poll" /\ call.f = "lred" /\ l_rdy = 0
  /\ r_state # "Idle" => pc = "poll" /\ call.f = "ared" /\ r_rdy = 0
  /\ m_state # "Idle" => pc = "poll" /\ call.f = "amap" /\ m_rdy = 0

\* Rest is inductive (the start of a component clears rdy on the edge on which it
\* leaves Idle; the last step of its work sets it on the edge on which it is Idle).
LEMMA RestStep == Rest /\ [Next]_vars => Rest'
<1> SUFFICES ASSUME Rest, [Next]_vars PROVE Rest'
  OBVIOUS
<1>1. CASE ListStep
  BY <1>1 DEF Rest, ListStep, DecodeValue, GetHead, GetTail, ared, amap, cpu
<1>2. CASE ReduceStep
  BY <1>2 DEF Rest, ReduceStep, SeqRd, ReduceWaitRd, lred, amap, cpu
<1>3. CASE MapStep
  BY <1>3 DEF Rest, MapStep, Rd, MapWaitRd, WaitWr, lred, ared, cpu
<1>4. CASE \E c \in Calls : Call(c)
  BY <1>4 DEF Rest, Call, lred, ared, amap
<1>5. CASE WriteOperand
  <2>1. pc = "write" /\ pc' \in {"write", "start"} /\ k' = k + 1 /\ Write(k, Operands[k])
    BY <1>5 DEF WriteOperand
  <2>2. l_state = "Idle" /\ r_state = "Idle" /\ m_state = "Idle"
    BY <2>1 DEF Rest
  <2>3. k # 0 /\ k' \in Nat \ {0}
    BY <2>1 DEF Rest
  <2>. QED
    BY <2>1, <2>2, <2>3 DEF Rest, Write, WriteList, WriteReduce, WriteMap, lred, ared, amap
<1>6. CASE Start
  BY <1>6 DEF Rest, Start, Write, WriteList, WriteReduce, WriteMap, StartList, StartReduce,
    StartMap, lred, ared, amap
<1>7. CASE Poll
  BY <1>7 DEF Rest, Poll, Rdy, lred, ared, amap
<1>8. CASE GetResult
  BY <1>8 DEF Rest, GetResult, lred, ared, amap
<1>9. CASE Return
  BY <1>9 DEF Rest, Return, Returning, lred, ared, amap
<1>10. CASE UNCHANGED vars
  BY <1>10 DEF Rest, vars, lred, ared, amap, cpu
<1>. QED
  BY <1>1, <1>2, <1>3, <1>4, <1>5, <1>6, <1>7, <1>8, <1>9, <1>10 DEF Next

LEMMA RestInvariant == Spec => []Rest
<1>1. Init => Rest
  BY DEF Init, Rest
<1>. QED
  BY <1>1, RestStep, PTL DEF Spec

\* Theorem: no component works in memory outside the polling loop that waits for it.
THEOREM AtRest == Spec => []AtRestOutsidePoll
<1>1. Rest => AtRestOutsidePoll
  BY DEF Rest, AtRestOutsidePoll
<1>. QED
  BY <1>1, RestInvariant, PTL

-----------------------------------------------------------------------------
(* amap_cc.                                                                *)

Mapping == pc # "idle" /\ call.f = "amap"

\* The words the component has mapped, and those of the source still to come.
Done(n) ==
  /\ \A i \in 0 .. MapSize - 1 : i < n => mem[MapDst + i] = nios_arr_map(before, MapSrc, i)
  /\ \A i \in 0 .. MapSize - 1 : i >= n => mem[MapSrc + i] = before[MapSrc + i]

MapsArrayNow == \A i \in 0 .. MapSize - 1 : mem[MapDst + i] = nios_arr_map(before, MapSrc, i)

\* The registers in the course of the loop.
Loop ==
  /\ m_size = MapSize /\ m_count \in 0 .. MapSize + 1
  /\ raddr = MapSrc + m_count /\ waddr = MapDst + m_count
  /\ m_state \in {"WaitRd", "WaitWr"} => m_count <= MapSize
  /\ (m_state = "WaitWr" /\ m_count < MapSize) => writedata = nios_arr_map(before, MapSrc, m_count)
  /\ Done(m_count)

MapInv ==
  /\ call \in Calls /\ before = call.mem /\ DOMAIN mem = DOMAIN before
  /\ m_state \in {"Idle", "Rd", "WaitRd", "WaitWr"}
  /\ WritesOnlyDestination
  /\ (pc \in {"write", "start"}) => mem = before
  /\ (Mapping /\ pc = "write") => /\ k \in 1 .. 3
                                  /\ k > 1 => raddr = MapSrc
                                  /\ k > 2 => waddr = MapDst
  /\ (Mapping /\ pc = "start") => raddr = MapSrc /\ waddr = MapDst /\ m_size = MapSize
  /\ (Mapping /\ pc = "poll" /\ m_state # "Idle") => Loop
  /\ (Mapping /\ pc = "poll" /\ m_state = "Idle") => MapsArrayNow
  /\ (Mapping /\ pc = "result") => MapsArrayNow

LEMMA MapFacts ==
  ASSUME call \in Calls, before = call.mem, call.f = "amap"
  PROVE  /\ MapSrc \in Nat /\ MapDst \in Nat /\ MapSize \in Nat
         /\ MapSrc .. MapSrc + MapSize \subseteq DOMAIN before
         /\ MapDst .. MapDst + MapSize \subseteq DOMAIN before
         /\ MapSrc = MapDst \/ \A i \in MapSrc .. MapSrc + MapSize - 1 :
                                i \notin MapDst .. MapDst + MapSize
  BY CallsAssumption DEF MapSrc, MapDst, MapSize

\* The memory functions depend on nothing but the call.
LEMMA SameCall ==
  ASSUME call' = call, before' = before
  PROVE  MapSrc' = MapSrc /\ MapDst' = MapDst /\ MapSize' = MapSize
  BY DEF MapSrc, MapDst, MapSize

\* A step that leaves memory, the call and amap_cc alone, and starts nothing.
LEMMA MapFrame ==
  ASSUME MapInv, UNCHANGED <<mem, call, before, amap>>,
         \/ UNCHANGED <<pc, k>>
         \/ pc \in {"write", "start"} /\ call.f # "amap"
         \/ pc = "poll" /\ m_state = "Idle" /\ pc' = "result"
         \/ pc' = "idle"
         \/ pc = "result" /\ pc' = "result"
  PROVE  MapInv'
<1>1. /\ MapSrc' = MapSrc /\ MapDst' = MapDst /\ MapSize' = MapSize
      /\ mem' = mem /\ before' = before /\ call' = call
      /\ m_state' = m_state /\ m_size' = m_size /\ m_count' = m_count
      /\ raddr' = raddr /\ waddr' = waddr /\ writedata' = writedata
  BY SameCall DEF amap
<1>2. Loop' = Loop /\ MapsArrayNow' = MapsArrayNow
      /\ WritesOnlyDestination' = WritesOnlyDestination
  BY <1>1 DEF Loop, Done, MapsArrayNow, WritesOnlyDestination, nios_arr_map
<1>. QED
  BY <1>1, <1>2 DEF MapInv, Mapping

\* The processor gives amap_cc its operands and starts it.
LEMMA MapOperands ==
  ASSUME Rest, MapInv, call.f = "amap", WriteOperand \/ Start
  PROVE  MapInv'
<1>1. /\ pc \in {"write", "start"} /\ m_state = "Idle" /\ mem = before
      /\ UNCHANGED <<board, mem, call, ret, before>>
  BY DEF WriteOperand, Start, Rest, MapInv, Write
<1>2. MapSrc' = MapSrc /\ MapDst' = MapDst /\ MapSize' = MapSize
  BY <1>1, SameCall
<1>3. MapSrc \in Nat /\ MapDst \in Nat /\ MapSize \in Nat
  BY MapFacts DEF MapInv
<1>4. WritesOnlyDestination'
  BY <1>1 DEF WritesOnlyDestination
<1>5. CASE WriteOperand
  <2>1. Operands = <<MapSrc, MapDst, MapSize>>
    BY <1>5 DEF Operands, MapSrc, MapDst, MapSize
  <2>2. k \in 1 .. 3 /\ pc = "write" /\ (k > 1 => raddr = MapSrc) /\ (k > 2 => waddr = MapDst)
    BY <1>5 DEF MapInv, Mapping, WriteOperand
  <2>3. WriteMap(k, Operands[k]) /\ k' = k + 1 /\ pc' = IF k = 3 THEN "start" ELSE "write"
    BY <1>1, <1>5, <2>1, <2>2 DEF WriteOperand, Write
  <2>4. /\ m_state' = "Idle" /\ k' = k + 1 /\ pc' = IF k = 3 THEN "start" ELSE "write"
        /\ raddr'  = IF k = 1 THEN MapSrc ELSE raddr
        /\ waddr'  = IF k = 2 THEN MapDst ELSE waddr
        /\ m_size' = IF k = 3 THEN MapSize ELSE m_size
    <3>1. CASE k = 1
      BY <3>1, <1>1, <2>1, <2>3 DEF WriteMap
    <3>2. CASE k = 2
      BY <3>2, <1>1, <2>1, <2>3 DEF WriteMap
    <3>3. CASE k = 3
      BY <3>3, <1>1, <2>1, <2>3 DEF WriteMap
    <3>. QED
      BY <2>2, <3>1, <3>2, <3>3
  <2>. QED
    BY <1>1, <1>2, <1>4, <2>2, <2>4 DEF MapInv, Mapping
<1>6. CASE Start
  <2>1. /\ m_state' = "Rd" /\ m_count' = 0 /\ pc = "start" /\ pc' = "poll"
        /\ raddr' = raddr /\ waddr' = waddr /\ m_size' = m_size
    BY <1>1, <1>6 DEF Start, Write, WriteMap, StartMap
  <2>2. raddr = MapSrc /\ waddr = MapDst /\ m_size = MapSize
    BY <2>1 DEF MapInv, Mapping
  <2>3. Done(0)'
    BY <1>1, <1>2, <1>3 DEF Done
  <2>4. Loop'
    BY <1>2, <1>3, <2>1, <2>2, <2>3 DEF Loop
  <2>. QED
    BY <1>1, <1>4, <2>1, <2>4 DEF MapInv, Mapping
<1>. QED
  BY <1>5, <1>6

\* A step of amap_cc.
LEMMA MapStepInv ==
  ASSUME Rest, MapInv, MapStep
  PROVE  MapInv'
<1>1. m_state # "Idle" /\ pc = "poll" /\ call.f = "amap" /\ Mapping
  BY DEF MapStep, Rd, MapWaitRd, WaitWr, Rest, Mapping
<1>2. UNCHANGED <<call, before, pc, k>>
  BY DEF MapStep, cpu
<1>3. MapSrc' = MapSrc /\ MapDst' = MapDst /\ MapSize' = MapSize
  BY <1>2, SameCall
<1>4. /\ MapSrc \in Nat /\ MapDst \in Nat /\ MapSize \in Nat
      /\ MapDst .. MapDst + MapSize \subseteq DOMAIN mem
      /\ MapSrc .. MapSrc + MapSize \subseteq DOMAIN mem
      /\ MapSrc = MapDst \/ \A i \in MapSrc .. MapSrc + MapSize - 1 :
                             i \notin MapDst .. MapDst + MapSize
  BY <1>1, MapFacts DEF MapInv
<1>5. Loop
  BY <1>1 DEF MapInv
<1>6. CASE Rd
  <2>1. mem' = mem
    BY <1>6 DEF Rd
  <2>2. WritesOnlyDestination'
    BY <1>2, <1>3, <2>1 DEF WritesOnlyDestination, MapInv
  <2>3. \A n : Done(n)' = Done(n)
    BY <1>2, <1>3, <2>1 DEF Done, nios_arr_map
  <2>4. CASE m_count <= m_size
    BY <1>1, <1>2, <1>3, <1>5, <1>6, <2>1, <2>2, <2>3, <2>4 DEF Rd, MapInv, Loop, Mapping
  <2>5. CASE ~ (m_count <= m_size)
    <3>1. m_count = MapSize + 1
      BY <1>4, <1>5, <2>5 DEF Loop
    <3>2. MapsArrayNow'
      BY <1>2, <1>3, <1>4, <1>5, <2>1, <3>1 DEF Loop, Done, MapsArrayNow, nios_arr_map
    <3>. QED
      BY <1>1, <1>2, <1>6, <2>1, <2>2, <2>5, <3>2 DEF Rd, MapInv, Mapping
  <2>. QED
    BY <2>4, <2>5
<1>7. CASE MapWaitRd
  <2>1. /\ mem' = mem /\ m_state = "WaitRd" /\ m_state' = "WaitWr"
        /\ UNCHANGED <<m_rdy, raddr, waddr, m_size, m_count>>
        /\ writedata' = Encode(MapFun(Int_val(mem[raddr])))
    BY <1>7 DEF MapWaitRd
  <2>2. WritesOnlyDestination'
    BY <1>2, <1>3, <2>1 DEF WritesOnlyDestination, MapInv
  <2>3. \A n : Done(n)' = Done(n)
    BY <1>2, <1>3, <2>1 DEF Done, nios_arr_map
  <2>4. m_count < MapSize => mem[raddr] = before[MapSrc + m_count]
    BY <1>4, <1>5 DEF Loop, Done
  <2>5. (m_count < MapSize => writedata = nios_arr_map(before, MapSrc, m_count))'
    BY <1>2, <1>3, <2>1, <2>4 DEF nios_arr_map
  <2>6. Loop'
    BY <1>3, <1>5, <2>1, <2>3, <2>5 DEF Loop
  <2>. QED
    BY <1>1, <1>2, <2>1, <2>2, <2>6 DEF MapInv, Mapping
<1>8. CASE WaitWr
  <2>1. /\ mem' = [mem EXCEPT ![waddr] = writedata] /\ m_state = "WaitWr" /\ m_state' = "Rd"
        /\ raddr' = raddr + 1 /\ waddr' = waddr + 1 /\ m_count' = m_count + 1
        /\ UNCHANGED <<m_rdy, m_size, writedata>>
    BY <1>8 DEF WaitWr
  <2>2. /\ m_count \in 0 .. MapSize /\ waddr = MapDst + m_count /\ raddr = MapSrc + m_count
        /\ m_size = MapSize
        /\ m_count < MapSize => writedata = nios_arr_map(before, MapSrc, m_count)
    BY <1>4, <1>5, <2>1 DEF Loop
  <2>3. /\ DOMAIN mem' = DOMAIN mem
        /\ \A a \in DOMAIN mem : mem'[a] = IF a = waddr THEN writedata ELSE mem[a]
    BY <2>1
  <2>4. WritesOnlyDestination'
    <3>1. waddr \in MapDst .. MapDst + MapSize
      BY <1>4, <2>2
    <3>2. DOMAIN before = DOMAIN mem /\ before' = before /\ call' = call /\ call.f = "amap"
      BY <1>1, <1>2 DEF MapInv
    <3>. QED
      BY <1>3, <2>3, <3>1, <3>2 DEF WritesOnlyDestination, MapInv
  <2>5. Done(m_count)'
    <3>1. ASSUME NEW i \in 0 .. MapSize - 1, i < m_count + 1
          PROVE  mem'[MapDst + i] = nios_arr_map(before, MapSrc, i)
      <4>1. MapDst + i \in DOMAIN mem
        BY <1>4, <3>1
      <4>2. CASE i = m_count
        BY <1>4, <2>2, <2>3, <4>1, <4>2
      <4>3. CASE i # m_count
        <5>1. i < m_count /\ MapDst + i # waddr
          BY <1>4, <2>2, <3>1, <4>3
        <5>. QED
          BY <1>5, <2>3, <4>1, <5>1 DEF Loop, Done
      <4>. QED
        BY <4>2, <4>3
    <3>2. ASSUME NEW i \in 0 .. MapSize - 1, i >= m_count + 1
          PROVE  mem'[MapSrc + i] = before[MapSrc + i]
      <4>1. MapSrc + i \in DOMAIN mem /\ i >= m_count
        BY <1>4, <2>2, <3>2
      <4>2. MapSrc + i # waddr
        <5>1. CASE MapSrc = MapDst
          BY <1>4, <2>2, <3>2, <5>1
        <5>2. CASE \A j \in MapSrc .. MapSrc + MapSize - 1 : j \notin MapDst .. MapDst + MapSize
          <6>1. MapSrc + i \in MapSrc .. MapSrc + MapSize - 1
            BY <1>4
          <6>2. waddr \in MapDst .. MapDst + MapSize
            BY <1>4, <2>2
          <6>. QED
            BY <5>2, <6>1, <6>2
        <5>. QED
          BY <1>4, <5>1, <5>2
      <4>3. mem[MapSrc + i] = before[MapSrc + i]
        BY <1>5, <4>1 DEF Loop, Done
      <4>. QED
        BY <2>3, <4>1, <4>2, <4>3
    <3>. QED
      BY <1>2, <1>3, <2>1, <3>1, <3>2 DEF Done, nios_arr_map
  <2>6. Loop'
    BY <1>3, <1>4, <2>1, <2>2, <2>5 DEF Loop
  <2>. QED
    BY <1>1, <1>2, <2>1, <2>3, <2>4, <2>6 DEF MapInv, Mapping
<1>. QED
  BY <1>6, <1>7, <1>8 DEF MapStep

LEMMA MapInvStep == Rest /\ MapInv /\ [Next]_vars => MapInv'
<1> SUFFICES ASSUME Rest, MapInv, [Next]_vars PROVE MapInv'
  OBVIOUS
<1>1. CASE ListStep \/ ReduceStep
  BY <1>1, MapFrame DEF ListStep, ReduceStep, cpu
<1>2. CASE MapStep
  BY <1>2, MapStepInv
<1>3. ASSUME NEW c \in Calls, Call(c) PROVE MapInv'
  <2>1. /\ call' = c /\ mem' = c.mem /\ before' = c.mem /\ pc' = "write" /\ k' = 1
        /\ UNCHANGED amap /\ m_state = "Idle" /\ m_state' = "Idle"
    BY <1>3 DEF Call, Rest, amap
  <2>. QED
    BY <2>1 DEF MapInv, Mapping, WritesOnlyDestination
<1>4. CASE WriteOperand \/ Start
  <2>1. CASE call.f = "amap"
    BY <1>4, <2>1, MapOperands
  <2>2. CASE call.f # "amap"
    BY <1>4, <2>2, MapFrame DEF WriteOperand, Start, Write
  <2>. QED
    BY <2>1, <2>2
<1>5. CASE Poll
  <2>1. pc = "poll" /\ UNCHANGED <<mem, call, before, amap, k>>
    BY <1>5 DEF Poll
  <2>2. CASE Rdy = 0
    BY <1>5, <2>1, <2>2, MapFrame DEF Poll
  <2>3. CASE Rdy # 0
    <3>1. pc' = "result"
      BY <1>5, <2>3 DEF Poll
    <3>2. m_state = "Idle"
      BY <2>3, ConstantsAssumption DEF Rest, Rdy
    <3>. QED
      BY <2>1, <3>1, <3>2, MapFrame
  <2>. QED
    BY <2>2, <2>3
<1>6. CASE GetResult
  BY <1>6, MapFrame DEF GetResult
<1>7. CASE Return
  BY <1>7, MapFrame DEF Return
<1>8. CASE UNCHANGED vars
  BY <1>8, MapFrame DEF vars, cpu
<1>. QED
  BY <1>1, <1>2, <1>3, <1>4, <1>5, <1>6, <1>7, <1>8 DEF Next

LEMMA MapInvariant == Spec => []MapInv
<1>1. Init => MapInv
  BY DEF Init, MapInv, Mapping, WritesOnlyDestination
<1>. QED
  BY <1>1, MapInvStep, RestInvariant, PTL DEF Spec

\* Theorem: when nios_arr_map_cc returns, the destination holds what nios_arr_map
\* would have put there, whatever the sizes and the contents, in place or not.
THEOREM MapCorrect == Spec => []MapsArray
<1>1. MapInv => MapsArray
  BY DEF MapInv, Mapping, MapsArray, MapsArrayNow, Returning
<1>. QED
  BY <1>1, MapInvariant, PTL

\* Theorem: no call ever changes a word outside its destination and the word after.
THEOREM WritesCorrect == Spec => []WritesOnlyDestination
<1>1. MapInv => WritesOnlyDestination
  BY DEF MapInv
<1>. QED
  BY <1>1, MapInvariant, PTL

-----------------------------------------------------------------------------
(* Integers of a limited width.                                            *)

LEMMA DivMod ==
  ASSUME NEW x \in Int, NEW n \in Nat \ {0}
  PROVE  x \div n \in Int /\ x % n \in 0 .. n - 1 /\ x = n * (x \div n) + (x % n)
<1>1. x = n * (x \div n) + (x % n)
  OBVIOUS
<1>2. x % n \in 0 .. n - 1
  OBVIOUS
<1>. QED
  BY <1>1, <1>2

LEMMA RemaindersEqual ==
  ASSUME NEW n \in Nat \ {0}, NEW r \in 0 .. n - 1, NEW s \in 0 .. n - 1, NEW t \in Int,
         r - s = n * t
  PROVE  r = s
<1>1. CASE t >= 1
  <2>1. n * t >= n
    BY <1>1
  <2>. QED
    BY <2>1
<1>2. CASE t <= -1
  <2>1. n * t <= -n
    BY <1>2
  <2>. QED
    BY <2>1
<1>3. CASE t = 0
  BY <1>3
<1>. QED
  BY <1>1, <1>2, <1>3

\* Wrapping takes away a multiple of the range,
LEMMA WrapMultiple ==
  ASSUME NEW x \in Int, NEW n \in Nat \ {0}
  PROVE  Wrap(x, n) \in Int /\ \E q \in Int : x - Wrap(x, n) = n * q
<1>. DEFINE h == n \div 2
<1>1. h \in Int
  OBVIOUS
<1>. HIDE DEF h
<1>2. /\ (x + h) \div n \in Int /\ (x + h) % n \in Int
      /\ x + h = n * ((x + h) \div n) + ((x + h) % n)
  BY <1>1, DivMod
<1>3. Wrap(x, n) = ((x + h) % n) - h
  BY DEF Wrap, h
<1>. QED
  BY <1>1, <1>2, <1>3

\* and two integers that differ by a multiple of it become the same.
LEMMA WrapSame ==
  ASSUME NEW a \in Int, NEW b \in Int, NEW n \in Nat \ {0}, NEW q \in Int, a - b = n * q
  PROVE  Wrap(a, n) = Wrap(b, n)
<1>. DEFINE h == n \div 2
            x == a + h
            y == b + h
<1>1. h \in Int /\ x \in Int /\ y \in Int /\ x - y = n * q
  OBVIOUS
<1>2. Wrap(a, n) = (x % n) - h /\ Wrap(b, n) = (y % n) - h
  BY DEF Wrap
<1>. HIDE DEF h, x, y
<1>3. /\ x \div n \in Int /\ x % n \in 0 .. n - 1 /\ x = n * (x \div n) + (x % n)
      /\ y \div n \in Int /\ y % n \in 0 .. n - 1 /\ y = n * (y \div n) + (y % n)
  BY <1>1, DivMod
<1>4. PICK u \in Int, r \in 0 .. n - 1 : r = x % n /\ x = n * u + r
  BY <1>3
<1>5. PICK w \in Int, s \in 0 .. n - 1 : s = y % n /\ y = n * w + s
  BY <1>3
<1>6. r - s = n * (q - u + w)
  <2>1. n * (q - u + w) = n * q - n * u + n * w
    OBVIOUS
  <2>2. x = n * u + r /\ y = n * w + s /\ x - y = n * q
    BY <1>1, <1>4, <1>5
  <2>. QED
    BY <2>1, <2>2
<1>7. r = s
  BY <1>6, RemaindersEqual, q - u + w \in Int
<1>. QED
  BY <1>2, <1>4, <1>5, <1>7

\* The component's accumulator, as wide as an OCaml integer, and that of the C
\* function, twice as wide, stay equal as OCaml integers.
Same(a, b) == a \in Int /\ b \in Int /\ \E q \in Int : a - b = IntRange * q

LEMMA SameSum ==
  ASSUME NEW a, NEW b, Same(a, b), NEW d \in Int
  PROVE  Same(Wrap(ReduceFun(a, d), IntRange), Int32(ReduceFun(b, d)))
<1>. DEFINE x == Wrap(a + d, IntRange)
            y == Wrap(b + d, 2 * IntRange)
<1>1. IntRange \in Nat \ {0} /\ 2 * IntRange \in Nat \ {0} /\ a \in Int /\ b \in Int
  BY ConstantsAssumption DEF Same
<1>2. PICK q \in Int : a - b = IntRange * q
  BY DEF Same
<1>3. x \in Int /\ \E r \in Int : (a + d) - x = IntRange * r
  BY <1>1, WrapMultiple, a + d \in Int
<1>4. y \in Int /\ \E r \in Int : (b + d) - y = (2 * IntRange) * r
  BY <1>1, WrapMultiple, b + d \in Int
<1>. HIDE DEF x, y
<1>5. PICK r \in Int : (a + d) - x = IntRange * r
  BY <1>3
<1>6. PICK t \in Int : (b + d) - y = (2 * IntRange) * t
  BY <1>4
<1>7. x - y = IntRange * (q - r + 2 * t)
  BY <1>1, <1>2, <1>3, <1>4, <1>5, <1>6
<1>8. Same(x, y)
  BY <1>3, <1>4, <1>7 DEF Same
<1>. QED
  BY <1>8 DEF x, y, ReduceFun, Int32

LEMMA SameEncoded ==
  ASSUME NEW a, NEW b, Same(a, b)
  PROVE  Encode(a) = Encode(b)
BY ConstantsAssumption, WrapSame DEF Same, Encode

-----------------------------------------------------------------------------
(* The loops of the C functions.  That the functions that define them      *)
(* satisfy their equations is proved by induction on the number of turns,  *)
(* the induction by way of a least counterexample.                         *)

LEMMA Induction ==
  ASSUME NEW S \in SUBSET Nat, 0 \in S, \A n \in S : n + 1 \in S
  PROVE  S = Nat
<1> DEFINE Below == {ss \in Nat \X Nat : ss[1] < ss[2]}
           T == Nat \ S
<1>1. IsWellFoundedOn(Below, Nat)
  BY NatLessThanWellFounded DEF OpToRel
<1>2. \A x, y \in Nat : x < y => <<x, y>> \in Below
  OBVIOUS
<1> HIDE DEF Below
<1>3. SUFFICES ASSUME T # {} PROVE FALSE
  OBVIOUS
<1>4. PICK x \in T : \A y \in T : ~ (<<y, x>> \in Below)
  BY <1>1, <1>3, WFMin
<1>5. x # 0 /\ x - 1 \in Nat /\ x - 1 < x
  BY <1>4
<1>6. x - 1 \in S
  BY <1>2, <1>4, <1>5
<1>. QED
  BY <1>4, <1>5, <1>6

LEMMA ArrLoop ==
  ASSUME NEW m, NEW src, NEW size \in Nat
  PROVE  /\ arr_loop(m, src, size)[0] = 0
         /\ \A i \in 0 .. size - 1 :
              arr_loop(m, src, size)[i + 1] =
                Int32(ReduceFun(arr_loop(m, src, size)[i], Int_val(m[src + i])))
<1>. DEFINE F(f, i) == IF i = 0 THEN 0 ELSE Int32(ReduceFun(f[i - 1], Int_val(m[src + i - 1])))
            S == {n \in Nat : \E f : f = [i \in 0 .. n |-> F(f, i)]}
<1>1. 0 \in S
  <2>1. [i \in 0 .. 0 |-> 0] = [i \in 0 .. 0 |-> F([j \in 0 .. 0 |-> 0], i)]
    OBVIOUS
  <2>. QED
    BY <2>1
<1>2. ASSUME NEW n \in S PROVE n + 1 \in S
  <2>1. PICK f : f = [i \in 0 .. n |-> F(f, i)]
    OBVIOUS
  <2>. DEFINE g == [i \in 0 .. n + 1 |-> IF i = n + 1 THEN F(f, n + 1) ELSE f[i]]
  <2>2. \A i \in 0 .. n : g[i] = f[i]
    OBVIOUS
  <2>3. \A i \in 0 .. n + 1 : i # 0 => i - 1 \in 0 .. n
    OBVIOUS
  <2>4. \A i \in 0 .. n + 1 : F(g, i) = F(f, i)
    BY <2>2, <2>3
  <2>5. \A i \in 0 .. n + 1 : g[i] = F(g, i)
    BY <2>1, <2>4
  <2>6. g = [i \in 0 .. n + 1 |-> F(g, i)]
    BY <2>5
  <2>. HIDE DEF g, F
  <2>7. \E h : h = [i \in 0 .. n + 1 |-> F(h, i)]
    BY <2>6
  <2>. QED
    BY <2>7
<1>3. S = Nat
  BY <1>1, <1>2, Induction
<1>4. \E f : f = [i \in 0 .. size |-> F(f, i)]
  BY <1>3
<1>. DEFINE acc == arr_loop(m, src, size)
<1>5. acc = [i \in 0 .. size |-> F(acc, i)]
  BY <1>4 DEF arr_loop
<1>. HIDE DEF acc
<1>6. \A i \in 0 .. size : acc[i] = F(acc, i)
  BY <1>5
<1>7. acc[0] = 0
  BY <1>6
<1>8. ASSUME NEW i \in 0 .. size - 1
      PROVE  acc[i + 1] = Int32(ReduceFun(acc[i], Int_val(m[src + i])))
  <2>1. i + 1 \in 0 .. size /\ i + 1 # 0 /\ (i + 1) - 1 = i /\ i \in 0 .. size
    OBVIOUS
  <2>. QED
    BY <1>6, <2>1
<1>. QED
  BY <1>7, <1>8 DEF acc

\* What a turn of nios_list_reduce's loop does to its variables.
Turn(m, t) ==
  IF ~ Is_block(t.v) THEN t
  ELSE [acc |-> Int32(ReduceFun(t.acc, Int_val(m[BLOCK_ADDR(t.v)]))),
        cnt |-> t.cnt + 1,
        v   |-> m[BLOCK_ADDR(t.v) + 1]]

First(w) == [acc |-> 0, cnt |-> 0, v |-> w]

LEMMA ListLoop ==
  ASSUME NEW m, NEW w, ListTurns(m) \in Nat
  PROVE  /\ list_loop(m, w)[0] = First(w)
         /\ \A i \in 0 .. ListTurns(m) - 1 :
              list_loop(m, w)[i + 1] = Turn(m, list_loop(m, w)[i])
<1>. DEFINE first == First(w)
            F(f, i) == IF i = 0 THEN first ELSE Turn(m, f[i - 1])
            S == {n \in Nat : \E f : f = [i \in 0 .. n |-> F(f, i)]}
<1>1. 0 \in S
  <2>1. [i \in 0 .. 0 |-> first] = [i \in 0 .. 0 |-> F([j \in 0 .. 0 |-> first], i)]
    OBVIOUS
  <2>. QED
    BY <2>1
<1>2. ASSUME NEW n \in S PROVE n + 1 \in S
  <2>1. PICK f : f = [i \in 0 .. n |-> F(f, i)]
    OBVIOUS
  <2>. DEFINE g == [i \in 0 .. n + 1 |-> IF i = n + 1 THEN F(f, n + 1) ELSE f[i]]
  <2>2. \A i \in 0 .. n : g[i] = f[i]
    OBVIOUS
  <2>3. \A i \in 0 .. n + 1 : i # 0 => i - 1 \in 0 .. n
    OBVIOUS
  <2>4. \A i \in 0 .. n + 1 : F(g, i) = F(f, i)
    BY <2>2, <2>3
  <2>5. \A i \in 0 .. n + 1 : g[i] = F(g, i)
    BY <2>1, <2>4
  <2>6. g = [i \in 0 .. n + 1 |-> F(g, i)]
    BY <2>5
  <2>. HIDE DEF g, F
  <2>7. \E h : h = [i \in 0 .. n + 1 |-> F(h, i)]
    BY <2>6
  <2>. QED
    BY <2>7
<1>3. S = Nat
  BY <1>1, <1>2, Induction
<1>4. \E f : f = [i \in 0 .. ListTurns(m) |-> F(f, i)]
  BY <1>3
<1>. DEFINE turn == list_loop(m, w)
<1>5. turn = [i \in 0 .. ListTurns(m) |-> F(turn, i)]
  BY <1>4 DEF list_loop, Turn, First
<1>. HIDE DEF turn
<1>6. \A i \in 0 .. ListTurns(m) : turn[i] = F(turn, i)
  BY <1>5
<1>7. turn[0] = first
  BY <1>6
<1>8. ASSUME NEW i \in 0 .. ListTurns(m) - 1 PROVE turn[i + 1] = Turn(m, turn[i])
  <2>1. i + 1 \in 0 .. ListTurns(m) /\ i + 1 # 0 /\ (i + 1) - 1 = i
    OBVIOUS
  <2>. QED
    BY <1>6, <2>1
<1>. QED
  BY <1>7, <1>8 DEF turn

\* Turns after the last cell change nothing.
LEMMA ListEnd ==
  ASSUME NEW m, NEW w, ListTurns(m) \in Nat, NEW i \in 0 .. ListTurns(m),
         ~ Is_block(list_loop(m, w)[i].v)
  PROVE  nios_list_reduce(m, w) = list_loop(m, w)[i]
<1>. DEFINE turn == list_loop(m, w)
            S == {n \in Nat : i + n <= ListTurns(m) => turn[i + n] = turn[i]}
<1>1. \A j \in 0 .. ListTurns(m) - 1 : turn[j + 1] = Turn(m, turn[j])
  BY ListLoop
<1>. HIDE DEF turn
<1>2. 0 \in S
  OBVIOUS
<1>3. ASSUME NEW n \in S PROVE n + 1 \in S
  <2>1. SUFFICES ASSUME i + (n + 1) <= ListTurns(m) PROVE turn[i + (n + 1)] = turn[i]
    OBVIOUS
  <2>2. i + n \in 0 .. ListTurns(m) - 1 /\ i + (n + 1) = (i + n) + 1
    BY <2>1
  <2>3. turn[i + n] = turn[i]
    BY <2>2
  <2>4. turn[i + (n + 1)] = Turn(m, turn[i])
    BY <1>1, <2>2, <2>3
  <2>. QED
    BY <2>4 DEF Turn, turn
<1>4. S = Nat
  BY <1>2, <1>3, Induction
<1>5. ListTurns(m) - i \in S
  BY <1>4
<1>6. turn[ListTurns(m)] = turn[i]
  BY <1>5
<1>. QED
  BY <1>6 DEF nios_list_reduce, turn

-----------------------------------------------------------------------------
(* ared_cc.                                                                *)

Reducing == pc # "idle" /\ call.f = "ared"

ReducedTo(n) == Same(r_acc, arr_loop(before, MapSrc, MapSize)[n])

\* The results the processor has read are those of the component.
Read == ret \in Seq({r_acc}) /\ Len(ret) \in 0 .. 1 /\ (Len(ret) = 1 => ret[1] = r_acc)

ReduceLoop ==
  /\ r_size = MapSize /\ r_count \in 0 .. MapSize /\ address = MapSrc + r_count
  /\ r_state = "WaitRd" => r_count < MapSize
  /\ ReducedTo(r_count)

ReduceInv ==
  /\ r_state \in {"Idle", "SeqRd", "WaitRd"}
  /\ (Reducing /\ pc = "write") => k \in 1 .. 2 /\ (k > 1 => address = MapSrc)
  /\ (Reducing /\ pc = "start") => address = MapSrc /\ r_size = MapSize
  /\ (Reducing /\ pc = "poll" /\ r_state # "Idle") => ReduceLoop
  /\ (Reducing /\ pc = "poll" /\ r_state = "Idle") => ReducedTo(MapSize)
  /\ (Reducing /\ pc = "result") => ReducedTo(MapSize) /\ Read
  /\ (Reducing /\ pc # "result") => ret = <<>>

LEMMA ReduceFacts ==
  ASSUME MapInv, call.f = "ared"
  PROVE  /\ MapSrc \in Nat /\ MapSize \in Nat
         /\ MapSrc .. MapSrc + MapSize - 1 \subseteq DOMAIN before
         /\ \A a \in DOMAIN before : mem[a] = before[a] /\ before[a] \in Word
<1>1. call \in Calls /\ before = call.mem /\ WritesOnlyDestination
  BY DEF MapInv
<1>2. /\ MapSrc \in Nat /\ MapSize \in Nat
      /\ MapSrc .. MapSrc + MapSize - 1 \subseteq DOMAIN before
      /\ \A a \in DOMAIN before : before[a] \in Word
  BY <1>1, CallsAssumption DEF MapSrc, MapSize
<1>3. \A a \in DOMAIN before : mem[a] = before[a]
  BY <1>1 DEF WritesOnlyDestination
<1>. QED
  BY <1>2, <1>3

LEMMA IntValues == ASSUME NEW w \in Word PROVE Int_val(w) \in Int
BY DEF Word, Int_val

LEMMA ReduceFrame ==
  ASSUME ReduceInv, UNCHANGED <<call, before, ared>>,
         \/ UNCHANGED <<pc, k, ret>>
         \/ call.f # "ared"
         \/ pc = "poll" /\ r_state = "Idle" /\ pc' = "result" /\ UNCHANGED ret
         \/ pc' = "idle"
  PROVE  ReduceInv'
<1>1. /\ MapSrc' = MapSrc /\ MapSize' = MapSize /\ before' = before /\ call' = call
      /\ r_state' = r_state /\ r_size' = r_size /\ r_count' = r_count
      /\ address' = address /\ r_acc' = r_acc
  BY SameCall DEF ared
<1>2. ReduceLoop' = ReduceLoop /\ ReducedTo(MapSize)' = ReducedTo(MapSize)
  BY <1>1 DEF ReduceLoop, ReducedTo
<1>3. ret' = ret => Read' = Read
  BY <1>1 DEF Read
<1>4. ret = <<>> => Read
  BY DEF Read
<1>. QED
  BY <1>1, <1>2, <1>3, <1>4 DEF ReduceInv, Reducing

\* The processor gives ared_cc its operands and starts it.
LEMMA ReduceOperands ==
  ASSUME Rest, MapInv, ReduceInv, call.f = "ared", WriteOperand \/ Start
  PROVE  ReduceInv'
<1>1. pc \in {"write", "start"} /\ r_state = "Idle" /\ UNCHANGED <<call, ret, before>> /\ ret = <<>>
  BY DEF WriteOperand, Start, Rest, Write, ReduceInv, Reducing
<1>2. MapSrc' = MapSrc /\ MapSize' = MapSize
  BY <1>1, SameCall
<1>3. MapSrc \in Nat /\ MapSize \in Nat
  BY ReduceFacts
<1>4. CASE WriteOperand
  <2>1. Operands = <<MapSrc, MapSize>>
    BY <1>4 DEF Operands, MapSrc, MapSize
  <2>2. k \in 1 .. 2 /\ pc = "write" /\ (k > 1 => address = MapSrc)
    BY <1>4 DEF ReduceInv, Reducing, WriteOperand
  <2>3. WriteReduce(k, Operands[k]) /\ k' = k + 1 /\ pc' = IF k = 2 THEN "start" ELSE "write"
    BY <1>1, <1>4, <2>1, <2>2 DEF WriteOperand, Write
  <2>4. /\ r_state' = "Idle"
        /\ address' = IF k = 1 THEN MapSrc ELSE address
        /\ r_size'  = IF k = 2 THEN MapSize ELSE r_size
    <3>1. CASE k = 1
      BY <3>1, <1>1, <2>1, <2>3 DEF WriteReduce
    <3>2. CASE k = 2
      BY <3>2, <1>1, <2>1, <2>3 DEF WriteReduce
    <3>. QED
      BY <2>2, <3>1, <3>2
  <2>. QED
    BY <1>1, <1>2, <2>2, <2>3, <2>4 DEF ReduceInv, Reducing
<1>5. CASE Start
  <2>1. /\ r_state' = "SeqRd" /\ r_count' = 0 /\ r_acc' = 0 /\ pc = "start" /\ pc' = "poll"
        /\ address' = address /\ r_size' = r_size
    BY <1>1, <1>5 DEF Start, Write, WriteReduce, StartReduce
  <2>2. address = MapSrc /\ r_size = MapSize
    BY <2>1 DEF ReduceInv, Reducing
  <2>3. ReducedTo(0)'
    <3>1. arr_loop(before, MapSrc, MapSize)[0] = 0
      BY <1>3, ArrLoop
    <3>2. Same(0, 0)
      <4>1. 0 - 0 = IntRange * 0
        BY ConstantsAssumption
      <4>. QED
        BY <4>1 DEF Same
    <3>. QED
      BY <1>1, <1>2, <2>1, <3>1, <3>2 DEF ReducedTo
  <2>4. ReduceLoop'
    BY <1>2, <1>3, <2>1, <2>2, <2>3 DEF ReduceLoop
  <2>. QED
    BY <1>1, <2>1, <2>4 DEF ReduceInv, Reducing
<1>. QED
  BY <1>4, <1>5

\* A step of ared_cc.
LEMMA ReduceStepInv ==
  ASSUME Rest, MapInv, ReduceInv, ReduceStep
  PROVE  ReduceInv'
<1>1. r_state # "Idle" /\ pc = "poll" /\ call.f = "ared" /\ Reducing
  BY DEF ReduceStep, SeqRd, ReduceWaitRd, Rest, Reducing
<1>2. UNCHANGED <<mem, call, before, pc, k, ret>>
  BY DEF ReduceStep, cpu
<1>3. MapSrc' = MapSrc /\ MapSize' = MapSize
  BY <1>2, SameCall
<1>4. /\ MapSrc \in Nat /\ MapSize \in Nat
      /\ MapSrc .. MapSrc + MapSize - 1 \subseteq DOMAIN before
      /\ \A a \in DOMAIN before : mem[a] = before[a] /\ before[a] \in Word
  BY <1>1, ReduceFacts
<1>5. ReduceLoop /\ ret = <<>>
  BY <1>1 DEF ReduceInv
<1>6. CASE SeqRd
  <2>1. \A n : ReducedTo(n)' = ReducedTo(n)
    BY <1>2, <1>3, <1>6 DEF ReducedTo, SeqRd
  <2>2. CASE r_count < r_size
    <3>1. ReduceLoop' /\ r_state' = "WaitRd"
      BY <1>3, <1>5, <1>6, <2>1, <2>2 DEF SeqRd, ReduceLoop
    <3>. QED
      BY <1>1, <1>2, <1>5, <3>1 DEF ReduceInv, Reducing
  <2>3. CASE ~ (r_count < r_size)
    <3>1. r_count = MapSize /\ r_state' = "Idle"
      BY <1>4, <1>5, <1>6, <2>3 DEF ReduceLoop, SeqRd
    <3>2. ReducedTo(MapSize)'
      BY <1>3, <1>5, <2>1, <3>1 DEF ReduceLoop
    <3>. QED
      BY <1>1, <1>2, <1>5, <3>1, <3>2 DEF ReduceInv, Reducing
  <2>. QED
    BY <2>2, <2>3
<1>7. CASE ReduceWaitRd
  <2>1. /\ r_count \in 0 .. MapSize - 1 /\ r_size = MapSize /\ address = MapSrc + r_count
        /\ r_state' = "SeqRd" /\ r_size' = r_size
        /\ address' = address + 1 /\ r_count' = r_count + 1
        /\ r_acc' = Wrap(ReduceFun(r_acc, Int_val(mem[address])), IntRange)
    BY <1>4, <1>5, <1>7 DEF ReduceWaitRd, ReduceLoop
  <2>2. mem[address] = before[MapSrc + r_count] /\ Int_val(mem[address]) \in Int
    <3>1. MapSrc + r_count \in DOMAIN before
      BY <1>4, <2>1
    <3>. QED
      BY <1>4, <2>1, <3>1, IntValues
  <2>3. ReducedTo(r_count)
    BY <1>5 DEF ReduceLoop
  <2>4. arr_loop(before, MapSrc, MapSize)[r_count + 1] =
          Int32(ReduceFun(arr_loop(before, MapSrc, MapSize)[r_count], Int_val(mem[address])))
    BY <1>4, <2>1, <2>2, ArrLoop
  <2>5. Same(r_acc', arr_loop(before, MapSrc, MapSize)[r_count + 1])
    BY <2>1, <2>2, <2>3, <2>4, SameSum DEF ReducedTo
  <2>6. ReducedTo(r_count)'
    BY <1>2, <1>3, <2>1, <2>5 DEF ReducedTo
  <2>7. ReduceLoop'
    BY <1>3, <1>4, <2>1, <2>6 DEF ReduceLoop
  <2>. QED
    BY <1>1, <1>2, <1>5, <2>1, <2>7 DEF ReduceInv, Reducing
<1>. QED
  BY <1>6, <1>7 DEF ReduceStep

LEMMA ReduceInvStep == Rest /\ MapInv /\ ReduceInv /\ [Next]_vars => ReduceInv'
<1> SUFFICES ASSUME Rest, MapInv, ReduceInv, [Next]_vars PROVE ReduceInv'
  OBVIOUS
<1>1. CASE ListStep \/ MapStep
  BY <1>1, ReduceFrame DEF ListStep, MapStep, cpu
<1>2. CASE ReduceStep
  BY <1>2, ReduceStepInv
<1>3. ASSUME NEW c \in Calls, Call(c) PROVE ReduceInv'
  <2>1. pc' = "write" /\ k' = 1 /\ ret' = <<>> /\ UNCHANGED ared
    BY <1>3 DEF Call
  <2>. QED
    BY <2>1 DEF ReduceInv, Reducing, ared
<1>4. CASE WriteOperand \/ Start
  <2>1. CASE call.f = "ared"
    BY <1>4, <2>1, ReduceOperands
  <2>2. CASE call.f # "ared"
    BY <1>4, <2>2, ReduceFrame DEF WriteOperand, Start, Write
  <2>. QED
    BY <2>1, <2>2
<1>5. CASE Poll
  <2>1. pc = "poll" /\ UNCHANGED <<call, before, ared, k, ret>>
    BY <1>5 DEF Poll
  <2>2. CASE Rdy = 0
    BY <1>5, <2>1, <2>2, ReduceFrame DEF Poll
  <2>3. CASE Rdy # 0
    <3>1. pc' = "result"
      BY <1>5, <2>3 DEF Poll
    <3>2. r_state = "Idle"
      BY <2>3 DEF Rest, Rdy
    <3>. QED
      BY <2>1, <3>1, <3>2, ReduceFrame
  <2>. QED
    BY <2>2, <2>3
<1>6. CASE GetResult
  <2>1. CASE call.f # "ared"
    BY <1>6, <2>1, ReduceFrame DEF GetResult
  <2>2. CASE call.f = "ared"
    <3>1. pc = "result" /\ pc' = "result" /\ UNCHANGED <<call, before, ared, r_acc, r_state>>
      BY <1>6 DEF GetResult, ared
    <3>2. Results = <<r_acc>> /\ Len(ret) < 1 /\ ret' = Append(ret, Results[Len(ret) + 1])
      BY <1>6, <2>2 DEF GetResult, Results
    <3>3. Len(ret) = 0 /\ ret = <<>> /\ ReducedTo(MapSize) /\ ReducedTo(MapSize)' = ReducedTo(MapSize)
      BY <2>2, <3>1, <3>2, SameCall DEF ReduceInv, Reducing, Read, ReducedTo
    <3>4. ret' = <<r_acc>>
      BY <3>2, <3>3
    <3>. QED
      BY <2>2, <3>1, <3>3, <3>4, SameCall DEF ReduceInv, Reducing, Read
  <2>. QED
    BY <2>1, <2>2
<1>7. CASE Return
  BY <1>7, ReduceFrame DEF Return
<1>8. CASE UNCHANGED vars
  BY <1>8, ReduceFrame DEF vars, cpu
<1>. QED
  BY <1>1, <1>2, <1>3, <1>4, <1>5, <1>6, <1>7, <1>8 DEF Next

LEMMA ReduceInvariant == Spec => []ReduceInv
<1>1. Init => ReduceInv
  BY DEF Init, ReduceInv, Reducing
<1>. QED
  BY <1>1, ReduceInvStep, MapInvariant, RestInvariant, PTL DEF Spec

-----------------------------------------------------------------------------
(* lred_cc.                                                                *)

Summing == pc # "idle" /\ call.f = "lred"

Turns     == ListTurns(before)
AfterTurn == list_loop(before, call.src)

\* The accumulators are those of the C function after n turns.
SummedTo(n) == Same(l_acc, AfterTurn[n].acc) /\ l_count = AfterTurn[n].cnt

ReadBoth ==
  /\ ret \in Seq({l_acc, l_count}) /\ Len(ret) \in 0 .. 2
  /\ Len(ret) > 0 => ret[1] = l_acc
  /\ Len(ret) > 1 => ret[2] = l_count

\* l_count turns are over, the last of them but for its tail in GetTail.
ListLoopNow ==
  /\ caml_heap_base = HeapBase /\ l_count \in 0 .. Turns /\ SummedTo(l_count)
  /\ l_state \in {"DecodeValue", "GetHead"} => v = AfterTurn[l_count].v
  /\ l_state = "GetTail" => l_count > 0 /\ v = AfterTurn[l_count - 1].v
  /\ l_state \in {"GetHead", "GetTail"} => Is_block(v) /\ blk_addr = BLOCK_ADDR(v)

Summed == SummedTo(Turns)

ListInv ==
  /\ l_state \in {"Idle", "DecodeValue", "GetHead", "GetTail"}
  /\ (Summing /\ pc = "write") => k \in 1 .. 2 /\ (k > 1 => caml_heap_base = HeapBase)
  /\ (Summing /\ pc = "start") => caml_heap_base = HeapBase /\ v = call.src
  /\ (Summing /\ pc = "poll" /\ l_state # "Idle") => ListLoopNow
  /\ (Summing /\ pc = "poll" /\ l_state = "Idle") => Summed
  /\ (Summing /\ pc = "result") => Summed /\ ReadBoth
  /\ (Summing /\ pc # "result") => ret = <<>>

LEMMA ListFacts ==
  ASSUME MapInv, call.f = "lred"
  PROVE  /\ Turns \in Nat
         /\ AfterTurn[0] = First(call.src)
         /\ \A i \in 0 .. Turns - 1 : AfterTurn[i + 1] = Turn(before, AfterTurn[i])
         /\ \A i \in 0 .. Turns :
              /\ ~ Is_block(AfterTurn[i].v) => AfterTurn[Turns] = AfterTurn[i]
              /\ Is_block(AfterTurn[i].v) =>
                   /\ i < Turns
                   /\ BLOCK_ADDR(AfterTurn[i].v) \in DOMAIN before
                   /\ BLOCK_ADDR(AfterTurn[i].v) + 1 \in DOMAIN before
         /\ \A a \in DOMAIN before : mem[a] = before[a] /\ before[a] \in Word
<1>1. call \in Calls /\ before = call.mem /\ WritesOnlyDestination
  BY DEF MapInv
<1>2. /\ IsFiniteSet(DOMAIN before) /\ \A a \in DOMAIN before : before[a] \in Word
      /\ \A i \in 0 .. Turns :
           Is_block(AfterTurn[i].v) =>
             /\ i < Turns
             /\ BLOCK_ADDR(AfterTurn[i].v) \in DOMAIN before
             /\ BLOCK_ADDR(AfterTurn[i].v) + 1 \in DOMAIN before
  BY <1>1, CallsAssumption DEF Turns, AfterTurn
<1>3. Turns \in Nat
  BY <1>2, FS_CardinalityType DEF Turns, ListTurns
<1>4. /\ AfterTurn[0] = First(call.src)
      /\ \A i \in 0 .. Turns - 1 : AfterTurn[i + 1] = Turn(before, AfterTurn[i])
  BY <1>3, ListLoop DEF Turns, AfterTurn
<1>5. \A i \in 0 .. Turns : ~ Is_block(AfterTurn[i].v) => AfterTurn[Turns] = AfterTurn[i]
  BY <1>3, ListEnd DEF Turns, AfterTurn, nios_list_reduce
<1>6. \A a \in DOMAIN before : mem[a] = before[a]
  BY <1>1 DEF WritesOnlyDestination
<1>. QED
  BY <1>2, <1>3, <1>4, <1>5, <1>6

LEMMA ListFrame ==
  ASSUME ListInv, UNCHANGED <<call, before, lred>>,
         \/ UNCHANGED <<pc, k, ret>>
         \/ call.f # "lred"
         \/ pc = "poll" /\ l_state = "Idle" /\ pc' = "result" /\ UNCHANGED ret
         \/ pc' = "idle"
  PROVE  ListInv'
<1>1. /\ Turns' = Turns /\ AfterTurn' = AfterTurn /\ before' = before /\ call' = call
      /\ l_state' = l_state /\ caml_heap_base' = caml_heap_base /\ v' = v
      /\ l_acc' = l_acc /\ l_count' = l_count /\ blk_addr' = blk_addr
  BY DEF lred, Turns, AfterTurn
<1>2. ListLoopNow' = ListLoopNow /\ Summed' = Summed
  BY <1>1 DEF ListLoopNow, Summed, SummedTo
<1>3. ret' = ret => ReadBoth' = ReadBoth
  BY <1>1 DEF ReadBoth
<1>4. ret = <<>> => ReadBoth
  BY DEF ReadBoth
<1>. QED
  BY <1>1, <1>2, <1>3, <1>4 DEF ListInv, Summing

\* The processor gives lred_cc its operands and starts it.
LEMMA ListOperands ==
  ASSUME Rest, MapInv, ListInv, call.f = "lred", WriteOperand \/ Start
  PROVE  ListInv'
<1>1. pc \in {"write", "start"} /\ l_state = "Idle" /\ UNCHANGED <<call, ret, before>> /\ ret = <<>>
  BY DEF WriteOperand, Start, Rest, Write, ListInv, Summing
<1>2. Turns' = Turns /\ AfterTurn' = AfterTurn
  BY <1>1 DEF Turns, AfterTurn
<1>3. Turns \in Nat /\ AfterTurn[0] = First(call.src)
  BY ListFacts
<1>4. CASE WriteOperand
  <2>1. Operands = <<HeapBase, call.src>>
    BY <1>4 DEF Operands
  <2>2. k \in 1 .. 2 /\ pc = "write" /\ (k > 1 => caml_heap_base = HeapBase)
    BY <1>4 DEF ListInv, Summing, WriteOperand
  <2>3. WriteList(k, Operands[k]) /\ k' = k + 1 /\ pc' = IF k = 2 THEN "start" ELSE "write"
    BY <1>1, <1>4, <2>1, <2>2 DEF WriteOperand, Write
  <2>4. /\ l_state' = "Idle"
        /\ caml_heap_base' = IF k = 1 THEN HeapBase ELSE caml_heap_base
        /\ v' = IF k = 2 THEN call.src ELSE v
    <3>1. CASE k = 1
      BY <3>1, <1>1, <2>1, <2>3 DEF WriteList
    <3>2. CASE k = 2
      BY <3>2, <1>1, <2>1, <2>3 DEF WriteList
    <3>. QED
      BY <2>2, <3>1, <3>2
  <2>. QED
    BY <1>1, <2>2, <2>3, <2>4 DEF ListInv, Summing
<1>5. CASE Start
  <2>1. /\ l_state' = "DecodeValue" /\ l_count' = 0 /\ l_acc' = 0 /\ pc = "start" /\ pc' = "poll"
        /\ caml_heap_base' = caml_heap_base /\ v' = v
    BY <1>1, <1>5 DEF Start, Write, WriteList, StartList
  <2>2. caml_heap_base = HeapBase /\ v = call.src
    BY <1>1, <2>1 DEF ListInv, Summing
  <2>3. AfterTurn[0].acc = 0 /\ AfterTurn[0].cnt = 0 /\ AfterTurn[0].v = call.src
    BY <1>3 DEF First
  <2>4. Same(0, 0)
    <3>1. 0 - 0 = IntRange * 0
      BY ConstantsAssumption
    <3>. QED
      BY <3>1 DEF Same
  <2>5. ListLoopNow'
    BY <1>2, <1>3, <2>1, <2>2, <2>3, <2>4 DEF ListLoopNow, SummedTo
  <2>. QED
    BY <1>1, <2>1, <2>5 DEF ListInv, Summing
<1>. QED
  BY <1>4, <1>5

\* A step of lred_cc.
LEMMA ListStepInv ==
  ASSUME Rest, MapInv, ListInv, ListStep
  PROVE  ListInv'
<1>1. l_state # "Idle" /\ pc = "poll" /\ call.f = "lred" /\ Summing
  BY DEF ListStep, DecodeValue, GetHead, GetTail, Rest, Summing
<1>2. UNCHANGED <<mem, call, before, pc, k, ret>>
  BY DEF ListStep, cpu
<1>3. Turns' = Turns /\ AfterTurn' = AfterTurn
  BY <1>2 DEF Turns, AfterTurn
<1>4. Turns \in Nat
  BY <1>1, ListFacts
<1>5. ListLoopNow /\ ret = <<>>
  BY <1>1 DEF ListInv
<1>6. CASE DecodeValue
  <2>1. /\ v = AfterTurn[l_count].v /\ l_count \in 0 .. Turns /\ caml_heap_base = HeapBase
        /\ UNCHANGED <<caml_heap_base, v, l_acc, l_count>>
    BY <1>5, <1>6 DEF ListLoopNow, DecodeValue
  <2>2. \A n : SummedTo(n)' = SummedTo(n)
    BY <1>3, <2>1 DEF SummedTo
  <2>3. CASE Is_block(v)
    <3>1. l_state' = "GetHead" /\ blk_addr' = BLOCK_ADDR(v)
      BY <1>6, <2>1, <2>3 DEF DecodeValue, BLOCK_ADDR
    <3>2. ListLoopNow'
      BY <1>3, <1>5, <2>1, <2>2, <2>3, <3>1 DEF ListLoopNow
    <3>. QED
      BY <1>1, <1>2, <1>5, <3>1, <3>2 DEF ListInv, Summing
  <2>4. CASE ~ Is_block(v)
    <3>1. l_state' = "Idle"
      BY <1>6, <2>4 DEF DecodeValue
    <3>2. AfterTurn[Turns] = AfterTurn[l_count]
      BY <1>1, <2>1, <2>4, ListFacts
    <3>3. Summed'
      BY <1>3, <1>5, <2>2, <3>2 DEF ListLoopNow, Summed, SummedTo
    <3>. QED
      BY <1>1, <1>2, <1>5, <3>1, <3>3 DEF ListInv, Summing
  <2>. QED
    BY <2>3, <2>4
<1>7. CASE GetHead
  <2>1. /\ v = AfterTurn[l_count].v /\ l_count \in 0 .. Turns
        /\ Is_block(v) /\ blk_addr = BLOCK_ADDR(v)
        /\ l_acc' = Wrap(l_acc + Int_val(mem[blk_addr]), IntRange)
        /\ l_count' = l_count + 1 /\ l_state' = "GetTail"
        /\ UNCHANGED <<caml_heap_base, v, blk_addr>>
    BY <1>5, <1>7 DEF ListLoopNow, GetHead
  <2>2. l_count < Turns /\ blk_addr \in DOMAIN before
    BY <1>1, <2>1, ListFacts
  <2>3. mem[blk_addr] = before[blk_addr] /\ Int_val(mem[blk_addr]) \in Int
    BY <1>1, <2>2, ListFacts, IntValues
  <2>4. AfterTurn[l_count + 1] = Turn(before, AfterTurn[l_count])
    BY <1>1, <2>1, <2>2, <1>4, ListFacts
  <2>5. /\ AfterTurn[l_count + 1].acc =
             Int32(ReduceFun(AfterTurn[l_count].acc, Int_val(mem[blk_addr])))
        /\ AfterTurn[l_count + 1].cnt = AfterTurn[l_count].cnt + 1
    BY <2>1, <2>3, <2>4 DEF Turn
  <2>6. Same(l_acc, AfterTurn[l_count].acc) /\ l_count = AfterTurn[l_count].cnt
    BY <1>5 DEF ListLoopNow, SummedTo
  <2>7. Same(l_acc', AfterTurn[l_count + 1].acc)
    BY <2>1, <2>3, <2>5, <2>6, SameSum DEF ReduceFun
  <2>8. SummedTo(l_count)'
    BY <1>3, <2>1, <2>5, <2>6, <2>7 DEF SummedTo
  <2>9. ListLoopNow'
    BY <1>3, <1>4, <1>5, <2>1, <2>2, <2>8 DEF ListLoopNow
  <2>. QED
    BY <1>1, <1>2, <1>5, <2>1, <2>9 DEF ListInv, Summing
<1>8. CASE GetTail
  <2>1. /\ v = AfterTurn[l_count - 1].v /\ l_count \in 1 .. Turns
        /\ Is_block(v) /\ blk_addr = BLOCK_ADDR(v)
        /\ v' = mem[blk_addr + 1] /\ l_state' = "DecodeValue"
        /\ UNCHANGED <<caml_heap_base, l_acc, l_count, blk_addr>>
    BY <1>4, <1>5, <1>8 DEF ListLoopNow, GetTail
  <2>2. PICK n \in 0 .. Turns - 1 : n = l_count - 1 /\ l_count = n + 1
    BY <1>4, <2>1
  <2>3. blk_addr + 1 \in DOMAIN before
    BY <1>1, <1>4, <2>1, <2>2, ListFacts
  <2>4. mem[blk_addr + 1] = before[blk_addr + 1]
    BY <1>1, <2>3, ListFacts
  <2>5. AfterTurn[n + 1] = Turn(before, AfterTurn[n])
    BY <1>1, ListFacts
  <2>6. AfterTurn[l_count].v = before[blk_addr + 1]
    BY <2>1, <2>2, <2>5 DEF Turn
  <2>7. SummedTo(l_count)' = SummedTo(l_count)
    BY <1>3, <2>1 DEF SummedTo
  <2>8. ListLoopNow'
    BY <1>3, <1>5, <2>1, <2>4, <2>6, <2>7 DEF ListLoopNow
  <2>. QED
    BY <1>1, <1>2, <1>5, <2>1, <2>8 DEF ListInv, Summing
<1>. QED
  BY <1>6, <1>7, <1>8 DEF ListStep

LEMMA ListInvStep == Rest /\ MapInv /\ ListInv /\ [Next]_vars => ListInv'
<1> SUFFICES ASSUME Rest, MapInv, ListInv, [Next]_vars PROVE ListInv'
  OBVIOUS
<1>1. CASE ReduceStep \/ MapStep
  BY <1>1, ListFrame DEF ReduceStep, MapStep, cpu
<1>2. CASE ListStep
  BY <1>2, ListStepInv
<1>3. ASSUME NEW c \in Calls, Call(c) PROVE ListInv'
  <2>1. pc' = "write" /\ k' = 1 /\ ret' = <<>> /\ UNCHANGED lred
    BY <1>3 DEF Call
  <2>. QED
    BY <2>1 DEF ListInv, Summing, lred
<1>4. CASE WriteOperand \/ Start
  <2>1. CASE call.f = "lred"
    BY <1>4, <2>1, ListOperands
  <2>2. CASE call.f # "lred"
    BY <1>4, <2>2, ListFrame DEF WriteOperand, Start, Write
  <2>. QED
    BY <2>1, <2>2
<1>5. CASE Poll
  <2>1. pc = "poll" /\ UNCHANGED <<call, before, lred, k, ret>>
    BY <1>5 DEF Poll
  <2>2. CASE Rdy = 0
    BY <1>5, <2>1, <2>2, ListFrame DEF Poll
  <2>3. CASE Rdy # 0
    <3>1. pc' = "result"
      BY <1>5, <2>3 DEF Poll
    <3>2. l_state = "Idle"
      BY <2>3 DEF Rest, Rdy
    <3>. QED
      BY <2>1, <3>1, <3>2, ListFrame
  <2>. QED
    BY <2>2, <2>3
<1>6. CASE GetResult
  <2>1. CASE call.f # "lred"
    BY <1>6, <2>1, ListFrame DEF GetResult
  <2>2. CASE call.f = "lred"
    <3>1. /\ pc = "result" /\ pc' = "result"
          /\ UNCHANGED <<call, before, lred, l_acc, l_count, l_state>>
      BY <1>6 DEF GetResult, lred
    <3>2. Results = <<l_acc, l_count>> /\ Len(ret) < 2 /\ ret' = Append(ret, Results[Len(ret) + 1])
      BY <1>6, <2>2 DEF GetResult, Results
    <3>3. ReadBoth /\ Summed
      BY <2>2, <3>1 DEF ListInv, Summing
    <3>4. Summed'
      BY <3>1, <3>3 DEF Summed, SummedTo, Turns, AfterTurn
    <3>5. ReadBoth'
      <4>. DEFINE R == {l_acc, l_count}
      <4>3. Results \in Seq(R) /\ Len(Results) = 2 /\ Results[1] = l_acc /\ Results[2] = l_count
        BY <3>2
      <4>4. Len(ret) \in {0, 1} /\ ret \in Seq(R) /\ R' = R /\ l_acc' = l_acc /\ l_count' = l_count
        BY <3>1, <3>2, <3>3 DEF ReadBoth
      <4>5. Results[Len(ret) + 1] \in R
        BY <4>3, <4>4
      <4>. HIDE DEF R
      <4>6. /\ ret' \in Seq(R) /\ Len(ret') = Len(ret) + 1
            /\ ret'[Len(ret) + 1] = Results[Len(ret) + 1]
            /\ Len(ret) = 1 => ret'[1] = ret[1]
        BY <3>2, <4>4, <4>5
      <4>. USE DEF R
      <4>1. CASE Len(ret) = 0
        BY <4>3, <4>4, <4>6, <4>1 DEF ReadBoth
      <4>2. CASE Len(ret) = 1
        BY <3>3, <4>3, <4>4, <4>6, <4>2 DEF ReadBoth
      <4>. QED
        BY <4>1, <4>2, <4>4
    <3>. QED
      BY <3>1, <3>4, <3>5 DEF ListInv, Summing
  <2>. QED
    BY <2>1, <2>2
<1>7. CASE Return
  BY <1>7, ListFrame DEF Return
<1>8. CASE UNCHANGED vars
  BY <1>8, ListFrame DEF vars, cpu
<1>. QED
  BY <1>1, <1>2, <1>3, <1>4, <1>5, <1>6, <1>7, <1>8 DEF Next

LEMMA ListInvariant == Spec => []ListInv
<1>1. Init => ListInv
  BY DEF Init, ListInv, Summing
<1>. QED
  BY <1>1, ListInvStep, MapInvariant, RestInvariant, PTL DEF Spec

\* Theorem: what a reduction returns is what the C function computes, whatever was
\* called before, for lists and arrays of every length and sums that overflow.
THEOREM ReductionsCorrect == Spec => []ReturnsSoftwareResult
<1>1. ASSUME ListInv, ReduceInv PROVE ReturnsSoftwareResult
  <2>1. SUFFICES ASSUME Returning PROVE ReturnsSoftwareResult
    BY DEF ReturnsSoftwareResult
  <2>2. pc = "result" /\ Len(ret) = Len(Results)
    BY <2>1 DEF Returning
  <2>3. ASSUME call.f = "lred"
        PROVE  LET r == nios_list_reduce(before, call.src) IN
               Encode(ret[1]) = Encode(r.acc) /\ Encode(ret[2]) = Encode(r.cnt)
    <3>1. Summed /\ ReadBoth /\ Len(ret) = 2
      BY <1>1, <2>2, <2>3 DEF ListInv, Summing, Results
    <3>2. ret[1] = l_acc /\ ret[2] = l_count
      BY <3>1 DEF ReadBoth
    <3>3. nios_list_reduce(before, call.src) = AfterTurn[Turns]
      BY DEF nios_list_reduce, AfterTurn, Turns
    <3>4. Same(ret[1], AfterTurn[Turns].acc) /\ ret[2] = AfterTurn[Turns].cnt
      BY <3>1, <3>2 DEF Summed, SummedTo
    <3>. QED
      BY <3>3, <3>4, SameEncoded
  <2>4. ASSUME call.f = "ared"
        PROVE  Encode(ret[1]) =
                 Encode(nios_arr_reduce(before, BLOCK_ADDR(call.src), Wosize_val(before, call.src)))
    <3>1. ReducedTo(MapSize) /\ Read /\ Len(ret) = 1
      BY <1>1, <2>2, <2>4 DEF ReduceInv, Reducing, Results
    <3>2. ret[1] = r_acc
      BY <3>1 DEF Read
    <3>3. Encode(ret[1]) = Encode(arr_loop(before, MapSrc, MapSize)[MapSize])
      BY <3>1, <3>2, SameEncoded DEF ReducedTo
    <3>. QED
      BY <3>3 DEF nios_arr_reduce, MapSrc, MapSize
  <2>. QED
    BY <2>3, <2>4 DEF ReturnsSoftwareResult
<1>. QED
  BY <1>1, ListInvariant, ReduceInvariant, PTL
=============================================================================
