---------------------------- MODULE OCamlMemory ----------------------------
(***************************************************************************)
(* What the instructions and primitives of Mutator promise to an OCaml     *)
(* program, with no addresses and no collector: a graph of objects, named  *)
(* by identities, that the registers, the stack and the globals refer to.  *)
(* An object nothing reaches any more is forgotten at once, so that a      *)
(* collection is a stuttering step.                                        *)
(*                                                                         *)
(* A value is an immediate or a reference to entry `ofs` of an object:     *)
(* entry 0, or that of another function of closures defined together.      *)
(***************************************************************************)
EXTENDS Words, Sequences, SequencesExt

CONSTANTS Ids,        \* identities of objects made at run time
          Permanent,  \* identities of the objects of the static heap
          MakeSizes, EnvSizes, RecFuns, Constants, RawWords

VARIABLES acc, env, stack, globals, objs, halted

mvars == <<acc, env, stack, globals, objs, halted>>

Ref(id, ofs) == [kind |-> "ref", id |-> id, ofs |-> ofs]
Header(size, tag) == [kind |-> "hd", size |-> size, tag |-> tag]
IsRef(v) == v.kind = "ref"
IsData(v) == IsRef(v) /\ objs[v.id].tag = 0
RefsIn(vs) == {v.id : v \in {w \in vs : IsRef(w)}}

\* The objects of os that the values vs or the static heap reach.
Reached(os, vs) ==
  LET near[n \in 0 .. Cardinality(DOMAIN os)] ==
        IF n = 0 THEN Permanent \cup RefsIn(vs)
        ELSE LET ids == near[n - 1]
             IN  ids \cup UNION {RefsIn(ToSet(os[i].fields)) : i \in ids}
  IN  near[Cardinality(DOMAIN os)]

Become(a, e, s, g, os) ==
  /\ acc' = a /\ env' = e /\ stack' = s /\ globals' = g
  /\ objs' = [i \in Reached(os, {a, e} \cup ToSet(s) \cup ToSet(g)) |-> os[i]]
  /\ UNCHANGED halted

\* acc becomes a reference to a new object; SeqFor gives the stack, which may
\* refer to it.
NewWith(tag, fs, StackFor(_)) ==
  \E id \in Ids \ DOMAIN objs :
    Become(Ref(id, 0), env, StackFor(id), globals,
           [i \in DOMAIN objs \cup {id} |->
              IF i = id THEN [tag |-> tag, fields |-> fs] ELSE objs[i]])

New(tag, fs, s) == NewWith(tag, fs, LAMBDA id : s)

Drop(n) == SubSeq(stack, n + 1, Len(stack))
Take(n) == SubSeq(stack, 1, n)

Load ==
  \E v \in ToSet(stack) \cup ToSet(globals) \cup Constants : Become(v, env, stack, globals, objs)
Push == Become(acc, env, <<acc>> \o stack, globals, objs)
Pop == \E n \in 1 .. Len(stack) : Become(acc, env, Drop(n), globals, objs)
Assign ==
  \/ \E n \in DOMAIN stack : Become(Val_unit, env, [stack EXCEPT ![n] = acc], globals, objs)
  \/ \E n \in DOMAIN globals : Become(Val_unit, env, stack, [globals EXCEPT ![n] = acc], objs)

GetField ==
  IsData(acc) /\ \E v \in ToSet(objs[acc.id].fields) : Become(v, env, stack, globals, objs)

SetField ==
  /\ IsData(acc) /\ stack # << >>
  /\ \E i \in DOMAIN objs[acc.id].fields :
       Become(Val_unit, env, Tail(stack), globals,
              [objs EXCEPT ![acc.id].fields[i] = Head(stack)])

EnvField ==
  /\ IsRef(env)
  /\ \E i \in env.ofs + 1 .. Len(objs[env.id].fields) :
       LET v == objs[env.id].fields[i] IN
       /\ v.kind \notin {"code", "hd"}
       /\ Become(v, env, stack, globals, objs)

\* Another function of the closure that runs: the entry of its code.
OffsetClosure ==
  /\ IsRef(env)
  /\ \E i \in DOMAIN objs[env.id].fields :
       /\ objs[env.id].fields[i].kind = "code"
       /\ Become(Ref(env.id, i - 1), env, stack, globals, objs)

TailCall ==
  /\ IsRef(acc) /\ stack # << >>
  /\ \E n \in 1 .. Len(stack) : Become(acc, acc, <<Head(stack)>> \o Drop(n), globals, objs)

MakeBlock ==
  \E n \in MakeSizes :
    n - 1 <= Len(stack) /\ New(0, <<acc>> \o Take(n - 1), Drop(n - 1))

\* n variables: acc, then the top of the stack.
Captured(n) == IF n = 0 THEN << >> ELSE <<acc>> \o Take(n - 1)
Left(n) == IF n = 0 THEN stack ELSE Drop(n - 1)

Closure ==
  \E n \in EnvSizes :
    n - 1 <= Len(stack) /\ New(Closure_tag, <<Code(0)>> \o Captured(n), Left(n))

ClosureRec ==
  \E f \in RecFuns, v \in EnvSizes :
    /\ v - 1 <= Len(stack)
    /\ NewWith(Closure_tag,
               [k \in 1 .. 2 * f - 1 |->
                  IF k % 2 = 1 THEN Code(k \div 2) ELSE Header(k, Infix_tag)] \o Captured(v),
               LAMBDA id : [i \in 1 .. f |-> Ref(id, 2 * (f - i))] \o Left(v))

CreateBytes == \E w \in RawWords : New(String_tag, <<w>>, stack)

AllocDummy == \E n \in MakeSizes : New(0, [i \in 1 .. n |-> Header(0, 0)], stack)

UpdateDummy ==
  /\ IsRef(acc) /\ stack # << >> /\ IsData(Head(stack))
  /\ Become(Val_unit, env, Tail(stack), globals,
            [objs EXCEPT ![acc.id] = objs[Head(stack).id]])

ObjDup == IsData(acc) /\ New(0, objs[acc.id].fields, stack)

MakeVect ==
  stack # << >> /\ \E n \in MakeSizes : New(0, [i \in 1 .. n |-> Head(stack)], Tail(stack))

ArraySub ==
  /\ IsData(acc)
  /\ \E i, j \in 0 .. Len(objs[acc.id].fields) :
       New(0, SubSeq(objs[acc.id].fields, i + 1, j), stack)

ArrayAppend ==
  /\ IsData(acc) /\ stack # << >> /\ IsData(Head(stack))
  /\ New(0, objs[acc.id].fields \o objs[Head(stack).id].fields, Tail(stack))

GcRun == Become(Val_unit, env, stack, globals, objs)

\* Out_of_memory or Stack_overflow, at any time: a handler sees the globals and
\* the objects as they were, ...
Catch == Become(Exn, Val_unit, << >>, globals, objs)

\* ... or there is none.
Halt == halted' = TRUE /\ UNCHANGED <<acc, env, stack, globals, objs>>

Next ==
  /\ ~ halted
  /\ \/ Load \/ Push \/ Pop \/ Assign \/ GetField \/ SetField \/ EnvField \/ OffsetClosure
     \/ TailCall \/ MakeBlock \/ Closure \/ ClosureRec \/ CreateBytes \/ AllocDummy
     \/ UpdateDummy \/ ObjDup \/ MakeVect \/ ArraySub \/ ArrayAppend \/ GcRun
     \/ Catch \/ Halt

Steps == [][Next]_mvars
=============================================================================
