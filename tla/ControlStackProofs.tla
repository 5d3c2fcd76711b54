------------------------ MODULE ControlStackProofs ------------------------
(***************************************************************************)
(* The stack of the interpreter keeps its layout, whatever program runs,   *)
(* and the calls, the exceptions and the partial applications of the       *)
(* byte-code are those of CurriedCalls.                                    *)
(***************************************************************************)
EXTENDS ControlStackCalls, FiniteSetTheorems, SequenceTheorems, WellFoundedInduction, TLAPS

Items == {"v", "ret", "trap"}

-----------------------------------------------------------------------------
(* Sizes of shapes.                                                        *)

\* The words an item stands for.
Words(item) == IF item = "v" THEN 1 ELSE IF item = "ret" THEN 3 ELSE 4

Places(item, s) == {i \in DOMAIN s : s[i] = item}

LEMMA PlacesFinite ==
  ASSUME NEW s \in Seq(Items), NEW item
  PROVE  IsFiniteSet(Places(item, s)) /\ Cardinality(Places(item, s)) \in Nat
<1>1. IsFiniteSet(1 .. Len(s)) /\ Places(item, s) \in SUBSET (1 .. Len(s))
  BY FS_Interval DEF Places
<1>. QED
  BY <1>1, FS_Subset, FS_CardinalityType

LEMMA SizePlaces ==
  ASSUME NEW s \in Seq(Items)
  PROVE  /\ Size(s) = Cardinality(Places("v", s)) + 3 * Cardinality(Places("ret", s))
                        + 4 * Cardinality(Places("trap", s))
         /\ Size(s) \in Nat
<1>1. Size(s) = Cardinality(Places("v", s)) + 3 * Cardinality(Places("ret", s))
                  + 4 * Cardinality(Places("trap", s))
  BY DEF Size, Places
<1>. QED
  BY <1>1, PlacesFinite

LEMMA PlacesConcat ==
  ASSUME NEW s \in Seq(Items), NEW t \in Seq(Items), NEW item
  PROVE  Cardinality(Places(item, s \o t)) =
           Cardinality(Places(item, s)) + Cardinality(Places(item, t))
<1>. DEFINE n == Len(s)
            P == Places(item, s)
            Q == Places(item, t)
            R == {i \in n + 1 .. n + Len(t) : t[i - n] = item}
<1>1. n \in Nat /\ Len(t) \in Nat /\ P \subseteq 1 .. n /\ Q \subseteq 1 .. Len(t)
  BY DEF Places
<1>2. Places(item, s \o t) = P \cup R
  <2>1. /\ DOMAIN (s \o t) = 1 .. n + Len(t)
        /\ \A i \in 1 .. n + Len(t) : (s \o t)[i] = IF i <= n THEN s[i] ELSE t[i - n]
    BY ConcatProperties
  <2>2. DOMAIN s = 1 .. n
    OBVIOUS
  <2>. QED
    BY <1>1, <2>1, <2>2 DEF Places
<1>3. ExistsBijection(Q, R)
  <2>. DEFINE f == [i \in Q |-> i + n]
  <2>1. \A i \in Q : f[i] \in R
    BY <1>1 DEF Places
  <2>2. f \in Injection(Q, R)
    BY <1>1, <2>1 DEF Injection, IsInjective
  <2>3. \A j \in R : j - n \in Q /\ f[j - n] = j
    BY <1>1 DEF Places
  <2>4. f \in Surjection(Q, R)
    BY <2>1, <2>3 DEF Surjection
  <2>. QED
    BY <2>2, <2>4 DEF ExistsBijection, Bijection
<1>4. IsFiniteSet(P) /\ IsFiniteSet(Q) /\ Cardinality(P) \in Nat /\ Cardinality(Q) \in Nat
  BY PlacesFinite
<1>5. IsFiniteSet(R) /\ Cardinality(R) = Cardinality(Q)
  BY <1>3, <1>4, FS_Bijection
<1>6. P \cap R = {}
  BY <1>1
<1>7. Cardinality(P \cup R) = Cardinality(P) + Cardinality(Q)
  <2>. HIDE DEF P, Q, R
  <2>1. Cardinality(P \cup R) = Cardinality(P) + Cardinality(R) - Cardinality(P \cap R)
    BY <1>4, <1>5, FS_Union
  <2>2. Cardinality(P \cap R) = 0
    BY <1>6, FS_EmptySet
  <2>. QED
    BY <1>4, <1>5, <2>1, <2>2
<1>. QED
  BY <1>2, <1>7

LEMMA SizeConcat ==
  ASSUME NEW s \in Seq(Items), NEW t \in Seq(Items)
  PROVE  Size(s \o t) = Size(s) + Size(t)
<1>. DEFINE u == s \o t
            C(item, w) == Cardinality(Places(item, w))
<1>1. u \in Seq(Items)
  OBVIOUS
<1>2. \A item : C(item, u) = C(item, s) + C(item, t) /\ C(item, s) \in Nat /\ C(item, t) \in Nat
  BY PlacesConcat, PlacesFinite
<1>3. \A w \in Seq(Items) : Size(w) = C("v", w) + 3 * C("ret", w) + 4 * C("trap", w)
  BY SizePlaces
<1>. HIDE DEF C, u
<1>4. Size(u) = Size(s) + Size(t)
  <2>1. /\ C("v", u) = C("v", s) + C("v", t) /\ C("v", s) \in Nat /\ C("v", t) \in Nat
        /\ C("ret", u) = C("ret", s) + C("ret", t) /\ C("ret", s) \in Nat /\ C("ret", t) \in Nat
        /\ C("trap", u) = C("trap", s) + C("trap", t) /\ C("trap", s) \in Nat /\ C("trap", t) \in Nat
    BY <1>2
  <2>2. /\ Size(u) = C("v", u) + 3 * C("ret", u) + 4 * C("trap", u)
        /\ Size(s) = C("v", s) + 3 * C("ret", s) + 4 * C("trap", s)
        /\ Size(t) = C("v", t) + 3 * C("ret", t) + 4 * C("trap", t)
    BY <1>1, <1>3
  <2>3. PICK vs \in Nat, vt \in Nat, rs \in Nat, rt \in Nat, ts \in Nat, tt \in Nat :
          /\ vs = C("v", s) /\ rs = C("ret", s) /\ ts = C("trap", s)
          /\ vt = C("v", t) /\ rt = C("ret", t) /\ tt = C("trap", t)
    BY <2>1
  <2>4. Size(s) = vs + 3 * rs + 4 * ts /\ Size(t) = vt + 3 * rt + 4 * tt
    BY <2>2, <2>3
  <2>5. Size(u) = (vs + vt) + 3 * (rs + rt) + 4 * (ts + tt)
    BY <2>1, <2>2, <2>3
  <2>6. (vs + vt) + 3 * (rs + rt) + 4 * (ts + tt) = (vs + 3 * rs + 4 * ts) + (vt + 3 * rt + 4 * tt)
    OBVIOUS
  <2>. QED
    BY <2>4, <2>5, <2>6
<1>. QED
  BY <1>4 DEF u

LEMMA SizeSmall ==
  /\ Size(<<>>) = 0
  /\ \A item \in Items : Size(<<item>>) = Words(item)
<1>1. \A item : Places(item, <<>>) = {}
  BY DEF Places
<1>2. Size(<<>>) = 0
  <2>1. /\ Cardinality(Places("v", <<>>)) = 0 /\ Cardinality(Places("ret", <<>>)) = 0
        /\ Cardinality(Places("trap", <<>>)) = 0
    BY <1>1, FS_EmptySet
  <2>2. <<>> \in Seq(Items)
    OBVIOUS
  <2>3. Size(<<>>) = Cardinality(Places("v", <<>>)) + 3 * Cardinality(Places("ret", <<>>))
                       + 4 * Cardinality(Places("trap", <<>>))
    BY <2>2, SizePlaces
  <2>. QED
    BY <2>1, <2>3
<1>3. ASSUME NEW item \in Items PROVE Size(<<item>>) = Words(item)
  <2>1. \A x : Places(x, <<item>>) = IF x = item THEN {1} ELSE {}
    BY DEF Places
  <2>2. Cardinality({1}) = 1 /\ Cardinality({}) = 0
    BY FS_Singleton, FS_EmptySet
  <2>3. \A x : Cardinality(Places(x, <<item>>)) = IF x = item THEN 1 ELSE 0
    BY <2>1, <2>2
  <2>4. <<item>> \in Seq(Items)
    OBVIOUS
  <2>5. Size(<<item>>) = Cardinality(Places("v", <<item>>)) + 3 * Cardinality(Places("ret", <<item>>))
                           + 4 * Cardinality(Places("trap", <<item>>))
    BY <2>4, SizePlaces
  <2>6. CASE item = "v"
    BY <2>3, <2>5, <2>6 DEF Words
  <2>7. CASE item = "ret"
    BY <2>3, <2>5, <2>7 DEF Words
  <2>8. CASE item = "trap"
    BY <2>3, <2>5, <2>8 DEF Words
  <2>. QED
    BY <2>6, <2>7, <2>8 DEF Items
<1>. QED
  BY <1>2, <1>3

LEMMA SizeSplit ==
  ASSUME NEW s \in Seq(Items), NEW n \in 0 .. Len(s)
  PROVE  /\ SubSeq(s, 1, n) \in Seq(Items) /\ SubSeq(s, n + 1, Len(s)) \in Seq(Items)
         /\ Size(SubSeq(s, 1, n)) \in Nat /\ Size(SubSeq(s, n + 1, Len(s))) \in Nat
         /\ Size(s) = Size(SubSeq(s, 1, n)) + Size(SubSeq(s, n + 1, Len(s)))
<1>1. SubSeq(s, 1, n) \in Seq(Items) /\ SubSeq(s, n + 1, Len(s)) \in Seq(Items)
  BY SubSeqProperties, ElementOfSeq, LenProperties
<1>2. SubSeq(s, 1, n) \o SubSeq(s, n + 1, Len(s)) = s
  <2>1. SubSeq(s, 1, n) \o SubSeq(s, n + 1, Len(s)) = SubSeq(s, 1, Len(s))
    <3>1. Len(s) \in Nat /\ 1 \in 1 .. Len(s) + 1 /\ n \in 1 - 1 .. Len(s) /\ Len(s) \in n .. Len(s)
      BY LenProperties
    <3>. QED
      BY <3>1, ConcatAdjacentSubSeq
  <2>. QED
    BY <2>1, SubSeqFull
<1>. QED
  BY <1>1, <1>2, SizeConcat, SizePlaces

Rest(shape, i) == SubSeq(shape, i + 1, Len(shape))

\* A shape without its first n items.
LEMMA DropItems ==
  ASSUME NEW s \in Seq(Items), NEW n \in 0 .. Len(s)
  PROVE  /\ Len(Rest(s, n)) = Len(s) - n /\ Rest(s, n) \in Seq(Items)
         /\ \A j \in 1 .. Len(s) - n :
              /\ Rest(s, n)[j] = s[n + j]
              /\ Above(s, n + j) = Size(SubSeq(s, 1, n)) + Above(Rest(s, n), j)
              /\ Rest(Rest(s, n), j) = Rest(s, n + j)
<1>. DEFINE t == Rest(s, n)
            m == Len(s)
<1>1. m \in Nat /\ \A i \in 1 .. m : s[i] \in Items
  BY LenProperties, ElementOfSeq
<1>2. t \in Seq(Items) /\ Len(t) = m - n /\ \A j \in 1 .. m - n : t[j] = s[n + j]
  <2>1. /\ SubSeq(s, n + 1, m) \in Seq(Items)
        /\ Len(SubSeq(s, n + 1, m)) = IF n + 1 <= m THEN m - (n + 1) + 1 ELSE 0
        /\ \A i \in 1 .. m - (n + 1) + 1 : SubSeq(s, n + 1, m)[i] = s[(n + 1) + i - 1]
    BY <1>1, SubSeqProperties
  <2>. QED
    BY <1>1, <2>1 DEF Rest
<1>3. ASSUME NEW j \in 1 .. m - n
      PROVE  /\ Above(s, n + j) = Size(SubSeq(s, 1, n)) + Above(t, j)
             /\ Rest(t, j) = Rest(s, n + j)
  <2>1. SubSeq(t, 1, j - 1) = SubSeq(s, n + 1, n + j - 1)
    <3>1. /\ SubSeq(t, 1, j - 1) \in Seq(Items) /\ SubSeq(s, n + 1, n + j - 1) \in Seq(Items)
          /\ Len(SubSeq(t, 1, j - 1)) = j - 1 /\ Len(SubSeq(s, n + 1, n + j - 1)) = j - 1
          /\ \A i \in 1 .. j - 1 : SubSeq(t, 1, j - 1)[i] = t[i]
          /\ \A i \in 1 .. j - 1 : SubSeq(s, n + 1, n + j - 1)[i] = s[n + i]
      BY <1>1, <1>2, SubSeqProperties
    <3>. QED
      BY <1>1, <1>2, <3>1, SeqEqual
  <2>2. SubSeq(s, 1, n + j - 1) = SubSeq(s, 1, n) \o SubSeq(s, n + 1, n + j - 1)
    BY <1>1, ConcatAdjacentSubSeq
  <2>3. SubSeq(s, 1, n) \in Seq(Items) /\ SubSeq(s, n + 1, n + j - 1) \in Seq(Items)
    <3>1. n \in Int /\ n + 1 \in Int /\ n + j - 1 \in Int /\ n <= m /\ n + j - 1 <= m
      BY <1>1
    <3>2. \A i \in n + 1 .. n + j - 1 : s[i] \in Items
      BY <1>1, <3>1
    <3>3. \A i \in 1 .. n : s[i] \in Items
      BY <1>1, <3>1
    <3>4. SubSeq(s, 1, n) \in Seq(Items)
      BY <3>1, <3>3, SubSeqProperties
    <3>5. SubSeq(s, n + 1, n + j - 1) \in Seq(Items)
      BY <3>1, <3>2, SubSeqProperties
    <3>. QED
      BY <3>4, <3>5
  <2>4. Above(s, n + j) = Size(SubSeq(s, 1, n)) + Above(t, j)
    <3>1. Size(SubSeq(s, 1, n + j - 1)) = Size(SubSeq(s, 1, n)) + Size(SubSeq(s, n + 1, n + j - 1))
      BY <2>2, <2>3, SizeConcat
    <3>2. Above(s, n + j) = Size(SubSeq(s, 1, n + j - 1)) /\ Above(t, j) = Size(SubSeq(t, 1, j - 1))
      BY DEF Above
    <3>. QED
      BY <2>1, <3>1, <3>2
  <2>5. Rest(t, j) = Rest(s, n + j)
    <3>1. /\ SubSeq(t, j + 1, m - n) \in Seq(Items) /\ SubSeq(s, n + j + 1, m) \in Seq(Items)
          /\ Len(SubSeq(t, j + 1, m - n)) = m - n - j /\ Len(SubSeq(s, n + j + 1, m)) = m - n - j
          /\ \A i \in 1 .. m - n - j : SubSeq(t, j + 1, m - n)[i] = t[j + i]
          /\ \A i \in 1 .. m - n - j : SubSeq(s, n + j + 1, m)[i] = s[n + j + i]
      BY <1>1, <1>2, SubSeqProperties
    <3>2. SubSeq(t, j + 1, m - n) = SubSeq(s, n + j + 1, m)
      BY <1>1, <1>2, <3>1, SeqEqual
    <3>. QED
      BY <1>2, <3>2 DEF Rest
  <2>. QED
    BY <2>4, <2>5
<1>. QED
  BY <1>2, <1>3

LEMMA AboveItem ==
  ASSUME NEW s \in Seq(Items), NEW i \in 1 .. Len(s)
  PROVE  /\ Above(s, i) \in Nat /\ Size(Rest(s, i)) \in Nat /\ Size(s) \in Nat
         /\ s[i] \in Items /\ Words(s[i]) \in 1 .. 4 /\ Rest(s, i) \in Seq(Items)
         /\ Above(s, i) + Words(s[i]) + Size(Rest(s, i)) = Size(s)
<1>1. Len(s) \in Nat /\ s[i] \in Items
  BY LenProperties, ElementOfSeq
<1>2. /\ SubSeq(s, 1, i) \in Seq(Items) /\ Rest(s, i) \in Seq(Items)
      /\ Size(SubSeq(s, 1, i)) \in Nat /\ Size(Rest(s, i)) \in Nat
      /\ Size(s) = Size(SubSeq(s, 1, i)) + Size(Rest(s, i))
  BY SizeSplit DEF Rest
<1>3. SubSeq(s, 1, i) = SubSeq(s, 1, i - 1) \o <<s[i]>>
  BY <1>1, SubSeqRecursiveSecond
<1>4. SubSeq(s, 1, i - 1) \in Seq(Items) /\ Size(SubSeq(s, 1, i - 1)) \in Nat
  BY <1>1, SizeSplit
<1>5. <<s[i]>> \in Seq(Items) /\ Size(<<s[i]>>) = Words(s[i])
  BY <1>1, SizeSmall
<1>6. Size(SubSeq(s, 1, i)) = Above(s, i) + Words(s[i])
  BY <1>3, <1>4, <1>5, SizeConcat DEF Above
<1>7. Words(s[i]) \in 1 .. 4
  BY <1>1 DEF Words, Items
<1>. QED
  BY <1>1, <1>2, <1>4, <1>6, <1>7 DEF Above

\* A shape with an item more.
LEMMA AddedItem ==
  ASSUME NEW s \in Seq(Items), NEW item \in Items
  PROVE  LET t == <<item>> \o s IN
         /\ t \in Seq(Items) /\ Len(t) = Len(s) + 1 /\ t[1] = item
         /\ Size(t) = Words(item) + Size(s) /\ Size(s) \in Nat
         /\ Above(t, 1) = 0 /\ Rest(t, 1) = s
         /\ \A j \in 1 .. Len(s) : /\ t[j + 1] = s[j]
                                  /\ Above(t, j + 1) = Words(item) + Above(s, j)
                                  /\ Rest(t, j + 1) = Rest(s, j)
<1>. DEFINE t == <<item>> \o s
<1>1. /\ t \in Seq(Items) /\ Len(t) = Len(s) + 1 /\ t[1] = item
      /\ Len(s) \in Nat /\ \A j \in 1 .. Len(s) : t[j + 1] = s[j]
  <2>1. <<item>> \in Seq(Items) /\ Len(<<item>>) = 1 /\ <<item>>[1] = item /\ Len(s) \in Nat
    BY LenProperties
  <2>2. /\ t \in Seq(Items) /\ Len(t) = Len(<<item>>) + Len(s)
        /\ \A i \in 1 .. Len(<<item>>) + Len(s) :
             t[i] = IF i <= Len(<<item>>) THEN <<item>>[i] ELSE s[i - Len(<<item>>)]
    BY <2>1, ConcatProperties
  <2>. HIDE DEF t
  <2>. QED
    BY <2>1, <2>2
<1>2. <<item>> \in Seq(Items)
  OBVIOUS
<1>3. Size(t) = Words(item) + Size(s) /\ Size(s) \in Nat
  BY <1>2, SizeConcat, SizeSmall, SizePlaces
<1>. HIDE DEF t
<1>0. 1 \in 0 .. Len(t)
  BY <1>1
<1>4. Rest(t, 1) = s
  <2>1. /\ Rest(t, 1) \in Seq(Items) /\ Len(Rest(t, 1)) = Len(t) - 1
        /\ \A j \in 1 .. Len(t) - 1 : Rest(t, 1)[j] = t[1 + j]
    BY <1>0, <1>1, DropItems
  <2>2. Len(Rest(t, 1)) = Len(s) /\ \A j \in 1 .. Len(Rest(t, 1)) : Rest(t, 1)[j] = s[j]
    <3>1. Len(Rest(t, 1)) = Len(s)
      BY <1>1, <2>1
    <3>2. ASSUME NEW j \in 1 .. Len(Rest(t, 1)) PROVE Rest(t, 1)[j] = s[j]
      <4>1. j \in 1 .. Len(t) - 1 /\ j \in 1 .. Len(s) /\ 1 + j = j + 1
        BY <1>1, <3>1, <3>2
      <4>. QED
        BY <1>1, <2>1, <4>1
    <3>. QED
      BY <3>1, <3>2
  <2>. QED
    BY <2>1, <2>2, SeqEqual
<1>5. SubSeq(t, 1, 1) = <<item>>
  <2>1. SubSeq(t, 1, 1) \in Seq(Items) /\ Len(SubSeq(t, 1, 1)) = 1 /\ SubSeq(t, 1, 1)[1] = item
    <3>1. \A i \in 1 .. 1 : t[i] \in Items
      BY <1>1
    <3>2. /\ SubSeq(t, 1, 1) \in Seq(Items) /\ Len(SubSeq(t, 1, 1)) = IF 1 <= 1 THEN 1 - 1 + 1 ELSE 0
          /\ \A i \in 1 .. 1 - 1 + 1 : SubSeq(t, 1, 1)[i] = t[1 + i - 1]
      BY <3>1, SubSeqProperties
    <3>. QED
      BY <1>1, <3>2
  <2>2. Len(<<item>>) = 1 /\ \A i \in 1 .. 1 : SubSeq(t, 1, 1)[i] = <<item>>[i]
    BY <2>1
  <2>. QED
    BY <1>2, <2>1, <2>2, SeqEqual
<1>6. ASSUME NEW j \in 1 .. Len(s)
      PROVE  Above(t, j + 1) = Words(item) + Above(s, j) /\ Rest(t, j + 1) = Rest(s, j)
  <2>1. /\ Above(t, 1 + j) = Size(SubSeq(t, 1, 1)) + Above(Rest(t, 1), j)
        /\ Rest(Rest(t, 1), j) = Rest(t, 1 + j)
    <3>1. j \in 1 .. Len(t) - 1
      BY <1>1
    <3>. QED
      BY <1>0, <1>1, <3>1, DropItems
  <2>2. Size(<<item>>) = Words(item) /\ 1 + j = j + 1
    BY <1>1, SizeSmall
  <2>. QED
    BY <1>4, <1>5, <2>1, <2>2
<1>7. Above(t, 1) = 0
  <2>1. SubSeq(t, 1, 1 - 1) = <<>>
    BY SubSeqEmpty
  <2>. QED
    BY <2>1, SizeSmall DEF Above
<1>. QED
  BY <1>1, <1>3, <1>4, <1>6, <1>7 DEF t

-----------------------------------------------------------------------------
(* The words of a stack.  A word is named by its height, counted from the  *)
(* bottom, which no push changes.                                          *)

W(s, h) == s[Len(s) - h + 1]

IsStack(s) == \E X : s \in Seq(X)

\* Up to height m, r is s.
Same(s, r, m) ==
  /\ m \in Nat /\ m <= Len(s) /\ m <= Len(r)
  /\ \A h \in 1 .. m : W(r, h) = W(s, h)

LEMMA Pushed ==
  ASSUME NEW s, NEW t, IsStack(s), IsStack(t)
  PROVE  /\ IsStack(t \o s) /\ Len(t \o s) = Len(t) + Len(s)
         /\ Len(s) \in Nat /\ Len(t) \in Nat
         /\ \A j \in 1 .. Len(t) : W(t \o s, Len(s) + Len(t) - j + 1) = t[j] /\ (t \o s)[j] = t[j]
         /\ Same(s, t \o s, Len(s))
<1>1. PICK X : s \in Seq(X)
  BY DEF IsStack
<1>2. PICK Y : t \in Seq(Y)
  BY DEF IsStack
<1>. DEFINE Z == X \cup Y
            r == t \o s
<1>3. s \in Seq(Z)
  <2>. X \subseteq Z
    OBVIOUS
  <2>. QED
    BY <1>1, SeqMonotonic
<1>4. t \in Seq(Z)
  <2>. Y \subseteq Z
    OBVIOUS
  <2>. QED
    BY <1>2, SeqMonotonic
<1>. HIDE DEF Z
<1>5. /\ r \in Seq(Z) /\ Len(r) = Len(t) + Len(s) /\ Len(s) \in Nat /\ Len(t) \in Nat
      /\ \A i \in 1 .. Len(t) + Len(s) : r[i] = IF i <= Len(t) THEN t[i] ELSE s[i - Len(t)]
  BY <1>3, <1>4, ConcatProperties, LenProperties
<1>. HIDE DEF r
<1>6. ASSUME NEW j \in 1 .. Len(t)
      PROVE  W(r, Len(s) + Len(t) - j + 1) = t[j] /\ r[j] = t[j]
  <2>1. Len(r) - (Len(s) + Len(t) - j + 1) + 1 = j /\ j \in 1 .. Len(t) + Len(s) /\ j <= Len(t)
    BY <1>5
  <2>. QED
    BY <1>5, <2>1 DEF W
<1>7. ASSUME NEW h \in 1 .. Len(s)
      PROVE  W(r, h) = W(s, h)
  <2>1. /\ Len(r) - h + 1 \in 1 .. Len(t) + Len(s) /\ ~ (Len(r) - h + 1 <= Len(t))
        /\ (Len(r) - h + 1) - Len(t) = Len(s) - h + 1
    BY <1>5
  <2>. QED
    BY <1>5, <2>1 DEF W
<1>8. IsStack(r)
  BY <1>5 DEF IsStack
<1>9. Same(s, r, Len(s))
  <2>1. Len(s) <= Len(r)
    BY <1>5
  <2>. QED
    BY <1>5, <1>7, <2>1 DEF Same
<1>. QED
  BY <1>5, <1>6, <1>8, <1>9 DEF r

LEMMA PoppedStack ==
  ASSUME NEW s, IsStack(s), NEW n \in 0 .. Len(s)
  PROVE  LET r == SubSeq(s, n + 1, Len(s)) IN
         /\ IsStack(r) /\ Len(r) = Len(s) - n /\ Len(s) \in Nat
         /\ Same(s, r, Len(s) - n)
         /\ \A j \in 1 .. Len(s) - n : r[j] = s[n + j]
<1>1. PICK X : s \in Seq(X)
  BY DEF IsStack
<1>. DEFINE r == SubSeq(s, n + 1, Len(s))
<1>2. Len(s) \in Nat /\ \A i \in 1 .. Len(s) : s[i] \in X
  BY <1>1, LenProperties, ElementOfSeq
<1>3. n + 1 \in Int /\ Len(s) \in Int /\ \A i \in n + 1 .. Len(s) : s[i] \in X
  BY <1>2
<1>4. /\ r \in Seq(X) /\ Len(r) = IF n + 1 <= Len(s) THEN Len(s) - (n + 1) + 1 ELSE 0
      /\ \A i \in 1 .. Len(s) - (n + 1) + 1 : r[i] = s[n + 1 + i - 1]
  BY <1>3, SubSeqProperties
<1>. HIDE DEF r
<1>5. Len(r) = Len(s) - n /\ \A i \in 1 .. Len(s) - n : r[i] = s[n + i]
  BY <1>2, <1>4
<1>6. ASSUME NEW h \in 1 .. Len(s) - n PROVE W(r, h) = W(s, h)
  <2>1. Len(r) - h + 1 \in 1 .. Len(s) - n /\ n + (Len(r) - h + 1) = Len(s) - h + 1
    BY <1>2, <1>5
  <2>. QED
    BY <1>5, <2>1 DEF W
<1>7. IsStack(r)
  BY <1>4 DEF IsStack
<1>8. Same(s, r, Len(s) - n)
  BY <1>2, <1>5, <1>6 DEF Same
<1>. QED
  BY <1>2, <1>5, <1>7, <1>8 DEF r

\* The n words on top.
LEMMA TopOfStack ==
  ASSUME NEW s, IsStack(s), NEW n \in 0 .. Len(s)
  PROVE  /\ IsStack(SubSeq(s, 1, n)) /\ Len(SubSeq(s, 1, n)) = n
         /\ \A j \in 1 .. n : SubSeq(s, 1, n)[j] = s[j] /\ s[j] = W(s, Len(s) - j + 1)
<1>1. PICK X : s \in Seq(X)
  BY DEF IsStack
<1>2. Len(s) \in Nat /\ \A i \in 1 .. n : s[i] \in X
  BY <1>1, LenProperties, ElementOfSeq
<1>3. /\ SubSeq(s, 1, n) \in Seq(X) /\ Len(SubSeq(s, 1, n)) = IF 1 <= n THEN n - 1 + 1 ELSE 0
      /\ \A i \in 1 .. n - 1 + 1 : SubSeq(s, 1, n)[i] = s[1 + i - 1]
  BY <1>2, SubSeqProperties
<1>4. \A j \in 1 .. n : Len(s) - (Len(s) - j + 1) + 1 = j
  BY <1>2
<1>. QED
  BY <1>2, <1>3, <1>4 DEF IsStack, W

-----------------------------------------------------------------------------
(* The trap frames below a return frame.                                   *)

LEMMA Induction ==
  ASSUME NEW S \in SUBSET Nat, 0 \in S, \A n \in S : n + 1 \in S
  PROVE  S = Nat
<1> DEFINE Below == {ss \in Nat \X Nat : ss[1] < ss[2]}
           T == Nat \ S
<1>1. IsWellFoundedOn(Below, Nat)
  BY NatLessThanWellFounded DEF OpToRel
<1>2. \A x, y \in Nat : x < y => <<x, y>> \in Below
  OBVIOUS
<1> HIDE DEF Below
<1>3. SUFFICES ASSUME T # {} PROVE FALSE
  OBVIOUS
<1>4. PICK x \in T : \A y \in T : ~ (<<y, x>> \in Below)
  BY <1>1, <1>3, WFMin
<1>5. x # 0 /\ x - 1 \in Nat /\ x - 1 < x
  BY <1>4
<1>6. x - 1 \in S
  BY <1>2, <1>4, <1>5
<1>. QED
  BY <1>4, <1>5, <1>6

\* A set of naturals that is not empty has a least element.
LEMMA Least ==
  ASSUME NEW S \in SUBSET Nat, S # {}
  PROVE  \E x \in S : \A y \in S : x <= y
<1> DEFINE Below == {ss \in Nat \X Nat : ss[1] < ss[2]}
<1>1. IsWellFoundedOn(Below, Nat)
  BY NatLessThanWellFounded DEF OpToRel
<1>2. \A x, y \in Nat : x < y => <<x, y>> \in Below
  OBVIOUS
<1> HIDE DEF Below
<1>4. PICK x \in S : \A y \in S : ~ (<<y, x>> \in Below)
  BY <1>1, WFMin
<1>5. ASSUME NEW y \in S PROVE x <= y
  <2>1. x \in Nat /\ y \in Nat
    OBVIOUS
  <2>2. ~ (y < x)
    BY <1>2, <1>4, <2>1
  <2>. QED
    BY <2>1, <2>2
<1>. QED
  BY <1>4, <1>5

\* The traps that the return frame at word i of s names itself, and the word of the
\* return frame under it.
OwnTraps(s, i) ==
  {StackWosize - Len(s) + (i + 3) - 1 + Above(s[i].at.shape, j) :
     j \in {k \in DOMAIN s[i].at.shape : s[i].at.shape[k] = "trap"}}

NextWord(s, i) == (i + 3) + Size(s[i].at.shape) + s[i + 2].n

\* TrapsFrom, of any stack.
TrapsFromWord(s, word) ==
  LET from[i \in 1 .. Len(s)] ==
        OwnTraps(s, i) \cup IF s[i].at.fn # "main" /\ NextWord(s, i) \in i + 1 .. Len(s)
                            THEN from[NextWord(s, i)] ELSE {}
  IN  from[word]

LEMMA TrapsFromStack == \A word : TrapsFrom(word) = TrapsFromWord(stack, word)
BY DEF TrapsFrom, TrapsFromWord, OwnTraps, NextWord, TrapsAt, Under

LEMMA TrapsFromEquation ==
  ASSUME NEW s, Len(s) \in Nat, NEW i \in 1 .. Len(s)
  PROVE  TrapsFromWord(s, i) =
           OwnTraps(s, i) \cup IF s[i].at.fn # "main" /\ NextWord(s, i) \in i + 1 .. Len(s)
                               THEN TrapsFromWord(s, NextWord(s, i)) ELSE {}
<1>. DEFINE F(f, k) ==
       OwnTraps(s, k) \cup IF s[k].at.fn # "main" /\ NextWord(s, k) \in k + 1 .. Len(s)
                           THEN f[NextWord(s, k)] ELSE {}
            l == Len(s)
            S == {n \in Nat : n <= l => \E f : f = [k \in l - n + 1 .. l |-> F(f, k)]}
<1>1. 0 \in S
  <2>1. l - 0 + 1 .. l = {}
    OBVIOUS
  <2>2. [k \in {} |-> 0] = [k \in {} |-> F([j \in {} |-> 0], k)]
    OBVIOUS
  <2>. HIDE DEF F
  <2>3. \E f : f = [k \in l - 0 + 1 .. l |-> F(f, k)]
    BY <2>1, <2>2
  <2>. QED
    BY <2>3
<1>2. ASSUME NEW n \in S PROVE n + 1 \in S
  <2>1. SUFFICES ASSUME n + 1 <= l PROVE \E f : f = [k \in l - (n + 1) + 1 .. l |-> F(f, k)]
    OBVIOUS
  <2>2. PICK f : f = [k \in l - n + 1 .. l |-> F(f, k)]
    BY <2>1
  <2>. DEFINE g == [k \in l - (n + 1) + 1 .. l |-> IF k = l - n THEN F(f, k) ELSE f[k]]
  <2>3. \A k \in l - n + 1 .. l : g[k] = f[k]
    OBVIOUS
  <2>4. \A k \in l - (n + 1) + 1 .. l : \A m \in k + 1 .. l : m \in l - n + 1 .. l
    OBVIOUS
  <2>5. \A k \in l - (n + 1) + 1 .. l : F(g, k) = F(f, k)
    BY <2>3, <2>4
  <2>6. \A k \in l - (n + 1) + 1 .. l : k = l - n \/ k \in l - n + 1 .. l
    OBVIOUS
  <2>7. \A k \in l - (n + 1) + 1 .. l : g[k] = F(f, k)
    BY <2>2, <2>6
  <2>8. g = [k \in l - (n + 1) + 1 .. l |-> F(g, k)]
    BY <2>5, <2>7
  <2>. HIDE DEF g, F
  <2>. QED
    BY <2>8
<1>3. S = Nat
  <2>1. S \in SUBSET Nat
    OBVIOUS
  <2>. HIDE DEF S
  <2>. QED
    BY <1>1, <1>2, <2>1, Induction
<1>4. \E f : f = [k \in 1 .. l |-> F(f, k)]
  <2>. HIDE DEF F
  <2>1. l \in S
    <3>. HIDE DEF S
    <3>. QED
      BY <1>3
  <2>2. l - l + 1 = 1 /\ l <= l
    OBVIOUS
  <2>3. \E f : f = [k \in l - l + 1 .. l |-> F(f, k)]
    BY <2>1, <2>2
  <2>. QED
    BY <2>2, <2>3
<1>. DEFINE from == CHOOSE f : f = [k \in 1 .. l |-> F(f, k)]
<1>5. from = [k \in 1 .. l |-> F(from, k)]
  BY <1>4
<1>6. \A k : TrapsFromWord(s, k) = from[k]
  BY DEF TrapsFromWord
<1>. HIDE DEF from
<1>7. from[i] = F(from, i)
  BY <1>5
<1>. QED
  BY <1>6, <1>7

-----------------------------------------------------------------------------
(* The layout: A holds the heights of the return frames, H those of the    *)
(* trap frames, and V the values that the words hold.                      *)

EnvOf(f) == IF f = "main" THEN Val_unit ELSE Closure(f)

\* The height of the return frame under a function's words, which start at top.
ReturnHeight(shape, x, top) == top - Size(shape) - x

\* The offsets of the trap frames that a shape names, whose words start at top; of
\* those of the frames under the return frame at height h; and of all of a function
\* in progress.
IsOffset(o, h) == o = StackWosize - h
Offsets(shape, top) ==
  {StackWosize - (top - Above(shape, i)) : i \in {j \in DOMAIN shape : shape[j] = "trap"}}
TrapsBelow(s, h) == TrapsFromWord(s, Len(s) - h + 1)
FrameTraps(s, f, shape, x, top) ==
  Offsets(shape, top) \cup IF f = "main" THEN {} ELSE TrapsBelow(s, ReturnHeight(shape, x, top))

\* Item i of the shape of function f, at height h.
ItemOK(s, V, A, H, f, shape, x, i, h) ==
  /\ shape[i] = "v"    => W(s, h) \in V
  /\ shape[i] = "ret"  => /\ h \in A
                          /\ W(s, h) = Val_codeptr(Body(f, Rest(shape, i)))
                          /\ W(s, h - 2) = Val_int(x)
  /\ shape[i] = "trap" => /\ h \in H
                          /\ W(s, h) = Val_codeptr(Body(f, Rest(shape, i)))
                          /\ W(s, h - 3) = Val_int(x)

\* The words from top down are those of function f with x extra arguments.
FrameOK(s, V, A, H, f, shape, x, top) ==
  /\ f \in Functions \cup {"main"} /\ shape \in Seq(Items) /\ x \in 0 .. MaxExtraArgs
  /\ \A i \in 1 .. Len(shape) : ItemOK(s, V, A, H, f, shape, x, i, top - Above(shape, i))
  /\ \A j \in 1 .. x : W(s, top - Size(shape) - j + 1) \in V
  /\ IF f = "main" THEN x = 0 /\ top = Size(shape) ELSE ReturnHeight(shape, x, top) \in A

\* The return frame at height h goes back to such words, and so does the trap frame.
RetFrame(s, V, A, H, h, f, shape, x) ==
  /\ W(s, h) = Val_codeptr(Body(f, shape)) /\ W(s, h - 1) = EnvOf(f) /\ W(s, h - 2) = Val_int(x)
  /\ FrameOK(s, V, A, H, f, shape, x, h - 3)

TrapFrame(s, V, A, H, h, f, shape, x) ==
  /\ W(s, h) = Val_codeptr(Body(f, shape))
  /\ W(s, h - 1) = Innermost(FrameTraps(s, f, shape, x, h - 4))
  /\ W(s, h - 2) = EnvOf(f) /\ W(s, h - 3) = Val_int(x)
  /\ FrameOK(s, V, A, H, f, shape, x, h - 4)

\* The closures among the values are those of the functions, and their partial
\* applications.
PartialClosure(V, f, args) ==
  f \in Functions /\ args \in Seq(V) /\ Len(args) \in 1 .. Arity[f] - 1

ValuesOK(V) ==
  /\ Trap \notin V
  /\ {Val_unit, OCAML_Stack_overflow, OCAML_Out_of_memory} \cup Literals \subseteq V
  /\ \A f \in Functions : Closure(f) \in V
  /\ \A v \in V : v.kind = "clos" =>
       \/ \E f \in Functions : v = Closure(f)
       \/ \E f, args : PartialClosure(V, f, args) /\ v = MakeClosure(<<f, "restart">>, Closure(f), args)

RetsOK(s, V, A, H) ==
  /\ IsStack(s) /\ Len(s) <= StackWosize
  /\ A \subseteq 1 .. Len(s) /\ H \subseteq 1 .. Len(s)
  /\ \A h \in A : \E f, shape, x : RetFrame(s, V, A, H, h, f, shape, x)

Layout(s, V, A, H) ==
  /\ RetsOK(s, V, A, H) /\ ValuesOK(V)
  /\ \A h \in H : \E f, shape, x : TrapFrame(s, V, A, H, h, f, shape, x)

-----------------------------------------------------------------------------
LEMMA Constants == /\ StackWosize \in Nat /\ ExtraArgsRange \in Nat /\ MaxExtraArgs \in Nat
                   /\ \A f \in Functions : Arity[f] \in Nat \ {0}
                   /\ ~ "main" \in Functions
BY BoundsAssumption, FunctionsAssumption

\* Where the words of a frame lie.
LEMMA FrameBounds ==
  ASSUME NEW s, NEW V, NEW A, NEW H, NEW f, NEW shape, NEW x, NEW top, top \in Int,
         A \subseteq Nat \ {0}, FrameOK(s, V, A, H, f, shape, x, top)
  PROVE  /\ shape \in Seq(Items) /\ Len(shape) \in Nat /\ DOMAIN shape = 1 .. Len(shape)
         /\ x \in Nat /\ Size(shape) \in Nat
         /\ ReturnHeight(shape, x, top) \in Nat
         /\ f = "main" => (x = 0 /\ ReturnHeight(shape, x, top) = 0)
         /\ f # "main" => ReturnHeight(shape, x, top) \in A
<1>1. shape \in Seq(Items) /\ x \in Nat
  BY Constants DEF FrameOK
<1>2. Len(shape) \in Nat /\ DOMAIN shape = 1 .. Len(shape) /\ Size(shape) \in Nat
  BY <1>1, LenProperties, SizePlaces
<1>3. ReturnHeight(shape, x, top) = top - Size(shape) - x
  BY DEF ReturnHeight
<1>4. /\ f = "main" => (x = 0 /\ top = Size(shape))
      /\ f # "main" => ReturnHeight(shape, x, top) \in A
  BY DEF FrameOK
<1>5. /\ f = "main" => ReturnHeight(shape, x, top) = 0
      /\ ReturnHeight(shape, x, top) \in Nat
  BY <1>1, <1>2, <1>3, <1>4
<1>. QED
  BY <1>1, <1>2, <1>3, <1>4, <1>5

LEMMA FrameItem ==
  ASSUME NEW s, NEW V, NEW A, NEW H, NEW f, NEW shape, NEW x, NEW top, top \in Int,
         A \subseteq Nat \ {0}, FrameOK(s, V, A, H, f, shape, x, top),
         NEW i, i \in 1 .. Len(shape)
  PROVE  /\ Above(shape, i) \in Nat /\ Size(Rest(shape, i)) \in Nat
         /\ shape[i] \in Items /\ Words(shape[i]) \in 1 .. 4
         /\ Above(shape, i) + Words(shape[i]) + Size(Rest(shape, i)) = Size(shape)
         /\ top - Above(shape, i) - Words(shape[i]) >= ReturnHeight(shape, x, top) + x
         /\ top - Above(shape, i) \in Int /\ top - Above(shape, i) <= top
         /\ top - Above(shape, i) >= Words(shape[i])
<1>1. /\ shape \in Seq(Items) /\ x \in Nat /\ Size(shape) \in Nat
      /\ ReturnHeight(shape, x, top) \in Nat
  BY FrameBounds
<1>0. ReturnHeight(shape, x, top) = top - Size(shape) - x
  BY DEF ReturnHeight
<1>2. /\ Above(shape, i) \in Nat /\ Size(Rest(shape, i)) \in Nat
      /\ shape[i] \in Items /\ Words(shape[i]) \in 1 .. 4
      /\ Above(shape, i) + Words(shape[i]) + Size(Rest(shape, i)) = Size(shape)
  BY <1>1, AboveItem
<1>3. PICK a \in Nat, w \in Nat, c \in Nat, z \in Nat, n \in Nat :
        /\ a = Above(shape, i) /\ w = Words(shape[i]) /\ c = Size(Rest(shape, i))
        /\ z = Size(shape) /\ n = ReturnHeight(shape, x, top)
  <2>1. Words(shape[i]) \in Nat
    BY <1>2
  <2>. QED
    BY <1>1, <1>2, <2>1
<1>7. a + w + c = z /\ n = top - z - x
  BY <1>0, <1>2, <1>3
<1>9. x \in Nat /\ top \in Int
  BY <1>1
<1>10. top - a - w = n + x + c
  BY <1>7, <1>9
<1>8. top - a - w >= n + x
  BY <1>9, <1>10
<1>4. top - Above(shape, i) - Words(shape[i]) >= ReturnHeight(shape, x, top) + x
  BY <1>3, <1>8
<1>5. top - a \in Int /\ top - a <= top /\ top - a >= w
  BY <1>1, <1>8
<1>6. /\ top - Above(shape, i) \in Int /\ top - Above(shape, i) <= top
      /\ top - Above(shape, i) >= Words(shape[i])
  BY <1>3, <1>5
<1>. QED
  BY <1>2, <1>4, <1>6

LEMMA TrapsBelowFrame ==
  ASSUME NEW s, Len(s) \in Nat, NEW h \in 3 .. Len(s), NEW f, NEW shape \in Seq(Items), NEW x \in Nat,
         W(s, h) = Val_codeptr(Body(f, shape)), W(s, h - 2) = Val_int(x)
  PROVE  TrapsBelow(s, h) =
           Offsets(shape, h - 3)
             \cup IF f # "main" /\ ReturnHeight(shape, x, h - 3) \in 1 .. h - 1
                  THEN TrapsBelow(s, ReturnHeight(shape, x, h - 3)) ELSE {}
<1>. DEFINE i == Len(s) - h + 1
            u == ReturnHeight(shape, x, h - 3)
<1>1. i \in 1 .. Len(s) /\ i + 2 = Len(s) - (h - 2) + 1
  OBVIOUS
<1>2. s[i] = Val_codeptr(Body(f, shape)) /\ s[i + 2] = Val_int(x)
  BY <1>1 DEF W
<1>3. s[i].at.fn = f /\ s[i].at.shape = shape /\ s[i + 2].n = x
  BY <1>2 DEF Val_codeptr, Body, Point, Val_int
<1>4. Size(shape) \in Nat /\ \A j \in DOMAIN shape : Above(shape, j) \in Nat
  BY SizePlaces, AboveItem
<1>5. NextWord(s, i) = i + 3 + Size(shape) + x /\ u = h - 3 - Size(shape) - x
  BY <1>3 DEF NextWord, ReturnHeight
<1>6. /\ NextWord(s, i) = Len(s) - u + 1
      /\ NextWord(s, i) \in i + 1 .. Len(s) <=> u \in 1 .. h - 1
  <2>1. u \in Int /\ i \in Int /\ NextWord(s, i) \in Int
    BY <1>1, <1>4, <1>5
  <2>2. NextWord(s, i) = Len(s) - u + 1
    BY <1>4, <1>5
  <2>. HIDE DEF u
  <2>3. NextWord(s, i) \in i + 1 .. Len(s) <=> u \in 1 .. h - 1
    BY <2>1, <2>2
  <2>. QED
    BY <2>2, <2>3
<1>7. OwnTraps(s, i) = Offsets(shape, h - 3)
  <2>1. OwnTraps(s, i) = {StackWosize - Len(s) + (i + 3) - 1 + Above(shape, j) :
                            j \in {k \in DOMAIN shape : shape[k] = "trap"}}
    BY <1>3 DEF OwnTraps
  <2>2. \A j \in DOMAIN shape :
          StackWosize - Len(s) + (i + 3) - 1 + Above(shape, j) = StackWosize - (h - 3 - Above(shape, j))
    BY <1>4, Constants
  <2>. QED
    BY <2>1, <2>2 DEF Offsets
<1>8. TrapsFromWord(s, i) =
        OwnTraps(s, i) \cup IF s[i].at.fn # "main" /\ NextWord(s, i) \in i + 1 .. Len(s)
                            THEN TrapsFromWord(s, NextWord(s, i)) ELSE {}
  BY <1>1, TrapsFromEquation
<1>9. TrapsBelow(s, h) = TrapsFromWord(s, i) /\ TrapsBelow(s, u) = TrapsFromWord(s, NextWord(s, i))
  BY <1>6 DEF TrapsBelow
<1>. HIDE DEF i, u
<1>10. TrapsFromWord(s, i) =
         Offsets(shape, h - 3)
           \cup IF f # "main" /\ u \in 1 .. h - 1 THEN TrapsFromWord(s, NextWord(s, i)) ELSE {}
  BY <1>3, <1>6, <1>7, <1>8
<1>. QED
  BY <1>9, <1>10 DEF u

-----------------------------------------------------------------------------
(* The layout is kept above and below.                                     *)

\* The traps below a return frame are those of the function it returns to.
LEMMA RetTraps ==
  ASSUME NEW s, NEW V, NEW A, NEW H, RetsOK(s, V, A, H),
         NEW h \in A, NEW f, NEW shape, NEW x, RetFrame(s, V, A, H, h, f, shape, x)
  PROVE  /\ TrapsBelow(s, h) = FrameTraps(s, f, shape, x, h - 3)
         /\ h \in 3 .. Len(s) /\ Len(s) \in Nat
         /\ f # "main" => ReturnHeight(shape, x, h - 3) \in A /\ ReturnHeight(shape, x, h - 3) < h
<1>1. IsStack(s) /\ A \subseteq 1 .. Len(s) /\ h \in 1 .. Len(s)
  BY DEF RetsOK
<1>2. Len(s) \in Nat
  BY <1>1, LenProperties DEF IsStack
<1>3. A \subseteq Nat \ {0} /\ h \in Nat
  BY <1>1, <1>2
<1>12. PICK top \in Int : top = h - 3
  BY <1>3
<1>0. FrameOK(s, V, A, H, f, shape, x, top)
  BY <1>12 DEF RetFrame
<1>. DEFINE u == ReturnHeight(shape, x, top)
<1>4. /\ x \in Nat /\ Size(shape) \in Nat /\ u \in Nat
      /\ f # "main" => u \in A
  BY <1>0, <1>3, FrameBounds
<1>11. u = h - 3 - Size(shape) - x
  BY <1>12 DEF ReturnHeight
<1>5. shape \in Seq(Items)
  BY <1>0 DEF FrameOK
<1>6. h \in 3 .. Len(s) /\ u <= h - 1
  BY <1>1, <1>2, <1>4, <1>11
<1>7. W(s, h) = Val_codeptr(Body(f, shape)) /\ W(s, h - 2) = Val_int(x)
  BY DEF RetFrame
<1>8. TrapsBelow(s, h) =
        Offsets(shape, h - 3) \cup IF f # "main" /\ u \in 1 .. h - 1 THEN TrapsBelow(s, u) ELSE {}
  BY <1>2, <1>4, <1>5, <1>6, <1>7, <1>12, TrapsBelowFrame
<1>9. f # "main" => u \in 1 .. h - 1
  BY <1>1, <1>2, <1>4, <1>6
<1>. HIDE DEF u
<1>10. TrapsBelow(s, h) = Offsets(shape, h - 3) \cup IF f = "main" THEN {} ELSE TrapsBelow(s, u)
  BY <1>8, <1>9
<1>. QED
  BY <1>2, <1>4, <1>6, <1>10, <1>12 DEF FrameTraps, u

\* The traps that a frame names itself.
LEMMA OwnOffsets ==
  ASSUME NEW s, NEW V, NEW A, NEW H, A \subseteq Nat \ {0}, NEW top, top \in Int,
         NEW f, NEW shape, NEW x, FrameOK(s, V, A, H, f, shape, x, top),
         NEW o \in Offsets(shape, top)
  PROVE  \E g \in H : g \in Int /\ g <= top /\ g - 4 >= ReturnHeight(shape, x, top) /\ IsOffset(o, g)
<1>1. DOMAIN shape = 1 .. Len(shape) /\ x \in Nat /\ ReturnHeight(shape, x, top) \in Nat
  BY FrameBounds
<1>2. PICK i \in 1 .. Len(shape) : shape[i] = "trap" /\ o = StackWosize - (top - Above(shape, i))
  BY <1>1 DEF Offsets
<1>3. top - Above(shape, i) \in H
  BY <1>2 DEF FrameOK, ItemOK
<1>4. Words(shape[i]) = 4
  BY <1>2 DEF Words
<1>5. /\ Above(shape, i) \in Nat /\ top - Above(shape, i) <= top
      /\ top - Above(shape, i) - Words(shape[i]) >= ReturnHeight(shape, x, top) + x
  BY FrameItem
<1>6. top - Above(shape, i) - 4 >= ReturnHeight(shape, x, top)
  BY <1>1, <1>4, <1>5
<1>7. PICK g \in H : g = top - Above(shape, i)
  BY <1>3
<1>. QED
  BY <1>2, <1>5, <1>6, <1>7 DEF IsOffset

LEMMA TrapsBelowBounded ==
  ASSUME NEW s, NEW V, NEW A, NEW H, RetsOK(s, V, A, H), NEW T \in A
  PROVE  \A o \in TrapsBelow(s, T) : \E g \in H : g < T /\ IsOffset(o, g)
<1>. DEFINE P(h) == \A o \in TrapsBelow(s, h) : \E g \in H : g < h /\ IsOffset(o, g)
            S == {h \in A : ~ P(h)}
<1>1. IsStack(s) /\ A \subseteq 1 .. Len(s) /\ H \subseteq 1 .. Len(s)
  BY DEF RetsOK
<1>2. Len(s) \in Nat
  BY <1>1, LenProperties DEF IsStack
<1>3. A \subseteq Nat \ {0} /\ H \subseteq Nat
  BY <1>1, <1>2
<1>4. ASSUME NEW h \in A, \A g \in A : g < h => P(g)
      PROVE  P(h)
  <2>1. PICK f, shape, x : RetFrame(s, V, A, H, h, f, shape, x)
    BY DEF RetsOK
  <2>. DEFINE u == ReturnHeight(shape, x, h - 3)
  <2>2. /\ TrapsBelow(s, h) = FrameTraps(s, f, shape, x, h - 3)
        /\ f # "main" => u \in A /\ u < h
    BY <2>1, RetTraps
  <2>5. PICK top \in Int : top = h - 3
    BY <1>3
  <2>3. FrameOK(s, V, A, H, f, shape, x, top)
    BY <2>1, <2>5 DEF RetFrame
  <2>4. ASSUME NEW o \in TrapsBelow(s, h) PROVE \E g \in H : g < h /\ IsOffset(o, g)
    <3>1. CASE o \in Offsets(shape, top)
      <4>1. PICK g \in H : g \in Int /\ g <= top /\ IsOffset(o, g)
        BY <1>3, <2>3, <3>1, OwnOffsets
      <4>. QED
        BY <1>3, <2>5, <4>1
    <3>2. CASE f # "main" /\ o \in TrapsBelow(s, u)
      <4>1. PICK g \in H : g < u /\ IsOffset(o, g)
        BY <1>4, <2>2, <3>2
      <4>2. u \in Nat /\ h \in Nat /\ g \in Nat /\ u < h
        BY <1>3, <2>2, <3>2
      <4>. HIDE DEF u
      <4>. QED
        BY <4>1, <4>2
    <3>. QED
      BY <2>2, <2>5, <3>1, <3>2 DEF FrameTraps
  <2>. QED
    BY <2>4
<1>. HIDE DEF P
<1>5. S = {}
  <2>1. SUFFICES ASSUME S # {} PROVE FALSE
    OBVIOUS
  <2>2. S \in SUBSET Nat
    BY <1>3
  <2>3. PICK h \in S : \A g \in S : h <= g
    BY <2>1, <2>2, Least
  <2>4. \A g \in A : g < h => P(g)
    BY <1>3, <2>3
  <2>. QED
    BY <1>4, <2>3, <2>4
<1>. QED
  BY <1>5 DEF P

\* What a frame holds does not depend on what lies above it.
LEMMA FrameStable ==
  ASSUME NEW s, NEW V, NEW A, NEW H, A \subseteq Nat \ {0},
         NEW r, NEW m, Same(s, r, m), NEW V2, NEW A2, NEW H2,
         V \subseteq V2, A \cap (1 .. m) \subseteq A2, H \cap (1 .. m) \subseteq H2,
         NEW f, NEW shape, NEW x, NEW top, top \in Int, top <= m,
         FrameOK(s, V, A, H, f, shape, x, top)
  PROVE  FrameOK(r, V2, A2, H2, f, shape, x, top)
<1>1. /\ Len(shape) \in Nat /\ x \in Nat /\ Size(shape) \in Nat
      /\ ReturnHeight(shape, x, top) \in Nat
      /\ f # "main" => ReturnHeight(shape, x, top) \in A
  BY FrameBounds
<1>0. ReturnHeight(shape, x, top) = top - Size(shape) - x
  BY DEF ReturnHeight
<1>2. m \in Nat /\ \A h \in 1 .. m : W(r, h) = W(s, h)
  BY DEF Same
<1>3. ASSUME NEW i \in 1 .. Len(shape)
      PROVE  ItemOK(r, V2, A2, H2, f, shape, x, i, top - Above(shape, i))
  <2>. DEFINE h == top - Above(shape, i)
  <2>1. h \in Int /\ h <= m /\ h >= Words(shape[i]) /\ Words(shape[i]) \in 1 .. 4
    <3>1. h \in Int /\ h <= top /\ h >= Words(shape[i]) /\ Words(shape[i]) \in 1 .. 4
      BY FrameItem
    <3>. HIDE DEF h
    <3>. QED
      BY <1>2, <3>1
  <2>2. ItemOK(s, V, A, H, f, shape, x, i, h)
    BY DEF FrameOK
  <2>. HIDE DEF h
  <2>3. h \in 1 .. m
    BY <1>2, <2>1
  <2>4. shape[i] = "ret" => h - 2 \in 1 .. m
    BY <1>2, <2>1 DEF Words
  <2>5. shape[i] = "trap" => h - 3 \in 1 .. m
    BY <1>2, <2>1 DEF Words
  <2>6. ItemOK(r, V2, A2, H2, f, shape, x, i, h)
    BY <1>2, <2>2, <2>3, <2>4, <2>5 DEF ItemOK
  <2>. QED
    BY <2>6 DEF h
<1>4. ASSUME NEW j \in 1 .. x PROVE W(r, top - Size(shape) - j + 1) \in V2
  <2>1. top - Size(shape) - j + 1 \in 1 .. m
    BY <1>0, <1>1, <1>2
  <2>2. W(s, top - Size(shape) - j + 1) \in V
    BY DEF FrameOK
  <2>. QED
    BY <1>2, <2>1, <2>2
<1>5. f # "main" => ReturnHeight(shape, x, top) \in A2
  <2>1. ReturnHeight(shape, x, top) <= m
    BY <1>0, <1>1, <1>2
  <2>. QED
    BY <1>1, <1>2, <2>1
<1>. QED
  BY <1>3, <1>4, <1>5 DEF FrameOK

LEMMA RetsHeights ==
  ASSUME NEW s, NEW V, NEW A, NEW H, RetsOK(s, V, A, H)
  PROVE  /\ Len(s) \in Nat /\ A \subseteq Nat \ {0} /\ H \subseteq Nat \ {0}
         /\ A \subseteq 1 .. Len(s) /\ H \subseteq 1 .. Len(s)
<1>1. IsStack(s) /\ A \subseteq 1 .. Len(s) /\ H \subseteq 1 .. Len(s)
  BY DEF RetsOK
<1>2. Len(s) \in Nat
  BY <1>1, LenProperties DEF IsStack
<1>. QED
  BY <1>1, <1>2

LEMMA RetFrameStable ==
  ASSUME NEW s, NEW V, NEW A, NEW H, RetsOK(s, V, A, H),
         NEW r, NEW m, Same(s, r, m), NEW V2, V \subseteq V2, NEW A2, NEW H2,
         A \cap (1 .. m) \subseteq A2, H \cap (1 .. m) \subseteq H2,
         NEW h, h \in A, h <= m, NEW f, NEW shape, NEW x, RetFrame(s, V, A, H, h, f, shape, x)
  PROVE  RetFrame(r, V2, A2, H2, h, f, shape, x)
<1>1. Len(s) \in Nat /\ A \subseteq Nat \ {0}
  BY RetsHeights
<1>2. m \in Nat /\ \A k \in 1 .. m : W(r, k) = W(s, k)
  BY DEF Same
<1>3. h \in 3 .. Len(s)
  BY RetTraps
<1>4. PICK top \in Int : top = h - 3
  BY <1>3
<1>5. top <= m
  BY <1>2, <1>3, <1>4
<1>6. FrameOK(s, V, A, H, f, shape, x, top)
  BY <1>4 DEF RetFrame
<1>7. FrameOK(r, V2, A2, H2, f, shape, x, top)
  BY <1>1, <1>5, <1>6, FrameStable
<1>8. h \in 1 .. m /\ h - 1 \in 1 .. m /\ h - 2 \in 1 .. m
  BY <1>2, <1>3
<1>9. W(r, h) = W(s, h) /\ W(r, h - 1) = W(s, h - 1) /\ W(r, h - 2) = W(s, h - 2)
  BY <1>2, <1>8
<1>. QED
  BY <1>4, <1>7, <1>9 DEF RetFrame

LEMMA RetsStable ==
  ASSUME NEW s, NEW V, NEW A, NEW H, RetsOK(s, V, A, H),
         NEW r, IsStack(r), Len(r) <= StackWosize, NEW m, Same(s, r, m), NEW V2, V \subseteq V2
  PROVE  RetsOK(r, V2, A \cap (1 .. m), H \cap (1 .. m))
<1>. DEFINE B == A \cap (1 .. m)
            G == H \cap (1 .. m)
<1>1. Len(s) \in Nat /\ A \subseteq Nat \ {0}
  BY RetsHeights
<1>2. m \in Nat /\ m <= Len(r) /\ Len(r) \in Nat
  BY LenProperties DEF Same, IsStack
<1>3. B \subseteq 1 .. Len(r) /\ G \subseteq 1 .. Len(r)
  BY <1>2
<1>4. ASSUME NEW h \in B PROVE \E f, shape, x : RetFrame(r, V2, B, G, h, f, shape, x)
  <2>1. h \in A /\ h <= m
    BY <1>2
  <2>2. PICK f, shape, x : RetFrame(s, V, A, H, h, f, shape, x)
    BY <2>1 DEF RetsOK
  <2>3. A \cap (1 .. m) \subseteq B /\ H \cap (1 .. m) \subseteq G
    OBVIOUS
  <2>. HIDE DEF B, G
  <2>4. RetFrame(r, V2, B, G, h, f, shape, x)
    BY <2>1, <2>2, <2>3, RetFrameStable
  <2>. QED
    BY <2>4
<1>. QED
  BY <1>3, <1>4 DEF RetsOK

LEMMA TrapsBelowStable ==
  ASSUME NEW s, NEW V, NEW A, NEW H, RetsOK(s, V, A, H),
         NEW r, IsStack(r), Len(r) <= StackWosize, NEW m, Same(s, r, m), NEW T \in A, T <= m
  PROVE  TrapsBelow(r, T) = TrapsBelow(s, T)
<1>. DEFINE P(h) == h <= m => TrapsBelow(r, h) = TrapsBelow(s, h)
            S == {h \in A : ~ P(h)}
            B == A \cap (1 .. m)
            G == H \cap (1 .. m)
<1>0. V \subseteq V /\ A \cap (1 .. m) \subseteq B /\ H \cap (1 .. m) \subseteq G
  OBVIOUS
<1>1. RetsOK(r, V, B, G)
  BY <1>0, RetsStable
<1>2. m \in Nat /\ A \subseteq Nat \ {0}
  BY RetsHeights DEF Same
<1>7. ASSUME NEW h \in A, \A g \in A : g < h => P(g)
      PROVE  P(h)
  <2>1. SUFFICES ASSUME h <= m PROVE TrapsBelow(r, h) = TrapsBelow(s, h)
    OBVIOUS
  <2>2. PICK f, shape, x : RetFrame(s, V, A, H, h, f, shape, x)
    BY DEF RetsOK
  <2>. DEFINE u == ReturnHeight(shape, x, h - 3)
  <2>3. /\ TrapsBelow(s, h) = FrameTraps(s, f, shape, x, h - 3)
        /\ f # "main" => u \in A /\ u < h
    BY <2>2, RetTraps
  <2>7. h \in B
    BY <1>2, <2>1
  <2>4. RetFrame(r, V, B, G, h, f, shape, x)
    <3>. HIDE DEF B, G
    <3>. QED
      BY <1>0, <2>1, <2>2, RetFrameStable
  <2>5. TrapsBelow(r, h) = FrameTraps(r, f, shape, x, h - 3)
    <3>. HIDE DEF B, G
    <3>. QED
      BY <1>1, <2>4, <2>7, RetTraps
  <2>6. f # "main" => TrapsBelow(r, u) = TrapsBelow(s, u)
    <3>1. SUFFICES ASSUME f # "main" PROVE TrapsBelow(r, u) = TrapsBelow(s, u)
      OBVIOUS
    <3>2. u \in Nat /\ h \in Nat /\ u < h /\ u \in A
      BY <1>2, <2>3, <3>1
    <3>. HIDE DEF u
    <3>. QED
      BY <1>2, <1>7, <2>1, <3>2
  <2>. QED
    BY <2>3, <2>5, <2>6 DEF FrameTraps
<1>. HIDE DEF P
<1>8. S = {}
  <2>1. SUFFICES ASSUME S # {} PROVE FALSE
    OBVIOUS
  <2>2. S \in SUBSET Nat
    BY <1>2
  <2>3. PICK h \in S : \A g \in S : h <= g
    BY <2>1, <2>2, Least
  <2>4. \A g \in A : g < h => P(g)
    BY <1>2, <2>3
  <2>. QED
    BY <1>7, <2>3, <2>4
<1>. QED
  BY <1>8 DEF P

LEMMA FrameTrapsStable ==
  ASSUME NEW s, NEW V, NEW A, NEW H, RetsOK(s, V, A, H),
         NEW r, IsStack(r), Len(r) <= StackWosize, NEW m, Same(s, r, m),
         NEW f, NEW shape, NEW x, NEW top, top \in Int, top <= m, FrameOK(s, V, A, H, f, shape, x, top)
  PROVE  FrameTraps(r, f, shape, x, top) = FrameTraps(s, f, shape, x, top)
<1>1. A \subseteq Nat \ {0} /\ m \in Nat
  BY RetsHeights DEF Same
<1>. DEFINE u == ReturnHeight(shape, x, top)
<1>2. /\ x \in Nat /\ Size(shape) \in Nat /\ u \in Nat
      /\ f # "main" => u \in A
  BY <1>1, FrameBounds
<1>3. u = top - Size(shape) - x
  BY DEF ReturnHeight
<1>4. u <= m
  BY <1>1, <1>2, <1>3
<1>. HIDE DEF u
<1>5. f # "main" => TrapsBelow(r, u) = TrapsBelow(s, u)
  BY <1>2, <1>4, TrapsBelowStable
<1>. QED
  BY <1>5 DEF FrameTraps, u

LEMMA LayoutStable ==
  ASSUME NEW s, NEW V, NEW A, NEW H, Layout(s, V, A, H),
         NEW r, IsStack(r), Len(r) <= StackWosize, NEW m, Same(s, r, m),
         NEW V2, V \subseteq V2, ValuesOK(V2)
  PROVE  Layout(r, V2, A \cap (1 .. m), H \cap (1 .. m))
<1>. DEFINE B == A \cap (1 .. m)
            G == H \cap (1 .. m)
<1>1. RetsOK(s, V, A, H)
  BY DEF Layout
<1>2. RetsOK(r, V2, B, G) /\ m \in Nat /\ A \subseteq Nat \ {0} /\ H \subseteq Nat \ {0}
  <2>1. RetsOK(r, V2, A \cap (1 .. m), H \cap (1 .. m))
    BY <1>1, RetsStable
  <2>2. m \in Nat /\ A \subseteq Nat \ {0} /\ H \subseteq Nat \ {0}
    BY <1>1, RetsHeights DEF Same
  <2>. QED
    BY <2>1, <2>2
<1>3. \A h \in 1 .. m : W(r, h) = W(s, h)
  BY DEF Same
<1>4. ASSUME NEW h \in G PROVE \E f, shape, x : TrapFrame(r, V2, B, G, h, f, shape, x)
  <2>1. h \in H /\ h \in 1 .. m
    OBVIOUS
  <2>2. PICK f, shape, x : TrapFrame(s, V, A, H, h, f, shape, x)
    BY <2>1 DEF Layout
  <2>3. PICK top \in Int : top = h - 4
    BY <2>1
  <2>4. FrameOK(s, V, A, H, f, shape, x, top)
    BY <2>2, <2>3 DEF TrapFrame
  <2>5. /\ x \in Nat /\ Size(shape) \in Nat /\ ReturnHeight(shape, x, top) \in Nat
    BY <1>2, <2>4, FrameBounds
  <2>6. ReturnHeight(shape, x, top) = top - Size(shape) - x
    BY DEF ReturnHeight
  <2>7. top >= 0 /\ top <= m
    BY <1>2, <2>1, <2>3, <2>5, <2>6
  <2>8. FrameTraps(r, f, shape, x, top) = FrameTraps(s, f, shape, x, top)
    BY <1>1, <2>4, <2>7, FrameTrapsStable
  <2>9. FrameOK(r, V2, B, G, f, shape, x, top)
    <3>1. A \cap (1 .. m) \subseteq B /\ H \cap (1 .. m) \subseteq G
      OBVIOUS
    <3>. HIDE DEF B, G
    <3>. QED
      BY <1>2, <2>4, <2>7, <3>1, FrameStable
  <2>10. h - 1 \in 1 .. m /\ h - 2 \in 1 .. m /\ h - 3 \in 1 .. m
    BY <1>2, <2>1, <2>3, <2>7
  <2>11. /\ W(r, h) = W(s, h) /\ W(r, h - 1) = W(s, h - 1)
         /\ W(r, h - 2) = W(s, h - 2) /\ W(r, h - 3) = W(s, h - 3)
    BY <1>3, <2>1, <2>10
  <2>12. TrapFrame(r, V2, B, G, h, f, shape, x)
    <3>. HIDE DEF B, G
    <3>. QED
      BY <2>2, <2>3, <2>8, <2>9, <2>11 DEF TrapFrame
  <2>. QED
    BY <2>12
<1>. QED
  BY <1>2, <1>4 DEF Layout

-----------------------------------------------------------------------------
(* What instructions do to the layout.                                     *)

LEMMA FrameMonotonic ==
  ASSUME NEW s, NEW V, NEW A, NEW H, NEW A2, NEW H2, A \subseteq A2, H \subseteq H2,
         NEW f, NEW shape, NEW x, NEW top, FrameOK(s, V, A, H, f, shape, x, top)
  PROVE  FrameOK(s, V, A2, H2, f, shape, x, top)
<1>1. ASSUME NEW i \in 1 .. Len(shape)
      PROVE  ItemOK(s, V, A2, H2, f, shape, x, i, top - Above(shape, i))
  <2>1. ItemOK(s, V, A, H, f, shape, x, i, top - Above(shape, i))
    BY DEF FrameOK
  <2>. QED
    BY <2>1 DEF ItemOK
<1>. QED
  BY <1>1 DEF FrameOK

\* A return frame and a trap frame more.
LEMMA AddRet ==
  ASSUME NEW s, NEW V, NEW A, NEW H, NEW h, NEW f, NEW shape, NEW x,
         Layout(s, V, A, H), h \in 1 .. Len(s), RetFrame(s, V, A, H, h, f, shape, x)
  PROVE  Layout(s, V, A \cup {h}, H)
<1>. DEFINE B == A \cup {h}
<1>1. A \subseteq B /\ H \subseteq H
  OBVIOUS
<1>2. RetsOK(s, V, A, H) /\ ValuesOK(V)
  BY DEF Layout
<1>3. B \subseteq 1 .. Len(s)
  BY <1>2 DEF RetsOK
<1>. HIDE DEF B
<1>4. ASSUME NEW k, NEW ff, NEW ss, NEW xx, RetFrame(s, V, A, H, k, ff, ss, xx)
      PROVE  RetFrame(s, V, B, H, k, ff, ss, xx)
  BY <1>1, <1>4, FrameMonotonic DEF RetFrame
<1>5. ASSUME NEW k, NEW ff, NEW ss, NEW xx, TrapFrame(s, V, A, H, k, ff, ss, xx)
      PROVE  TrapFrame(s, V, B, H, k, ff, ss, xx)
  BY <1>1, <1>5, FrameMonotonic DEF TrapFrame
<1>6. ASSUME NEW k \in B PROVE \E ff, ss, xx : RetFrame(s, V, B, H, k, ff, ss, xx)
  <2>1. CASE k = h
    BY <1>4, <2>1
  <2>2. CASE k \in A
    BY <1>2, <1>4, <2>2 DEF RetsOK
  <2>. QED
    BY <2>1, <2>2 DEF B
<1>7. ASSUME NEW k \in H PROVE \E ff, ss, xx : TrapFrame(s, V, B, H, k, ff, ss, xx)
  BY <1>5 DEF Layout
<1>8. RetsOK(s, V, B, H)
  BY <1>2, <1>3, <1>6 DEF RetsOK
<1>. QED
  BY <1>2, <1>7, <1>8 DEF Layout, B

LEMMA AddTrap ==
  ASSUME NEW s, NEW V, NEW A, NEW H, NEW h, NEW f, NEW shape, NEW x,
         Layout(s, V, A, H), h \in 1 .. Len(s), TrapFrame(s, V, A, H, h, f, shape, x)
  PROVE  Layout(s, V, A, H \cup {h})
<1>. DEFINE G == H \cup {h}
<1>1. A \subseteq A /\ H \subseteq G
  OBVIOUS
<1>2. RetsOK(s, V, A, H) /\ ValuesOK(V)
  BY DEF Layout
<1>3. G \subseteq 1 .. Len(s)
  BY <1>2 DEF RetsOK
<1>. HIDE DEF G
<1>4. ASSUME NEW k, NEW ff, NEW ss, NEW xx, RetFrame(s, V, A, H, k, ff, ss, xx)
      PROVE  RetFrame(s, V, A, G, k, ff, ss, xx)
  BY <1>1, <1>4, FrameMonotonic DEF RetFrame
<1>5. ASSUME NEW k, NEW ff, NEW ss, NEW xx, TrapFrame(s, V, A, H, k, ff, ss, xx)
      PROVE  TrapFrame(s, V, A, G, k, ff, ss, xx)
  BY <1>1, <1>5, FrameMonotonic DEF TrapFrame
<1>6. ASSUME NEW k \in A PROVE \E ff, ss, xx : RetFrame(s, V, A, G, k, ff, ss, xx)
  BY <1>2, <1>4 DEF RetsOK
<1>7. ASSUME NEW k \in G PROVE \E ff, ss, xx : TrapFrame(s, V, A, G, k, ff, ss, xx)
  <2>1. CASE k = h
    BY <1>5, <2>1
  <2>2. CASE k \in H
    BY <1>5, <2>2 DEF Layout
  <2>. QED
    BY <2>1, <2>2 DEF G
<1>8. RetsOK(s, V, A, G)
  BY <1>2, <1>3, <1>6 DEF RetsOK
<1>. QED
  BY <1>2, <1>7, <1>8 DEF Layout, G

Heights(A) == A \subseteq Nat \ {0}
Higher(high, low, n) == high = low + n
NoTraps(shape, n) == \A i \in 1 .. n : shape[i] # "trap"

FrameDropped(s, V, A, H, f, shape, x, top, n, low, rest) ==
  /\ FrameOK(s, V, A, H, f, rest, x, low)
  /\ ReturnHeight(rest, x, low) = ReturnHeight(shape, x, top)
  /\ Offsets(rest, low) \subseteq Offsets(shape, top)
  /\ NoTraps(shape, n) => Offsets(rest, low) = Offsets(shape, top)

\* The first n items of a frame are gone.
LEMMA DropFrame ==
  ASSUME NEW s, NEW V, NEW A, NEW H, NEW f, NEW shape, NEW x, NEW top, NEW n, NEW low, NEW rest,
         Heights(A), top \in Int, FrameOK(s, V, A, H, f, shape, x, top), n \in 0 .. Len(shape),
         low \in Int, Higher(top, low, Size(SubSeq(shape, 1, n))), rest = Rest(shape, n)
  PROVE  FrameDropped(s, V, A, H, f, shape, x, top, n, low, rest)
<1>. DEFINE z == Size(SubSeq(shape, 1, n))
<1>0. top = low + z
  BY DEF Higher
<1>1. shape \in Seq(Items) /\ Len(shape) \in Nat /\ DOMAIN shape = 1 .. Len(shape) /\ x \in Nat
  BY Zenon, FrameBounds DEF Heights
<1>2. /\ rest \in Seq(Items) /\ z \in Nat /\ Size(rest) \in Nat /\ Size(shape) = z + Size(rest)
  BY <1>1, SizeSplit DEF Rest
<1>3. /\ Len(rest) = Len(shape) - n
      /\ \A j \in 1 .. Len(shape) - n :
           /\ rest[j] = shape[n + j]
           /\ Above(shape, n + j) = z + Above(rest, j)
           /\ Rest(rest, j) = Rest(shape, n + j)
  BY Zenon, <1>1, DropItems
<1>. HIDE DEF z
<1>4. ASSUME NEW j \in 1 .. Len(rest)
      PROVE  /\ n + j \in 1 .. Len(shape) /\ rest[j] = shape[n + j]
             /\ low - Above(rest, j) = top - Above(shape, n + j)
             /\ Rest(rest, j) = Rest(shape, n + j)
  <2>1. /\ n + j \in 1 .. Len(shape) /\ rest[j] = shape[n + j]
        /\ Above(shape, n + j) = z + Above(rest, j)
        /\ Rest(rest, j) = Rest(shape, n + j)
    BY <1>1, <1>3
  <2>2. Above(rest, j) \in Nat
    BY <1>2, AboveItem
  <2>. QED
    BY <1>0, <1>2, <2>1, <2>2
<1>5. ASSUME NEW j \in 1 .. Len(rest)
      PROVE  ItemOK(s, V, A, H, f, rest, x, j, low - Above(rest, j))
  <2>1. ItemOK(s, V, A, H, f, shape, x, n + j, top - Above(shape, n + j))
    BY <1>4 DEF FrameOK
  <2>. QED
    BY <1>4, <2>1 DEF ItemOK
<1>6. low \in Int /\ low - Size(rest) = top - Size(shape)
  BY <1>0, <1>2
<1>7. ReturnHeight(rest, x, low) = ReturnHeight(shape, x, top)
  BY <1>6 DEF ReturnHeight
<1>8. FrameOK(s, V, A, H, f, rest, x, low)
  <2>1. ASSUME NEW j \in 1 .. x PROVE W(s, low - Size(rest) - j + 1) \in V
    BY <1>6 DEF FrameOK
  <2>2. f = "main" => low = Size(rest)
    BY <1>2, <1>6 DEF FrameOK
  <2>. QED
    BY <1>2, <1>5, <1>7, <2>1, <2>2 DEF FrameOK
<1>9. DOMAIN rest = 1 .. Len(rest)
  BY <1>2
<1>10. Offsets(rest, low) \subseteq Offsets(shape, top)
  <2>1. ASSUME NEW o \in Offsets(rest, low) PROVE o \in Offsets(shape, top)
    <3>1. PICK j \in 1 .. Len(rest) : rest[j] = "trap" /\ o = StackWosize - (low - Above(rest, j))
      BY <1>9 DEF Offsets
    <3>2. o = StackWosize - (top - Above(shape, n + j)) /\ n + j \in DOMAIN shape /\ shape[n + j] = "trap"
      BY <1>1, <1>4, <3>1
    <3>. QED
      BY <3>2 DEF Offsets
  <2>. QED
    BY <2>1
<1>11. ASSUME NoTraps(shape, n)
       PROVE  Offsets(rest, low) = Offsets(shape, top)
  <2>1. ASSUME NEW o \in Offsets(shape, top) PROVE o \in Offsets(rest, low)
    <3>1. PICK i \in 1 .. Len(shape) : shape[i] = "trap" /\ o = StackWosize - (top - Above(shape, i))
      BY <1>1 DEF Offsets
    <3>2. ~ i \in 1 .. n
      BY <1>11, <3>1 DEF NoTraps
    <3>3. i - n \in 1 .. Len(rest) /\ n + (i - n) = i
      BY <1>1, <1>3, <3>2
    <3>4. rest[i - n] = "trap" /\ o = StackWosize - (low - Above(rest, i - n))
      BY <1>4, <3>1, <3>3
    <3>. QED
      BY <1>9, <3>3, <3>4 DEF Offsets
  <2>. QED
    BY <1>10, <2>1
<1>. QED
  BY <1>7, <1>8, <1>10, <1>11 DEF FrameDropped

\* Items that are no traps are gone: the traps are the same.
LEMMA DropPlain ==
  ASSUME NEW s, NEW V, NEW A, NEW H, NEW f, NEW shape, NEW x, NEW top, NEW n, NEW low, NEW rest,
         Heights(A), top \in Int, FrameOK(s, V, A, H, f, shape, x, top), n \in 0 .. Len(shape),
         low \in Int, Higher(top, low, Size(SubSeq(shape, 1, n))), rest = Rest(shape, n),
         NoTraps(shape, n)
  PROVE  FrameTraps(s, f, rest, x, low) = FrameTraps(s, f, shape, x, top)
<1>1. FrameDropped(s, V, A, H, f, shape, x, top, n, low, rest)
  BY DropFrame
<1>. QED
  BY <1>1 DEF FrameDropped, FrameTraps

\* A shape that starts with values.
LEMMA ValueItems ==
  ASSUME NEW shape \in Seq(Items), NEW n \in 0 .. Len(shape), \A i \in 1 .. n : shape[i] = "v"
  PROVE  /\ Size(SubSeq(shape, 1, n)) = n
         /\ \A i \in 1 .. n : Above(shape, i) = i - 1
<1>1. Len(shape) \in Nat /\ \A i \in 1 .. Len(shape) : shape[i] \in Items
  BY LenProperties, ElementOfSeq
<1>2. ASSUME NEW k \in 0 .. n PROVE Size(SubSeq(shape, 1, k)) = k
  <2>. DEFINE t == SubSeq(shape, 1, k)
  <2>1. \A i \in 1 .. k : shape[i] \in Items
    BY <1>1
  <2>2. /\ t \in Seq(Items) /\ Len(t) = IF 1 <= k THEN k - 1 + 1 ELSE 0
        /\ \A i \in 1 .. k - 1 + 1 : t[i] = shape[1 + i - 1]
    BY <2>1, SubSeqProperties
  <2>. HIDE DEF t
  <2>3. DOMAIN t = 1 .. k /\ \A i \in 1 .. k : t[i] = "v"
    BY <2>2
  <2>4. Places("v", t) = 1 .. k /\ Places("ret", t) = {} /\ Places("trap", t) = {}
    BY <2>3 DEF Places
  <2>5. Cardinality(1 .. k) = k
    <3>1. 1 \in Int /\ k \in Int
      OBVIOUS
    <3>2. Cardinality(1 .. k) = IF 1 > k THEN 0 ELSE k - 1 + 1
      BY <3>1, FS_Interval
    <3>. QED
      BY <3>2
  <2>6. Cardinality({}) = 0
    BY FS_EmptySet
  <2>7. Size(t) = Cardinality(Places("v", t)) + 3 * Cardinality(Places("ret", t))
                    + 4 * Cardinality(Places("trap", t))
    BY <2>2, SizePlaces
  <2>9. k \in Nat
    BY <1>1
  <2>10. /\ Cardinality(Places("v", t)) = k /\ Cardinality(Places("ret", t)) = 0
         /\ Cardinality(Places("trap", t)) = 0
    BY <2>4, <2>5, <2>6
  <2>8. Size(t) = k
    BY <2>7, <2>9, <2>10
  <2>. QED
    BY <2>8 DEF t
<1>3. ASSUME NEW i \in 1 .. n PROVE Above(shape, i) = i - 1
  <2>1. i - 1 \in 0 .. n
    OBVIOUS
  <2>. QED
    BY <1>2, <2>1 DEF Above
<1>4. n \in 0 .. n
  OBVIOUS
<1>. QED
  BY <1>2, <1>3, <1>4

More(item, shape) == <<item>> \o shape

FrameAdded(s, V, A, H, f, shape, x, top, item, high, more) ==
  /\ FrameOK(s, V, A, H, f, more, x, high)
  /\ ReturnHeight(more, x, high) = ReturnHeight(shape, x, top)
  /\ item # "trap" => Offsets(more, high) = Offsets(shape, top)
  /\ item = "trap" => /\ Offsets(shape, top) \subseteq Offsets(more, high)
                     /\ \E o \in Offsets(more, high) :
                          IsOffset(o, high) /\ Offsets(more, high) \ {o} \subseteq Offsets(shape, top)

\* An item more on a frame.
LEMMA AddItem ==
  ASSUME NEW s, NEW V, NEW A, NEW H, NEW f, NEW shape, NEW x, NEW top, NEW item, NEW high,
         NEW more,
         Heights(A), top \in Int, FrameOK(s, V, A, H, f, shape, x, top), item \in Items,
         high \in Int, Higher(high, top, Words(item)), more = More(item, shape),
         ItemOK(s, V, A, H, f, more, x, 1, high)
  PROVE  FrameAdded(s, V, A, H, f, shape, x, top, item, high, more)
<1>0. high = top + Words(item)
  BY DEF Higher
<1>1. shape \in Seq(Items) /\ Len(shape) \in Nat /\ DOMAIN shape = 1 .. Len(shape)
  BY FrameBounds DEF Heights
<1>2. /\ more \in Seq(Items) /\ Len(more) = Len(shape) + 1 /\ more[1] = item
      /\ Size(more) = Words(item) + Size(shape) /\ Size(shape) \in Nat
      /\ Above(more, 1) = 0 /\ Rest(more, 1) = shape
      /\ \A j \in 1 .. Len(shape) : /\ more[j + 1] = shape[j]
                                    /\ Above(more, j + 1) = Words(item) + Above(shape, j)
                                    /\ Rest(more, j + 1) = Rest(shape, j)
  BY <1>1, AddedItem DEF More
<1>3. Words(item) \in 1 .. 4
  BY DEF Words
<1>4. DOMAIN more = 1 .. Len(shape) + 1
  BY <1>2
<1>5. ASSUME NEW j \in 1 .. Len(shape)
      PROVE  high - Above(more, j + 1) = top - Above(shape, j) /\ top - Above(shape, j) \in Int
  <2>1. Above(shape, j) \in Nat
    BY <1>1, AboveItem
  <2>2. Above(more, j + 1) = Words(item) + Above(shape, j)
    BY <1>2
  <2>. QED
    BY <1>0, <1>3, <2>1, <2>2
<1>6. ASSUME NEW i \in 1 .. Len(more)
      PROVE  ItemOK(s, V, A, H, f, more, x, i, high - Above(more, i))
  <2>1. CASE i = 1
    <3>1. high - Above(more, 1) = high
      BY <1>2, <1>3
    <3>. QED
      BY <2>1, <3>1
  <2>2. CASE i # 1
    <3>1. PICK j \in 1 .. Len(shape) : i = j + 1
      <4>1. i - 1 \in 1 .. Len(shape) /\ i = (i - 1) + 1
        BY <1>1, <1>2, <2>2
      <4>. QED
        BY <4>1
    <3>2. ItemOK(s, V, A, H, f, shape, x, j, top - Above(shape, j))
      BY DEF FrameOK
    <3>3. more[i] = shape[j] /\ Rest(more, i) = Rest(shape, j) /\ high - Above(more, i) = top - Above(shape, j)
      BY <1>2, <1>5, <3>1
    <3>. QED
      BY <3>2, <3>3 DEF ItemOK
  <2>. QED
    BY <2>1, <2>2
<1>7. high - Size(more) = top - Size(shape)
  BY <1>0, <1>2, <1>3
<1>8. ReturnHeight(more, x, high) = ReturnHeight(shape, x, top)
  BY <1>7 DEF ReturnHeight
<1>9. FrameOK(s, V, A, H, f, more, x, high)
  <2>1. ASSUME NEW j \in 1 .. x PROVE W(s, high - Size(more) - j + 1) \in V
    BY <1>7 DEF FrameOK
  <2>2. f = "main" => high = Size(more)
    BY <1>2, <1>3, <1>7 DEF FrameOK
  <2>. QED
    BY <1>2, <1>6, <1>8, <2>1, <2>2 DEF FrameOK
<1>10. ASSUME NEW o \in Offsets(more, high)
       PROVE  o \in Offsets(shape, top) \cup IF item = "trap" THEN {StackWosize - high} ELSE {}
  <2>1. PICK i \in 1 .. Len(shape) + 1 : more[i] = "trap" /\ o = StackWosize - (high - Above(more, i))
    BY <1>4 DEF Offsets
  <2>2. CASE i = 1
    BY <1>2, <1>3, <2>1, <2>2
  <2>3. CASE i # 1
    <3>1. PICK j \in 1 .. Len(shape) : i = j + 1
      <4>1. i - 1 \in 1 .. Len(shape) /\ i = (i - 1) + 1
        BY <1>1, <1>2, <2>3
      <4>. QED
        BY <4>1
    <3>2. shape[j] = "trap" /\ o = StackWosize - (top - Above(shape, j))
      BY <1>2, <1>5, <2>1, <3>1
    <3>. QED
      BY <1>1, <3>2 DEF Offsets
  <2>. QED
    BY <2>2, <2>3
<1>11. ASSUME NEW o \in Offsets(shape, top) PROVE o \in Offsets(more, high)
  <2>1. PICK j \in 1 .. Len(shape) : shape[j] = "trap" /\ o = StackWosize - (top - Above(shape, j))
    BY <1>1 DEF Offsets
  <2>2. j + 1 \in DOMAIN more /\ more[j + 1] = "trap" /\ o = StackWosize - (high - Above(more, j + 1))
    BY <1>1, <1>2, <1>4, <1>5, <2>1
  <2>. QED
    BY <2>2 DEF Offsets
<1>12. item = "trap" => StackWosize - high \in Offsets(more, high)
  <2>1. 1 \in DOMAIN more /\ more[1] = item /\ high - Above(more, 1) = high
    BY <1>1, <1>2, <1>3, <1>4
  <2>. QED
    BY <2>1 DEF Offsets
<1>13. item = "trap" => \E o \in Offsets(more, high) :
                          IsOffset(o, high) /\ Offsets(more, high) \ {o} \subseteq Offsets(shape, top)
  BY <1>10, <1>12 DEF IsOffset
<1>. QED
  BY <1>8, <1>9, <1>10, <1>11, <1>13 DEF FrameAdded

FrameKept(s, V, A, H, f, shape, x, top, item, high, more) ==
  /\ FrameOK(s, V, A, H, f, more, x, high)
  /\ FrameTraps(s, f, more, x, high) = FrameTraps(s, f, shape, x, top)

\* A value or a return frame more names no other trap frame.
LEMMA AddPlain ==
  ASSUME NEW s, NEW V, NEW A, NEW H, NEW f, NEW shape, NEW x, NEW top, NEW item, NEW high,
         NEW more,
         Heights(A), top \in Int, FrameOK(s, V, A, H, f, shape, x, top), item \in Items,
         item # "trap", high \in Int, Higher(high, top, Words(item)), more = More(item, shape),
         ItemOK(s, V, A, H, f, more, x, 1, high)
  PROVE  FrameKept(s, V, A, H, f, shape, x, top, item, high, more)
<1>1. FrameAdded(s, V, A, H, f, shape, x, top, item, high, more)
  BY AddItem
<1>. QED
  BY <1>1 DEF FrameAdded, FrameKept, FrameTraps

-----------------------------------------------------------------------------
(* Where control is.                                                       *)

\* In the body of a function: the stack starts with its words, env is the function,
\* trapSp leads to the innermost of the trap frames.
InBody(s, V, A, H, p, e, x, t) ==
  \E f, shape :
    /\ p = Body(f, shape) /\ e = EnvOf(f)
    /\ FrameOK(s, V, A, H, f, shape, x, Len(s))
    /\ t = Innermost(FrameTraps(s, f, shape, x, Len(s)))

\* x + 1 arguments lie on the return frame of a call.
Arrived(s, V, A, x, t) ==
  /\ x \in Nat /\ Len(s) - x - 1 \in A
  /\ \A j \in 1 .. x + 1 : s[j] \in V
  /\ t = Innermost(TrapsBelow(s, Len(s) - x - 1))

AtGrab(V, p, e, x) ==
  \E f \in Functions :
    /\ p = Point(f, "grab", <<>>) /\ Arity[f] > 1
    /\ e = Closure(f) /\ x \in 0 .. MaxExtraArgs + Arity[f] - 1

AtRestart(V, p, e, x) ==
  \E f \in Functions : \E args :
    /\ p = Point(f, "restart", <<>>) /\ Arity[f] > 1
    /\ PartialClosure(V, f, args) /\ e = MakeClosure(<<f, "restart">>, Closure(f), args)
    /\ x \in 0 .. MaxExtraArgs

OnEntry(s, V, A, p, e, x, t) ==
  Arrived(s, V, A, x, t) /\ (AtGrab(V, p, e, x) \/ AtRestart(V, p, e, x))

Control(s, V, A, H, p, e, x, t) ==
  InBody(s, V, A, H, p, e, x, t) \/ OnEntry(s, V, A, p, e, x, t)

\* The body of a function of n + 1 parameters starts.
LEMMA EnterBody ==
  ASSUME NEW s, NEW V, NEW A, NEW H, RetsOK(s, V, A, H), NEW x, NEW t, Arrived(s, V, A, x, t),
         NEW f \in Functions, NEW n \in 0 .. x, x - n <= MaxExtraArgs
  PROVE  InBody(s, V, A, H, Body(f, Values(n + 1)), Closure(f), x - n, t)
<1>. DEFINE shape == Values(n + 1)
            y == x - n
<1>1. Len(s) \in Nat /\ A \subseteq Nat \ {0} /\ A \subseteq 1 .. Len(s) /\ IsStack(s)
  BY RetsHeights DEF RetsOK
<1>2. /\ x \in Nat /\ Len(s) - x - 1 \in A /\ \A j \in 1 .. x + 1 : s[j] \in V
      /\ t = Innermost(TrapsBelow(s, Len(s) - x - 1))
  BY DEF Arrived
<1>3. /\ shape \in Seq(Items) /\ Len(shape) = n + 1 /\ DOMAIN shape = 1 .. n + 1
      /\ \A i \in 1 .. n + 1 : shape[i] = "v"
  <2>1. \A i \in 1 .. n + 1 : "v" \in Items
    BY DEF Items
  <2>2. n + 1 \in Nat
    BY <1>2
  <2>3. shape = [i \in 1 .. n + 1 |-> "v"]
    BY DEF Values
  <2>. HIDE DEF shape
  <2>4. shape \in Seq(Items)
    BY <2>1, <2>2, <2>3
  <2>. QED
    BY <2>2, <2>3, <2>4
<1>. HIDE DEF shape
<1>4. Size(SubSeq(shape, 1, n + 1)) = n + 1 /\ \A i \in 1 .. n + 1 : Above(shape, i) = i - 1
  <2>1. n + 1 \in 0 .. Len(shape)
    BY <1>2, <1>3
  <2>. QED
    BY <1>3, <2>1, ValueItems
<1>5. SubSeq(shape, 1, n + 1) = shape
  BY <1>3, SubSeqFull
<1>6. Size(shape) = n + 1
  BY <1>4, <1>5
<1>7. y \in 0 .. MaxExtraArgs /\ n \in Nat
  BY <1>2, Constants
<1>8. \A j \in 1 .. x + 1 : s[j] = W(s, Len(s) - j + 1)
  <2>1. x + 1 \in 0 .. Len(s)
    BY <1>1, <1>2
  <2>. QED
    BY <1>1, <2>1, TopOfStack
<1>9. ASSUME NEW i \in 1 .. Len(shape)
      PROVE  ItemOK(s, V, A, H, f, shape, y, i, Len(s) - Above(shape, i))
  <2>1. i \in 1 .. n + 1 /\ i \in 1 .. x + 1
    BY <1>2, <1>3
  <2>2. Len(s) - Above(shape, i) = Len(s) - i + 1
    BY <1>1, <1>4, <2>1
  <2>. QED
    BY <1>2, <1>3, <1>8, <2>1, <2>2 DEF ItemOK
<1>10. ASSUME NEW j \in 1 .. y PROVE W(s, Len(s) - Size(shape) - j + 1) \in V
  <2>1. n + 1 + j \in 1 .. x + 1 /\ Len(s) - Size(shape) - j + 1 = Len(s) - (n + 1 + j) + 1
    BY <1>1, <1>2, <1>6, <1>7
  <2>. QED
    BY <1>2, <1>8, <2>1
<1>11. ReturnHeight(shape, y, Len(s)) = Len(s) - x - 1
  BY <1>1, <1>2, <1>6 DEF ReturnHeight
<1>12. f # "main"
  BY Constants
<1>13. FrameOK(s, V, A, H, f, shape, y, Len(s))
  <2>. HIDE DEF y
  <2>. QED
    BY <1>2, <1>3, <1>7, <1>9, <1>10, <1>11, <1>12 DEF FrameOK
<1>14. Offsets(shape, Len(s)) = {}
  BY <1>3 DEF Offsets
<1>15. FrameTraps(s, f, shape, y, Len(s)) = TrapsBelow(s, Len(s) - x - 1)
  BY <1>11, <1>12, <1>14 DEF FrameTraps
<1>. QED
  BY <1>2, <1>12, <1>13, <1>15 DEF InBody, EnvOf, shape

\* APPLY and its kin: control goes where the closure in acc says.
LEMMA EnterClosure ==
  ASSUME NEW s, NEW V, NEW A, NEW H, Layout(s, V, A, H), NEW x, NEW t, Arrived(s, V, A, x, t),
         x \in 0 .. MaxExtraArgs, NEW c \in V, IsClosure(c)
  PROVE  Control(s, V, A, H, Codeptr_val(c.code), c, x, t)
<1>1. RetsOK(s, V, A, H) /\ ValuesOK(V)
  BY DEF Layout
<1>2. \/ \E f \in Functions : c = Closure(f)
      \/ \E f, args : PartialClosure(V, f, args) /\ c = MakeClosure(<<f, "restart">>, Closure(f), args)
  BY <1>1 DEF ValuesOK, IsClosure
<1>3. ASSUME NEW f \in Functions, c = Closure(f)
      PROVE  Control(s, V, A, H, Codeptr_val(c.code), c, x, t)
  <2>1. c.code = <<f, "start">>
    BY <1>3 DEF Closure, MakeClosure
  <2>2. Codeptr_val(c.code) = IF Arity[f] > 1 THEN Point(f, "grab", <<>>) ELSE Body(f, Values(1))
    BY <2>1 DEF Codeptr_val
  <2>3. CASE Arity[f] > 1
    <3>1. x \in 0 .. MaxExtraArgs + Arity[f] - 1
      BY <2>3, Constants
    <3>2. AtGrab(V, Codeptr_val(c.code), c, x)
      BY <1>3, <2>2, <2>3, <3>1 DEF AtGrab
    <3>. QED
      BY <3>2 DEF Control, OnEntry
  <2>4. CASE ~ (Arity[f] > 1)
    <3>1. 0 \in 0 .. x /\ x - 0 <= MaxExtraArgs /\ x - 0 = x /\ 0 + 1 = 1
      BY Constants
    <3>2. InBody(s, V, A, H, Body(f, Values(0 + 1)), Closure(f), x - 0, t)
      BY <1>1, <3>1, EnterBody
    <3>. QED
      BY <1>3, <2>2, <2>4, <3>1, <3>2 DEF Control
  <2>. QED
    BY <2>3, <2>4
<1>4. ASSUME NEW f, NEW args, PartialClosure(V, f, args),
             c = MakeClosure(<<f, "restart">>, Closure(f), args)
      PROVE  Control(s, V, A, H, Codeptr_val(c.code), c, x, t)
  <2>1. c.code = <<f, "restart">>
    BY <1>4 DEF MakeClosure
  <2>2. Codeptr_val(c.code) = Point(f, "restart", <<>>)
    BY <2>1 DEF Codeptr_val
  <2>3. f \in Functions /\ Arity[f] > 1
    <3>1. f \in Functions /\ args \in Seq(V) /\ Len(args) \in 1 .. Arity[f] - 1
      BY <1>4 DEF PartialClosure
    <3>2. Len(args) \in Nat /\ Arity[f] \in Nat
      BY <3>1, LenProperties, Constants
    <3>. QED
      BY <3>1, <3>2
  <2>4. AtRestart(V, Codeptr_val(c.code), c, x)
    BY <1>4, <2>2, <2>3 DEF AtRestart
  <2>. QED
    BY <2>4 DEF Control, OnEntry
<1>. QED
  BY <1>2, <1>3, <1>4

\* RETURN and GRAB: the return frame on top is popped.
LEMMA Returned ==
  ASSUME NEW s, NEW V, NEW A, NEW H, Layout(s, V, A, H), Len(s) \in A,
         NEW r, IsStack(r), Len(r) <= StackWosize, NEW m, Same(s, r, m), Len(s) = m + 3, Len(r) = m,
         NEW t, t = Innermost(TrapsBelow(s, Len(s)))
  PROVE  \E A2, H2 : Layout(r, V, A2, H2) /\ InBody(r, V, A2, H2, s[1].at, s[2], s[3].n, t)
<1>1. RetsOK(s, V, A, H) /\ ValuesOK(V) /\ IsStack(s) /\ Len(s) <= StackWosize
  BY DEF Layout, RetsOK
<1>2. Len(s) \in Nat /\ A \subseteq Nat \ {0}
  BY <1>1, RetsHeights
<1>3. PICK f, shape, x : RetFrame(s, V, A, H, Len(s), f, shape, x)
  BY <1>1 DEF RetsOK
<1>4. Len(s) \in 3 .. Len(s) /\ TrapsBelow(s, Len(s)) = FrameTraps(s, f, shape, x, Len(s) - 3)
  BY <1>1, <1>3, RetTraps
<1>. DEFINE B == A \cap (1 .. m)
            G == H \cap (1 .. m)
<1>6. m \in Nat /\ m = Len(s) - 3
  BY <1>2 DEF Same
<1>7. /\ W(s, Len(s)) = Val_codeptr(Body(f, shape)) /\ W(s, Len(s) - 1) = EnvOf(f)
      /\ W(s, Len(s) - 2) = Val_int(x) /\ FrameOK(s, V, A, H, f, shape, x, m)
  BY <1>3, <1>6 DEF RetFrame
<1>8. s[1] = W(s, Len(s)) /\ s[2] = W(s, Len(s) - 1) /\ s[3] = W(s, Len(s) - 2)
  <2>1. 1 \in 1 .. 3 /\ 2 \in 1 .. 3 /\ 3 \in 1 .. 3 /\ 3 \in 0 .. Len(s)
        /\ Len(s) - 1 + 1 = Len(s) /\ Len(s) - 2 + 1 = Len(s) - 1 /\ Len(s) - 3 + 1 = Len(s) - 2
    BY <1>4
  <2>2. \A j \in 1 .. 3 : s[j] = W(s, Len(s) - j + 1)
    BY <1>1, <2>1, TopOfStack
  <2>3. /\ s[1] = W(s, Len(s) - 1 + 1) /\ s[2] = W(s, Len(s) - 2 + 1)
        /\ s[3] = W(s, Len(s) - 3 + 1)
    BY <2>1, <2>2
  <2>. QED
    BY <2>1, <2>3
<1>9. s[1].at = Body(f, shape) /\ s[2] = EnvOf(f) /\ s[3].n = x
  BY <1>7, <1>8 DEF Val_codeptr, Val_int
<1>14. PICK top \in Int : top = m
  BY <1>6
<1>15. top <= m /\ FrameOK(s, V, A, H, f, shape, x, top)
  BY <1>6, <1>7, <1>14
<1>16. V \subseteq V /\ A \subseteq Nat \ {0} /\ ValuesOK(V) /\ RetsOK(s, V, A, H)
  BY <1>1, <1>2
<1>10. Layout(r, V, B, G)
  BY <1>16, LayoutStable
<1>11. FrameTraps(r, f, shape, x, top) = FrameTraps(s, f, shape, x, top)
  BY <1>15, <1>16, FrameTrapsStable
<1>12. FrameOK(r, V, B, G, f, shape, x, m)
  <2>1. A \cap (1 .. m) \subseteq B /\ H \cap (1 .. m) \subseteq G
    OBVIOUS
  <2>. HIDE DEF B, G
  <2>2. FrameOK(r, V, B, G, f, shape, x, top)
    BY <1>15, <1>16, <2>1, FrameStable
  <2>. QED
    BY <1>14, <2>2
<1>. HIDE DEF B, G
<1>13. InBody(r, V, B, G, s[1].at, s[2], s[3].n, t)
  <2>1. t = Innermost(FrameTraps(r, f, shape, x, Len(r)))
    BY <1>4, <1>6, <1>11, <1>14
  <2>2. FrameOK(r, V, B, G, f, shape, x, Len(r))
    BY <1>12
  <2>. QED
    BY <1>9, <2>1, <2>2 DEF InBody
<1>. QED
  BY <1>10, <1>13

\* RAISE: the trap frame on top is popped.
LEMMA Caught ==
  ASSUME NEW s, NEW V, NEW A, NEW H, Layout(s, V, A, H), Len(s) \in H,
         NEW r, IsStack(r), Len(r) <= StackWosize, NEW m, Same(s, r, m), Len(s) = m + 4, Len(r) = m
  PROVE  \E A2, H2 : Layout(r, V, A2, H2) /\ InBody(r, V, A2, H2, s[1].at, s[3], s[4].n, s[2])
<1>1. RetsOK(s, V, A, H) /\ ValuesOK(V) /\ IsStack(s) /\ Len(s) <= StackWosize
  BY DEF Layout, RetsOK
<1>2. Len(s) \in Nat /\ A \subseteq Nat \ {0}
  BY <1>1, RetsHeights
<1>3. PICK f, shape, x : TrapFrame(s, V, A, H, Len(s), f, shape, x)
  BY DEF Layout
<1>. DEFINE B == A \cap (1 .. m)
            G == H \cap (1 .. m)
<1>6. m \in Nat /\ m = Len(s) - 4
  BY <1>2 DEF Same
<1>7. /\ W(s, Len(s)) = Val_codeptr(Body(f, shape))
      /\ W(s, Len(s) - 1) = Innermost(FrameTraps(s, f, shape, x, m))
      /\ W(s, Len(s) - 2) = EnvOf(f) /\ W(s, Len(s) - 3) = Val_int(x)
      /\ FrameOK(s, V, A, H, f, shape, x, m)
  BY <1>3, <1>6 DEF TrapFrame
<1>8. /\ s[1] = W(s, Len(s)) /\ s[2] = W(s, Len(s) - 1)
      /\ s[3] = W(s, Len(s) - 2) /\ s[4] = W(s, Len(s) - 3)
  <2>1. 1 \in 1 .. 4 /\ 2 \in 1 .. 4 /\ 3 \in 1 .. 4 /\ 4 \in 1 .. 4 /\ 4 \in 0 .. Len(s)
        /\ Len(s) - 1 + 1 = Len(s) /\ Len(s) - 2 + 1 = Len(s) - 1 /\ Len(s) - 3 + 1 = Len(s) - 2
        /\ Len(s) - 4 + 1 = Len(s) - 3
    BY <1>2, <1>6
  <2>2. \A j \in 1 .. 4 : s[j] = W(s, Len(s) - j + 1)
    BY <1>1, <2>1, TopOfStack
  <2>3. /\ s[1] = W(s, Len(s) - 1 + 1) /\ s[2] = W(s, Len(s) - 2 + 1)
        /\ s[3] = W(s, Len(s) - 3 + 1) /\ s[4] = W(s, Len(s) - 4 + 1)
    BY <2>1, <2>2
  <2>. QED
    BY <2>1, <2>3
<1>9. s[1].at = Body(f, shape) /\ s[3] = EnvOf(f) /\ s[4].n = x
  BY <1>7, <1>8 DEF Val_codeptr, Val_int
<1>14. PICK top \in Int : top = m
  BY <1>6
<1>15. top <= m /\ FrameOK(s, V, A, H, f, shape, x, top)
  BY <1>6, <1>7, <1>14
<1>16. V \subseteq V /\ A \subseteq Nat \ {0} /\ ValuesOK(V) /\ RetsOK(s, V, A, H)
  BY <1>1, <1>2
<1>10. Layout(r, V, B, G)
  BY <1>16, LayoutStable
<1>11. FrameTraps(r, f, shape, x, top) = FrameTraps(s, f, shape, x, top)
  BY <1>15, <1>16, FrameTrapsStable
<1>12. FrameOK(r, V, B, G, f, shape, x, m)
  <2>1. A \cap (1 .. m) \subseteq B /\ H \cap (1 .. m) \subseteq G
    OBVIOUS
  <2>. HIDE DEF B, G
  <2>2. FrameOK(r, V, B, G, f, shape, x, top)
    BY <1>15, <1>16, <2>1, FrameStable
  <2>. QED
    BY <1>14, <2>2
<1>. HIDE DEF B, G
<1>13. InBody(r, V, B, G, s[1].at, s[3], s[4].n, s[2])
  <2>1. s[2] = Innermost(FrameTraps(r, f, shape, x, Len(r)))
    BY <1>7, <1>8, <1>11, <1>14
  <2>2. FrameOK(r, V, B, G, f, shape, x, Len(r))
    BY <1>12
  <2>. QED
    BY <1>9, <2>1, <2>2 DEF InBody
<1>. QED
  BY <1>10, <1>13

\* Every trap frame counted is one that the layout knows.
LEMMA FrameTrapsKnown ==
  ASSUME NEW s, NEW V, NEW A, NEW H, RetsOK(s, V, A, H),
         NEW f, NEW shape, NEW x, NEW top, top \in Int, FrameOK(s, V, A, H, f, shape, x, top),
         NEW o \in FrameTraps(s, f, shape, x, top)
  PROVE  \E g \in H : g \in Int /\ g <= top /\ IsOffset(o, g)
<1>1. A \subseteq Nat \ {0} /\ H \subseteq Nat \ {0}
  BY RetsHeights
<1>2. CASE o \in Offsets(shape, top)
  BY <1>1, <1>2, OwnOffsets
<1>3. CASE f # "main" /\ o \in TrapsBelow(s, ReturnHeight(shape, x, top))
  <2>. DEFINE u == ReturnHeight(shape, x, top)
  <2>1. x \in Nat /\ Size(shape) \in Nat /\ u \in A /\ u \in Nat
    BY <1>1, <1>3, FrameBounds
  <2>2. u = top - Size(shape) - x
    BY DEF ReturnHeight
  <2>3. u <= top
    BY <2>1, <2>2
  <2>. HIDE DEF u
  <2>4. PICK g \in H : g < u /\ IsOffset(o, g)
    BY <1>3, <2>1, TrapsBelowBounded DEF u
  <2>. QED
    BY <1>1, <2>1, <2>3, <2>4
<1>. QED
  BY <1>2, <1>3 DEF FrameTraps

LEMMA TrapsKnown ==
  ASSUME NEW s, NEW V, NEW A, NEW H, RetsOK(s, V, A, H),
         NEW p, NEW e, NEW x, NEW t, Control(s, V, A, H, p, e, x, t)
  PROVE  \E C : t = Innermost(C) /\ \A o \in C : \E g \in H : IsOffset(o, g)
<1>1. Len(s) \in Int
  BY RetsHeights
<1>2. CASE InBody(s, V, A, H, p, e, x, t)
  <2>1. PICK f, shape : /\ FrameOK(s, V, A, H, f, shape, x, Len(s))
                        /\ t = Innermost(FrameTraps(s, f, shape, x, Len(s)))
    BY <1>2 DEF InBody
  <2>2. \A o \in FrameTraps(s, f, shape, x, Len(s)) : \E g \in H : IsOffset(o, g)
    BY <1>1, <2>1, FrameTrapsKnown
  <2>. QED
    BY <2>1, <2>2
<1>3. CASE OnEntry(s, V, A, p, e, x, t)
  <2>1. PICK T \in A : t = Innermost(TrapsBelow(s, T))
    BY <1>3 DEF OnEntry, Arrived
  <2>2. \A o \in TrapsBelow(s, T) : \E g \in H : IsOffset(o, g)
    BY <2>1, TrapsBelowBounded
  <2>. QED
    BY <2>1, <2>2
<1>. QED
  BY <1>2, <1>3 DEF Control

\* The innermost of some trap frames is one of them.
LEMMA InnermostIsOne ==
  ASSUME NEW H, \A g \in H : g \in Nat /\ g <= StackWosize,
         NEW C, \A o \in C : \E g \in H : IsOffset(o, g)
  PROVE  /\ C \subseteq 0 .. StackWosize
         /\ C = {} => Innermost(C) = Val_int(-1)
         /\ C # {} => \E o \in C : Innermost(C) = Val_int(o) /\ (\A q \in C : o <= q)
<1>1. C \subseteq 0 .. StackWosize
  <2>1. ASSUME NEW o \in C PROVE o \in 0 .. StackWosize
    <3>1. PICK g \in H : o = StackWosize - g
      BY DEF IsOffset
    <3>2. g \in Nat /\ g <= StackWosize
      OBVIOUS
    <3>. QED
      BY <3>1, <3>2, Constants
  <2>. QED
    BY <2>1
<1>2. CASE C = {}
  BY <1>1, <1>2 DEF Innermost
<1>3. CASE C # {}
  <2>1. C \in SUBSET Nat
    BY <1>1, Constants
  <2>2. \E o \in C : \A q \in C : o <= q
    BY <1>3, <2>1, Least
  <2>3. Min(C) \in C /\ \A q \in C : Min(C) <= q
    BY <2>2 DEF Min
  <2>. QED
    BY <1>1, <1>3, <2>3 DEF Innermost
<1>. QED
  BY <1>2, <1>3

-----------------------------------------------------------------------------
(* The invariant: the words of the stack have a layout that agrees with    *)
(* pc, env, extra_args and trapSp.                                         *)

Laid(V, A, H) ==
  /\ Layout(stack, V, A, H) /\ acc \in V
  /\ Control(stack, V, A, H, pc, env, extra_args, trapSp)

LaidOut == \E V, A, H : Laid(V, A, H)

\* In the body of f, with these items on the stack.
AtBody(V, A, H, f, shape) ==
  /\ pc.fn = f /\ Static = shape /\ env = EnvOf(f)
  /\ FrameOK(stack, V, A, H, f, shape, extra_args, Len(stack))
  /\ trapSp = Innermost(FrameTraps(stack, f, shape, extra_args, Len(stack)))

LEMMA LaidFacts ==
  ASSUME NEW V, NEW A, NEW H, Laid(V, A, H)
  PROVE  /\ Layout(stack, V, A, H) /\ RetsOK(stack, V, A, H) /\ ValuesOK(V) /\ acc \in V
         /\ IsStack(stack) /\ Len(stack) <= StackWosize /\ Len(stack) \in Nat
         /\ A \subseteq Nat \ {0} /\ H \subseteq Nat \ {0}
         /\ A \subseteq 1 .. Len(stack) /\ H \subseteq 1 .. Len(stack)
<1>1. Layout(stack, V, A, H) /\ acc \in V
  BY DEF Laid
<1>2. RetsOK(stack, V, A, H) /\ ValuesOK(V)
  BY <1>1 DEF Layout
<1>3. IsStack(stack) /\ Len(stack) <= StackWosize
  BY <1>2 DEF RetsOK
<1>4. /\ Len(stack) \in Nat /\ A \subseteq Nat \ {0} /\ H \subseteq Nat \ {0}
      /\ A \subseteq 1 .. Len(stack) /\ H \subseteq 1 .. Len(stack)
  BY <1>2, RetsHeights
<1>. QED
  BY <1>1, <1>2, <1>3, <1>4

LEMMA BodyFrame ==
  ASSUME NEW V, NEW A, NEW H, Laid(V, A, H), At("body")
  PROVE  \E f, shape :
           /\ AtBody(V, A, H, f, shape) /\ extra_args \in 0 .. MaxExtraArgs
           /\ shape \in Seq(Items) /\ Len(shape) \in Nat /\ DOMAIN shape = 1 .. Len(shape)
<1>1. pc.at = "body"
  BY DEF At
<1>2. ~ OnEntry(stack, V, A, pc, env, extra_args, trapSp)
  <2>1. \A f, at : pc = Point(f, at, <<>>) => at = "body"
    BY <1>1 DEF Point
  <2>2. ~ AtGrab(V, pc, env, extra_args)
    BY <2>1 DEF AtGrab
  <2>3. ~ AtRestart(V, pc, env, extra_args)
    BY <2>1 DEF AtRestart
  <2>. QED
    BY <2>2, <2>3 DEF OnEntry
<1>3. InBody(stack, V, A, H, pc, env, extra_args, trapSp)
  BY <1>2 DEF Laid, Control
<1>4. PICK f, shape : /\ pc = Body(f, shape) /\ env = EnvOf(f)
                      /\ FrameOK(stack, V, A, H, f, shape, extra_args, Len(stack))
                      /\ trapSp = Innermost(FrameTraps(stack, f, shape, extra_args, Len(stack)))
  BY <1>3 DEF InBody
<1>5. pc.fn = f /\ Static = shape
  BY <1>4 DEF Body, Point, Static
<1>6. extra_args \in 0 .. MaxExtraArgs /\ shape \in Seq(Items)
  BY <1>4 DEF FrameOK
<1>7. Len(shape) \in Nat /\ DOMAIN shape = 1 .. Len(shape)
  BY <1>6
<1>8. AtBody(V, A, H, f, shape)
  BY <1>4, <1>5 DEF AtBody
<1>. QED
  BY <1>6, <1>7, <1>8

\* A stack on which words are pushed keeps its layout.
LEMMA GrownLayout ==
  ASSUME NEW s, NEW V, NEW A, NEW H, Layout(s, V, A, H),
         NEW r, IsStack(r), Len(r) <= StackWosize, Same(s, r, Len(s))
  PROVE  Layout(r, V, A, H)
<1>1. RetsOK(s, V, A, H) /\ ValuesOK(V) /\ V \subseteq V
  BY DEF Layout
<1>2. A \subseteq 1 .. Len(s) /\ H \subseteq 1 .. Len(s)
  BY <1>1, RetsHeights
<1>3. PICK m : m = Len(s)
  OBVIOUS
<1>4. Same(s, r, m)
  BY <1>3
<1>5. Layout(r, V, A \cap (1 .. m), H \cap (1 .. m))
  BY <1>1, <1>4, LayoutStable
<1>6. A \cap (1 .. m) = A /\ H \cap (1 .. m) = H
  BY <1>2, <1>3
<1>. QED
  BY <1>5, <1>6

LEMMA GrownFrame ==
  ASSUME NEW s, NEW V, NEW A, NEW H, Layout(s, V, A, H),
         NEW r, IsStack(r), Len(r) <= StackWosize, Same(s, r, Len(s)),
         NEW f, NEW shape, NEW x, NEW top, top \in Int, top <= Len(s), FrameOK(s, V, A, H, f, shape, x, top)
  PROVE  /\ FrameOK(r, V, A, H, f, shape, x, top)
         /\ FrameTraps(r, f, shape, x, top) = FrameTraps(s, f, shape, x, top)
<1>1. RetsOK(s, V, A, H) /\ V \subseteq V
  BY DEF Layout
<1>2. A \subseteq Nat \ {0}
  BY <1>1, RetsHeights
<1>3. PICK m : m = Len(s)
  OBVIOUS
<1>4. Same(s, r, m) /\ top <= m
  BY <1>3
<1>5. FrameTraps(r, f, shape, x, top) = FrameTraps(s, f, shape, x, top)
  BY <1>1, <1>4, FrameTrapsStable
<1>6. A \cap (1 .. m) \subseteq A /\ H \cap (1 .. m) \subseteq H
  OBVIOUS
<1>7. FrameOK(r, V, A, H, f, shape, x, top)
  BY <1>1, <1>2, <1>4, <1>6, FrameStable
<1>. QED
  BY <1>5, <1>7

LEMMA GrownTraps ==
  ASSUME NEW s, NEW V, NEW A, NEW H, Layout(s, V, A, H),
         NEW r, IsStack(r), Len(r) <= StackWosize, Same(s, r, Len(s)), NEW T, T \in A
  PROVE  TrapsBelow(r, T) = TrapsBelow(s, T)
<1>1. RetsOK(s, V, A, H)
  BY DEF Layout
<1>2. A \subseteq 1 .. Len(s)
  BY <1>1, RetsHeights
<1>3. PICK m : m = Len(s)
  OBVIOUS
<1>4. Same(s, r, m) /\ T <= m
  BY <1>2, <1>3
<1>. QED
  BY <1>1, <1>4, TrapsBelowStable

LEMMA Literal1 ==
  ASSUME NEW a
  PROVE  IsStack(<<a>>) /\ Len(<<a>>) = 1 /\ <<a>>[1] = a
<1>1. <<a>> \in Seq({a})
  OBVIOUS
<1>. QED
  BY <1>1 DEF IsStack

LEMMA Literal3 ==
  ASSUME NEW a, NEW b, NEW c
  PROVE  /\ IsStack(<<a, b, c>>) /\ Len(<<a, b, c>>) = 3
         /\ <<a, b, c>>[1] = a /\ <<a, b, c>>[2] = b /\ <<a, b, c>>[3] = c
<1>1. <<a, b, c>> \in Seq({a, b, c})
  OBVIOUS
<1>. QED
  BY <1>1 DEF IsStack

LEMMA Literal4 ==
  ASSUME NEW a, NEW b, NEW c, NEW d
  PROVE  /\ IsStack(<<a, b, c, d>>) /\ Len(<<a, b, c, d>>) = 4
         /\ <<a, b, c, d>>[1] = a /\ <<a, b, c, d>>[2] = b
         /\ <<a, b, c, d>>[3] = c /\ <<a, b, c, d>>[4] = d
<1>1. <<a, b, c, d>> \in Seq({a, b, c, d})
  OBVIOUS
<1>. QED
  BY <1>1 DEF IsStack

\* A trap frame has four words.
LEMMA TrapHeights ==
  ASSUME NEW s, NEW V, NEW A, NEW H, Layout(s, V, A, H), NEW g \in H
  PROVE  g \in 4 .. Len(s)
<1>1. RetsOK(s, V, A, H)
  BY DEF Layout
<1>2. Len(s) \in Nat /\ A \subseteq Nat \ {0} /\ g \in Nat /\ g <= Len(s)
  BY <1>1, RetsHeights
<1>3. PICK f, shape, x : TrapFrame(s, V, A, H, g, f, shape, x)
  BY DEF Layout
<1>4. PICK top \in Int : top = g - 4
  BY <1>2
<1>5. FrameOK(s, V, A, H, f, shape, x, top)
  BY <1>3, <1>4 DEF TrapFrame
<1>6. /\ x \in Nat /\ Size(shape) \in Nat /\ ReturnHeight(shape, x, top) \in Nat
  BY <1>2, <1>5, FrameBounds
<1>7. ReturnHeight(shape, x, top) = top - Size(shape) - x
  BY DEF ReturnHeight
<1>. QED
  BY <1>2, <1>4, <1>6, <1>7

-----------------------------------------------------------------------------
(* One lemma per instruction.                                              *)

LEMMA RaiseLaid ==
  ASSUME NEW V, NEW A, NEW H, Laid(V, A, H), NEW x \in V, Raise(x)
  PROVE  LaidOut'
<1>1. /\ Layout(stack, V, A, H) /\ RetsOK(stack, V, A, H) /\ IsStack(stack)
      /\ Len(stack) \in Nat /\ Len(stack) <= StackWosize
      /\ H \subseteq Nat \ {0} /\ H \subseteq 1 .. Len(stack)
  BY LaidFacts
<1>2. Control(stack, V, A, H, pc, env, extra_args, trapSp) /\ RetsOK(stack, V, A, H)
  BY <1>1 DEF Laid
<1>3. PICK C : trapSp = Innermost(C) /\ \A o \in C : \E g \in H : IsOffset(o, g)
  BY <1>2, TrapsKnown
<1>4. \A g \in H : g \in Nat /\ g <= StackWosize
  BY <1>1, Constants
<1>5. /\ C \subseteq 0 .. StackWosize
      /\ C = {} => Innermost(C) = Val_int(-1)
      /\ C # {} => \E o \in C : Innermost(C) = Val_int(o) /\ (\A q \in C : o <= q)
  BY <1>3, <1>4, InnermostIsOne
<1>6. acc' = x
  BY DEF Raise
<1>7. CASE C = {}
  <2>1. UNCHANGED <<pc, stack, env, trapSp, extra_args>>
    BY <1>3, <1>5, <1>7 DEF Raise
  <2>2. Laid(V, A, H)'
    BY <1>1, <1>2, <1>6, <2>1 DEF Laid
  <2>. QED
    BY <2>2 DEF LaidOut
<1>8. CASE C # {}
  <2>1. PICK o \in C : trapSp = Val_int(o)
    BY <1>3, <1>5, <1>8
  <2>2. PICK g \in H : IsOffset(o, g)
    BY <1>3, <2>1
  <2>3. o \in Nat /\ g \in 4 .. Len(stack) /\ o = StackWosize - g
    BY <1>1, <1>5, <2>1, <2>2, TrapHeights DEF IsOffset
  <2>4. trapSp # Val_int(-1) /\ trapSp.n = o
    BY <2>1, <2>3 DEF Val_int
  <2>. DEFINE k == Len(stack) - g
              s == SubSeq(stack, k + 1, Len(stack))
              r == SubSeq(s, 4 + 1, Len(s))
  <2>5. FromOffset(trapSp.n) = s
    <3>1. Len(stack) - (StackWosize - o) + 1 = k + 1
      BY <1>1, <2>3, Constants
    <3>. QED
      BY <2>4, <3>1 DEF FromOffset
  <2>6. /\ pc' = s[1].at /\ trapSp' = s[2] /\ env' = s[3] /\ extra_args' = s[4].n
        /\ stack' = r
    <3>1. 4 + 1 = 5
      OBVIOUS
    <3>. HIDE DEF s
    <3>. QED
      BY <2>4, <2>5, <3>1 DEF Raise
  <2>7. k \in 0 .. Len(stack) /\ Len(stack) - k = g
    BY <1>1, <2>3
  <2>8. IsStack(s) /\ Len(s) = g /\ Same(stack, s, g)
    <3>. HIDE DEF k
    <3>. QED
      BY <1>1, <2>7, PoppedStack
  <2>. HIDE DEF k, s
  <2>9. 4 \in 0 .. Len(s)
    BY <2>3, <2>8
  <2>10. IsStack(r) /\ Len(r) = Len(s) - 4 /\ Same(s, r, Len(s) - 4)
    BY <2>8, <2>9, PoppedStack
  <2>. HIDE DEF r
  <2>11. PICK m \in Nat : m = g - 4
    BY <2>3
  <2>12. Same(s, r, m) /\ Len(s) = m + 4 /\ Len(r) = m /\ Len(s) <= StackWosize /\ Len(r) <= StackWosize
    BY <1>1, <2>3, <2>8, <2>10, <2>11, Constants
  <2>. DEFINE B == A \cap (1 .. g)
              G == H \cap (1 .. g)
  <2>13. Layout(s, V, B, G)
    <3>1. V \subseteq V /\ ValuesOK(V)
      BY <1>1 DEF Layout
    <3>. QED
      BY <1>1, <2>8, <2>12, <3>1, LayoutStable
  <2>14. Len(s) \in G
    BY <2>2, <2>3, <2>8
  <2>. HIDE DEF B, G
  <2>15. PICK A2, H2 : Layout(r, V, A2, H2) /\ InBody(r, V, A2, H2, s[1].at, s[3], s[4].n, s[2])
    BY <2>8, <2>10, <2>12, <2>13, <2>14, Caught
  <2>16. Laid(V, A2, H2)'
    BY <1>6, <2>6, <2>15 DEF Laid, Control
  <2>. QED
    BY <2>16 DEF LaidOut
<1>. QED
  BY <1>7, <1>8

LEMMA OverflowLaid ==
  ASSUME NEW V, NEW A, NEW H, Laid(V, A, H), Overflow \/ Raise(OCAML_Out_of_memory)
  PROVE  LaidOut'
<1>1. OCAML_Stack_overflow \in V /\ OCAML_Out_of_memory \in V
  BY LaidFacts DEF ValuesOK
<1>. QED
  BY <1>1, RaiseLaid DEF Overflow

\* The value of an item of the body.
LEMMA LoadLaid ==
  ASSUME NEW V, NEW A, NEW H, Laid(V, A, H), Load
  PROVE  LaidOut'
<1>1. At("body") /\ UNCHANGED <<pc, stack, env, trapSp, extra_args>>
  BY DEF Load
<1>2. PICK f, shape : /\ AtBody(V, A, H, f, shape) /\ shape \in Seq(Items)
                      /\ Len(shape) \in Nat /\ DOMAIN shape = 1 .. Len(shape)
  BY <1>1, BodyFrame
<1>3. /\ Layout(stack, V, A, H) /\ ValuesOK(V) /\ IsStack(stack) /\ Len(stack) \in Nat
      /\ A \subseteq Nat \ {0}
  BY LaidFacts
<1>4. pc.fn = f /\ Static = shape /\ env = EnvOf(f) /\ FrameOK(stack, V, A, H, f, shape, extra_args, Len(stack))
  BY <1>2 DEF AtBody
<1>5. ASSUME NEW i \in 1 .. Len(shape), shape[i] = "v"
      PROVE  peek(Size(SubSeq(shape, 1, i - 1))) \in V
  <2>1. PICK top \in Int : top = Len(stack)
    BY <1>3
  <2>2. FrameOK(stack, V, A, H, f, shape, extra_args, top)
    BY <1>4, <2>1
  <2>3. Above(shape, i) \in Nat
    BY <1>3, <2>2, FrameItem
  <2>4. ItemOK(stack, V, A, H, f, shape, extra_args, i, top - Above(shape, i))
    BY <2>2 DEF FrameOK
  <2>5. W(stack, top - Above(shape, i)) \in V
    BY <1>5, <2>4 DEF ItemOK
  <2>6. Len(stack) - (top - Above(shape, i)) + 1 = Above(shape, i) + 1
    BY <1>3, <2>1, <2>3
  <2>7. stack[Above(shape, i) + 1] \in V
    BY <2>5, <2>6 DEF W
  <2>. QED
    BY <2>7 DEF peek, Above
<1>6. acc' \in V
  <2>1. CASE acc' \in Literals \cup {Closure(g) : g \in Functions}
    BY <1>3, <2>1 DEF ValuesOK
  <2>2. CASE \E i \in DOMAIN Static : Static[i] = "v" /\ acc' = peek(Size(SubSeq(Static, 1, i - 1)))
    BY <1>2, <1>4, <1>5, <2>2
  <2>3. CASE pc.fn # "main" /\ acc' = env
    <3>1. f \in Functions
      BY <1>4, <2>3 DEF FrameOK
    <3>2. acc' = Closure(f)
      BY <1>4, <2>3 DEF EnvOf
    <3>. QED
      BY <1>3, <3>1, <3>2 DEF ValuesOK
  <2>. QED
    BY <2>1, <2>2, <2>3 DEF Load
<1>7. Control(stack, V, A, H, pc, env, extra_args, trapSp)
  BY DEF Laid
<1>8. Laid(V, A, H)'
  BY <1>1, <1>3, <1>6, <1>7 DEF Laid
<1>. QED
  BY <1>8 DEF LaidOut

LEMMA PushLaid ==
  ASSUME NEW V, NEW A, NEW H, Laid(V, A, H), PUSH
  PROVE  LaidOut'
<1>1. At("body")
  BY DEF PUSH
<1>2. PICK f, shape : AtBody(V, A, H, f, shape)
  BY <1>1, BodyFrame
<1>3. /\ Layout(stack, V, A, H) /\ IsStack(stack) /\ Len(stack) \in Nat
      /\ Heights(A) /\ acc \in V
  BY LaidFacts DEF Heights
<1>4. CASE ~ Fits(stack, 1)
  BY <1>4, OverflowLaid DEF PUSH
<1>5. CASE Fits(stack, 1)
  <2>1. /\ stack' = <<acc>> \o stack /\ pc' = Body(pc.fn, <<"v">> \o Static)
        /\ UNCHANGED <<acc, env, trapSp, extra_args>>
    BY <1>5 DEF PUSH, Next1
  <2>2. /\ pc.fn = f /\ Static = shape /\ env = EnvOf(f)
        /\ FrameOK(stack, V, A, H, f, shape, extra_args, Len(stack))
        /\ trapSp = Innermost(FrameTraps(stack, f, shape, extra_args, Len(stack)))
    BY <1>2 DEF AtBody
  <2>. DEFINE t == <<acc>>
              r == t \o stack
              more == <<"v">> \o shape
  <2>3. IsStack(t) /\ Len(t) = 1 /\ t[1] = acc
    BY Literal1
  <2>. HIDE DEF t
  <2>4. /\ IsStack(r) /\ Len(r) = Len(t) + Len(stack) /\ Same(stack, r, Len(stack))
        /\ \A j \in 1 .. Len(t) : W(r, Len(stack) + Len(t) - j + 1) = t[j]
    BY <1>3, <2>3, Pushed
  <2>. HIDE DEF r
  <2>5. Len(r) = Len(stack) + 1 /\ Len(r) <= StackWosize /\ W(r, Len(stack) + 1) = acc
    <3>1. 1 \in 1 .. Len(t) /\ Len(stack) + Len(t) - 1 + 1 = Len(stack) + 1
      BY <1>3, <2>3
    <3>2. W(r, Len(stack) + Len(t) - 1 + 1) = t[1]
      BY <2>4, <3>1
    <3>. QED
      BY <1>3, <1>5, <2>3, <2>4, <3>1, <3>2 DEF Fits
  <2>6. PICK top \in Int : top = Len(stack)
    BY <1>3
  <2>7. top <= Len(stack) /\ FrameOK(stack, V, A, H, f, shape, extra_args, top)
    BY <1>3, <2>2, <2>6
  <2>8. Layout(r, V, A, H)
    BY <1>3, <2>4, <2>5, GrownLayout
  <2>9. /\ FrameOK(r, V, A, H, f, shape, extra_args, top)
        /\ FrameTraps(r, f, shape, extra_args, top) = FrameTraps(stack, f, shape, extra_args, top)
    BY <1>3, <2>4, <2>5, <2>7, GrownFrame
  <2>10. PICK high \in Int : high = top + 1
    OBVIOUS
  <2>11. high = Len(r) /\ W(r, high) = acc /\ Higher(high, top, Words("v"))
    BY <1>3, <2>5, <2>6, <2>10 DEF Words, Higher
  <2>12. ItemOK(r, V, A, H, f, more, extra_args, 1, high) /\ "v" \in Items
    <3>1. more[1] = "v"
      BY <2>9, AddedItem DEF FrameOK, Items
    <3>. QED
      BY <1>3, <2>11, <3>1 DEF ItemOK, Items
  <2>17. more = More("v", shape)
    BY DEF More
  <2>. HIDE DEF more
  <2>13. /\ FrameOK(r, V, A, H, f, more, extra_args, high)
         /\ FrameTraps(r, f, more, extra_args, high) = FrameTraps(r, f, shape, extra_args, top)
    <3>1. FrameKept(r, V, A, H, f, shape, extra_args, top, "v", high, more)
      BY <1>3, <2>9, <2>11, <2>12, <2>17, AddPlain
    <3>. QED
      BY <3>1 DEF FrameKept
  <2>15. InBody(r, V, A, H, Body(f, more), EnvOf(f), extra_args, trapSp)
    BY <2>2, <2>6, <2>9, <2>11, <2>13 DEF InBody
  <2>16. Laid(V, A, H)'
    BY <1>3, <2>1, <2>2, <2>8, <2>15 DEF Laid, Control, r, t, more
  <2>. QED
    BY <2>16 DEF LaidOut
<1>. QED
  BY <1>4, <1>5

LEMMA StopLaid ==
  ASSUME NEW V, NEW A, NEW H, Laid(V, A, H), STOP
  PROVE  LaidOut'
<1>1. Laid(V, A, H)'
  BY DEF Laid, STOP
<1>. QED
  BY <1>1 DEF LaidOut

LEMMA FirstItem ==
  ASSUME NEW shape \in Seq(Items), shape # <<>>
  PROVE  /\ 1 \in 1 .. Len(shape) /\ 1 \in 0 .. Len(shape)
         /\ Above(shape, 1) = 0 /\ Size(SubSeq(shape, 1, 1)) = Words(shape[1])
         /\ shape[1] \in Items /\ Words(shape[1]) \in 1 .. 4
         /\ Head(shape) = shape[1] /\ Tail(shape) = Rest(shape, 1)
<1>1. Len(shape) \in Nat /\ Len(shape) # 0
  BY EmptySeq, LenProperties
<1>2. 1 \in 1 .. Len(shape) /\ 1 \in 0 .. Len(shape)
  BY <1>1
<1>3. Above(shape, 1) = 0
  <2>1. SubSeq(shape, 1, 1 - 1) = <<>>
    BY SubSeqEmpty
  <2>. QED
    BY <2>1, SizeSmall DEF Above
<1>4. /\ Size(Rest(shape, 1)) \in Nat /\ shape[1] \in Items /\ Words(shape[1]) \in 1 .. 4
      /\ Above(shape, 1) + Words(shape[1]) + Size(Rest(shape, 1)) = Size(shape)
  BY <1>2, AboveItem
<1>5. /\ Size(SubSeq(shape, 1, 1)) \in Nat
      /\ Size(shape) = Size(SubSeq(shape, 1, 1)) + Size(Rest(shape, 1))
  BY <1>2, SizeSplit DEF Rest
<1>6. Size(SubSeq(shape, 1, 1)) = Words(shape[1])
  BY <1>3, <1>4, <1>5
<1>7. Tail(shape) = Rest(shape, 1)
  <2>1. /\ Len(Rest(shape, 1)) = Len(shape) - 1 /\ Rest(shape, 1) \in Seq(Items)
        /\ \A j \in 1 .. Len(shape) - 1 : Rest(shape, 1)[j] = shape[1 + j]
    BY <1>2, DropItems
  <2>2. /\ Tail(shape) \in Seq(Items) /\ Len(Tail(shape)) = Len(shape) - 1
        /\ \A j \in 1 .. Len(shape) - 1 : Tail(shape)[j] = shape[j + 1]
    BY <1>1
  <2>3. \A j \in 1 .. Len(shape) - 1 : Tail(shape)[j] = Rest(shape, 1)[j]
    <3>1. \A j \in 1 .. Len(shape) - 1 : 1 + j = j + 1
      BY <1>1
    <3>. QED
      BY <2>1, <2>2, <3>1
  <2>. QED
    BY <2>1, <2>2, <2>3, SeqEqual
<1>8. Head(shape) = shape[1]
  OBVIOUS
<1>. QED
  BY <1>2, <1>3, <1>4, <1>6, <1>7, <1>8

LEMMA FrameTop ==
  ASSUME NEW s, NEW V, NEW A, NEW H, Heights(A), NEW f, NEW shape, NEW x, NEW top, top \in Int,
         FrameOK(s, V, A, H, f, shape, x, top)
  PROVE  top \in Nat
<1>1. x \in Nat /\ Size(shape) \in Nat /\ ReturnHeight(shape, x, top) \in Nat
  BY FrameBounds DEF Heights
<1>. QED
  BY <1>1 DEF ReturnHeight

\* The words above a frame are popped.
LEMMA ShrunkFrame ==
  ASSUME NEW s, NEW V, NEW A, NEW H, Layout(s, V, A, H),
         NEW f, NEW shape, NEW x, NEW top, top \in Int, FrameOK(s, V, A, H, f, shape, x, top),
         NEW r, IsStack(r), Len(r) = top, Same(s, r, top)
  PROVE  \E B, G : /\ Layout(r, V, B, G)
                   /\ InBody(r, V, B, G, Body(f, shape), EnvOf(f), x,
                             Innermost(FrameTraps(s, f, shape, x, top)))
<1>1. RetsOK(s, V, A, H) /\ ValuesOK(V) /\ V \subseteq V
  BY DEF Layout
<1>2. Len(s) <= StackWosize /\ Len(s) \in Nat /\ A \subseteq Nat \ {0}
  BY <1>1, RetsHeights DEF RetsOK
<1>3. top <= Len(s) /\ top \in Nat
  BY DEF Same
<1>4. Len(r) <= StackWosize /\ top <= top
  BY <1>2, <1>3, Constants
<1>. DEFINE B == A \cap (1 .. top)
            G == H \cap (1 .. top)
<1>5. Layout(r, V, B, G)
  BY <1>1, <1>4, LayoutStable
<1>6. FrameTraps(r, f, shape, x, top) = FrameTraps(s, f, shape, x, top)
  BY <1>1, <1>4, FrameTrapsStable
<1>7. FrameOK(r, V, B, G, f, shape, x, top)
  <2>1. A \cap (1 .. top) \subseteq B /\ H \cap (1 .. top) \subseteq G
    OBVIOUS
  <2>. HIDE DEF B, G
  <2>. QED
    BY <1>1, <1>2, <1>4, <2>1, FrameStable
<1>. HIDE DEF B, G
<1>8. InBody(r, V, B, G, Body(f, shape), EnvOf(f), x, Innermost(FrameTraps(s, f, shape, x, top)))
  BY <1>6, <1>7 DEF InBody
<1>. QED
  BY <1>5, <1>8

\* So is the first item of one.
LEMMA PopItem ==
  ASSUME NEW s, NEW V, NEW A, NEW H, Layout(s, V, A, H),
         NEW f, NEW shape, NEW x, FrameOK(s, V, A, H, f, shape, x, Len(s)), shape # <<>>,
         NEW n, n = Words(shape[1]), NEW low, low = Len(s) - n,
         NEW r, r = SubSeq(s, n + 1, Len(s))
  PROVE  \E B, G : /\ Layout(r, V, B, G)
                   /\ InBody(r, V, B, G, Body(f, Tail(shape)), EnvOf(f), x,
                             Innermost(FrameTraps(s, f, Tail(shape), x, low)))
<1>1. RetsOK(s, V, A, H)
  BY DEF Layout
<1>2. Len(s) \in Nat /\ Heights(A) /\ IsStack(s)
  BY <1>1, RetsHeights DEF Heights, RetsOK
<1>3. shape \in Seq(Items)
  BY DEF FrameOK
<1>4. /\ 1 \in 0 .. Len(shape) /\ Size(SubSeq(shape, 1, 1)) = Words(shape[1])
      /\ Words(shape[1]) \in 1 .. 4 /\ Tail(shape) = Rest(shape, 1)
  BY <1>3, FirstItem
<1>5. PICK top \in Int : top = Len(s)
  BY <1>2
<1>6. FrameOK(s, V, A, H, f, shape, x, top)
  BY <1>5
<1>7. low \in Int /\ Higher(top, low, Size(SubSeq(shape, 1, 1)))
  <2>1. n \in Int /\ n = Size(SubSeq(shape, 1, 1))
    BY <1>4
  <2>2. top = low + n /\ low \in Int
    BY <1>2, <1>5, <2>1
  <2>. QED
    BY <2>1, <2>2 DEF Higher
<1>8. PICK rest : rest = Rest(shape, 1)
  OBVIOUS
<1>14. FrameDropped(s, V, A, H, f, shape, x, top, 1, low, rest)
  <2>1. Heights(A) /\ top \in Int /\ 1 \in 0 .. Len(shape) /\ low \in Int
    BY <1>2, <1>4, <1>7
  <2>. QED
    BY <1>6, <1>7, <1>8, <2>1, DropFrame
<1>9. FrameOK(s, V, A, H, f, rest, x, low)
  BY <1>14 DEF FrameDropped
<1>10. low \in Nat
  BY <1>2, <1>7, <1>9, FrameTop
<1>11. n \in 0 .. Len(s)
  BY <1>2, <1>4, <1>10
<1>12. IsStack(r) /\ Len(r) = low /\ Same(s, r, low)
  BY <1>2, <1>11, PoppedStack
<1>13. \E B, G : /\ Layout(r, V, B, G)
                 /\ InBody(r, V, B, G, Body(f, rest), EnvOf(f), x, Innermost(FrameTraps(s, f, rest, x, low)))
  BY <1>7, <1>9, <1>12, ShrunkFrame
<1>. QED
  BY <1>4, <1>8, <1>13

LEMMA PopLaid ==
  ASSUME NEW V, NEW A, NEW H, Laid(V, A, H), POP
  PROVE  LaidOut'
<1>1. /\ At("body") /\ Static # <<>> /\ Head(Static) = "v"
      /\ stack' = SubSeq(stack, 1 + 1, Len(stack)) /\ pc' = Body(pc.fn, Tail(Static))
      /\ UNCHANGED <<acc, env, trapSp, extra_args>>
  BY DEF POP, Popped, Next1
<1>2. PICK f, shape : AtBody(V, A, H, f, shape) /\ shape \in Seq(Items)
  BY <1>1, BodyFrame
<1>3. Layout(stack, V, A, H) /\ Len(stack) \in Nat /\ Heights(A) /\ acc \in V
  BY LaidFacts DEF Heights
<1>4. /\ pc.fn = f /\ Static = shape /\ env = EnvOf(f)
      /\ FrameOK(stack, V, A, H, f, shape, extra_args, Len(stack))
      /\ trapSp = Innermost(FrameTraps(stack, f, shape, extra_args, Len(stack)))
  BY <1>2 DEF AtBody
<1>5. /\ 1 \in 0 .. Len(shape) /\ Size(SubSeq(shape, 1, 1)) = Words(shape[1])
      /\ shape[1] = "v" /\ Words(shape[1]) = 1 /\ Tail(shape) = Rest(shape, 1) /\ shape # <<>>
  <2>1. shape # <<>> /\ Head(shape) = "v"
    BY <1>1, <1>4
  <2>2. /\ 1 \in 0 .. Len(shape) /\ Size(SubSeq(shape, 1, 1)) = Words(shape[1])
        /\ Head(shape) = shape[1] /\ Tail(shape) = Rest(shape, 1)
    BY <1>2, <2>1, FirstItem
  <2>. QED
    BY <2>1, <2>2 DEF Words
<1>6. PICK low \in Int : low = Len(stack) - 1
  BY <1>3
<1>. DEFINE t == Innermost(FrameTraps(stack, f, Tail(shape), extra_args, low))
            r == SubSeq(stack, 1 + 1, Len(stack))
<1>7. PICK B, G : /\ Layout(r, V, B, G)
                  /\ InBody(r, V, B, G, Body(f, Tail(shape)), EnvOf(f), extra_args, t)
  <2>1. 1 = Words(shape[1])
    BY <1>5
  <2>2. \E B, G : /\ Layout(r, V, B, G)
                  /\ InBody(r, V, B, G, Body(f, Tail(shape)), EnvOf(f), extra_args,
                            Innermost(FrameTraps(stack, f, Tail(shape), extra_args, low)))
    BY <1>3, <1>4, <1>5, <1>6, <2>1, PopItem
  <2>. QED
    BY <2>2
<1>8. FrameTraps(stack, f, Tail(shape), extra_args, low) = FrameTraps(stack, f, shape, extra_args, Len(stack))
  <2>1. PICK top \in Int : top = Len(stack)
    BY <1>3
  <2>2. FrameOK(stack, V, A, H, f, shape, extra_args, top)
    BY <1>4, <2>1
  <2>3. Higher(top, low, Size(SubSeq(shape, 1, 1)))
    BY <1>3, <1>5, <1>6, <2>1 DEF Higher
  <2>4. NoTraps(shape, 1)
    BY <1>5 DEF NoTraps
  <2>5. PICK rest : rest = Rest(shape, 1)
    OBVIOUS
  <2>6. FrameTraps(stack, f, rest, extra_args, low) = FrameTraps(stack, f, shape, extra_args, top)
    BY <1>3, <1>5, <2>2, <2>3, <2>4, <2>5, DropPlain
  <2>. QED
    BY <1>5, <2>1, <2>5, <2>6
<1>9. Laid(V, B, G)'
  BY <1>1, <1>3, <1>4, <1>7, <1>8 DEF Laid, Control
<1>. QED
  BY <1>9 DEF LaidOut

LEMMA PopTrapLaid ==
  ASSUME NEW V, NEW A, NEW H, Laid(V, A, H), POPTRAP
  PROVE  LaidOut'
<1>1. /\ At("body") /\ Static # <<>> /\ Head(Static) = "trap"
      /\ stack' = SubSeq(stack, 4 + 1, Len(stack)) /\ pc' = Body(pc.fn, Tail(Static))
      /\ trapSp' = stack[1 + 1] /\ UNCHANGED <<acc, env, extra_args>>
  BY DEF POPTRAP, Popped, Next1, peek
<1>2. PICK f, shape : AtBody(V, A, H, f, shape) /\ shape \in Seq(Items)
  BY <1>1, BodyFrame
<1>3. Layout(stack, V, A, H) /\ Len(stack) \in Nat /\ Heights(A) /\ acc \in V
  BY LaidFacts DEF Heights
<1>4. /\ pc.fn = f /\ Static = shape /\ env = EnvOf(f)
      /\ FrameOK(stack, V, A, H, f, shape, extra_args, Len(stack))
  BY <1>2 DEF AtBody
<1>5. /\ 1 \in 1 .. Len(shape) /\ Above(shape, 1) = 0
      /\ shape[1] = "trap" /\ Words(shape[1]) = 4 /\ Tail(shape) = Rest(shape, 1) /\ shape # <<>>
  <2>1. shape # <<>> /\ Head(shape) = "trap"
    BY <1>1, <1>4
  <2>2. /\ 1 \in 1 .. Len(shape) /\ Above(shape, 1) = 0
        /\ Head(shape) = shape[1] /\ Tail(shape) = Rest(shape, 1)
    BY <1>2, <2>1, FirstItem
  <2>. QED
    BY <2>1, <2>2 DEF Words
<1>6. PICK low \in Int : low = Len(stack) - 4
  BY <1>3
<1>. DEFINE t == Innermost(FrameTraps(stack, f, Tail(shape), extra_args, low))
            r == SubSeq(stack, 4 + 1, Len(stack))
<1>7. PICK B, G : /\ Layout(r, V, B, G)
                  /\ InBody(r, V, B, G, Body(f, Tail(shape)), EnvOf(f), extra_args, t)
  <2>1. 4 = Words(shape[1])
    BY <1>5
  <2>2. \E B, G : /\ Layout(r, V, B, G)
                  /\ InBody(r, V, B, G, Body(f, Tail(shape)), EnvOf(f), extra_args,
                            Innermost(FrameTraps(stack, f, Tail(shape), extra_args, low)))
    BY <1>3, <1>4, <1>5, <1>6, <2>1, PopItem
  <2>. QED
    BY <2>2
<1>8. stack[1 + 1] = t
  <2>1. /\ Len(stack) \in H
        /\ W(stack, Len(stack)) = Val_codeptr(Body(f, Tail(shape)))
        /\ W(stack, Len(stack) - 3) = Val_int(extra_args)
    <3>1. ItemOK(stack, V, A, H, f, shape, extra_args, 1, Len(stack) - Above(shape, 1))
      BY <1>4, <1>5 DEF FrameOK
    <3>2. Len(stack) - Above(shape, 1) = Len(stack)
      BY <1>3, <1>5
    <3>. QED
      BY <1>5, <3>1, <3>2 DEF ItemOK
  <2>2. PICK f2, shape2, x2 : TrapFrame(stack, V, A, H, Len(stack), f2, shape2, x2)
    BY <1>3, <2>1 DEF Layout
  <2>3. /\ W(stack, Len(stack)) = Val_codeptr(Body(f2, shape2))
        /\ W(stack, Len(stack) - 1) = Innermost(FrameTraps(stack, f2, shape2, x2, low))
        /\ W(stack, Len(stack) - 3) = Val_int(x2)
    BY <1>6, <2>2 DEF TrapFrame
  <2>4. f2 = f /\ shape2 = Tail(shape) /\ x2 = extra_args
    <3>1. Val_codeptr(Body(f2, shape2)) = Val_codeptr(Body(f, Tail(shape))) /\ Val_int(x2) = Val_int(extra_args)
      BY <2>1, <2>3
    <3>. QED
      BY <3>1 DEF Val_codeptr, Body, Point, Val_int
  <2>5. Len(stack) - (Len(stack) - 1) + 1 = 1 + 1
    BY <1>3
  <2>. QED
    BY <2>3, <2>4, <2>5 DEF W
<1>9. Laid(V, B, G)'
  BY <1>1, <1>3, <1>4, <1>7, <1>8 DEF Laid, Control
<1>. QED
  BY <1>9 DEF LaidOut

LEMMA PushRetaddrLaid ==
  ASSUME NEW V, NEW A, NEW H, Laid(V, A, H), PUSH_RETADDR
  PROVE  LaidOut'
<1>1. At("body")
  BY DEF PUSH_RETADDR
<1>2. PICK f, shape : AtBody(V, A, H, f, shape)
  BY <1>1, BodyFrame
<1>3. /\ Layout(stack, V, A, H) /\ IsStack(stack) /\ Len(stack) \in Nat
      /\ Heights(A) /\ acc \in V
  BY LaidFacts DEF Heights
<1>4. CASE ~ Fits(stack, 3)
  BY <1>4, OverflowLaid DEF PUSH_RETADDR
<1>5. CASE Fits(stack, 3)
  <2>2. /\ pc.fn = f /\ Static = shape /\ env = EnvOf(f)
        /\ FrameOK(stack, V, A, H, f, shape, extra_args, Len(stack))
        /\ trapSp = Innermost(FrameTraps(stack, f, shape, extra_args, Len(stack)))
    BY <1>2 DEF AtBody
  <2>. DEFINE t == <<Val_codeptr(Body(f, shape)), EnvOf(f), Val_int(extra_args)>>
              r == t \o stack
              more == <<"ret">> \o shape
  <2>1. /\ stack' = r /\ pc' = Body(f, more)
        /\ UNCHANGED <<acc, env, trapSp, extra_args>>
    BY <1>5, <2>2 DEF PUSH_RETADDR, Next1, ReturnFrame
  <2>3. /\ IsStack(t) /\ Len(t) = 3 /\ t[1] = Val_codeptr(Body(f, shape)) /\ t[2] = EnvOf(f)
        /\ t[3] = Val_int(extra_args)
    BY Literal3
  <2>20. IsStack(t) /\ IsStack(stack)
    BY <1>3, <2>3
  <2>. HIDE DEF t
  <2>4. /\ IsStack(r) /\ Len(r) = Len(t) + Len(stack) /\ Same(stack, r, Len(stack))
        /\ \A j \in 1 .. Len(t) : W(r, Len(stack) + Len(t) - j + 1) = t[j]
    BY <2>20, Pushed
  <2>. HIDE DEF r
  <2>10. PICK high \in Int : high = Len(stack) + 3
    BY <1>3
  <2>5. /\ Len(r) = high /\ Len(r) <= StackWosize /\ high \in 1 .. Len(r)
        /\ W(r, high) = t[1] /\ W(r, high - 1) = t[2] /\ W(r, high - 2) = t[3]
    <3>1. /\ 1 \in 1 .. Len(t) /\ 2 \in 1 .. Len(t) /\ 3 \in 1 .. Len(t)
          /\ Len(stack) + Len(t) - 1 + 1 = high
          /\ Len(stack) + Len(t) - 2 + 1 = high - 1
          /\ Len(stack) + Len(t) - 3 + 1 = high - 2
      BY <1>3, <2>3, <2>10
    <3>2. /\ W(r, Len(stack) + Len(t) - 1 + 1) = t[1]
          /\ W(r, Len(stack) + Len(t) - 2 + 1) = t[2]
          /\ W(r, Len(stack) + Len(t) - 3 + 1) = t[3]
      BY <2>4, <3>1
    <3>3. Len(r) = high /\ Len(r) <= StackWosize /\ high \in 1 .. Len(r)
      BY <1>3, <1>5, <2>3, <2>4, <2>10 DEF Fits
    <3>. QED
      BY <3>1, <3>2, <3>3
  <2>6. PICK top \in Int : top = Len(stack)
    BY <1>3
  <2>7. top <= Len(stack) /\ FrameOK(stack, V, A, H, f, shape, extra_args, top)
    BY <1>3, <2>2, <2>6
  <2>8. Layout(r, V, A, H)
    BY <1>3, <2>4, <2>5, GrownLayout
  <2>9. /\ FrameOK(r, V, A, H, f, shape, extra_args, top)
        /\ FrameTraps(r, f, shape, extra_args, top) = FrameTraps(stack, f, shape, extra_args, top)
    BY <1>3, <2>4, <2>5, <2>7, GrownFrame
  <2>11. RetFrame(r, V, A, H, high, f, shape, extra_args)
    <3>1. high - 3 = top
      BY <1>3, <2>6, <2>10
    <3>. QED
      BY <2>3, <2>5, <2>9, <3>1 DEF RetFrame
  <2>. DEFINE B == A \cup {high}
  <2>12. Layout(r, V, B, H)
    <3>1. high \in 1 .. Len(r)
      BY <2>5
    <3>2. Layout(r, V, A \cup {high}, H)
      BY <2>8, <2>11, <3>1, AddRet
    <3>. QED
      BY <3>2
  <2>13. Heights(B) /\ A \subseteq B /\ H \subseteq H /\ high \in B
    <3>1. high \in Nat \ {0}
      BY <1>3, <2>10
    <3>. QED
      BY <1>3, <3>1 DEF Heights
  <2>. HIDE DEF B
  <2>14. FrameOK(r, V, B, H, f, shape, extra_args, top)
    BY <2>9, <2>13, FrameMonotonic
  <2>15. ItemOK(r, V, B, H, f, more, extra_args, 1, high) /\ "ret" \in Items /\ more = More("ret", shape)
    <3>1. more[1] = "ret" /\ Rest(more, 1) = shape
      BY <2>9, AddedItem DEF FrameOK, Items
    <3>. QED
      BY <2>3, <2>5, <2>13, <3>1 DEF ItemOK, Items, More
  <2>16. Higher(high, top, Words("ret"))
    BY <2>6, <2>10 DEF Higher, Words
  <2>. HIDE DEF more
  <2>17. /\ FrameOK(r, V, B, H, f, more, extra_args, high)
         /\ FrameTraps(r, f, more, extra_args, high) = FrameTraps(r, f, shape, extra_args, top)
    <3>1. FrameKept(r, V, B, H, f, shape, extra_args, top, "ret", high, more)
      BY <2>13, <2>14, <2>15, <2>16, AddPlain
    <3>. QED
      BY <3>1 DEF FrameKept
  <2>18. InBody(r, V, B, H, Body(f, more), EnvOf(f), extra_args, trapSp)
    BY <2>2, <2>5, <2>6, <2>9, <2>17 DEF InBody
  <2>19. Laid(V, B, H)'
    BY <1>3, <2>1, <2>2, <2>12, <2>18 DEF Laid, Control
  <2>. QED
    BY <2>19 DEF LaidOut
<1>. QED
  BY <1>4, <1>5

LEMMA PushTrapLaid ==
  ASSUME NEW V, NEW A, NEW H, Laid(V, A, H), PUSHTRAP
  PROVE  LaidOut'
<1>1. At("body")
  BY DEF PUSHTRAP
<1>2. PICK f, shape : AtBody(V, A, H, f, shape)
  BY <1>1, BodyFrame
<1>3. /\ Layout(stack, V, A, H) /\ IsStack(stack) /\ Len(stack) \in Nat
      /\ Heights(A) /\ acc \in V
  BY LaidFacts DEF Heights
<1>4. CASE ~ Fits(stack, 4)
  BY <1>4, OverflowLaid DEF PUSHTRAP
<1>5. CASE Fits(stack, 4)
  <2>2. /\ pc.fn = f /\ Static = shape /\ env = EnvOf(f)
        /\ FrameOK(stack, V, A, H, f, shape, extra_args, Len(stack))
        /\ trapSp = Innermost(FrameTraps(stack, f, shape, extra_args, Len(stack)))
    BY <1>2 DEF AtBody
  <2>. DEFINE t == <<Val_codeptr(Body(f, shape)), trapSp, EnvOf(f), Val_int(extra_args)>>
              r == t \o stack
              more == <<"trap">> \o shape
  <2>1. /\ stack' = r /\ pc' = Body(f, more) /\ trapSp' = Val_int(StackWosize - Len(r))
        /\ UNCHANGED <<acc, env, extra_args>>
    BY <1>5, <2>2 DEF PUSHTRAP, Next1, Offset
  <2>3. /\ IsStack(t) /\ Len(t) = 4 /\ t[1] = Val_codeptr(Body(f, shape)) /\ t[2] = trapSp
        /\ t[3] = EnvOf(f) /\ t[4] = Val_int(extra_args)
    BY Literal4
  <2>20. IsStack(t) /\ IsStack(stack)
    BY <1>3, <2>3
  <2>. HIDE DEF t
  <2>4. /\ IsStack(r) /\ Len(r) = Len(t) + Len(stack) /\ Same(stack, r, Len(stack))
        /\ \A j \in 1 .. Len(t) : W(r, Len(stack) + Len(t) - j + 1) = t[j]
    BY <2>20, Pushed
  <2>. HIDE DEF r
  <2>10. PICK high \in Int : high = Len(stack) + 4
    BY <1>3
  <2>5. /\ Len(r) = high /\ Len(r) <= StackWosize /\ high \in 1 .. Len(r) /\ high \in Nat \ {0}
        /\ W(r, high) = t[1] /\ W(r, high - 1) = t[2] /\ W(r, high - 2) = t[3] /\ W(r, high - 3) = t[4]
    <3>1. /\ 1 \in 1 .. Len(t) /\ 2 \in 1 .. Len(t) /\ 3 \in 1 .. Len(t) /\ 4 \in 1 .. Len(t)
          /\ Len(stack) + Len(t) - 1 + 1 = high
          /\ Len(stack) + Len(t) - 2 + 1 = high - 1
          /\ Len(stack) + Len(t) - 3 + 1 = high - 2
          /\ Len(stack) + Len(t) - 4 + 1 = high - 3
      BY <1>3, <2>3, <2>10
    <3>2. /\ W(r, Len(stack) + Len(t) - 1 + 1) = t[1]
          /\ W(r, Len(stack) + Len(t) - 2 + 1) = t[2]
          /\ W(r, Len(stack) + Len(t) - 3 + 1) = t[3]
          /\ W(r, Len(stack) + Len(t) - 4 + 1) = t[4]
      BY <2>4, <3>1
    <3>3. Len(r) = high /\ Len(r) <= StackWosize /\ high \in 1 .. Len(r) /\ high \in Nat \ {0}
      BY <1>3, <1>5, <2>3, <2>4, <2>10 DEF Fits
    <3>. QED
      BY <3>1, <3>2, <3>3
  <2>6. PICK top \in Int : top = Len(stack)
    BY <1>3
  <2>7. top <= Len(stack) /\ FrameOK(stack, V, A, H, f, shape, extra_args, top)
    BY <1>3, <2>2, <2>6
  <2>8. Layout(r, V, A, H)
    BY <1>3, <2>4, <2>5, GrownLayout
  <2>9. /\ FrameOK(r, V, A, H, f, shape, extra_args, top)
        /\ FrameTraps(r, f, shape, extra_args, top) = FrameTraps(stack, f, shape, extra_args, top)
    BY <1>3, <2>4, <2>5, <2>7, GrownFrame
  <2>11. TrapFrame(r, V, A, H, high, f, shape, extra_args)
    <3>1. high - 4 = top
      BY <1>3, <2>6, <2>10
    <3>. QED
      BY <2>2, <2>3, <2>5, <2>6, <2>9, <3>1 DEF TrapFrame
  <2>. DEFINE G == H \cup {high}
  <2>12. Layout(r, V, A, G)
    <3>1. high \in 1 .. Len(r)
      BY <2>5
    <3>2. Layout(r, V, A, H \cup {high})
      BY <2>8, <2>11, <3>1, AddTrap
    <3>. QED
      BY <3>2
  <2>13. A \subseteq A /\ H \subseteq G /\ high \in G
    OBVIOUS
  <2>. HIDE DEF G
  <2>14. FrameOK(r, V, A, G, f, shape, extra_args, top)
    BY <2>9, <2>13, FrameMonotonic
  <2>15. ItemOK(r, V, A, G, f, more, extra_args, 1, high) /\ "trap" \in Items /\ more = More("trap", shape)
    <3>1. more[1] = "trap" /\ Rest(more, 1) = shape
      BY <2>9, AddedItem DEF FrameOK, Items
    <3>. QED
      BY <2>3, <2>5, <2>13, <3>1 DEF ItemOK, Items, More
  <2>16. Higher(high, top, Words("trap"))
    BY <2>6, <2>10 DEF Higher, Words
  <2>. HIDE DEF more
  <2>17. /\ FrameOK(r, V, A, G, f, more, extra_args, high)
         /\ \E o \in Offsets(more, high) : IsOffset(o, high)
    <3>1. FrameAdded(r, V, A, G, f, shape, extra_args, top, "trap", high, more)
      BY <1>3, <2>14, <2>15, <2>16, AddItem
    <3>. QED
      BY <3>1 DEF FrameAdded
  <2>. DEFINE C == FrameTraps(r, f, more, extra_args, high)
  <2>18. Innermost(C) = Val_int(StackWosize - high)
    <3>1. RetsOK(r, V, A, G)
      BY <2>12 DEF Layout
    <3>2. ASSUME NEW o \in C PROVE \E g \in G : g \in Int /\ g <= high /\ IsOffset(o, g)
      BY <2>17, <3>1, <3>2, FrameTrapsKnown
    <3>3. StackWosize - high \in C
      BY <2>17 DEF FrameTraps, IsOffset
    <3>. HIDE DEF C
    <3>4. \A g \in G : g \in Nat /\ g <= StackWosize
      BY <2>5, <3>1, RetsHeights, Constants
    <3>5. \A o \in C : \E g \in G : IsOffset(o, g)
      BY <3>2
    <3>6. PICK o \in C : Innermost(C) = Val_int(o) /\ (\A q \in C : o <= q)
      BY <3>3, <3>4, <3>5, InnermostIsOne
    <3>7. PICK g \in G : g \in Int /\ g <= high /\ o = StackWosize - g
      BY <3>2 DEF IsOffset
    <3>8. o = StackWosize - high
      BY <2>5, <3>3, <3>6, <3>7, Constants
    <3>. QED
      BY <3>6, <3>8
  <2>19. InBody(r, V, A, G, Body(f, more), EnvOf(f), extra_args, Val_int(StackWosize - Len(r)))
    BY <2>5, <2>17, <2>18 DEF InBody
  <2>21. Laid(V, A, G)'
    BY <1>3, <2>1, <2>2, <2>12, <2>19 DEF Laid, Control
  <2>. QED
    BY <2>21 DEF LaidOut
<1>. QED
  BY <1>4, <1>5

-----------------------------------------------------------------------------
(* Calls.                                                                  *)

\* x arguments lie on the return frame of a call.
Pending(s, V, A, x, t) ==
  /\ x \in Nat /\ Len(s) - x \in A
  /\ \A j \in 1 .. x : s[j] \in V
  /\ t = Innermost(TrapsBelow(s, Len(s) - x))

LEMMA PendingArrived ==
  ASSUME NEW s, NEW V, NEW A, NEW x, NEW t, NEW y,
         Len(s) \in Nat, Pending(s, V, A, x, t), x >= 1, y = x - 1
  PROVE  Arrived(s, V, A, y, t)
<1>1. x \in Nat /\ y \in Nat /\ Len(s) - y - 1 = Len(s) - x /\ y + 1 = x
  BY DEF Pending
<1>. QED
  BY <1>1 DEF Pending, Arrived

\* More arguments are pushed on those.
LEMMA ArgumentsPushed ==
  ASSUME NEW q, NEW V, NEW A, NEW H, NEW x, NEW t, NEW args, NEW y,
         Layout(q, V, A, H), Pending(q, V, A, x, t), IsStack(args), \A j \in 1 .. Len(args) : args[j] \in V,
         Len(args) + Len(q) <= StackWosize, y = Len(args) + x
  PROVE  Layout(args \o q, V, A, H) /\ Pending(args \o q, V, A, y, t)
<1>. DEFINE r == args \o q
<1>1. RetsOK(q, V, A, H) /\ IsStack(q)
  BY DEF Layout, RetsOK
<1>2. Len(q) \in Nat /\ A \subseteq Nat \ {0}
  BY <1>1, RetsHeights
<1>3. IsStack(args) /\ IsStack(q)
  BY <1>1
<1>4. /\ IsStack(r) /\ Len(r) = Len(args) + Len(q) /\ Len(args) \in Nat
      /\ \A j \in 1 .. Len(args) : r[j] = args[j]
      /\ Same(q, r, Len(q))
  BY <1>3, Pushed
<1>5. /\ x \in Nat /\ Len(q) - x \in A /\ (\A j \in 1 .. x : q[j] \in V)
      /\ t = Innermost(TrapsBelow(q, Len(q) - x))
  BY DEF Pending
<1>. HIDE DEF r
<1>6. Len(r) <= StackWosize
  BY <1>4
<1>7. Layout(r, V, A, H)
  BY <1>4, <1>6, GrownLayout
<1>8. TrapsBelow(r, Len(q) - x) = TrapsBelow(q, Len(q) - x)
  <2>1. PICK T \in A : T = Len(q) - x
    BY <1>5
  <2>2. TrapsBelow(r, T) = TrapsBelow(q, T)
    BY <1>4, <1>6, <2>1, GrownTraps
  <2>. QED
    BY <2>1, <2>2
<1>9. Len(r) - y = Len(q) - x /\ y \in Nat
  BY <1>2, <1>4, <1>5
<1>10. ASSUME NEW j \in 1 .. y PROVE r[j] \in V
  <2>1. CASE j \in 1 .. Len(args)
    BY <1>4, <2>1
  <2>2. CASE ~ j \in 1 .. Len(args)
    <3>1. PICK i \in 1 .. x : j = Len(args) + i
      <4>1. j - Len(args) \in 1 .. x /\ j = Len(args) + (j - Len(args))
        BY <1>4, <1>5, <1>9, <2>2
      <4>. QED
        BY <4>1
    <3>2. x <= Len(q)
      BY <1>2, <1>5
    <3>3. PICK h \in 1 .. Len(q) : h = Len(q) - i + 1
      <4>1. Len(q) - i + 1 \in 1 .. Len(q)
        BY <1>2, <1>5, <3>1, <3>2
      <4>. QED
        BY <4>1
    <3>4. Len(r) - h + 1 = j /\ Len(q) - h + 1 = i
      BY <1>2, <1>4, <1>5, <3>1, <3>3
    <3>5. W(r, h) = W(q, h)
      BY <1>4, <3>3 DEF Same
    <3>6. r[j] = q[i]
      BY <3>4, <3>5 DEF W
    <3>. QED
      BY <1>5, <3>1, <3>6
  <2>. QED
    BY <2>1, <2>2
<1>11. Pending(r, V, A, y, t)
  BY <1>5, <1>8, <1>9, <1>10 DEF Pending
<1>. QED
  BY <1>7, <1>11 DEF r

IsPopped(s, r, n) == r = SubSeq(s, n + 1, Len(s))

\* Arguments are popped.
LEMMA ArgumentsPopped ==
  ASSUME NEW s, NEW V, NEW A, NEW H, NEW x, NEW t, NEW n, NEW r, NEW y,
         Layout(s, V, A, H), Pending(s, V, A, x, t), n \in 0 .. x, IsPopped(s, r, n), y = x - n
  PROVE  \E B, G : Layout(r, V, B, G) /\ Pending(r, V, B, y, t)
<1>1. RetsOK(s, V, A, H) /\ IsStack(s) /\ Len(s) <= StackWosize /\ ValuesOK(V)
  BY DEF Layout, RetsOK
<1>2. Len(s) \in Nat /\ A \subseteq Nat \ {0}
  BY <1>1, RetsHeights
<1>3. /\ x \in Nat /\ Len(s) - x \in A /\ (\A j \in 1 .. x : s[j] \in V)
      /\ t = Innermost(TrapsBelow(s, Len(s) - x))
  BY DEF Pending
<1>4. n \in 0 .. Len(s)
  BY <1>2, <1>3
<1>5. PICK m \in Nat : m = Len(s) - n
  <2>1. Len(s) - n \in Nat
    BY <1>2, <1>4
  <2>. QED
    BY <2>1
<1>6. /\ IsStack(r) /\ Len(r) = Len(s) - n /\ Same(s, r, Len(s) - n)
      /\ \A j \in 1 .. Len(s) - n : r[j] = s[n + j]
  BY <1>1, <1>4, PoppedStack DEF IsPopped
<1>7. IsStack(r) /\ Len(r) = m /\ Same(s, r, m) /\ Len(r) <= StackWosize
  BY <1>1, <1>2, <1>4, <1>5, <1>6, Constants
<1>. DEFINE B == A \cap (1 .. m)
            G == H \cap (1 .. m)
<1>8. Layout(r, V, B, G)
  <2>1. V \subseteq V /\ ValuesOK(V)
    BY <1>1
  <2>. QED
    BY <1>7, <2>1, LayoutStable
<1>9. PICK T \in A : T = Len(s) - x
  BY <1>3
<1>10. T <= m /\ T \in 1 .. m
  BY <1>2, <1>3, <1>5, <1>9
<1>11. TrapsBelow(r, T) = TrapsBelow(s, T)
  BY <1>1, <1>7, <1>10, TrapsBelowStable
<1>12. y \in Nat /\ Len(r) - y = T
  BY <1>2, <1>3, <1>5, <1>7, <1>9
<1>13. ASSUME NEW j \in 1 .. y PROVE r[j] \in V
  <2>1. j \in 1 .. Len(s) - n /\ n + j \in 1 .. x
    BY <1>2, <1>3, <1>9, <1>12
  <2>. QED
    BY <1>3, <1>6, <2>1
<1>14. T \in B
  BY <1>10
<1>. HIDE DEF B, G
<1>15. Pending(r, V, B, y, t)
  BY <1>3, <1>9, <1>11, <1>12, <1>13, <1>14 DEF Pending
<1>. QED
  BY <1>8, <1>15

\* A function's end: what lies under its values.
LEMMA PendingAtEnd ==
  ASSUME NEW V, NEW A, NEW H, Laid(V, A, H), At("body"), AtEnd
  PROVE  /\ \E B, G : /\ Layout(Popped(Size(Static)), V, B, G)
                      /\ Pending(Popped(Size(Static)), V, B, extra_args, trapSp)
         /\ Size(Static) = Len(Static) /\ Len(Static) \in 0 .. Len(stack)
         /\ \A j \in 1 .. Len(Static) : stack[j] \in V
         /\ extra_args \in 0 .. MaxExtraArgs
<1>1. PICK f, shape : /\ AtBody(V, A, H, f, shape) /\ shape \in Seq(Items)
                      /\ Len(shape) \in Nat /\ DOMAIN shape = 1 .. Len(shape) /\ extra_args \in 0 .. MaxExtraArgs
  BY BodyFrame
<1>2. Layout(stack, V, A, H) /\ Len(stack) \in Nat /\ Heights(A) /\ IsStack(stack)
  BY LaidFacts DEF Heights
<1>3. /\ pc.fn = f /\ Static = shape
      /\ FrameOK(stack, V, A, H, f, shape, extra_args, Len(stack))
      /\ trapSp = Innermost(FrameTraps(stack, f, shape, extra_args, Len(stack)))
  BY <1>1 DEF AtBody
<1>. DEFINE n == Len(shape)
            u == ReturnHeight(shape, extra_args, Len(stack))
<1>4. \A i \in 1 .. n : shape[i] = "v"
  BY <1>3 DEF AtEnd, Values
<1>5. Size(SubSeq(shape, 1, n)) = n /\ \A i \in 1 .. n : Above(shape, i) = i - 1
  <2>1. n \in 0 .. Len(shape)
    BY <1>1
  <2>. QED
    BY <1>1, <1>4, <2>1, ValueItems
<1>6. Size(shape) = n
  BY <1>1, <1>5, SubSeqFull
<1>7. f # "main" /\ u \in A /\ u = Len(stack) - n - extra_args
  BY <1>3, <1>6 DEF AtEnd, FrameOK, ReturnHeight
<1>. HIDE DEF u
<1>8. u \in Nat /\ extra_args \in Nat /\ n \in 0 .. Len(stack) /\ n + extra_args <= Len(stack)
  BY <1>1, <1>2, <1>7, Constants DEF Heights
<1>9. trapSp = Innermost(TrapsBelow(stack, u))
  <2>1. Offsets(shape, Len(stack)) = {}
    BY <1>1, <1>4 DEF Offsets
  <2>. QED
    BY <1>3, <1>7, <2>1 DEF FrameTraps, u
<1>10. \A j \in 1 .. Len(stack) : stack[j] = W(stack, Len(stack) - j + 1)
  BY <1>2, TopOfStack
<1>11. ASSUME NEW i \in 1 .. n PROVE stack[i] \in V
  <2>1. ItemOK(stack, V, A, H, f, shape, extra_args, i, Len(stack) - Above(shape, i))
    BY <1>3 DEF FrameOK
  <2>2. Len(stack) - Above(shape, i) = Len(stack) - i + 1 /\ i \in 1 .. Len(stack)
    BY <1>2, <1>5, <1>8
  <2>. QED
    BY <1>4, <1>10, <2>1, <2>2 DEF ItemOK
<1>12. ASSUME NEW j \in 1 .. n + extra_args PROVE stack[j] \in V
  <2>1. CASE j \in 1 .. n
    BY <1>11, <2>1
  <2>2. CASE ~ j \in 1 .. n
    <3>1. PICK i \in 1 .. extra_args : j = n + i
      <4>1. j - n \in 1 .. extra_args /\ j = n + (j - n)
        BY <1>1, <1>8, <2>2
      <4>. QED
        BY <4>1
    <3>2. W(stack, Len(stack) - Size(shape) - i + 1) \in V
      BY <1>3 DEF FrameOK
    <3>3. Len(stack) - Size(shape) - i + 1 = Len(stack) - j + 1 /\ j \in 1 .. Len(stack)
      BY <1>1, <1>2, <1>6, <1>8, <3>1
    <3>. QED
      BY <1>10, <3>2, <3>3
  <2>. QED
    BY <2>1, <2>2
<1>13. PICK k \in Nat : k = n + extra_args
  BY <1>1, <1>8
<1>14. Pending(stack, V, A, k, trapSp)
  <2>1. Len(stack) - k = u
    BY <1>1, <1>2, <1>7, <1>8, <1>13
  <2>. QED
    BY <1>7, <1>9, <1>12, <1>13, <2>1 DEF Pending
<1>15. \E B, G : /\ Layout(Popped(n), V, B, G)
                 /\ Pending(Popped(n), V, B, extra_args, trapSp)
  <2>1. n \in 0 .. k /\ extra_args = k - n
    BY <1>1, <1>8, <1>13
  <2>2. IsPopped(stack, Popped(n), n)
    BY DEF IsPopped, Popped
  <2>. HIDE DEF n
  <2>. QED
    BY <1>2, <1>14, <2>1, <2>2, ArgumentsPopped
<1>. QED
  BY <1>1, <1>3, <1>6, <1>8, <1>11, <1>15

LEMMA PendingEnter ==
  ASSUME NEW s, NEW V, NEW A, NEW H, NEW x, NEW t, NEW y, NEW c,
         Layout(s, V, A, H), Pending(s, V, A, x, t), x >= 1, y = x - 1, y <= MaxExtraArgs,
         c \in V, IsClosure(c)
  PROVE  Control(s, V, A, H, Codeptr_val(c.code), c, y, t)
<1>1. Len(s) \in Nat
  BY RetsHeights DEF Layout
<1>2. Arrived(s, V, A, y, t)
  BY <1>1, PendingArrived
<1>3. y \in 0 .. MaxExtraArgs
  BY Constants DEF Pending
<1>. QED
  BY <1>2, <1>3, EnterClosure

LEMMA PendingReturn ==
  ASSUME NEW q, NEW V, NEW A, NEW H, NEW x, NEW t, Layout(q, V, A, H), Pending(q, V, A, x, t), x = 0,
         ReturnTo(q), acc' \in V, trapSp' = t
  PROVE  LaidOut'
<1>1. RetsOK(q, V, A, H) /\ IsStack(q) /\ Len(q) <= StackWosize
  BY DEF Layout, RetsOK
<1>2. Len(q) \in Nat
  BY <1>1, RetsHeights
<1>3. Len(q) \in A /\ t = Innermost(TrapsBelow(q, Len(q)))
  <2>1. Len(q) - x = Len(q)
    BY <1>2
  <2>. QED
    BY <2>1 DEF Pending
<1>4. Len(q) \in 3 .. Len(q)
  <2>1. PICK f, shape, y : RetFrame(q, V, A, H, Len(q), f, shape, y)
    BY <1>1, <1>3 DEF RetsOK
  <2>. QED
    BY <1>1, <1>3, <2>1, RetTraps
<1>. DEFINE r == SubSeq(q, 3 + 1, Len(q))
<1>5. IsStack(r) /\ Len(r) = Len(q) - 3 /\ Same(q, r, Len(q) - 3)
  <2>1. 3 \in 0 .. Len(q)
    BY <1>4
  <2>. QED
    BY <1>1, <2>1, PoppedStack
<1>6. /\ pc' = q[1].at /\ env' = q[2] /\ extra_args' = q[3].n
      /\ stack' = r
  <2>1. 3 + 1 = 4
    OBVIOUS
  <2>. QED
    BY <2>1 DEF ReturnTo
<1>. HIDE DEF r
<1>7. PICK m \in Nat : m = Len(q) - 3
  BY <1>4
<1>8. Same(q, r, m) /\ Len(q) = m + 3 /\ Len(r) = m /\ Len(r) <= StackWosize
  BY <1>1, <1>2, <1>5, <1>7, Constants
<1>9. PICK B, G : Layout(r, V, B, G) /\ InBody(r, V, B, G, q[1].at, q[2], q[3].n, t)
  BY <1>3, <1>5, <1>8, Returned
<1>10. Laid(V, B, G)'
  BY <1>6, <1>9 DEF Laid, Control
<1>. QED
  BY <1>10 DEF LaidOut

LEMMA NoWrap ==
  ASSUME NEW f, f \in Functions, NEW k, k \in 0 .. MaxExtraArgs + Arity[f] - 1
  PROVE  k % ExtraArgsRange = k /\ k \in 0 .. ExtraArgsRange - 1
<1>1. MaxExtraArgs + Arity[f] <= ExtraArgsRange /\ Arity[f] \in Nat /\ MaxExtraArgs \in Nat /\ ExtraArgsRange \in Nat
  BY Constants, ExtraArgsAssumption
<1>2. k \in 0 .. ExtraArgsRange - 1
  BY <1>1
<1>. QED
  BY <1>1, <1>2

LEMMA ReturnLaid ==
  ASSUME NEW V, NEW A, NEW H, Laid(V, A, H), RETURN
  PROVE  LaidOut'
<1>1. At("body") /\ AtEnd /\ UNCHANGED <<acc, trapSp>>
  BY DEF RETURN
<1>2. PICK q : q = Popped(Size(Static))
  OBVIOUS
<1>3. PICK B, G : Layout(q, V, B, G) /\ Pending(q, V, B, extra_args, trapSp)
  BY <1>1, <1>2, PendingAtEnd
<1>4. extra_args \in 0 .. MaxExtraArgs
  BY <1>1, PendingAtEnd
<1>5. acc \in V
  BY LaidFacts
<1>6. CASE extra_args > 0
  <2>1. /\ IsClosure(acc) /\ extra_args' = extra_args - 1 /\ pc' = Codeptr_val(acc.code) /\ env' = acc
        /\ stack' = q
    BY <1>2, <1>6 DEF RETURN, Jump
  <2>2. PICK y \in Nat : y = extra_args - 1
    BY <1>4, <1>6
  <2>3. extra_args >= 1 /\ y = extra_args - 1 /\ y <= MaxExtraArgs
    BY <1>4, <1>6, <2>2, Constants
  <2>4. Control(q, V, B, G, Codeptr_val(acc.code), acc, y, trapSp)
    BY <1>3, <1>5, <2>1, <2>3, PendingEnter
  <2>5. Laid(V, B, G)'
    BY <1>1, <1>3, <1>5, <2>1, <2>2, <2>4 DEF Laid
  <2>. QED
    BY <2>5 DEF LaidOut
<1>7. CASE ~ (extra_args > 0)
  <2>1. ReturnTo(q) /\ extra_args = 0 /\ acc' \in V /\ trapSp' = trapSp
    BY <1>1, <1>2, <1>4, <1>5, <1>7 DEF RETURN
  <2>. QED
    BY <1>3, <2>1, PendingReturn
<1>. QED
  BY <1>6, <1>7

LEMMA ApptermLaid ==
  ASSUME NEW V, NEW A, NEW H, Laid(V, A, H), NEW n \in 1 .. MaxShape, APPTERM(n)
  PROVE  LaidOut'
<1>1. At("body") /\ AtEnd /\ UNCHANGED <<acc, trapSp>> /\ IsClosure(acc)
  BY DEF APPTERM
<1>2. PICK q : q = Popped(Size(Static))
  OBVIOUS
<1>3. PICK B, G : Layout(q, V, B, G) /\ Pending(q, V, B, extra_args, trapSp)
  BY <1>1, <1>2, PendingAtEnd
<1>4. /\ extra_args \in 0 .. MaxExtraArgs /\ Size(Static) = Len(Static) /\ Len(Static) \in 0 .. Len(stack)
      /\ \A j \in 1 .. Len(Static) : stack[j] \in V
  BY <1>1, PendingAtEnd
<1>5. acc \in V /\ IsStack(stack) /\ Len(stack) \in Nat /\ Len(stack) <= StackWosize
  BY LaidFacts
<1>6. /\ Len(Static) >= n /\ extra_args + n - 1 <= MaxExtraArgs
      /\ stack' = SubSeq(stack, 1, n) \o q
      /\ extra_args' = (extra_args + n - 1) % ExtraArgsRange
      /\ pc' = Codeptr_val(acc.code) /\ env' = acc
  BY <1>2 DEF APPTERM, HasArguments, Jump
<1>7. n \in Nat /\ n >= 1 /\ n \in 0 .. Len(stack) /\ n <= Len(Static)
  BY <1>4, <1>5, <1>6, BoundsAssumption
<1>. DEFINE args == SubSeq(stack, 1, n)
<1>8. IsStack(args) /\ Len(args) = n /\ \A j \in 1 .. n : args[j] = stack[j]
  BY <1>5, <1>7, TopOfStack
<1>9. Len(q) = Len(stack) - Len(Static)
  BY <1>2, <1>4, <1>5, PoppedStack DEF Popped
<1>. HIDE DEF args
<1>10. \A j \in 1 .. Len(args) : args[j] \in V
  BY <1>4, <1>7, <1>8
<1>11. Len(args) + Len(q) <= StackWosize
  BY <1>4, <1>5, <1>7, <1>8, <1>9, Constants
<1>12. PICK k \in Nat : k = n + extra_args
  BY <1>4, <1>7
<1>13. Layout(args \o q, V, B, G) /\ Pending(args \o q, V, B, k, trapSp)
  <2>1. k = Len(args) + extra_args
    BY <1>8, <1>12
  <2>. QED
    BY <1>3, <1>8, <1>10, <1>11, <2>1, ArgumentsPushed
<1>14. PICK r : r = args \o q
  OBVIOUS
<1>15. PICK y \in Nat : y = k - 1
  BY <1>4, <1>7, <1>12
<1>16. k >= 1 /\ y <= MaxExtraArgs /\ y = extra_args + n - 1
  BY <1>4, <1>6, <1>7, <1>12, <1>15, Constants
<1>17. Control(r, V, B, G, Codeptr_val(acc.code), acc, y, trapSp)
  BY <1>1, <1>5, <1>13, <1>14, <1>15, <1>16, PendingEnter
<1>18. extra_args' = y
  <2>1. PICK f : f \in Functions
    <3>1. PICK f, shape : AtBody(V, A, H, f, shape)
      BY <1>1, BodyFrame
    <3>2. f # "main" /\ f \in Functions \cup {"main"}
      BY <1>1, <3>1 DEF AtBody, AtEnd, FrameOK
    <3>. QED
      BY <3>2
  <2>2. y \in 0 .. MaxExtraArgs + Arity[f] - 1
    BY <1>16, <2>1, Constants
  <2>3. y % ExtraArgsRange = y
    BY <2>1, <2>2, NoWrap
  <2>. QED
    BY <1>6, <1>16, <2>3
<1>19. Laid(V, B, G)'
  BY <1>1, <1>5, <1>6, <1>13, <1>14, <1>17, <1>18 DEF Laid, args
<1>. QED
  BY <1>19 DEF LaidOut

\* n arguments on top of the frame of a function; what is under them starts at low.
UnderArguments(V, A, H, n, f, rest, low) ==
  /\ pc.fn = f /\ env = EnvOf(f) /\ rest = Rest(Static, n) /\ n <= Len(Static)
  /\ rest \in Seq(Items)
  /\ low \in Nat /\ Len(stack) = low + n
  /\ FrameOK(stack, V, A, H, f, rest, extra_args, low)
  /\ trapSp = Innermost(FrameTraps(stack, f, rest, extra_args, low))
  /\ \A j \in 1 .. n : stack[j] \in V

LEMMA ArgumentsOnTop ==
  ASSUME NEW V, NEW A, NEW H, Laid(V, A, H), At("body"), NEW n, n \in Nat \ {0}, HasArguments(n)
  PROVE  \E f, rest, low : UnderArguments(V, A, H, n, f, rest, low)
<1>1. PICK f, shape : /\ AtBody(V, A, H, f, shape) /\ shape \in Seq(Items)
                      /\ Len(shape) \in Nat /\ DOMAIN shape = 1 .. Len(shape) /\ extra_args \in 0 .. MaxExtraArgs
  BY BodyFrame
<1>2. Layout(stack, V, A, H) /\ Len(stack) \in Nat /\ Heights(A) /\ IsStack(stack)
  BY LaidFacts DEF Heights
<1>3. /\ pc.fn = f /\ Static = shape /\ env = EnvOf(f)
      /\ FrameOK(stack, V, A, H, f, shape, extra_args, Len(stack))
      /\ trapSp = Innermost(FrameTraps(stack, f, shape, extra_args, Len(stack)))
  BY <1>1 DEF AtBody
<1>4. n \in 0 .. Len(shape) /\ SubSeq(shape, 1, n) = Values(n)
  BY <1>1, <1>3 DEF HasArguments
<1>5. \A i \in 1 .. n : shape[i] = "v"
  <2>1. ASSUME NEW i \in 1 .. n PROVE shape[i] = "v"
    <3>1. SubSeq(shape, 1, n)[i] = shape[i]
      BY <1>1, <1>4
    <3>2. Values(n)[i] = "v"
      BY DEF Values
    <3>. QED
      BY <1>4, <3>1, <3>2
  <2>. QED
    BY <2>1
<1>6. Size(SubSeq(shape, 1, n)) = n /\ \A i \in 1 .. n : Above(shape, i) = i - 1
  BY <1>1, <1>4, <1>5, ValueItems
<1>7. PICK top \in Int : top = Len(stack)
  BY <1>2
<1>8. PICK low \in Int : low = Len(stack) - n
  BY <1>2
<1>9. FrameOK(stack, V, A, H, f, shape, extra_args, top) /\ Higher(top, low, Size(SubSeq(shape, 1, n)))
  BY <1>2, <1>3, <1>6, <1>7, <1>8 DEF Higher
<1>10. PICK rest : rest = Rest(shape, n)
  OBVIOUS
<1>11. FrameDropped(stack, V, A, H, f, shape, extra_args, top, n, low, rest)
  BY <1>2, <1>4, <1>9, <1>10, DropFrame
<1>12. FrameOK(stack, V, A, H, f, rest, extra_args, low)
  BY <1>11 DEF FrameDropped
<1>13. low \in Nat
  BY <1>2, <1>12, FrameTop
<1>14. NoTraps(shape, n)
  BY <1>5 DEF NoTraps
<1>15. FrameTraps(stack, f, rest, extra_args, low) = FrameTraps(stack, f, shape, extra_args, top)
  BY <1>2, <1>4, <1>9, <1>10, <1>14, DropPlain
<1>16. ASSUME NEW i \in 1 .. n PROVE stack[i] \in V
  <2>1. ItemOK(stack, V, A, H, f, shape, extra_args, i, Len(stack) - Above(shape, i))
    <3>1. i \in 1 .. Len(shape)
      BY <1>1, <1>4
    <3>. QED
      BY <1>3, <3>1 DEF FrameOK
  <2>2. Len(stack) - Above(shape, i) = Len(stack) - i + 1 /\ i \in 1 .. Len(stack)
    <3>1. Above(shape, i) = i - 1 /\ i \in Nat /\ n \in Nat /\ i \in 1 .. n
      BY <1>6
    <3>2. i \in 1 .. Len(stack)
      BY <1>2, <1>8, <1>13, <3>1
    <3>. QED
      BY <1>2, <3>1, <3>2
  <2>3. n \in 0 .. Len(stack)
    BY <1>2, <1>8, <1>13
  <2>4. stack[i] = W(stack, Len(stack) - i + 1)
    BY <1>2, <2>3, TopOfStack
  <2>. QED
    BY <1>5, <2>1, <2>2, <2>4 DEF ItemOK
<1>17. rest \in Seq(Items)
  BY <1>12 DEF FrameOK
<1>18. UnderArguments(V, A, H, n, f, rest, low)
  BY <1>2, <1>3, <1>4, <1>7, <1>8, <1>10, <1>12, <1>13, <1>15, <1>16, <1>17 DEF UnderArguments
<1>. QED
  BY <1>18

LEMMA ApplyLaid ==
  ASSUME NEW V, NEW A, NEW H, Laid(V, A, H), NEW n \in 1 .. MaxShape, APPLY(n)
  PROVE  LaidOut'
<1>1. /\ At("body") /\ IsClosure(acc) /\ HasArguments(n) /\ Len(Static) > n /\ Static[n + 1] = "ret"
      /\ n - 1 <= MaxExtraArgs /\ extra_args' = n - 1
      /\ pc' = Codeptr_val(acc.code) /\ env' = acc
      /\ UNCHANGED <<acc, stack, trapSp>>
  BY DEF APPLY, Jump
<1>2. n \in Nat \ {0}
  BY BoundsAssumption
<1>3. PICK f, rest, low : UnderArguments(V, A, H, n, f, rest, low)
  BY <1>1, <1>2, ArgumentsOnTop
<1>4. /\ rest = Rest(Static, n) /\ rest \in Seq(Items) /\ low \in Nat /\ Len(stack) = low + n
      /\ FrameOK(stack, V, A, H, f, rest, extra_args, low)
      /\ trapSp = Innermost(FrameTraps(stack, f, rest, extra_args, low))
      /\ \A j \in 1 .. n : stack[j] \in V
  BY <1>3 DEF UnderArguments
<1>5. /\ Layout(stack, V, A, H) /\ Len(stack) \in Nat /\ Heights(A) /\ IsStack(stack)
      /\ acc \in V /\ RetsOK(stack, V, A, H)
  BY LaidFacts DEF Heights
<1>6. rest # <<>> /\ rest[1] = "ret"
  <2>1. PICK f1, shape : AtBody(V, A, H, f1, shape) /\ shape \in Seq(Items) /\ Len(shape) \in Nat
    BY <1>1, BodyFrame
  <2>2. Static = shape
    BY <2>1 DEF AtBody
  <2>3. n \in 0 .. Len(shape) /\ 1 \in 1 .. Len(shape) - n
    BY <1>1, <1>2, <2>1, <2>2
  <2>4. Len(Rest(shape, n)) = Len(shape) - n /\ Rest(shape, n)[1] = shape[n + 1]
    BY <2>1, <2>3, DropItems
  <2>. QED
    BY <1>1, <1>4, <2>2, <2>3, <2>4
<1>7. /\ 1 \in 1 .. Len(rest) /\ 1 \in 0 .. Len(rest) /\ Above(rest, 1) = 0
      /\ Size(SubSeq(rest, 1, 1)) = 3
  BY <1>4, <1>6, FirstItem DEF Words
<1>8. /\ low \in A /\ W(stack, low) = Val_codeptr(Body(f, Rest(rest, 1)))
      /\ W(stack, low - 2) = Val_int(extra_args)
  <2>1. ItemOK(stack, V, A, H, f, rest, extra_args, 1, low - Above(rest, 1))
    BY <1>4, <1>7 DEF FrameOK
  <2>2. low - Above(rest, 1) = low
    BY <1>4, <1>7
  <2>. QED
    BY <1>6, <2>1, <2>2 DEF ItemOK
<1>9. PICK g, shape, x : RetFrame(stack, V, A, H, low, g, shape, x)
  BY <1>5, <1>8 DEF RetsOK
<1>10. g = f /\ shape = Rest(rest, 1) /\ x = extra_args
  BY <1>8, <1>9 DEF RetFrame, Val_codeptr, Body, Point, Val_int
<1>11. TrapsBelow(stack, low) = FrameTraps(stack, f, shape, extra_args, low - 3)
  BY <1>5, <1>8, <1>9, <1>10, RetTraps
<1>12. FrameTraps(stack, f, shape, extra_args, low - 3) = FrameTraps(stack, f, rest, extra_args, low)
  <2>1. PICK k \in Int : k = low - 3
    BY <1>4
  <2>2. Higher(low, k, Size(SubSeq(rest, 1, 1)))
    BY <1>4, <1>7, <2>1 DEF Higher
  <2>3. NoTraps(rest, 1)
    BY <1>6 DEF NoTraps
  <2>4. low \in Int
    BY <1>4
  <2>5. FrameTraps(stack, f, shape, extra_args, k) = FrameTraps(stack, f, rest, extra_args, low)
    BY <1>4, <1>5, <1>7, <1>10, <2>2, <2>3, <2>4, DropPlain
  <2>. QED
    BY <2>1, <2>5
<1>13. Pending(stack, V, A, n, trapSp)
  <2>1. Len(stack) - n = low
    BY <1>2, <1>4
  <2>. QED
    BY <1>2, <1>4, <1>8, <1>11, <1>12, <2>1 DEF Pending
<1>14. PICK y \in Nat : y = n - 1
  BY <1>2
<1>15. n >= 1 /\ y <= MaxExtraArgs
  BY <1>1, <1>2, <1>14
<1>16. Control(stack, V, A, H, Codeptr_val(acc.code), acc, y, trapSp)
  BY <1>1, <1>5, <1>13, <1>14, <1>15, PendingEnter
<1>17. Laid(V, A, H)'
  BY <1>1, <1>5, <1>14, <1>16 DEF Laid
<1>. QED
  BY <1>17 DEF LaidOut

Regrouped(s, t, u) == (s \o t) \o u = s \o (t \o u)

\* Three sequences on top of one another.
LEMMA ConcatThree ==
  ASSUME NEW s, NEW t, NEW u, IsStack(s), IsStack(t), IsStack(u)
  PROVE  Regrouped(s, t, u)
<1>1. PICK X : s \in Seq(X)
  BY DEF IsStack
<1>2. PICK Y : t \in Seq(Y)
  BY DEF IsStack
<1>3. PICK Z : u \in Seq(Z)
  BY DEF IsStack
<1>. DEFINE D == X \cup Y \cup Z
<1>4. s \in Seq(D) /\ t \in Seq(D) /\ u \in Seq(D)
  <2>1. X \subseteq D /\ Y \subseteq D /\ Z \subseteq D
    OBVIOUS
  <2>. HIDE DEF D
  <2>2. s \in Seq(D)
    BY <1>1, <2>1
  <2>3. t \in Seq(D)
    BY <1>2, <2>1
  <2>4. u \in Seq(D)
    BY <1>3, <2>1
  <2>. QED
    BY <2>2, <2>3, <2>4
<1>. HIDE DEF D
<1>. QED
  BY <1>4, ConcatAssociative DEF Regrouped

IsReturnFrame(frame, f, shape, x) == frame = <<Val_codeptr(Body(f, shape)), EnvOf(f), Val_int(x)>>

\* A return frame pushed on the words of a function waits for arguments.
LEMMA ReturnPushed ==
  ASSUME NEW q, NEW V, NEW A, NEW H, NEW f, NEW shape, NEW x, NEW t, NEW frame,
         Layout(q, V, A, H), InBody(q, V, A, H, Body(f, shape), EnvOf(f), x, t),
         IsReturnFrame(frame, f, shape, x), Len(q) + 3 <= StackWosize
  PROVE  \E B : Layout(frame \o q, V, B, H) /\ Pending(frame \o q, V, B, 0, t)
<1>1. RetsOK(q, V, A, H) /\ IsStack(q)
  BY DEF Layout, RetsOK
<1>2. Len(q) \in Nat /\ A \subseteq Nat \ {0}
  BY <1>1, RetsHeights
<1>3. FrameOK(q, V, A, H, f, shape, x, Len(q)) /\ t = Innermost(FrameTraps(q, f, shape, x, Len(q)))
  BY DEF InBody, Body, Point
<1>4. /\ IsStack(frame) /\ Len(frame) = 3 /\ frame[1] = Val_codeptr(Body(f, shape))
      /\ frame[2] = EnvOf(f) /\ frame[3] = Val_int(x)
  BY Literal3 DEF IsReturnFrame
<1>. DEFINE r == frame \o q
<1>5. /\ IsStack(r) /\ Len(r) = Len(frame) + Len(q) /\ Same(q, r, Len(q))
      /\ \A j \in 1 .. Len(frame) : W(r, Len(q) + Len(frame) - j + 1) = frame[j]
  <2>1. IsStack(frame) /\ IsStack(q)
    BY <1>1, <1>4
  <2>. QED
    BY <2>1, Pushed
<1>. HIDE DEF r
<1>6. PICK high \in Int : high = Len(q) + 3
  BY <1>2
<1>7. /\ Len(r) = high /\ Len(r) <= StackWosize /\ high \in 1 .. Len(r)
      /\ W(r, high) = frame[1] /\ W(r, high - 1) = frame[2] /\ W(r, high - 2) = frame[3]
  <2>1. /\ 1 \in 1 .. Len(frame) /\ 2 \in 1 .. Len(frame) /\ 3 \in 1 .. Len(frame)
        /\ Len(q) + Len(frame) - 1 + 1 = high
        /\ Len(q) + Len(frame) - 2 + 1 = high - 1
        /\ Len(q) + Len(frame) - 3 + 1 = high - 2
    BY <1>2, <1>4, <1>6
  <2>2. /\ W(r, Len(q) + Len(frame) - 1 + 1) = frame[1]
        /\ W(r, Len(q) + Len(frame) - 2 + 1) = frame[2]
        /\ W(r, Len(q) + Len(frame) - 3 + 1) = frame[3]
    BY <1>5, <2>1
  <2>3. Len(r) = high /\ Len(r) <= StackWosize /\ high \in 1 .. Len(r)
    BY <1>2, <1>4, <1>5, <1>6
  <2>. QED
    BY <2>1, <2>2, <2>3
<1>8. PICK top \in Int : top = Len(q)
  BY <1>2
<1>9. top <= Len(q) /\ FrameOK(q, V, A, H, f, shape, x, top)
  BY <1>2, <1>3, <1>8
<1>10. Layout(r, V, A, H)
  BY <1>5, <1>7, GrownLayout
<1>11. /\ FrameOK(r, V, A, H, f, shape, x, top)
       /\ FrameTraps(r, f, shape, x, top) = FrameTraps(q, f, shape, x, top)
  BY <1>5, <1>7, <1>9, GrownFrame
<1>12. high - 3 = top
  BY <1>2, <1>6, <1>8
<1>13. RetFrame(r, V, A, H, high, f, shape, x)
  BY <1>4, <1>7, <1>11, <1>12 DEF RetFrame
<1>14. PICK B : B = A \cup {high}
  OBVIOUS
<1>15. Layout(r, V, B, H)
  <2>1. high \in 1 .. Len(r)
    BY <1>7
  <2>2. Layout(r, V, A \cup {high}, H)
    BY <1>10, <1>13, <2>1, AddRet
  <2>. QED
    BY <1>14, <2>2
<1>16. RetsOK(r, V, B, H) /\ high \in B
  BY <1>14, <1>15 DEF Layout
<1>17. RetFrame(r, V, B, H, high, f, shape, x)
  <2>1. A \subseteq B /\ H \subseteq H
    BY <1>14
  <2>2. FrameOK(r, V, B, H, f, shape, x, top)
    BY <1>11, <2>1, FrameMonotonic
  <2>. QED
    BY <1>12, <1>13, <2>2 DEF RetFrame
<1>18. TrapsBelow(r, high) = FrameTraps(r, f, shape, x, high - 3)
  BY <1>16, <1>17, RetTraps
<1>19. Pending(r, V, B, 0, t)
  <2>1. Len(r) - 0 = high
    BY <1>6, <1>7
  <2>2. t = Innermost(TrapsBelow(r, high))
    BY <1>3, <1>8, <1>11, <1>12, <1>18
  <2>. QED
    BY <1>16, <2>1, <2>2 DEF Pending
<1>. QED
  BY <1>15, <1>19 DEF r

LEMMA ApplynLaid ==
  ASSUME NEW V, NEW A, NEW H, Laid(V, A, H), NEW n \in 1 .. 3, APPLYn(n)
  PROVE  LaidOut'
<1>1. /\ At("body") /\ IsClosure(acc) /\ HasArguments(n) /\ n - 1 <= MaxExtraArgs
  BY DEF APPLYn
<1>2. CASE ~ Fits(stack, 3)
  BY <1>2, OverflowLaid DEF APPLYn
<1>3. CASE Fits(stack, 3)
  <2>. DEFINE args == SubSeq(stack, 1, n)
              q == SubSeq(stack, n + 1, Len(stack))
  <2>1. PICK f, rest, low : UnderArguments(V, A, H, n, f, rest, low)
    BY <1>1, ArgumentsOnTop
  <2>2. /\ pc.fn = f /\ env = EnvOf(f)
        /\ rest = Rest(Static, n) /\ rest \in Seq(Items) /\ low \in Nat /\ Len(stack) = low + n
        /\ FrameOK(stack, V, A, H, f, rest, extra_args, low)
        /\ trapSp = Innermost(FrameTraps(stack, f, rest, extra_args, low))
        /\ \A j \in 1 .. n : stack[j] \in V
    BY <2>1 DEF UnderArguments
  <2>3. /\ Layout(stack, V, A, H) /\ Len(stack) \in Nat /\ IsStack(stack)
        /\ acc \in V /\ Len(stack) <= StackWosize
    BY LaidFacts
  <2>4. PICK frame : frame = <<Val_codeptr(Body(f, rest)), EnvOf(f), Val_int(extra_args)>>
    OBVIOUS
  <2>5. /\ stack' = (args \o frame) \o q
        /\ extra_args' = n - 1 /\ pc' = Codeptr_val(acc.code) /\ env' = acc
        /\ UNCHANGED <<acc, trapSp>>
    <3>1. ReturnFrame(Body(pc.fn, SubSeq(Static, n + 1, Len(Static)))) = frame
      BY <2>2, <2>4 DEF ReturnFrame, Rest
    <3>. QED
      BY <1>3, <3>1 DEF APPLYn, Jump, Popped
  <2>6. n \in 0 .. Len(stack)
    BY <2>2
  <2>7. IsStack(args) /\ Len(args) = n /\ \A j \in 1 .. n : args[j] = stack[j]
    BY <2>3, <2>6, TopOfStack
  <2>8. IsStack(q) /\ Len(q) = Len(stack) - n /\ Same(stack, q, Len(stack) - n)
    BY <2>3, <2>6, PoppedStack
  <2>. HIDE DEF args, q
  <2>9. Len(q) = low /\ Same(stack, q, low) /\ low \in Int
    <3>1. Len(stack) - n = low /\ low \in Int
      BY <2>2
    <3>. QED
      BY <2>8, <3>1
  <2>10. PICK B, G : /\ Layout(q, V, B, G)
                     /\ InBody(q, V, B, G, Body(f, rest), EnvOf(f), extra_args,
                               Innermost(FrameTraps(stack, f, rest, extra_args, low)))
    BY <2>2, <2>3, <2>8, <2>9, ShrunkFrame
  <2>11. InBody(q, V, B, G, Body(f, rest), EnvOf(f), extra_args, trapSp)
    BY <2>2, <2>10
  <2>12. Len(q) + 3 <= StackWosize /\ n + (3 + Len(q)) <= StackWosize
    BY <1>3, <2>2, <2>9, Constants DEF Fits
  <2>13. PICK C : Layout(frame \o q, V, C, G) /\ Pending(frame \o q, V, C, 0, trapSp)
    BY <2>4, <2>10, <2>11, <2>12, ReturnPushed DEF IsReturnFrame
  <2>14. IsStack(frame) /\ Len(frame) = 3
    BY <2>4, Literal3
  <2>15. PICK r : r = frame \o q
    OBVIOUS
  <2>16. Len(r) = 3 + Len(q)
    BY <2>8, <2>14, <2>15, Pushed
  <2>17. Layout(args \o r, V, C, G) /\ Pending(args \o r, V, C, n, trapSp)
    <3>1. n = Len(args) + 0 /\ Len(args) + Len(r) <= StackWosize
      BY <2>7, <2>12, <2>16
    <3>2. \A j \in 1 .. Len(args) : args[j] \in V
      BY <2>2, <2>7
    <3>. QED
      BY <2>7, <2>13, <2>15, <3>1, <3>2, ArgumentsPushed
  <2>18. stack' = args \o r
    <3>1. IsStack(args) /\ IsStack(frame) /\ IsStack(q)
      BY <2>7, <2>8, <2>14
    <3>2. Regrouped(args, frame, q)
      BY <3>1, ConcatThree
    <3>. QED
      BY <2>5, <2>15, <3>2 DEF Regrouped
  <2>19. PICK y \in Nat : y = n - 1
    OBVIOUS
  <2>20. n >= 1 /\ y <= MaxExtraArgs
    BY <1>1, <2>19
  <2>21. Control(args \o r, V, C, G, Codeptr_val(acc.code), acc, y, trapSp)
    BY <1>1, <2>3, <2>17, <2>19, <2>20, PendingEnter
  <2>22. Laid(V, C, G)'
    BY <2>3, <2>5, <2>17, <2>18, <2>19, <2>21 DEF Laid
  <2>. QED
    BY <2>22 DEF LaidOut
<1>. QED
  BY <1>2, <1>3

LEMMA RestartLaid ==
  ASSUME NEW V, NEW A, NEW H, Laid(V, A, H), RESTART
  PROVE  LaidOut'
<1>1. pc.at = "restart"
  BY DEF RESTART, At
<1>2. /\ Layout(stack, V, A, H) /\ Len(stack) \in Nat /\ IsStack(stack) /\ ValuesOK(V)
      /\ acc \in V /\ Len(stack) <= StackWosize
  BY LaidFacts
<1>3. Control(stack, V, A, H, pc, env, extra_args, trapSp)
  BY DEF Laid
<1>4. Arrived(stack, V, A, extra_args, trapSp) /\ AtRestart(V, pc, env, extra_args)
  BY <1>1, <1>3 DEF Control, InBody, OnEntry, AtGrab, Body, Point
<1>5. PICK f, args : /\ f \in Functions /\ pc = Point(f, "restart", <<>>) /\ Arity[f] > 1
                     /\ PartialClosure(V, f, args) /\ env = MakeClosure(<<f, "restart">>, Closure(f), args)
                     /\ extra_args \in 0 .. MaxExtraArgs
  BY <1>4 DEF AtRestart
<1>6. pc.fn = f /\ env.args = args /\ env.env = Closure(f)
  BY <1>5 DEF Point, MakeClosure
<1>7. CASE ~ Fits(stack, Len(env.args))
  BY <1>7, OverflowLaid DEF RESTART
<1>8. CASE Fits(stack, Len(env.args))
  <2>1. /\ stack' = args \o stack /\ env' = Closure(f)
        /\ extra_args' = (extra_args + Len(args)) % ExtraArgsRange
        /\ pc' = Point(f, "grab", <<>>)
        /\ UNCHANGED <<acc, trapSp>>
    BY <1>6, <1>8 DEF RESTART
  <2>2. args \in Seq(V) /\ Len(args) \in 1 .. Arity[f] - 1
    BY <1>5 DEF PartialClosure
  <2>3. Len(args) \in Nat /\ IsStack(args) /\ \A j \in 1 .. Len(args) : args[j] \in V
    <3>1. Len(args) \in Nat /\ \A j \in 1 .. Len(args) : args[j] \in V
      BY <2>2, LenProperties, ElementOfSeq
    <3>. QED
      BY <2>2, <3>1 DEF IsStack
  <2>4. PICK k \in Nat : k = extra_args + 1
    BY <1>5, Constants
  <2>5. Pending(stack, V, A, k, trapSp)
    <3>1. Len(stack) - k = Len(stack) - extra_args - 1
      BY <1>2, <1>5, <2>4, Constants
    <3>. QED
      BY <1>4, <2>4, <3>1 DEF Arrived, Pending
  <2>6. PICK z \in Nat : z = Len(args) + k
    BY <2>3
  <2>7. Len(args) + Len(stack) <= StackWosize
    BY <1>2, <1>6, <1>8, <2>3, Constants DEF Fits
  <2>8. Layout(args \o stack, V, A, H) /\ Pending(args \o stack, V, A, z, trapSp)
    BY <1>2, <2>3, <2>5, <2>6, <2>7, ArgumentsPushed
  <2>9. PICK r : r = args \o stack
    OBVIOUS
  <2>10. PICK y \in Nat : y = extra_args + Len(args)
    BY <1>5, <2>3, Constants
  <2>11. Arrived(r, V, A, y, trapSp)
    <3>1. RetsOK(r, V, A, H)
      BY <2>8, <2>9 DEF Layout
    <3>2. Len(r) \in Nat
      BY <3>1, RetsHeights
    <3>3. z >= 1 /\ y = z - 1
      BY <1>5, <2>3, <2>4, <2>6, <2>10, Constants
    <3>. QED
      BY <2>8, <2>9, <3>2, <3>3, PendingArrived
  <2>12. y \in 0 .. MaxExtraArgs + Arity[f] - 1
    BY <1>5, <2>2, <2>3, <2>10, Constants
  <2>13. extra_args' = y
    <3>1. y % ExtraArgsRange = y
      BY <1>5, <2>12, NoWrap
    <3>. QED
      BY <2>1, <2>10, <3>1
  <2>14. AtGrab(V, pc', env', y)
    BY <1>5, <2>1, <2>12 DEF AtGrab
  <2>15. Control(r, V, A, H, pc', env', y, trapSp)
    BY <2>11, <2>14 DEF Control, OnEntry
  <2>16. Laid(V, A, H)'
    BY <1>2, <2>1, <2>8, <2>9, <2>13, <2>15 DEF Laid
  <2>. QED
    BY <2>16 DEF LaidOut
<1>. QED
  BY <1>7, <1>8

\* A partial application more among the values.
LEMMA AddPartial ==
  ASSUME NEW V, NEW f, NEW args, NEW V2, ValuesOK(V), PartialClosure(V, f, args),
         V2 = V \cup {MakeClosure(<<f, "restart">>, Closure(f), args)}
  PROVE  ValuesOK(V2) /\ V \subseteq V2
<1>1. V \subseteq V2
  OBVIOUS
<1>2. \A g, a : PartialClosure(V, g, a) => PartialClosure(V2, g, a)
  <2>1. ASSUME NEW g, NEW a, PartialClosure(V, g, a) PROVE PartialClosure(V2, g, a)
    <3>1. g \in Functions /\ a \in Seq(V) /\ Len(a) \in 1 .. Arity[g] - 1
      BY <2>1 DEF PartialClosure
    <3>2. a \in Seq(V2)
      BY <1>1, <3>1
    <3>. QED
      BY <3>1, <3>2 DEF PartialClosure
  <2>. QED
    BY <2>1
<1>3. ASSUME NEW v \in V2, v.kind = "clos"
      PROVE  \/ \E g \in Functions : v = Closure(g)
             \/ \E g, a : PartialClosure(V2, g, a) /\ v = MakeClosure(<<g, "restart">>, Closure(g), a)
  <2>1. CASE v \in V
    <3>1. \/ \E g \in Functions : v = Closure(g)
          \/ \E g, a : PartialClosure(V, g, a) /\ v = MakeClosure(<<g, "restart">>, Closure(g), a)
      BY <1>3, <2>1 DEF ValuesOK
    <3>. QED
      BY <1>2, <3>1
  <2>2. CASE v = MakeClosure(<<f, "restart">>, Closure(f), args)
    <3>1. PartialClosure(V2, f, args)
      BY <1>2
    <3>. QED
      BY <2>2, <3>1
  <2>. QED
    BY <2>1, <2>2
<1>4. Trap \notin V2
  <2>1. Trap.kind = "trap" /\ MakeClosure(<<f, "restart">>, Closure(f), args).kind = "clos"
    BY DEF Trap, MakeClosure
  <2>. QED
    BY <2>1 DEF ValuesOK
<1>. QED
  BY <1>1, <1>3, <1>4 DEF ValuesOK

LEMMA GrabLaid ==
  ASSUME NEW V, NEW A, NEW H, Laid(V, A, H), GRAB
  PROVE  LaidOut'
<1>1. pc.at = "grab"
  BY DEF GRAB, At
<1>2. /\ Layout(stack, V, A, H) /\ Len(stack) \in Nat /\ IsStack(stack) /\ ValuesOK(V)
      /\ acc \in V /\ Len(stack) <= StackWosize /\ RetsOK(stack, V, A, H) /\ A \subseteq 1 .. Len(stack)
  BY LaidFacts
<1>3. Control(stack, V, A, H, pc, env, extra_args, trapSp)
  BY DEF Laid
<1>4. Arrived(stack, V, A, extra_args, trapSp) /\ AtGrab(V, pc, env, extra_args)
  <2>1. ~ InBody(stack, V, A, H, pc, env, extra_args, trapSp)
    <3>1. SUFFICES ASSUME InBody(stack, V, A, H, pc, env, extra_args, trapSp) PROVE FALSE
      OBVIOUS
    <3>2. PICK g, shape : pc = Body(g, shape)
      BY <3>1 DEF InBody
    <3>. QED
      BY <1>1, <3>2 DEF Body, Point
  <2>2. ~ AtRestart(V, pc, env, extra_args)
    <3>1. SUFFICES ASSUME AtRestart(V, pc, env, extra_args) PROVE FALSE
      OBVIOUS
    <3>2. PICK g : pc = Point(g, "restart", <<>>)
      BY <3>1 DEF AtRestart
    <3>. QED
      BY <1>1, <3>2 DEF Point
  <2>. QED
    BY <1>3, <2>1, <2>2 DEF Control, OnEntry
<1>5. PICK f \in Functions : /\ pc = Point(f, "grab", <<>>) /\ Arity[f] > 1
                             /\ env = Closure(f) /\ extra_args \in 0 .. MaxExtraArgs + Arity[f] - 1
  BY <1>4 DEF AtGrab
<1>6. pc.fn = f
  BY <1>5 DEF Point
<1>7. PICK n \in Nat : n = Arity[f] - 1
  BY <1>5, Constants
<1>8. extra_args \in Nat
  BY <1>4 DEF Arrived
<1>9. CASE Raise(OCAML_Out_of_memory)
  BY <1>9, OverflowLaid
<1>10. CASE /\ extra_args >= n /\ extra_args' = extra_args - n /\ pc' = Body(f, Values(n + 1))
            /\ UNCHANGED <<stack, acc, env, trapSp>>
  <2>1. n \in 0 .. extra_args /\ extra_args - n <= MaxExtraArgs
    BY <1>5, <1>7, <1>8, <1>10, Constants
  <2>2. InBody(stack, V, A, H, Body(f, Values(n + 1)), Closure(f), extra_args - n, trapSp)
    BY <1>2, <1>4, <2>1, EnterBody
  <2>3. Laid(V, A, H)'
    BY <1>2, <1>5, <1>10, <2>2 DEF Laid, Control
  <2>. QED
    BY <2>3 DEF LaidOut
<1>11. CASE /\ extra_args < n
            /\ acc' = MakeClosure(<<f, "restart">>, env, SubSeq(stack, 1, extra_args + 1))
            /\ ReturnTo(Popped(extra_args + 1)) /\ UNCHANGED trapSp
  <2>1. PICK k \in Nat : k = extra_args + 1
    BY <1>8
  <2>2. PICK args : args = SubSeq(stack, 1, k)
    OBVIOUS
  <2>3. PICK V2 : V2 = V \cup {MakeClosure(<<f, "restart">>, Closure(f), args)}
    OBVIOUS
  <2>4. Pending(stack, V, A, k, trapSp)
    <3>1. Len(stack) - k = Len(stack) - extra_args - 1
      BY <1>2, <1>8, <2>1
    <3>. QED
      BY <1>4, <2>1, <3>1 DEF Arrived, Pending
  <2>5. k \in 0 .. Len(stack) /\ k \in 1 .. Arity[f] - 1 /\ k \in 0 .. k
    <3>1. Len(stack) - k \in 1 .. Len(stack)
      BY <1>2, <2>4 DEF Pending
    <3>2. k \in 0 .. Len(stack)
      BY <1>2, <2>1, <3>1
    <3>3. k \in 1 .. Arity[f] - 1
      BY <1>7, <1>8, <1>11, <2>1, Constants
    <3>. QED
      BY <2>1, <3>2, <3>3
  <2>6. args \in Seq(V) /\ Len(args) = k
    <3>1. Len(args) = k /\ \A j \in 1 .. k : args[j] = stack[j]
      BY <1>2, <2>2, <2>5, TopOfStack
    <3>2. \A j \in 1 .. k : stack[j] \in V
      BY <2>4 DEF Pending
    <3>. QED
      BY <2>1, <2>2, <3>1, <3>2, SubSeqProperties
  <2>7. PartialClosure(V, f, args)
    BY <2>5, <2>6 DEF PartialClosure
  <2>8. ValuesOK(V2) /\ V \subseteq V2
    BY <1>2, <2>3, <2>7, AddPartial
  <2>9. PICK q : q = Popped(k)
    OBVIOUS
  <2>10. PICK B, G : Layout(q, V, B, G) /\ Pending(q, V, B, 0, trapSp)
    <3>1. IsPopped(stack, q, k) /\ 0 = k - k
      BY <2>9 DEF IsPopped, Popped
    <3>. QED
      BY <1>2, <2>4, <2>5, <3>1, ArgumentsPopped
  <2>11. RetsOK(q, V, B, G) /\ IsStack(q) /\ Len(q) <= StackWosize
    BY <2>10 DEF Layout, RetsOK
  <2>12. Len(q) \in Nat /\ B \subseteq 1 .. Len(q)
    BY <2>11, RetsHeights
  <2>13. PICK m \in Nat : m = Len(q)
    BY <2>12
  <2>14. Same(q, q, m)
    BY <2>13 DEF Same
  <2>15. Layout(q, V2, B \cap (1 .. m), G \cap (1 .. m))
    BY <2>8, <2>10, <2>11, <2>14, LayoutStable
  <2>16. Pending(q, V2, B \cap (1 .. m), 0, trapSp)
    <3>1. B \cap (1 .. m) = B
      BY <2>12, <2>13
    <3>. QED
      BY <2>8, <2>10, <3>1 DEF Pending
  <2>17. acc' \in V2 /\ ReturnTo(q) /\ trapSp' = trapSp
    BY <1>5, <1>11, <2>1, <2>2, <2>3, <2>9
  <2>. QED
    BY <2>15, <2>16, <2>17, PendingReturn
<1>. QED
  BY <1>6, <1>7, <1>9, <1>10, <1>11 DEF GRAB

LEMMA RaiseInstruction ==
  ASSUME NEW V, NEW A, NEW H, Laid(V, A, H), RAISE
  PROVE  LaidOut'
BY LaidFacts, RaiseLaid DEF RAISE

-----------------------------------------------------------------------------
(* The invariant holds.                                                    *)

LEMMA InitLaid ==
  ASSUME Init
  PROVE  LaidOut
<1>. DEFINE V == {Val_unit, OCAML_Stack_overflow, OCAML_Out_of_memory} \cup Literals
                   \cup {Closure(f) : f \in Functions}
<1>1. /\ pc = Body("main", <<>>) /\ stack = <<>> /\ acc = Val_unit /\ env = Val_unit
      /\ trapSp = Val_int(-1) /\ extra_args = 0
  BY DEF Init
<1>2. ValuesOK(V)
  <2>1. ASSUME NEW v \in V, v.kind = "clos" PROVE \E f \in Functions : v = Closure(f)
    <3>1. Val_unit.kind = "int"
      BY DEF Val_unit, Val_int
    <3>. QED
      BY <2>1, <3>1, LiteralsAssumption
  <2>2. Trap \notin V
    <3>1. Trap.kind = "trap" /\ Val_unit.kind = "int" /\ \A f : Closure(f).kind = "clos"
      BY DEF Trap, Val_unit, Val_int, Closure, MakeClosure
    <3>. QED
      BY <3>1, TrapAssumption
  <2>. QED
    BY <2>1, <2>2 DEF ValuesOK
<1>3. IsStack(stack) /\ Len(stack) = 0
  BY <1>1 DEF IsStack
<1>4. Layout(stack, V, {}, {})
  <2>1. 0 <= StackWosize
    BY Constants
  <2>. QED
    BY <1>2, <1>3, <2>1 DEF Layout, RetsOK
<1>5. FrameOK(stack, V, {}, {}, "main", <<>>, 0, 0)
  <2>1. <<>> \in Seq(Items) /\ Len(<<>>) = 0 /\ 0 \in 0 .. MaxExtraArgs /\ Size(<<>>) = 0
    BY SizeSmall, Constants
  <2>2. 1 .. 0 = {}
    OBVIOUS
  <2>. HIDE DEF V
  <2>. QED
    BY <2>1, <2>2 DEF FrameOK
<1>6. trapSp = Innermost(FrameTraps(stack, "main", <<>>, 0, 0))
  <2>1. FrameTraps(stack, "main", <<>>, 0, 0) = {}
    BY DEF FrameTraps, Offsets
  <2>. QED
    BY <1>1, <2>1 DEF Innermost
<1>7. InBody(stack, V, {}, {}, pc, env, extra_args, trapSp)
  <2>. HIDE DEF V
  <2>. QED
    BY <1>1, <1>3, <1>5, <1>6 DEF InBody, EnvOf
<1>8. Laid(V, {}, {})
  BY <1>1, <1>4, <1>7 DEF Laid, Control
<1>. QED
  BY <1>8 DEF LaidOut

LEMMA NextLaid ==
  ASSUME LaidOut, [Next]_vars
  PROVE  LaidOut'
<1>1. PICK V, A, H : Laid(V, A, H)
  BY DEF LaidOut
<1>2. CASE UNCHANGED vars
  <2>1. Laid(V, A, H)'
    BY <1>1, <1>2 DEF Laid, vars
  <2>. QED
    BY <2>1 DEF LaidOut
<1>3. CASE Load
  BY <1>1, <1>3, LoadLaid
<1>4. CASE PUSH
  BY <1>1, <1>4, PushLaid
<1>5. CASE POP
  BY <1>1, <1>5, PopLaid
<1>6. CASE STOP
  BY <1>1, <1>6, StopLaid
<1>7. CASE PUSH_RETADDR
  BY <1>1, <1>7, PushRetaddrLaid
<1>8. ASSUME NEW n \in 1 .. MaxShape, APPLY(n) PROVE LaidOut'
  BY <1>1, <1>8, ApplyLaid
<1>9. ASSUME NEW n \in 1 .. MaxShape, APPTERM(n) PROVE LaidOut'
  BY <1>1, <1>9, ApptermLaid
<1>10. ASSUME NEW n \in 1 .. 3, APPLYn(n) PROVE LaidOut'
  BY <1>1, <1>10, ApplynLaid
<1>11. CASE RETURN
  BY <1>1, <1>11, ReturnLaid
<1>12. CASE RESTART
  BY <1>1, <1>12, RestartLaid
<1>13. CASE GRAB
  BY <1>1, <1>13, GrabLaid
<1>14. CASE PUSHTRAP
  BY <1>1, <1>14, PushTrapLaid
<1>15. CASE POPTRAP
  BY <1>1, <1>15, PopTrapLaid
<1>16. CASE RAISE
  BY <1>1, <1>16, RaiseInstruction
<1>. QED
  BY <1>2, <1>3, <1>4, <1>5, <1>6, <1>7, <1>8, <1>9, <1>10, <1>11, <1>12, <1>13, <1>14, <1>15,
     <1>16 DEF Next

Statuses == status \in {"run", "uncaught", "stopped"}

LEMMA LaidAlways == Spec => [](LaidOut /\ Statuses)
<1>1. Init => LaidOut /\ Statuses
  BY InitLaid DEF Init, Statuses
<1>2. LaidOut /\ Statuses /\ [Next]_vars => (LaidOut /\ Statuses)'
  <2>1. Statuses /\ [Next]_vars => Statuses'
    BY DEF Statuses, Next, vars, Load, PUSH, POP, STOP, PUSH_RETADDR, APPLY, APPTERM, APPLYn, RETURN,
           RESTART, GRAB, PUSHTRAP, POPTRAP, RAISE, Overflow, Raise
  <2>. QED
    BY <2>1, NextLaid
<1>. QED
  BY <1>1, <1>2, PTL DEF Spec

\* TypeOK and EnvIsOfFunction follow from the layout.
LEMMA LaidTypes ==
  ASSUME LaidOut, Statuses
  PROVE  TypeOK /\ EnvIsOfFunction
<1>1. PICK V, A, H : Laid(V, A, H)
  BY DEF LaidOut
<1>2. /\ RetsOK(stack, V, A, H) /\ Len(stack) \in Nat /\ Len(stack) <= StackWosize
      /\ H \subseteq 1 .. Len(stack)
  BY <1>1, LaidFacts
<1>3. Control(stack, V, A, H, pc, env, extra_args, trapSp)
  BY <1>1 DEF Laid
<1>4. PICK C : trapSp = Innermost(C) /\ \A o \in C : \E g \in H : IsOffset(o, g)
  <2>1. Control(stack, V, A, H, pc, env, extra_args, trapSp) /\ RetsOK(stack, V, A, H)
    BY <1>2, <1>3
  <2>. QED
    BY <2>1, TrapsKnown
<1>5. trapSp.kind = "int" /\ trapSp.n \in -1 .. StackWosize
  <2>1. \A g \in H : g \in Nat /\ g <= StackWosize
    BY <1>2, Constants
  <2>2. /\ C \subseteq 0 .. StackWosize
        /\ C = {} => Innermost(C) = Val_int(-1)
        /\ C # {} => \E o \in C : Innermost(C) = Val_int(o) /\ (\A q \in C : o <= q)
    BY <1>4, <2>1, InnermostIsOne
  <2>3. \E n \in -1 .. StackWosize : trapSp = Val_int(n)
    <3>1. -1 \in -1 .. StackWosize /\ \A o \in 0 .. StackWosize : o \in -1 .. StackWosize
      BY Constants
    <3>. QED
      BY <1>4, <2>2, <3>1
  <2>. QED
    BY <2>3 DEF Val_int
<1>6. Len(stack) \in 0 .. StackWosize
  BY <1>2, Constants
<1>7. CASE InBody(stack, V, A, H, pc, env, extra_args, trapSp)
  <2>1. PICK f, shape : /\ pc = Body(f, shape) /\ env = EnvOf(f)
                        /\ FrameOK(stack, V, A, H, f, shape, extra_args, Len(stack))
    BY <1>7 DEF InBody
  <2>2. pc.fn = f /\ pc.at = "body" /\ pc.shape = shape
    BY <2>1 DEF Body, Point
  <2>3. f \in Functions \cup {"main"} /\ shape \in Seq(Items) /\ extra_args \in 0 .. MaxExtraArgs
    BY <2>1 DEF FrameOK
  <2>4. extra_args \in 0 .. ExtraArgsRange - 1
    <3>1. CASE f = "main"
      <4>1. extra_args = 0 /\ ExtraArgsRange \in Nat \ {0}
        BY <2>1, <3>1, BoundsAssumption DEF FrameOK
      <4>. QED
        BY <4>1
    <3>2. CASE f # "main"
      <4>1. f \in Functions /\ extra_args \in 0 .. MaxExtraArgs + Arity[f] - 1
        BY <2>3, <3>2, Constants
      <4>. QED
        BY <4>1, NoWrap
    <3>. QED
      BY <3>1, <3>2
  <2>5. EnvIsOfFunction
    BY <2>1, <2>2 DEF EnvIsOfFunction, EnvOf
  <2>. QED
    BY <1>5, <1>6, <2>2, <2>3, <2>4, <2>5 DEF TypeOK, Statuses, Items
<1>8. CASE OnEntry(stack, V, A, pc, env, extra_args, trapSp)
  <2>1. CASE AtGrab(V, pc, env, extra_args)
    <3>1. PICK f \in Functions : /\ pc = Point(f, "grab", <<>>) /\ env = Closure(f)
                                 /\ extra_args \in 0 .. MaxExtraArgs + Arity[f] - 1
      BY <2>1 DEF AtGrab
    <3>2. extra_args \in 0 .. ExtraArgsRange - 1
      BY <3>1, NoWrap
    <3>3. pc.fn = f /\ pc.at = "grab" /\ pc.shape = <<>> /\ <<>> \in Seq({"v", "ret", "trap"})
      BY <3>1 DEF Point
    <3>. QED
      BY <1>5, <1>6, <3>1, <3>2, <3>3 DEF TypeOK, Statuses, EnvIsOfFunction
  <2>2. CASE AtRestart(V, pc, env, extra_args)
    <3>1. PICK f \in Functions : pc = Point(f, "restart", <<>>) /\ extra_args \in 0 .. MaxExtraArgs
      BY <2>2 DEF AtRestart
    <3>2. extra_args \in 0 .. MaxExtraArgs + Arity[f] - 1
      BY <3>1, Constants
    <3>3. extra_args \in 0 .. ExtraArgsRange - 1
      BY <3>2, NoWrap
    <3>4. pc.fn = f /\ pc.at = "restart" /\ pc.shape = <<>> /\ <<>> \in Seq({"v", "ret", "trap"})
      BY <3>1 DEF Point
    <3>. QED
      BY <1>5, <1>6, <3>3, <3>4 DEF TypeOK, Statuses, EnvIsOfFunction
  <2>. QED
    BY <1>8, <2>1, <2>2 DEF OnEntry
<1>. QED
  BY <1>3, <1>7, <1>8 DEF Control

\* In every state, of every program that respects the shapes the compiler computes:
\* the stack never outgrows ocaml_stack, extra_args never leaves its byte, trapSp
\* holds a place in the stack or -1 (interp.c:26-30, 466-673, 1487-1550).
THEOREM TypeCorrect == Spec => []TypeOK
<1>1. LaidOut /\ Statuses => TypeOK
  BY LaidTypes
<1>. QED
  BY <1>1, LaidAlways, PTL

\* In the body of a function, env is that function, whatever it called, applied to too
\* few arguments, or caught (interp.c:466-673, 1487-1550).
THEOREM EnvCorrect == Spec => []EnvIsOfFunction
<1>1. LaidOut /\ Statuses => EnvIsOfFunction
  BY LaidTypes
<1>. QED
  BY <1>1, LaidAlways, PTL

-----------------------------------------------------------------------------
(* The chain of trap frames.                                               *)

\* Item i and what lies above it.
LEMMA UpToItem ==
  ASSUME NEW s, NEW i, s \in Seq(Items), i \in 1 .. Len(s)
  PROVE  Size(SubSeq(s, 1, i)) = Above(s, i) + Words(s[i])
<1>1. i \in 0 .. Len(s)
  OBVIOUS
<1>2. /\ Size(SubSeq(s, 1, i)) \in Nat /\ Size(Rest(s, i)) \in Nat
      /\ Size(s) = Size(SubSeq(s, 1, i)) + Size(Rest(s, i))
  BY <1>1, SizeSplit DEF Rest
<1>3. /\ Above(s, i) \in Nat /\ Words(s[i]) \in 1 .. 4 /\ Size(s) \in Nat
      /\ Above(s, i) + Words(s[i]) + Size(Rest(s, i)) = Size(s)
  BY AboveItem
<1>. QED
  BY <1>2, <1>3

\* Items further down start lower.
LEMMA ItemsDescend ==
  ASSUME NEW s, NEW i, NEW j, s \in Seq(Items), i \in 1 .. Len(s), j \in 1 .. Len(s), i < j
  PROVE  Above(s, i) + Words(s[i]) <= Above(s, j)
<1>1. PICK k \in Nat : j = i + k /\ k \in 1 .. Len(s) - i
  <2>1. j - i \in Nat /\ j = i + (j - i) /\ j - i \in 1 .. Len(s) - i
    OBVIOUS
  <2>. QED
    BY <2>1
<1>2. i \in 0 .. Len(s)
  OBVIOUS
<1>3. /\ Above(s, i + k) = Size(SubSeq(s, 1, i)) + Above(Rest(s, i), k)
      /\ Len(Rest(s, i)) = Len(s) - i /\ Rest(s, i) \in Seq(Items)
  BY <1>1, <1>2, DropItems
<1>4. Above(Rest(s, i), k) \in Nat
  BY <1>1, <1>3, AboveItem
<1>5. Size(SubSeq(s, 1, i)) = Above(s, i) + Words(s[i])
  BY UpToItem
<1>6. Above(s, i) \in Nat /\ Words(s[i]) \in 1 .. 4
  BY AboveItem
<1>. QED
  BY <1>1, <1>3, <1>4, <1>5, <1>6

OffsetsAbove(shape, top, o) == {p \in Offsets(shape, top) : p > o}

\* The trap frames under item i, a trap frame, are those of the items under it.
LEMMA OffsetsUnder ==
  ASSUME NEW shape, NEW top, NEW i, NEW g, NEW low, NEW o,
         shape \in Seq(Items), top \in Int, i \in 1 .. Len(shape), shape[i] = "trap",
         g = top - Above(shape, i), low = g - 4, IsOffset(o, g)
  PROVE  Offsets(Rest(shape, i), low) = OffsetsAbove(shape, top, o)
<1>1. Len(shape) \in Nat /\ DOMAIN shape = 1 .. Len(shape) /\ StackWosize \in Nat
  BY LenProperties, Constants
<1>2. \A j \in 1 .. Len(shape) : Above(shape, j) \in Nat /\ Words(shape[j]) \in 1 .. 4
  BY AboveItem
<1>3. Words(shape[i]) = 4 /\ i \in 0 .. Len(shape)
  BY DEF Words
<1>4. PICK rest : rest = Rest(shape, i)
  OBVIOUS
<1>5. /\ rest \in Seq(Items) /\ Len(rest) = Len(shape) - i
      /\ \A j \in 1 .. Len(shape) - i :
           /\ rest[j] = shape[i + j]
           /\ Above(shape, i + j) = Size(SubSeq(shape, 1, i)) + Above(rest, j)
  BY <1>3, <1>4, DropItems
<1>6. Size(SubSeq(shape, 1, i)) = Above(shape, i) + 4
  BY <1>3, UpToItem
<1>7. DOMAIN rest = 1 .. Len(shape) - i /\ \A j \in 1 .. Len(shape) - i : Above(rest, j) \in Nat
  <2>1. DOMAIN rest = 1 .. Len(shape) - i
    BY <1>5, LenProperties
  <2>2. \A j \in 1 .. Len(rest) : Above(rest, j) \in Nat
    BY <1>5, AboveItem
  <2>. QED
    BY <1>5, <2>1, <2>2
<1>8. ASSUME NEW p \in Offsets(rest, low) PROVE p \in OffsetsAbove(shape, top, o)
  <2>1. PICK j \in DOMAIN rest : rest[j] = "trap" /\ p = StackWosize - (low - Above(rest, j))
    BY DEF Offsets
  <2>2. j \in 1 .. Len(shape) - i
    BY <1>7, <2>1
  <2>3. PICK k \in 1 .. Len(shape) : k = i + j
    BY <1>1, <2>2
  <2>4. shape[k] = "trap" /\ Above(shape, k) = Above(shape, i) + 4 + Above(rest, j)
    BY <1>5, <1>6, <2>1, <2>2, <2>3
  <2>5. Above(shape, k) \in Nat /\ Above(shape, i) \in Nat /\ Above(rest, j) \in Nat
    BY <1>2, <1>7, <2>2
  <2>6. p = StackWosize - (top - Above(shape, k)) /\ p > o
    <3>1. PICK a \in Nat, b \in Nat : a = Above(shape, i) /\ b = Above(rest, j)
      BY <2>5
    <3>2. o = StackWosize - (top - a) /\ p = StackWosize - (top - a - 4 - b)
      BY <2>1, <3>1 DEF IsOffset
    <3>3. Above(shape, k) = a + 4 + b
      BY <2>4, <3>1
    <3>. QED
      BY <1>1, <3>2, <3>3
  <2>. QED
    BY <1>1, <2>4, <2>6 DEF Offsets, OffsetsAbove
<1>9. ASSUME NEW p \in OffsetsAbove(shape, top, o) PROVE p \in Offsets(rest, low)
  <2>1. PICK k \in 1 .. Len(shape) : shape[k] = "trap" /\ p = StackWosize - (top - Above(shape, k))
    BY <1>1 DEF Offsets, OffsetsAbove
  <2>2. p > o
    BY DEF OffsetsAbove
  <2>3. Above(shape, k) \in Nat /\ Above(shape, i) \in Nat
    BY <1>2
  <2>4. Above(shape, k) > Above(shape, i)
    <3>1. PICK a \in Nat, b \in Nat : a = Above(shape, i) /\ b = Above(shape, k)
      BY <2>3
    <3>2. o = StackWosize - (top - a) /\ p = StackWosize - (top - b)
      BY <2>1, <3>1 DEF IsOffset
    <3>3. StackWosize \in Int /\ top \in Int
      BY <1>1
    <3>4. o \in Int /\ p \in Int /\ p - o = b - a
      BY <3>2, <3>3
    <3>5. b > a
      BY <2>2, <3>4
    <3>. QED
      BY <3>1, <3>5
  <2>5. k > i
    <3>1. SUFFICES ASSUME ~ (k > i) PROVE FALSE
      OBVIOUS
    <3>2. k = i \/ k < i
      BY <3>1
    <3>3. k < i
      BY <2>3, <2>4, <3>2
    <3>4. Above(shape, k) + Words(shape[k]) <= Above(shape, i)
      BY <3>3, ItemsDescend
    <3>5. Words(shape[k]) \in 1 .. 4
      BY <1>2
    <3>. QED
      BY <2>3, <2>4, <3>4, <3>5
  <2>6. PICK j \in 1 .. Len(shape) - i : k = i + j
    <3>1. k - i \in 1 .. Len(shape) - i /\ k = i + (k - i)
      BY <1>1, <2>5
    <3>. QED
      BY <3>1
  <2>7. rest[j] = "trap" /\ Above(shape, k) = Above(shape, i) + 4 + Above(rest, j) /\ Above(rest, j) \in Nat
    BY <1>5, <1>6, <1>7, <2>1, <2>6
  <2>8. p = StackWosize - (low - Above(rest, j))
    <3>1. PICK a \in Nat, b \in Nat : a = Above(shape, i) /\ b = Above(rest, j)
      BY <2>3, <2>7
    <3>2. p = StackWosize - (top - (a + 4 + b))
      BY <2>1, <2>7, <3>1
    <3>3. top \in Int /\ low = top - a - 4
      BY <3>1
    <3>4. top - (a + 4 + b) = low - b
      BY <3>3, SMTT(20)
    <3>. QED
      BY <3>1, <3>2, <3>4
  <2>. QED
    BY <1>7, <2>6, <2>7, <2>8 DEF Offsets
<1>. QED
  BY <1>4, <1>8, <1>9

TrapsAbove(T, o) == {p \in T : p > o}

\* Each of these trap frames holds the innermost of those under it.
Linked(s, T) == \A o \in T : W(s, StackWosize - o - 1) = Innermost(TrapsAbove(T, o))

\* The trap frames of a function, of those it was called from too, form a chain.
LEMMA TrapsLinked ==
  ASSUME NEW s, NEW V, NEW A, NEW H, Layout(s, V, A, H)
  PROVE  \A n \in Nat : \A f, shape, x :
           FrameOK(s, V, A, H, f, shape, x, n) => Linked(s, FrameTraps(s, f, shape, x, n))
<1>. DEFINE Chained(n) == \A f, shape, x :
              FrameOK(s, V, A, H, f, shape, x, n) => Linked(s, FrameTraps(s, f, shape, x, n))
            S == {n \in Nat : ~ Chained(n)}
<1>1. RetsOK(s, V, A, H) /\ \A g \in H : \E f, shape, x : TrapFrame(s, V, A, H, g, f, shape, x)
  BY DEF Layout
<1>2. /\ Len(s) \in Nat /\ Heights(A) /\ A \subseteq Nat \ {0} /\ H \subseteq 1 .. Len(s)
      /\ StackWosize \in Nat
  BY <1>1, RetsHeights, Constants DEF Heights
<1>3. SUFFICES ASSUME S # {} PROVE FALSE
  OBVIOUS
<1>. HIDE DEF Chained
<1>4. PICK top \in S : \A n \in S : top <= n
  BY <1>3, Least
<1>5. top \in Nat /\ ~ Chained(top) /\ \A n \in Nat : n < top => Chained(n)
  BY <1>4
<1>. HIDE DEF S
<1>6. PICK f, shape, x : /\ FrameOK(s, V, A, H, f, shape, x, top)
                         /\ ~ Linked(s, FrameTraps(s, f, shape, x, top))
  BY <1>5 DEF Chained
<1>7. PICK o \in FrameTraps(s, f, shape, x, top) :
        W(s, StackWosize - o - 1) # Innermost(TrapsAbove(FrameTraps(s, f, shape, x, top), o))
  BY <1>6 DEF Linked
<1>8. top \in Int
  BY <1>5
<1>9. /\ shape \in Seq(Items) /\ Len(shape) \in Nat /\ DOMAIN shape = 1 .. Len(shape)
      /\ x \in Nat /\ ReturnHeight(shape, x, top) \in Nat
      /\ f # "main" => ReturnHeight(shape, x, top) \in A
  BY <1>2, <1>6, <1>8, FrameBounds
<1>10. PICK u \in Nat : u = ReturnHeight(shape, x, top)
  BY <1>9
<1>11. FrameTraps(s, f, shape, x, top) = Offsets(shape, top) \cup IF f = "main" THEN {} ELSE TrapsBelow(s, u)
  BY <1>10 DEF FrameTraps
<1>12. ASSUME NEW p \in Offsets(shape, top)
       PROVE  \E g \in H : g \in Int /\ g <= top /\ g - 4 >= u /\ IsOffset(p, g)
  BY <1>2, <1>6, <1>8, <1>10, OwnOffsets
<1>13. ASSUME f # "main", NEW p \in TrapsBelow(s, u)
       PROVE  \E g \in H : g < u /\ IsOffset(p, g)
  BY <1>1, <1>9, <1>10, <1>13, TrapsBelowBounded
<1>14. CASE o \in Offsets(shape, top)
  <2>1. PICK i \in 1 .. Len(shape) : shape[i] = "trap" /\ o = StackWosize - (top - Above(shape, i))
    BY <1>9, <1>14 DEF Offsets
  <2>2. PICK g \in Int : g = top - Above(shape, i)
    BY <1>2, <1>6, <1>8, FrameItem
  <2>3. /\ g \in H /\ W(s, g) = Val_codeptr(Body(f, Rest(shape, i)))
        /\ W(s, g - 3) = Val_int(x)
    <3>1. ItemOK(s, V, A, H, f, shape, x, i, g)
      BY <1>6, <2>2 DEF FrameOK
    <3>. QED
      BY <2>1, <3>1 DEF ItemOK
  <2>4. PICK f1, shape1, x1 : TrapFrame(s, V, A, H, g, f1, shape1, x1)
    BY <1>1, <2>3
  <2>5. f1 = f /\ shape1 = Rest(shape, i) /\ x1 = x
    BY <2>3, <2>4 DEF TrapFrame, Val_codeptr, Body, Point, Val_int
  <2>6. PICK low \in Int : low = g - 4
    BY <2>2
  <2>7. W(s, g - 1) = Innermost(FrameTraps(s, f, Rest(shape, i), x, low))
    BY <2>4, <2>5, <2>6 DEF TrapFrame
  <2>8. IsOffset(o, g)
    BY <2>1, <2>2 DEF IsOffset
  <2>9. Offsets(Rest(shape, i), low) = OffsetsAbove(shape, top, o)
    BY <1>8, <1>9, <2>1, <2>2, <2>6, <2>8, OffsetsUnder
  <2>10. ReturnHeight(Rest(shape, i), x, low) = u
    <3>1. Above(shape, i) + Words(shape[i]) + Size(Rest(shape, i)) = Size(shape)
          /\ Above(shape, i) \in Nat /\ Size(Rest(shape, i)) \in Nat /\ Size(shape) \in Nat
      BY <1>9, AboveItem
    <3>2. Words(shape[i]) = 4
      BY <2>1 DEF Words
    <3>3. u = top - Size(shape) - x
      BY <1>10 DEF ReturnHeight
    <3>4. PICK a \in Nat, b \in Nat, c \in Nat :
            a = Above(shape, i) /\ b = Size(Rest(shape, i)) /\ c = Size(shape)
      BY <3>1
    <3>5. a + 4 + b = c /\ low = top - a - 4 /\ u = top - c - x
      BY <2>2, <2>6, <3>1, <3>2, <3>3, <3>4
    <3>6. low - b - x = u
      BY <1>5, <1>9, <3>5
    <3>7. low - Size(Rest(shape, i)) - x = u
      BY <3>4, <3>6
    <3>. QED
      BY <3>7 DEF ReturnHeight
  <2>11. FrameTraps(s, f, Rest(shape, i), x, low) =
           OffsetsAbove(shape, top, o) \cup IF f = "main" THEN {} ELSE TrapsBelow(s, u)
    BY <2>9, <2>10 DEF FrameTraps
  <2>12. ASSUME f # "main", NEW p \in TrapsBelow(s, u) PROVE p > o
    <3>1. PICK h \in H : h < u /\ IsOffset(p, h)
      BY <1>13, <2>12
    <3>2. PICK k \in H : k \in Int /\ k - 4 >= u /\ IsOffset(o, k)
      BY <1>12, <1>14
    <3>3. h \in Nat
      BY <1>2
    <3>. QED
      BY <1>2, <3>1, <3>2, <3>3 DEF IsOffset
  <2>13. TrapsAbove(FrameTraps(s, f, shape, x, top), o) = FrameTraps(s, f, Rest(shape, i), x, low)
    BY <1>11, <2>11, <2>12 DEF TrapsAbove, OffsetsAbove
  <2>14. StackWosize - o - 1 = g - 1
    BY <1>2, <2>2, <2>8 DEF IsOffset
  <2>. QED
    BY <1>7, <2>7, <2>13, <2>14
<1>15. CASE ~ o \in Offsets(shape, top)
  <2>1. f # "main" /\ o \in TrapsBelow(s, u) /\ u \in A
    BY <1>9, <1>10, <1>11, <1>15
  <2>2. PICK f1, shape1, x1 : RetFrame(s, V, A, H, u, f1, shape1, x1)
    BY <1>1, <2>1 DEF RetsOK
  <2>3. TrapsBelow(s, u) = FrameTraps(s, f1, shape1, x1, u - 3) /\ u \in 3 .. Len(s)
    BY <1>1, <2>1, <2>2, RetTraps
  <2>4. PICK low \in Nat : low = u - 3
    BY <2>3
  <2>5. FrameOK(s, V, A, H, f1, shape1, x1, low)
    BY <2>2, <2>4 DEF RetFrame
  <2>6. low < top
    <3>1. Size(shape) \in Nat
      BY <1>2, <1>6, <1>8, FrameBounds
    <3>2. u = top - Size(shape) - x
      BY <1>10 DEF ReturnHeight
    <3>. QED
      BY <1>5, <1>9, <2>4, <3>1, <3>2
  <2>7. Linked(s, TrapsBelow(s, u))
    BY <1>5, <2>3, <2>4, <2>5, <2>6 DEF Chained
  <2>8. W(s, StackWosize - o - 1) = Innermost(TrapsAbove(TrapsBelow(s, u), o))
    BY <2>1, <2>7 DEF Linked
  <2>9. ASSUME NEW p \in Offsets(shape, top) PROVE ~ (p > o)
    <3>1. PICK h \in H : h < u /\ IsOffset(o, h)
      BY <1>13, <2>1
    <3>2. PICK k \in H : k \in Int /\ k - 4 >= u /\ IsOffset(p, k)
      BY <1>12
    <3>3. h \in Nat
      BY <1>2
    <3>. QED
      BY <1>2, <3>1, <3>2, <3>3 DEF IsOffset
  <2>10. TrapsAbove(FrameTraps(s, f, shape, x, top), o) = TrapsAbove(TrapsBelow(s, u), o)
    BY <1>11, <2>1, <2>9 DEF TrapsAbove
  <2>. QED
    BY <1>7, <2>8, <2>10
<1>. QED
  BY <1>14, <1>15

\* What FromOffset leads to.
LEMMA SecondWord ==
  ASSUME NEW o, NEW g, IsStack(stack), Len(stack) \in Nat, g \in 4 .. Len(stack), IsOffset(o, g)
  PROVE  FromOffset(o)[2] = W(stack, StackWosize - o - 1)
<1>1. PICK n \in 0 .. Len(stack) : n = Len(stack) - g
  <2>1. Len(stack) - g \in 0 .. Len(stack)
    OBVIOUS
  <2>. QED
    BY <2>1
<1>2. Len(stack) - (StackWosize - o) + 1 = n + 1 /\ StackWosize - o - 1 = g - 1
  BY <1>1, Constants DEF IsOffset
<1>3. FromOffset(o) = SubSeq(stack, n + 1, Len(stack))
  BY <1>2 DEF FromOffset
<1>4. \A j \in 1 .. Len(stack) - n : SubSeq(stack, n + 1, Len(stack))[j] = stack[n + j]
  BY PoppedStack
<1>5. 2 \in 1 .. Len(stack) - n /\ n + 2 = Len(stack) - (g - 1) + 1
  BY <1>1
<1>6. FromOffset(o)[2] = stack[n + 2]
  BY <1>3, <1>4, <1>5
<1>. QED
  BY <1>2, <1>5, <1>6 DEF W

\* The trap frames in progress are those that the layout counts.
LEMMA TrapsInBody ==
  ASSUME NEW V, NEW A, NEW H, NEW f, NEW shape, RetsOK(stack, V, A, H), pc = Body(f, shape),
         FrameOK(stack, V, A, H, f, shape, extra_args, Len(stack))
  PROVE  Traps = FrameTraps(stack, f, shape, extra_args, Len(stack))
<1>1. Len(stack) \in Nat /\ A \subseteq Nat \ {0} /\ StackWosize \in Nat
  BY RetsHeights, Constants
<1>2. PICK top \in Int : top = Len(stack)
  BY <1>1
<1>3. FrameOK(stack, V, A, H, f, shape, extra_args, top)
  BY <1>2
<1>4. /\ shape \in Seq(Items) /\ DOMAIN shape = 1 .. Len(shape) /\ extra_args \in Nat
      /\ Size(shape) \in Nat
  BY <1>1, <1>3, FrameBounds
<1>5. pc.fn = f /\ pc.shape = shape /\ ~ Entering
  BY DEF Body, Point, Entering
<1>6. TrapsAt(shape, 1) = Offsets(shape, Len(stack))
  <2>1. \A i \in DOMAIN shape : Above(shape, i) \in Nat
    BY <1>4, AboveItem
  <2>2. \A i \in DOMAIN shape :
          StackWosize - Len(stack) + 1 - 1 + Above(shape, i) = StackWosize - (Len(stack) - Above(shape, i))
    BY <1>1, <2>1
  <2>. QED
    BY <2>2 DEF TrapsAt, Offsets
<1>7. TrapsFrom(Under(pc, extra_args, 1)) = TrapsBelow(stack, ReturnHeight(shape, extra_args, Len(stack)))
  <2>1. Len(stack) - ReturnHeight(shape, extra_args, Len(stack)) + 1 = Under(pc, extra_args, 1)
    BY <1>1, <1>4, <1>5 DEF ReturnHeight, Under
  <2>. QED
    BY <2>1, TrapsFromStack DEF TrapsBelow
<1>. QED
  BY <1>5, <1>6, <1>7 DEF Traps, FrameTraps

LEMMA TrapsOnEntry ==
  ASSUME Len(stack) \in Nat, extra_args \in Nat, Entering
  PROVE  Traps = TrapsBelow(stack, Len(stack) - extra_args - 1)
<1>1. Len(stack) - (Len(stack) - extra_args - 1) + 1 = extra_args + 2
  OBVIOUS
<1>. QED
  BY <1>1, TrapsFromStack DEF Traps, TrapsBelow

LEMMA LaidChain ==
  ASSUME LaidOut
  PROVE  TrapChain
<1>1. PICK V, A, H : Laid(V, A, H)
  BY DEF LaidOut
<1>2. /\ Layout(stack, V, A, H) /\ RetsOK(stack, V, A, H) /\ Len(stack) \in Nat /\ IsStack(stack)
  BY <1>1, LaidFacts
<1>3. Control(stack, V, A, H, pc, env, extra_args, trapSp)
  BY <1>1 DEF Laid
<1>4. SUFFICES /\ trapSp = Innermost(Traps) /\ Linked(stack, Traps)
               /\ \A o \in Traps : \E g \in H : IsOffset(o, g)
  <2>1. ASSUME Linked(stack, Traps), NEW o \in Traps, NEW g \in H, IsOffset(o, g)
        PROVE  FromOffset(o)[2] = Innermost({p \in Traps : p > o})
    <3>1. g \in 4 .. Len(stack)
      BY <1>2, TrapHeights
    <3>2. FromOffset(o)[2] = W(stack, StackWosize - o - 1)
      BY <1>2, <2>1, <3>1, SecondWord
    <3>. QED
      BY <2>1, <3>2 DEF Linked, TrapsAbove
  <2>. QED
    BY <1>4, <2>1 DEF TrapChain
<1>5. CASE InBody(stack, V, A, H, pc, env, extra_args, trapSp)
  <2>1. PICK f, shape : /\ pc = Body(f, shape)
                        /\ FrameOK(stack, V, A, H, f, shape, extra_args, Len(stack))
                        /\ trapSp = Innermost(FrameTraps(stack, f, shape, extra_args, Len(stack)))
    BY <1>5 DEF InBody
  <2>2. Traps = FrameTraps(stack, f, shape, extra_args, Len(stack))
    BY <1>2, <2>1, TrapsInBody
  <2>3. Linked(stack, Traps)
    BY <1>2, <2>1, <2>2, TrapsLinked
  <2>4. ASSUME NEW o \in Traps PROVE \E g \in H : IsOffset(o, g)
    <3>1. PICK top \in Int : top = Len(stack)
      BY <1>2
    <3>2. FrameOK(stack, V, A, H, f, shape, extra_args, top) /\ o \in FrameTraps(stack, f, shape, extra_args, top)
      BY <2>1, <2>2, <3>1
    <3>. QED
      BY <1>2, <3>2, FrameTrapsKnown
  <2>. QED
    BY <2>1, <2>2, <2>3, <2>4
<1>6. CASE OnEntry(stack, V, A, pc, env, extra_args, trapSp)
  <2>1. /\ extra_args \in Nat /\ Len(stack) - extra_args - 1 \in A
        /\ trapSp = Innermost(TrapsBelow(stack, Len(stack) - extra_args - 1))
    BY <1>6 DEF OnEntry, Arrived
  <2>2. Entering
    <3>1. CASE AtGrab(V, pc, env, extra_args)
      BY <3>1 DEF AtGrab, Point, Entering
    <3>2. CASE AtRestart(V, pc, env, extra_args)
      <4>1. PICK g : pc = Point(g, "restart", <<>>)
        BY <3>2 DEF AtRestart
      <4>. QED
        BY <4>1 DEF Point, Entering
    <3>. QED
      BY <1>6, <3>1, <3>2 DEF OnEntry
  <2>3. PICK T \in A : T = Len(stack) - extra_args - 1
    BY <2>1
  <2>4. Traps = TrapsBelow(stack, T) /\ trapSp = Innermost(TrapsBelow(stack, T))
    BY <1>2, <2>1, <2>2, <2>3, TrapsOnEntry
  <2>5. PICK f, shape, x : RetFrame(stack, V, A, H, T, f, shape, x)
    BY <1>2 DEF RetsOK
  <2>6. TrapsBelow(stack, T) = FrameTraps(stack, f, shape, x, T - 3) /\ T \in 3 .. Len(stack)
    BY <1>2, <2>5, RetTraps
  <2>7. PICK low \in Nat : low = T - 3
    BY <2>6
  <2>8. FrameOK(stack, V, A, H, f, shape, x, low)
    BY <2>5, <2>7 DEF RetFrame
  <2>9. Linked(stack, Traps)
    <3>1. Linked(stack, FrameTraps(stack, f, shape, x, low))
      BY <1>2, <2>8, TrapsLinked
    <3>. QED
      BY <2>4, <2>6, <2>7, <3>1
  <2>10. \A o \in Traps : \E g \in H : IsOffset(o, g)
    <3>1. \A o \in TrapsBelow(stack, T) : \E g \in H : g < T /\ IsOffset(o, g)
      BY <1>2, TrapsBelowBounded
    <3>. QED
      BY <2>4, <3>1
  <2>. QED
    BY <2>4, <2>9, <2>10
<1>. QED
  BY <1>3, <1>5, <1>6 DEF Control

\* At every moment trapSp leads to the innermost handler in progress, and each trap
\* frame to the next one out, the last to -1: PUSHTRAP, POPTRAP and RAISE keep the chain
\* through every call, return and partial application (interp.c:1487-1547).
THEOREM TrapChainCorrect == Spec => []TrapChain
<1>1. LaidOut /\ Statuses => TrapChain
  BY LaidChain
<1>. QED
  BY <1>1, LaidAlways, PTL

-----------------------------------------------------------------------------
(* FlattenSeq of a concatenation.                                           *)

\* fl[k] is the concatenation of the first k sequences of ss.
Joins(ss, fl) == fl[0] = <<>> /\ \A k \in 1 .. Len(ss) : fl[k] = fl[k - 1] \o ss[k]

LEMMA JoinsUnique ==
  ASSUME NEW ss, Len(ss) \in Nat, NEW f, NEW g, Joins(ss, f), Joins(ss, g)
  PROVE  \A k \in 0 .. Len(ss) : f[k] = g[k]
<1>. DEFINE S == {k \in Nat : k <= Len(ss) => f[k] = g[k]}
<1>1. 0 \in S
  BY DEF Joins
<1>2. ASSUME NEW k \in S PROVE k + 1 \in S
  <2>1. SUFFICES ASSUME k + 1 <= Len(ss) PROVE f[k + 1] = g[k + 1]
    OBVIOUS
  <2>2. f[k] = g[k] /\ k + 1 \in 1 .. Len(ss) /\ (k + 1) - 1 = k
    BY <2>1
  <2>. QED
    BY <2>2 DEF Joins
<1>3. S \in SUBSET Nat
  OBVIOUS
<1>. HIDE DEF S
<1>4. S = Nat
  BY <1>1, <1>2, <1>3, Induction
<1>. QED
  BY <1>4 DEF S

\* A function may be given one more value.
IsLonger(f, n, e, g) == (\A k \in 0 .. n : g[k] = f[k]) /\ g[n + 1] = e

LEMMA Longer ==
  ASSUME NEW n \in Nat, NEW f, NEW e
  PROVE  \E g : IsLonger(f, n, e, g)
<1>. DEFINE g == [k \in 0 .. n + 1 |-> IF k = n + 1 THEN e ELSE f[k]]
<1>1. (\A k \in 0 .. n : g[k] = f[k]) /\ g[n + 1] = e
  OBVIOUS
<1>. HIDE DEF g
<1>. QED
  BY <1>1 DEF IsLonger

Joined(X, ss, n, fl) ==
  /\ fl[0] = <<>> /\ \A k \in 1 .. n : fl[k] = fl[k - 1] \o ss[k]
  /\ \A k \in 0 .. n : fl[k] \in Seq(X)

LEMMA JoinsExist ==
  ASSUME NEW X, NEW ss \in Seq(Seq(X))
  PROVE  \E fl : Joins(ss, fl) /\ \A k \in 0 .. Len(ss) : fl[k] \in Seq(X)
<1>. DEFINE l == Len(ss)
            P(n, fl) == Joined(X, ss, n, fl)
            S == {n \in Nat : n <= l => \E fl : P(n, fl)}
<1>0. l \in Nat /\ \A k \in 1 .. l : ss[k] \in Seq(X)
  OBVIOUS
<1>1. 0 \in S
  <2>. DEFINE f == [k \in {0} |-> <<>>]
  <2>1. f[0] = <<>> /\ <<>> \in Seq(X) /\ \A k \in 0 .. 0 : k = 0
    OBVIOUS
  <2>2. P(0, f)
    BY <2>1 DEF Joined
  <2>. QED
    BY <2>2
<1>2. ASSUME NEW n \in S PROVE n + 1 \in S
  <2>1. SUFFICES ASSUME n + 1 <= l PROVE \E fl : P(n + 1, fl)
    OBVIOUS
  <2>2. PICK f : P(n, f)
    BY <2>1
  <2>0. n \in Nat
    OBVIOUS
  <2>3. PICK g : n \in Nat /\ (\A k \in 0 .. n : g[k] = f[k]) /\ g[n + 1] = f[n] \o ss[n + 1]
    <3>1. PICK g : IsLonger(f, n, f[n] \o ss[n + 1], g)
      BY <2>0, Longer
    <3>. QED
      BY <2>0, <3>1 DEF IsLonger
  <2>4. g[n + 1] = f[n] \o ss[n + 1] /\ f[n] \in Seq(X) /\ ss[n + 1] \in Seq(X)
    <3>. HIDE DEF S
    <3>1. n \in 0 .. n /\ n + 1 \in 1 .. l
      BY <1>0, <2>0, <2>1
    <3>. QED
      BY <1>0, <2>2, <2>3, <3>1 DEF Joined
  <2>5. ASSUME NEW k \in 1 .. n + 1 PROVE g[k] = g[k - 1] \o ss[k]
    <3>1. CASE k = n + 1
      <4>1. g[k - 1] = f[n]
        BY <2>3, <3>1
      <4>. QED
        BY <2>4, <3>1, <4>1
    <3>2. CASE k # n + 1
      <4>1. k \in 1 .. n /\ k \in 0 .. n /\ k - 1 \in 0 .. n
        BY <2>3, <3>2
      <4>2. f[k] = f[k - 1] \o ss[k]
        BY <2>2, <4>1 DEF Joined
      <4>. QED
        BY <2>3, <4>1, <4>2
    <3>. QED
      BY <3>1, <3>2
  <2>6. ASSUME NEW k \in 0 .. n + 1 PROVE g[k] \in Seq(X)
    <3>1. CASE k = n + 1
      <4>1. f[n] \o ss[n + 1] \in Seq(X)
        BY <2>4, ConcatProperties
      <4>. QED
        BY <2>4, <3>1, <4>1
    <3>2. CASE k # n + 1
      <4>1. k \in 0 .. n
        BY <2>3, <3>2
      <4>. QED
        BY <2>2, <2>3, <4>1 DEF Joined
    <3>. QED
      BY <3>1, <3>2
  <2>7. g[0] = <<>>
    BY <2>2, <2>3 DEF Joined
  <2>8. P(n + 1, g)
    BY <2>5, <2>6, <2>7 DEF Joined
  <2>. QED
    BY <2>8
<1>3. S \in SUBSET Nat
  OBVIOUS
<1>. HIDE DEF S
<1>4. S = Nat
  BY <1>1, <1>2, <1>3, Induction
<1>5. PICK f : P(l, f)
  BY <1>0, <1>4 DEF S
<1>. QED
  BY <1>5 DEF Joins, Joined

LEMMA FlattenJoins ==
  ASSUME NEW X, NEW ss \in Seq(Seq(X)), NEW fl, Joins(ss, fl)
  PROVE  FlattenSeq(ss) = fl[Len(ss)] /\ FlattenSeq(ss) \in Seq(X)
<1>. DEFINE l == Len(ss)
<1>1. l \in Nat
  OBVIOUS
<1>2. PICK f : Joins(ss, f) /\ \A k \in 0 .. l : f[k] \in Seq(X)
  BY JoinsExist
<1>3. \A k \in 0 .. l : f[k] = fl[k]
  BY <1>1, <1>2, JoinsUnique
<1>4. CASE l = 0
  <2>1. ss = <<>>
    BY <1>4
  <2>2. FlattenSeq(ss) = <<>>
    BY <1>4, <2>1 DEF FlattenSeq
  <2>. QED
    BY <1>4, <2>2 DEF Joins
<1>5. CASE l # 0
  <2>. DEFINE F(g) == [i \in 1 .. l |-> IF i = 1 THEN ss[i] ELSE g[i - 1] \o ss[i]]
              h == [i \in 1 .. l |-> f[i]]
  <2>1. ASSUME NEW i \in 1 .. l PROVE f[i] = IF i = 1 THEN ss[i] ELSE h[i - 1] \o ss[i]
    <3>1. f[i] = f[i - 1] \o ss[i] /\ ss[i] \in Seq(X)
      <4>. HIDE DEF h, F
      <4>1. ss[i] \in Seq(X)
        OBVIOUS
      <4>. QED
        BY <1>2, <4>1 DEF Joins
    <3>2. CASE i = 1
      <4>1. f[i - 1] = <<>>
        BY <1>2, <3>2 DEF Joins
      <4>2. <<>> \o ss[i] = ss[i]
        BY <3>1, ConcatEmptySeq
      <4>. QED
        BY <3>1, <3>2, <4>1, <4>2
    <3>3. CASE i # 1
      <4>1. i - 1 \in 1 .. l
        BY <1>1, <3>3
      <4>. QED
        BY <3>1, <3>3, <4>1
    <3>. QED
      BY <3>2, <3>3
  <2>2. h = F(h)
    BY Zenon, <2>1
  <2>. HIDE DEF h
  <2>. DEFINE c == CHOOSE g : g = F(g)
  <2>3. c = F(c)
    BY <2>2
  <2>4. FlattenSeq(ss) = c[l]
    BY <1>5 DEF FlattenSeq
  <2>. HIDE DEF c
  <2>. DEFINE d == [k \in 0 .. l |-> IF k = 0 THEN <<>> ELSE c[k]]
  <2>5. Joins(ss, d)
    <3>1. ASSUME NEW k \in 1 .. l PROVE d[k] = d[k - 1] \o ss[k]
      <4>1. c[k] = IF k = 1 THEN ss[k] ELSE c[k - 1] \o ss[k]
        BY <2>3
      <4>2. d[k] = c[k] /\ ss[k] \in Seq(X)
        BY <1>1
      <4>3. CASE k = 1
        <5>1. d[k - 1] = <<>>
          BY <1>1, <4>3
        <5>2. <<>> \o ss[k] = ss[k]
          BY <4>2, ConcatEmptySeq
        <5>. QED
          BY <4>1, <4>2, <4>3, <5>1, <5>2
      <4>4. CASE k # 1
        <5>1. d[k - 1] = c[k - 1]
          BY <1>1, <4>4
        <5>. QED
          BY <4>1, <4>2, <4>4, <5>1
      <4>. QED
        BY <4>3, <4>4
    <3>2. d[0] = <<>>
      BY <1>1
    <3>. HIDE DEF d
    <3>. QED
      BY <3>1, <3>2 DEF Joins
  <2>6. d[l] = c[l] /\ l \in 0 .. l
    BY <1>1, <1>5
  <2>. HIDE DEF d
  <2>7. d[l] = f[l]
    BY <1>1, <1>2, <2>5, <2>6, JoinsUnique
  <2>. QED
    BY <1>2, <1>3, <2>4, <2>6, <2>7
<1>. QED
  BY <1>4, <1>5

LEMMA FlattenConcat ==
  ASSUME NEW X, NEW ss \in Seq(Seq(X)), NEW tt \in Seq(Seq(X))
  PROVE  /\ FlattenSeq(ss \o tt) = FlattenSeq(ss) \o FlattenSeq(tt)
         /\ FlattenSeq(ss) \in Seq(X) /\ FlattenSeq(tt) \in Seq(X)
<1>. DEFINE n == Len(ss)
            m == Len(tt)
<1>1. PICK f : Joins(ss, f) /\ \A k \in 0 .. n : f[k] \in Seq(X)
  BY JoinsExist
<1>2. PICK g : Joins(tt, g) /\ \A k \in 0 .. m : g[k] \in Seq(X)
  BY JoinsExist
<1>3. /\ FlattenSeq(ss) = f[n] /\ FlattenSeq(ss) \in Seq(X)
      /\ FlattenSeq(tt) = g[m] /\ FlattenSeq(tt) \in Seq(X)
  BY <1>1, <1>2, FlattenJoins
<1>4. /\ n \in Nat /\ m \in Nat /\ ss \o tt \in Seq(Seq(X)) /\ Len(ss \o tt) = n + m
      /\ \A k \in 1 .. n + m : (ss \o tt)[k] = IF k <= n THEN ss[k] ELSE tt[k - n]
  BY ConcatProperties
<1>. DEFINE r == ss \o tt
            h == [k \in 0 .. n + m |-> IF k <= n THEN f[k] ELSE f[n] \o g[k - n]]
<1>. HIDE DEF r
<1>5. ASSUME NEW k \in 1 .. n + m PROVE h[k] = h[k - 1] \o r[k]
  <2>1. CASE k <= n
    <3>1. k \in 1 .. n /\ k - 1 \in 0 .. n
      BY <1>4, <2>1
    <3>2. f[k] = f[k - 1] \o ss[k]
      BY <1>1, <3>1 DEF Joins
    <3>3. h[k] = f[k] /\ h[k - 1] = f[k - 1]
      BY <1>4, <2>1, <3>1
    <3>. QED
      BY <1>4, <2>1, <3>2, <3>3 DEF r
  <2>2. CASE ~ k <= n
    <3>1. PICK j \in 1 .. m : j = k - n
      BY <1>4, <2>2
    <3>2. g[j] = g[j - 1] \o tt[j]
      BY <1>2 DEF Joins
    <3>3. h[k] = f[n] \o g[j] /\ r[k] = tt[j]
      <4>1. k \in 0 .. n + m /\ ~ k <= n
        BY <1>4, <2>2
      <4>2. h[k] = f[n] \o g[k - n]
        BY <4>1
      <4>3. r[k] = tt[k - n]
        BY <1>4, <4>1 DEF r
      <4>. HIDE DEF h
      <4>. QED
        BY <3>1, <4>2, <4>3
    <3>4. h[k - 1] = f[n] \o g[j - 1]
      <4>1. CASE j = 1
        <5>1. k - 1 = n /\ n \in 0 .. n + m /\ j - 1 = 0
          BY <1>4, <3>1, <4>1
        <5>3. h[k - 1] = f[n]
          BY <1>4, <5>1
        <5>4. g[j - 1] = <<>>
          BY <1>2, <5>1 DEF Joins
        <5>2. f[n] \o <<>> = f[n]
          BY <1>3, ConcatEmptySeq
        <5>. QED
          BY <5>2, <5>3, <5>4
      <4>2. CASE j # 1
        <5>1. k - 1 \in 0 .. n + m /\ ~ k - 1 <= n /\ (k - 1) - n = j - 1
          BY <1>4, <2>2, <3>1, <4>2
        <5>. QED
          BY <5>1
      <4>. QED
        BY <4>1, <4>2
    <3>5. f[n] \in Seq(X) /\ g[j - 1] \in Seq(X) /\ tt[j] \in Seq(X)
      <4>1. j - 1 \in 0 .. m
        BY <1>4
      <4>. QED
        BY <1>2, <1>3, <4>1
    <3>6. (f[n] \o g[j - 1]) \o tt[j] = f[n] \o (g[j - 1] \o tt[j])
      <4>1. IsStack(f[n]) /\ IsStack(g[j - 1]) /\ IsStack(tt[j])
        <5>. HIDE DEF h
        <5>. QED
          BY <3>5 DEF IsStack
      <4>2. Regrouped(f[n], g[j - 1], tt[j])
        BY <4>1, ConcatThree
      <4>. QED
        BY <4>2 DEF Regrouped
    <3>. QED
      BY <3>2, <3>3, <3>4, <3>6
  <2>. QED
    BY <2>1, <2>2
<1>6. h[0] = <<>>
  BY <1>1, <1>4 DEF Joins
<1>7. h[n + m] = f[n] \o g[m]
  <2>1. CASE m = 0
    <3>1. g[m] = <<>> /\ h[n + m] = f[n]
      BY <1>2, <1>4, <2>1 DEF Joins
    <3>2. f[n] \o <<>> = f[n]
      BY <1>3, ConcatEmptySeq
    <3>. QED
      BY <3>1, <3>2
  <2>2. CASE m # 0
    <3>1. n + m \in 0 .. n + m /\ ~ n + m <= n /\ (n + m) - n = m
      BY <1>4, <2>2
    <3>. QED
      BY <3>1
  <2>. QED
    BY <2>1, <2>2
<1>. HIDE DEF h
<1>8. Joins(r, h)
  BY <1>4, <1>5, <1>6 DEF Joins, r
<1>9. FlattenSeq(r) = h[n + m]
  BY <1>4, <1>8, FlattenJoins DEF r
<1>. QED
  BY <1>3, <1>7, <1>9 DEF r

LEMMA FlattenSmall ==
  /\ FlattenSeq(<<>>) = <<>>
  /\ \A X : \A a \in Seq(X) : FlattenSeq(<<a>>) = a
<1>1. FlattenSeq(<<>>) = <<>>
  BY DEF FlattenSeq
<1>2. ASSUME NEW X, NEW a \in Seq(X) PROVE FlattenSeq(<<a>>) = a
  <2>. DEFINE f == [k \in 0 .. 1 |-> IF k = 0 THEN <<>> ELSE a]
  <2>1. <<a>> \in Seq(Seq(X)) /\ Len(<<a>>) = 1 /\ <<a>>[1] = a
    OBVIOUS
  <2>2. f[0] = <<>> /\ f[1] = a
    OBVIOUS
  <2>. HIDE DEF f
  <2>3. <<>> \o a = a
    BY ConcatEmptySeq
  <2>4. \A k \in 1 .. 1 : k = 1 /\ k - 1 = 0
    OBVIOUS
  <2>5. Joins(<<a>>, f)
    BY <2>1, <2>2, <2>3, <2>4 DEF Joins
  <2>. QED
    BY <2>1, <2>2, <2>5, FlattenJoins
<1>. QED
  BY <1>1, <1>2

-----------------------------------------------------------------------------
(* The frames read from a stack, with their words named by height.          *)

Local(s, shape, top, i) ==
  IF shape[i] = "v" THEN <<W(s, top - Above(shape, i))>>
  ELSE IF shape[i] = "trap" THEN <<Trap>> ELSE <<>>
LocalItems(s, shape, top) == [i \in DOMAIN shape |-> Local(s, shape, top, i)]
LocalsOf(s, shape, top)   == FlattenSeq(LocalItems(s, shape, top))

PendingOf(s, shape, x, top) == [j \in 1 .. x |-> W(s, top - Size(shape) - j + 1)]

FrameRecord(f, locals, pending) == [fn |-> f, locals |-> locals, pending |-> pending]
FrameOf(s, f, shape, x, top) == FrameRecord(f, LocalsOf(s, shape, top), PendingOf(s, shape, x, top))

\* Locals, FrameAt and FramesFrom, of any stack.
LocalsAt(s, shape, base) ==
  FlattenSeq([i \in DOMAIN shape |->
                CASE shape[i] = "v"    -> <<s[base + Above(shape, i)]>>
                  [] shape[i] = "trap" -> <<Trap>>
                  [] shape[i] = "ret"  -> <<>>])
PendingAt(s, shape, x, base) == SubSeq(s, base + Size(shape), base + Size(shape) + x - 1)
OwnFrame(s, i) ==
  FrameRecord(s[i].at.fn, LocalsAt(s, s[i].at.shape, i + 3), PendingAt(s, s[i].at.shape, s[i + 2].n, i + 3))
FramesFromWord(s, word) ==
  LET from[i \in 1 .. Len(s)] ==
        <<OwnFrame(s, i)>> \o IF s[i].at.fn # "main" /\ NextWord(s, i) \in i + 1 .. Len(s)
                              THEN from[NextWord(s, i)] ELSE <<>>
  IN  from[word]

\* Those below the return frame at height h, and with the function in progress.
FramesBelow(s, h) == FramesFromWord(s, Len(s) - h + 1)
FrameList(s, f, shape, x, top) ==
  <<FrameOf(s, f, shape, x, top)>>
    \o IF f = "main" THEN <<>> ELSE FramesBelow(s, ReturnHeight(shape, x, top))

FrameSet(V) == [fn : Functions \cup {"main"}, locals : Seq(V \cup {Trap}), pending : Seq(V)]

LEMMA FramesFromStack == \A word : FramesFrom(word) = FramesFromWord(stack, word)
BY DEF FramesFrom, FramesFromWord, OwnFrame, NextWord, FrameAt, Under, Locals, LocalsAt, PendingAt, FrameRecord

LEMMA FramesFromEquation ==
  ASSUME NEW s, Len(s) \in Nat, NEW i \in 1 .. Len(s)
  PROVE  FramesFromWord(s, i) =
           <<OwnFrame(s, i)>> \o IF s[i].at.fn # "main" /\ NextWord(s, i) \in i + 1 .. Len(s)
                                 THEN FramesFromWord(s, NextWord(s, i)) ELSE <<>>
<1>. DEFINE F(f, k) ==
       <<OwnFrame(s, k)>> \o IF s[k].at.fn # "main" /\ NextWord(s, k) \in k + 1 .. Len(s)
                             THEN f[NextWord(s, k)] ELSE <<>>
            l == Len(s)
            S == {n \in Nat : n <= l => \E f : f = [k \in l - n + 1 .. l |-> F(f, k)]}
<1>1. 0 \in S
  <2>1. l - 0 + 1 .. l = {}
    OBVIOUS
  <2>2. [k \in {} |-> 0] = [k \in {} |-> F([j \in {} |-> 0], k)]
    OBVIOUS
  <2>. HIDE DEF F
  <2>3. \E f : f = [k \in l - 0 + 1 .. l |-> F(f, k)]
    BY <2>1, <2>2
  <2>. QED
    BY <2>3
<1>2. ASSUME NEW n \in S PROVE n + 1 \in S
  <2>1. SUFFICES ASSUME n + 1 <= l PROVE \E f : f = [k \in l - (n + 1) + 1 .. l |-> F(f, k)]
    OBVIOUS
  <2>2. PICK f : f = [k \in l - n + 1 .. l |-> F(f, k)]
    BY <2>1
  <2>. DEFINE g == [k \in l - (n + 1) + 1 .. l |-> IF k = l - n THEN F(f, k) ELSE f[k]]
  <2>3. \A k \in l - n + 1 .. l : g[k] = f[k]
    OBVIOUS
  <2>4. \A k \in l - (n + 1) + 1 .. l : \A m \in k + 1 .. l : m \in l - n + 1 .. l
    OBVIOUS
  <2>5. \A k \in l - (n + 1) + 1 .. l : F(g, k) = F(f, k)
    BY <2>3, <2>4
  <2>6. \A k \in l - (n + 1) + 1 .. l : k = l - n \/ k \in l - n + 1 .. l
    OBVIOUS
  <2>7. \A k \in l - (n + 1) + 1 .. l : g[k] = F(f, k)
    BY <2>2, <2>6
  <2>8. g = [k \in l - (n + 1) + 1 .. l |-> F(g, k)]
    BY <2>5, <2>7
  <2>. HIDE DEF g, F
  <2>. QED
    BY <2>8
<1>3. S = Nat
  <2>1. S \in SUBSET Nat
    OBVIOUS
  <2>. HIDE DEF S
  <2>. QED
    BY <1>1, <1>2, <2>1, Induction
<1>4. \E f : f = [k \in 1 .. l |-> F(f, k)]
  <2>. HIDE DEF F
  <2>1. l \in S
    <3>. HIDE DEF S
    <3>. QED
      BY <1>3
  <2>2. l - l + 1 = 1 /\ l <= l
    OBVIOUS
  <2>3. \E f : f = [k \in l - l + 1 .. l |-> F(f, k)]
    BY Zenon, <2>1, <2>2
  <2>. QED
    BY <2>2, <2>3
<1>. DEFINE from == CHOOSE f : f = [k \in 1 .. l |-> F(f, k)]
<1>5. from = [k \in 1 .. l |-> F(from, k)]
  BY Zenon, <1>4
<1>6. \A k : FramesFromWord(s, k) = from[k]
  BY Zenon DEF FramesFromWord
<1>. HIDE DEF from
<1>7. from[i] = F(from, i)
  <2>. HIDE DEF F
  <2>. QED
    BY Zenon, <1>5
<1>8. /\ FramesFromWord(s, i) = from[i]
      /\ FramesFromWord(s, NextWord(s, i)) = from[NextWord(s, i)]
  BY Zenon, <1>6
<1>9. from[i] = <<OwnFrame(s, i)>> \o IF s[i].at.fn # "main" /\ NextWord(s, i) \in i + 1 .. Len(s)
                                      THEN from[NextWord(s, i)] ELSE <<>>
  BY Zenon, <1>7
<1>. QED
  BY Zenon, <1>8, <1>9

\* The words of a frame by height.
LEMMA LocalsHeights ==
  ASSUME NEW s, Len(s) \in Nat, NEW shape \in Seq(Items), NEW top \in Int, NEW base, base = Len(s) - top + 1
  PROVE  LocalsAt(s, shape, base) = LocalsOf(s, shape, top)
<1>. DEFINE at(i) == CASE shape[i] = "v"    -> <<s[base + Above(shape, i)]>>
                       [] shape[i] = "trap" -> <<Trap>>
                       [] shape[i] = "ret"  -> <<>>
<1>1. ASSUME NEW i \in DOMAIN shape PROVE at(i) = Local(s, shape, top, i)
  <2>1. Above(shape, i) \in Nat /\ shape[i] \in {"v", "ret", "trap"}
    BY AboveItem DEF Items
  <2>2. base + Above(shape, i) = Len(s) - (top - Above(shape, i)) + 1
    BY <2>1
  <2>3. s[base + Above(shape, i)] = W(s, top - Above(shape, i))
    BY <2>2 DEF W
  <2>4. CASE shape[i] = "v"
    BY <2>3, <2>4 DEF Local
  <2>5. CASE shape[i] = "trap"
    BY <2>5 DEF Local
  <2>6. CASE shape[i] = "ret"
    BY <2>6 DEF Local
  <2>. QED
    BY <2>1, <2>4, <2>5, <2>6
<1>. HIDE DEF at
<1>2. [i \in DOMAIN shape |-> at(i)] = LocalItems(s, shape, top)
  BY <1>1 DEF LocalItems
<1>. QED
  BY <1>2 DEF LocalsAt, LocalsOf, at

LEMMA PendingHeights ==
  ASSUME NEW s, IsStack(s), NEW shape, NEW x \in Nat, NEW top \in Int, NEW base, base = Len(s) - top + 1,
         Size(shape) \in Nat, ReturnHeight(shape, x, top) \in Nat, top <= Len(s)
  PROVE  PendingAt(s, shape, x, base) = PendingOf(s, shape, x, top)
<1>1. PICK X : s \in Seq(X)
  BY DEF IsStack
<1>2. PICK z \in Nat : z = Size(shape)
  OBVIOUS
<1>3. top - z - x \in Nat
  BY <1>2 DEF ReturnHeight
<1>4. PICK e \in Nat : e = base + z /\ e >= 1 /\ e + x - 1 <= Len(s) /\ Len(s) \in Nat
  <2>1. Len(s) \in Nat
    BY <1>1, LenProperties
  <2>. QED
    BY <1>2, <1>3, <2>1
<1>5. \A j \in e .. e + x - 1 : s[j] \in X
  BY <1>1, <1>4
<1>6. /\ SubSeq(s, e, e + x - 1) \in Seq(X)
      /\ Len(SubSeq(s, e, e + x - 1)) = IF e <= e + x - 1 THEN (e + x - 1) - e + 1 ELSE 0
      /\ \A j \in 1 .. (e + x - 1) - e + 1 : SubSeq(s, e, e + x - 1)[j] = s[e + j - 1]
  <2>1. e \in Int /\ e + x - 1 \in Int
    BY <1>4
  <2>. QED
    BY <1>5, <2>1, SubSeqProperties
<1>. DEFINE p == SubSeq(s, e, e + x - 1)
<1>. HIDE DEF p
<1>7. p \in Seq(X) /\ Len(p) = x /\ \A j \in 1 .. x : p[j] = s[e + j - 1]
  BY <1>4, <1>6 DEF p
<1>8. p = [j \in 1 .. x |-> p[j]]
  BY <1>7
<1>9. ASSUME NEW j \in 1 .. x PROVE p[j] = W(s, top - Size(shape) - j + 1)
  <2>1. PICK h \in Int : h = top - z - j + 1
    BY <1>2
  <2>2. e + j - 1 = Len(s) - h + 1
    <3>1. e = Len(s) - top + 1 + z /\ Len(s) \in Nat
      BY <1>4
    <3>. QED
      BY <2>1, <3>1
  <2>3. W(s, h) = s[e + j - 1]
    BY <2>2 DEF W
  <2>. QED
    BY <1>2, <1>7, <2>1, <2>3
<1>10. p = PendingOf(s, shape, x, top)
  BY <1>8, <1>9 DEF PendingOf
<1>. QED
  BY <1>2, <1>4, <1>10 DEF PendingAt, p

LEMMA FramesBelowFrame ==
  ASSUME NEW s, IsStack(s), NEW h \in 3 .. Len(s), NEW f, NEW shape \in Seq(Items), NEW x \in Nat,
         W(s, h) = Val_codeptr(Body(f, shape)), W(s, h - 2) = Val_int(x),
         NEW top, top \in Int, top = h - 3, ReturnHeight(shape, x, top) \in Nat
  PROVE  FramesBelow(s, h) =
           <<FrameOf(s, f, shape, x, top)>>
             \o IF f # "main" /\ ReturnHeight(shape, x, top) \in 1 .. h - 1
                THEN FramesBelow(s, ReturnHeight(shape, x, top)) ELSE <<>>
<1>0. Len(s) \in Nat
  BY LenProperties DEF IsStack
<1>. DEFINE i == Len(s) - h + 1
            u == ReturnHeight(shape, x, top)
<1>1. i \in 1 .. Len(s) /\ i + 2 = Len(s) - (h - 2) + 1
  BY <1>0
<1>2. s[i] = Val_codeptr(Body(f, shape)) /\ s[i + 2] = Val_int(x)
  BY <1>1 DEF W
<1>3. s[i].at.fn = f /\ s[i].at.shape = shape /\ s[i + 2].n = x
  BY <1>2 DEF Val_codeptr, Body, Point, Val_int
<1>4. Size(shape) \in Nat
  BY SizePlaces
<1>5. NextWord(s, i) = i + 3 + Size(shape) + x /\ u = h - 3 - Size(shape) - x
  BY <1>3 DEF NextWord, ReturnHeight
<1>6. /\ NextWord(s, i) = Len(s) - u + 1
      /\ NextWord(s, i) \in i + 1 .. Len(s) <=> u \in 1 .. h - 1
  <2>1. u \in Int /\ i \in Int /\ NextWord(s, i) \in Int
    BY <1>1, <1>4, <1>5
  <2>2. NextWord(s, i) = Len(s) - u + 1
    BY <1>0, <1>4, <1>5
  <2>. HIDE DEF u
  <2>3. NextWord(s, i) \in i + 1 .. Len(s) <=> u \in 1 .. h - 1
    BY <1>0, <2>1, <2>2
  <2>. QED
    BY <2>2, <2>3
<1>7. OwnFrame(s, i) = FrameOf(s, f, shape, x, top)
  <2>1. PICK base \in Int : base = i + 3 /\ base = Len(s) - top + 1
    <3>1. i + 3 = Len(s) - top + 1 /\ i + 3 \in Int
      BY <1>0
    <3>. QED
      BY <3>1
  <2>2. LocalsAt(s, shape, base) = LocalsOf(s, shape, top)
    BY <1>0, <2>1, LocalsHeights
  <2>3. PendingAt(s, shape, x, base) = PendingOf(s, shape, x, top)
    <3>1. top <= Len(s)
      BY <1>0
    <3>. QED
      BY <1>4, <2>1, <3>1, PendingHeights
  <2>4. OwnFrame(s, i) = FrameRecord(f, LocalsAt(s, shape, base), PendingAt(s, shape, x, base))
    BY <1>3, <2>1 DEF OwnFrame
  <2>. QED
    BY <2>2, <2>3, <2>4 DEF FrameOf
<1>8. FramesFromWord(s, i) =
        <<OwnFrame(s, i)>> \o IF s[i].at.fn # "main" /\ NextWord(s, i) \in i + 1 .. Len(s)
                              THEN FramesFromWord(s, NextWord(s, i)) ELSE <<>>
  BY <1>0, <1>1, FramesFromEquation
<1>9. FramesBelow(s, h) = FramesFromWord(s, i) /\ FramesBelow(s, u) = FramesFromWord(s, NextWord(s, i))
  BY <1>6 DEF FramesBelow
<1>. HIDE DEF i, u
<1>10. FramesFromWord(s, i) =
         <<FrameOf(s, f, shape, x, top)>>
           \o IF f # "main" /\ u \in 1 .. h - 1 THEN FramesFromWord(s, NextWord(s, i)) ELSE <<>>
  BY <1>3, <1>6, <1>7, <1>8
<1>. QED
  BY <1>9, <1>10 DEF u

\* What is read below a return frame is what is read of the function it returns to.
LEMMA RetFrames ==
  ASSUME NEW s, NEW V, NEW A, NEW H, RetsOK(s, V, A, H), NEW h \in A,
         NEW f, NEW shape, NEW x, RetFrame(s, V, A, H, h, f, shape, x),
         NEW top, top \in Int, Higher(h, top, 3)
  PROVE  FramesBelow(s, h) = FrameList(s, f, shape, x, top)
<1>1. IsStack(s) /\ Len(s) \in Nat /\ A \subseteq Nat \ {0}
  BY RetsHeights DEF RetsOK
<1>0. top = h - 3
  BY <1>1 DEF Higher
<1>2. FrameOK(s, V, A, H, f, shape, x, top)
  BY <1>0 DEF RetFrame
<1>. DEFINE u == ReturnHeight(shape, x, top)
<1>8. shape \in Seq(Items)
  BY <1>2 DEF FrameOK
<1>3. /\ x \in Nat /\ u \in Nat /\ shape \in Seq(Items)
      /\ f # "main" => u \in A
  <2>1. A \subseteq Nat \ {0}
    BY <1>1
  <2>2. u \in Nat
    BY <1>2, <2>1, FrameBounds
  <2>3. x \in Nat
    BY <1>2, <2>1, FrameBounds
  <2>4. f # "main" => u \in A
    BY <1>2, <2>1, FrameBounds
  <2>. QED
    BY <1>8, <2>2, <2>3, <2>4
<1>4. h \in 3 .. Len(s) /\ (f # "main" => u < h)
  BY <1>0, RetTraps
<1>5. W(s, h) = Val_codeptr(Body(f, shape)) /\ W(s, h - 2) = Val_int(x)
  BY DEF RetFrame
<1>. HIDE DEF u
<1>6. f # "main" => u \in 1 .. h - 1
  BY <1>1, <1>3, <1>4
<1>7. FramesBelow(s, h) =
        <<FrameOf(s, f, shape, x, top)>> \o IF f # "main" /\ u \in 1 .. h - 1 THEN FramesBelow(s, u) ELSE <<>>
  BY <1>0, <1>1, <1>3, <1>4, <1>5, FramesBelowFrame DEF u
<1>. QED
  BY <1>6, <1>7 DEF FrameList, u

\* Values and marks.
LEMMA LocalTyped ==
  ASSUME NEW s, NEW V, NEW A, NEW H, A \subseteq Nat \ {0}, NEW top, top \in Int,
         NEW f, NEW shape, NEW x, FrameOK(s, V, A, H, f, shape, x, top)
  PROVE  /\ LocalItems(s, shape, top) \in Seq(Seq(V \cup {Trap}))
         /\ Len(LocalItems(s, shape, top)) = Len(shape)
         /\ LocalsOf(s, shape, top) \in Seq(V \cup {Trap})
         /\ PendingOf(s, shape, x, top) \in Seq(V) /\ Len(PendingOf(s, shape, x, top)) = x
         /\ FrameOf(s, f, shape, x, top) \in FrameSet(V)
<1>. DEFINE X == V \cup {Trap}
<1>1. /\ shape \in Seq(Items) /\ x \in Nat /\ f \in Functions \cup {"main"}
      /\ DOMAIN shape = 1 .. Len(shape) /\ Len(shape) \in Nat
  BY FrameBounds DEF FrameOK
<1>2. ASSUME NEW i \in 1 .. Len(shape) PROVE Local(s, shape, top, i) \in Seq(X)
  <2>1. shape[i] = "v" => W(s, top - Above(shape, i)) \in V
    BY DEF FrameOK, ItemOK
  <2>2. Trap \in X /\ V \subseteq X
    OBVIOUS
  <2>. HIDE DEF X
  <2>3. shape[i] = "v" => <<W(s, top - Above(shape, i))>> \in Seq(X)
    BY <2>1, <2>2
  <2>4. <<Trap>> \in Seq(X) /\ <<>> \in Seq(X)
    BY <2>2
  <2>. QED
    BY <2>3, <2>4 DEF Local
<1>. HIDE DEF X
<1>3. LocalItems(s, shape, top) \in Seq(Seq(X)) /\ Len(LocalItems(s, shape, top)) = Len(shape)
  <2>1. LocalItems(s, shape, top) = [i \in 1 .. Len(shape) |-> Local(s, shape, top, i)]
    BY <1>1 DEF LocalItems
  <2>. QED
    BY <1>1, <1>2, <2>1
<1>4. LocalsOf(s, shape, top) \in Seq(X)
  <2>1. PICK fl : Joins(LocalItems(s, shape, top), fl)
    BY <1>3, JoinsExist
  <2>. QED
    BY <1>3, <2>1, FlattenJoins DEF LocalsOf
<1>5. PendingOf(s, shape, x, top) \in Seq(V) /\ Len(PendingOf(s, shape, x, top)) = x
  <2>1. \A j \in 1 .. x : W(s, top - Size(shape) - j + 1) \in V
    BY DEF FrameOK
  <2>. QED
    BY <1>1, <2>1 DEF PendingOf
<1>6. FrameOf(s, f, shape, x, top) \in FrameSet(V)
  BY <1>1, <1>4, <1>5 DEF FrameOf, FrameRecord, FrameSet, X
<1>. QED
  BY <1>3, <1>4, <1>5, <1>6 DEF X

LEMMA FramesTyped ==
  ASSUME NEW s, NEW V, NEW A, NEW H, RetsOK(s, V, A, H)
  PROVE  \A h \in A : FramesBelow(s, h) \in Seq(FrameSet(V))
<1>. DEFINE P(h) == FramesBelow(s, h) \in Seq(FrameSet(V))
            S == {h \in A : ~ P(h)}
<1>1. A \subseteq Nat \ {0}
  BY RetsHeights
<1>2. ASSUME NEW h \in A, \A g \in A : g < h => P(g)
      PROVE  P(h)
  <2>1. PICK f, shape, x : RetFrame(s, V, A, H, h, f, shape, x)
    BY DEF RetsOK
  <2>2. PICK top \in Int : top = h - 3
    BY <1>1
  <2>3. FramesBelow(s, h) = FrameList(s, f, shape, x, top)
    <3>1. Higher(h, top, 3)
      BY <1>1, <2>2 DEF Higher
    <3>. QED
      BY <2>1, <3>1, RetFrames
  <2>4. FrameOK(s, V, A, H, f, shape, x, top)
    BY <2>1, <2>2 DEF RetFrame
  <2>5. f # "main" => ReturnHeight(shape, x, top) \in A /\ ReturnHeight(shape, x, top) < h
    BY <2>1, <2>2, RetTraps
  <2>6. FrameOf(s, f, shape, x, top) \in FrameSet(V)
    BY <1>1, <2>4, LocalTyped
  <2>7. f # "main" => FramesBelow(s, ReturnHeight(shape, x, top)) \in Seq(FrameSet(V))
    BY <1>2, <2>5
  <2>8. \A X, a, t : a \in X /\ t \in Seq(X) => <<a>> \o t \in Seq(X)
    OBVIOUS
  <2>9. <<>> \in Seq(FrameSet(V))
    OBVIOUS
  <2>. QED
    BY <2>3, <2>6, <2>7, <2>8, <2>9 DEF FrameList
<1>. HIDE DEF P
<1>3. S = {}
  <2>1. SUFFICES ASSUME S # {} PROVE FALSE
    OBVIOUS
  <2>2. S \in SUBSET Nat
    BY <1>1
  <2>3. PICK h \in S : \A g \in S : h <= g
    BY <2>1, <2>2, Least
  <2>4. \A g \in A : g < h => P(g)
    BY <1>1, <2>3
  <2>. QED
    BY <1>2, <2>3, <2>4
<1>. QED
  BY <1>3 DEF P

\* What is read does not depend on what lies above.
SameFrame(s, r, f, shape, x, top) == FrameOf(r, f, shape, x, top) = FrameOf(s, f, shape, x, top)

LEMMA FrameOfStable ==
  ASSUME NEW s, NEW V, NEW A, NEW H, Heights(A), NEW r, NEW m, Same(s, r, m),
         NEW f, NEW shape, NEW x, NEW top, top \in Int, top <= m, FrameOK(s, V, A, H, f, shape, x, top)
  PROVE  SameFrame(s, r, f, shape, x, top)
<1>0. A \subseteq Nat \ {0}
  BY DEF Heights
<1>1. /\ Len(shape) \in Nat /\ x \in Nat /\ Size(shape) \in Nat /\ DOMAIN shape = 1 .. Len(shape)
      /\ ReturnHeight(shape, x, top) \in Nat
  BY <1>0, FrameBounds
<1>2. m \in Nat /\ \A h \in 1 .. m : W(r, h) = W(s, h)
  BY DEF Same
<1>3. ASSUME NEW i \in 1 .. Len(shape) PROVE Local(r, shape, top, i) = Local(s, shape, top, i)
  <2>1. PICK h \in Int : h = top - Above(shape, i) /\ h <= top /\ h >= 1
    <3>1. /\ top - Above(shape, i) \in Int /\ top - Above(shape, i) <= top
          /\ top - Above(shape, i) >= Words(shape[i]) /\ Words(shape[i]) \in 1 .. 4
      BY <1>0, FrameItem
    <3>. QED
      BY <3>1
  <2>2. h \in 1 .. m
    BY <1>2, <2>1
  <2>. QED
    BY <1>2, <2>1, <2>2 DEF Local
<1>4. LocalItems(r, shape, top) = LocalItems(s, shape, top)
  BY <1>1, <1>3 DEF LocalItems
<1>5. ASSUME NEW j \in 1 .. x PROVE W(r, top - Size(shape) - j + 1) = W(s, top - Size(shape) - j + 1)
  <2>1. PICK h \in Int : h = top - Size(shape) - j + 1
    BY <1>1
  <2>2. top - Size(shape) - x >= 0
    BY <1>1 DEF ReturnHeight
  <2>3. h \in 1 .. m
    BY <1>1, <1>2, <2>1, <2>2
  <2>. QED
    BY <1>2, <2>1, <2>3
<1>6. PendingOf(r, shape, x, top) = PendingOf(s, shape, x, top)
  BY <1>5 DEF PendingOf
<1>. QED
  BY <1>4, <1>6 DEF SameFrame, FrameOf, LocalsOf

LEMMA FramesBelowStable ==
  ASSUME NEW s, NEW V, NEW A, NEW H, RetsOK(s, V, A, H),
         NEW r, IsStack(r), Len(r) <= StackWosize, NEW m, Same(s, r, m), NEW T \in A, T <= m
  PROVE  FramesBelow(r, T) = FramesBelow(s, T)
<1>. DEFINE P(h) == h <= m => FramesBelow(r, h) = FramesBelow(s, h)
            S == {h \in A : ~ P(h)}
            B == A \cap (1 .. m)
            G == H \cap (1 .. m)
<1>0. V \subseteq V /\ A \cap (1 .. m) \subseteq B /\ H \cap (1 .. m) \subseteq G
  OBVIOUS
<1>1. RetsOK(r, V, B, G)
  BY <1>0, RetsStable
<1>2. m \in Nat /\ A \subseteq Nat \ {0}
  BY RetsHeights DEF Same
<1>7. ASSUME NEW h \in A, \A g \in A : g < h => P(g)
      PROVE  P(h)
  <2>1. SUFFICES ASSUME h <= m PROVE FramesBelow(r, h) = FramesBelow(s, h)
    OBVIOUS
  <2>2. PICK f, shape, x : RetFrame(s, V, A, H, h, f, shape, x)
    BY DEF RetsOK
  <2>3. PICK top \in Int : top = h - 3
    BY <1>2
  <2>. DEFINE u == ReturnHeight(shape, x, top)
  <2>9. Higher(h, top, 3)
    BY <1>2, <2>3 DEF Higher
  <2>4. FramesBelow(s, h) = FrameList(s, f, shape, x, top) /\ (f # "main" => u \in A /\ u < h)
    BY <2>2, <2>3, <2>9, RetTraps, RetFrames
  <2>5. h \in B
    BY <1>2, <2>1
  <2>6. FramesBelow(r, h) = FrameList(r, f, shape, x, top)
    <3>. HIDE DEF B, G
    <3>1. RetFrame(r, V, B, G, h, f, shape, x)
      BY <1>0, <2>1, <2>2, RetFrameStable
    <3>. QED
      BY <1>1, <2>5, <2>9, <3>1, RetFrames
  <2>7. FrameOf(r, f, shape, x, top) = FrameOf(s, f, shape, x, top)
    <3>1. FrameOK(s, V, A, H, f, shape, x, top) /\ top <= m
      BY <1>2, <2>1, <2>2, <2>3 DEF RetFrame
    <3>. QED
      <4>1. Heights(A)
        BY <1>2 DEF Heights
      <4>2. SameFrame(s, r, f, shape, x, top)
        BY <3>1, <4>1, FrameOfStable
      <4>. QED
        BY <4>2 DEF SameFrame
  <2>8. f # "main" => FramesBelow(r, u) = FramesBelow(s, u)
    <3>1. SUFFICES ASSUME f # "main" PROVE FramesBelow(r, u) = FramesBelow(s, u)
      OBVIOUS
    <3>2. u \in Nat /\ h \in Nat /\ u < h /\ u \in A
      BY <1>2, <2>4, <3>1
    <3>. HIDE DEF u
    <3>. QED
      BY <1>2, <1>7, <2>1, <3>2
  <2>. QED
    BY <2>4, <2>6, <2>7, <2>8 DEF FrameList
<1>. HIDE DEF P
<1>8. S = {}
  <2>1. SUFFICES ASSUME S # {} PROVE FALSE
    OBVIOUS
  <2>2. S \in SUBSET Nat
    BY <1>2
  <2>3. PICK h \in S : \A g \in S : h <= g
    BY <2>1, <2>2, Least
  <2>4. \A g \in A : g < h => P(g)
    BY <1>2, <2>3
  <2>. QED
    BY <1>7, <2>3, <2>4
<1>. QED
  BY <1>8 DEF P

LEMMA FrameListStable ==
  ASSUME NEW s, NEW V, NEW A, NEW H, RetsOK(s, V, A, H),
         NEW r, IsStack(r), Len(r) <= StackWosize, NEW m, Same(s, r, m),
         NEW f, NEW shape, NEW x, NEW top, top \in Int, top <= m, FrameOK(s, V, A, H, f, shape, x, top)
  PROVE  FrameList(r, f, shape, x, top) = FrameList(s, f, shape, x, top)
<1>1. A \subseteq Nat \ {0} /\ m \in Nat
  BY RetsHeights DEF Same
<1>. DEFINE u == ReturnHeight(shape, x, top)
<1>2. /\ x \in Nat /\ Size(shape) \in Nat /\ u \in Nat
      /\ f # "main" => u \in A
  BY <1>1, FrameBounds
<1>3. u = top - Size(shape) - x
  BY DEF ReturnHeight
<1>4. u <= m
  BY <1>1, <1>2, <1>3
<1>. HIDE DEF u
<1>5. f # "main" => FramesBelow(r, u) = FramesBelow(s, u)
  BY <1>2, <1>4, FramesBelowStable
<1>6. FrameOf(r, f, shape, x, top) = FrameOf(s, f, shape, x, top)
  <2>1. Heights(A)
    BY <1>1 DEF Heights
  <2>2. SameFrame(s, r, f, shape, x, top)
    BY <2>1, FrameOfStable
  <2>. QED
    BY <2>2 DEF SameFrame
<1>. QED
  BY <1>5, <1>6 DEF FrameList, u

-----------------------------------------------------------------------------
(* The locals of a frame, item by item.                                     *)

FirstItems(s, shape, top, n) == SubSeq(LocalItems(s, shape, top), 1, n)
FirstLocals(s, shape, top, n) == FlattenSeq(FirstItems(s, shape, top, n))

SplitLocals(s, shape, top, n, low) ==
  LocalsOf(s, shape, top) = FirstLocals(s, shape, top, n) \o LocalsOf(s, Rest(shape, n), low)

AnyWord(s) == {W(s, h) : h \in Int} \cup {Trap}

LEMMA ItemsTyped ==
  ASSUME NEW s, NEW shape \in Seq(Items), NEW top \in Int
  PROVE  /\ LocalItems(s, shape, top) \in Seq(Seq(AnyWord(s)))
         /\ Len(LocalItems(s, shape, top)) = Len(shape) /\ Len(shape) \in Nat
         /\ \A i \in 1 .. Len(shape) : LocalItems(s, shape, top)[i] = Local(s, shape, top, i)
<1>1. Len(shape) \in Nat /\ DOMAIN shape = 1 .. Len(shape)
  OBVIOUS
<1>2. ASSUME NEW i \in 1 .. Len(shape) PROVE Local(s, shape, top, i) \in Seq(AnyWord(s))
  <2>. DEFINE X == AnyWord(s)
  <2>1. top - Above(shape, i) \in Int
    BY AboveItem
  <2>2. W(s, top - Above(shape, i)) \in X /\ Trap \in X
    BY <2>1 DEF AnyWord
  <2>. HIDE DEF X
  <2>3. <<W(s, top - Above(shape, i))>> \in Seq(X) /\ <<Trap>> \in Seq(X) /\ <<>> \in Seq(X)
    BY <2>2
  <2>4. Local(s, shape, top, i) \in Seq(X)
    BY <2>3 DEF Local
  <2>. QED
    BY <2>4 DEF X
<1>3. LocalItems(s, shape, top) = [i \in 1 .. Len(shape) |-> Local(s, shape, top, i)]
  BY <1>1 DEF LocalItems
<1>. QED
  BY <1>1, <1>2, <1>3

LEMMA LocalsSplit ==
  ASSUME NEW s, NEW shape \in Seq(Items), NEW top \in Int, NEW n \in 0 .. Len(shape), NEW low \in Int,
         Higher(top, low, Size(SubSeq(shape, 1, n)))
  PROVE  /\ SplitLocals(s, shape, top, n, low)
         /\ FirstItems(s, shape, top, n) \in Seq(Seq(AnyWord(s)))
         /\ FirstLocals(s, shape, top, n) \in Seq(AnyWord(s))
         /\ LocalsOf(s, Rest(shape, n), low) \in Seq(AnyWord(s))
<1>. DEFINE items == LocalItems(s, shape, top)
            X == AnyWord(s)
            rest == Rest(shape, n)
            l == Len(shape)
<1>0. top = low + Size(SubSeq(shape, 1, n))
  BY DEF Higher
<1>1. /\ items \in Seq(Seq(X)) /\ Len(items) = l /\ l \in Nat
      /\ \A i \in 1 .. l : items[i] = Local(s, shape, top, i)
  BY ItemsTyped
<1>2. /\ Len(rest) = l - n /\ rest \in Seq(Items)
      /\ \A j \in 1 .. l - n : /\ rest[j] = shape[n + j]
                               /\ Above(shape, n + j) = Size(SubSeq(shape, 1, n)) + Above(rest, j)
  BY DropItems
<1>3. /\ LocalItems(s, rest, low) \in Seq(Seq(X)) /\ Len(LocalItems(s, rest, low)) = l - n
      /\ \A j \in 1 .. l - n : LocalItems(s, rest, low)[j] = Local(s, rest, low, j)
  BY <1>2, ItemsTyped
<1>4. ASSUME NEW j \in 1 .. l - n PROVE Local(s, rest, low, j) = Local(s, shape, top, n + j)
  <2>1. Above(rest, j) \in Nat /\ Size(SubSeq(shape, 1, n)) \in Nat
    BY <1>2, AboveItem, SizeSplit
  <2>2. top - Above(shape, n + j) = low - Above(rest, j)
    BY <1>0, <1>2, <2>1
  <2>. QED
    BY <1>2, <2>2 DEF Local
<1>. DEFINE front == SubSeq(items, 1, n)
            back  == SubSeq(items, n + 1, l)
<1>5. front \o back = items /\ front \in Seq(Seq(X))
  <2>1. \A i \in 1 .. l : items[i] \in Seq(X)
    BY <1>1, ElementOfSeq
  <2>2. 1 \in Int /\ n \in Int /\ \A i \in 1 .. n : items[i] \in Seq(X)
    BY <1>1, <2>1
  <2>3. front \in Seq(Seq(X))
    BY <2>2, SubSeqProperties
  <2>4. 1 \in 1 .. Len(items) + 1 /\ n \in 1 - 1 .. Len(items) /\ l \in n .. Len(items)
    BY <1>1
  <2>5. front \o back = SubSeq(items, 1, l)
    BY <1>1, <2>4, ConcatAdjacentSubSeq
  <2>6. SubSeq(items, 1, l) = items
    BY <1>1, SubSeqFull
  <2>. QED
    BY <2>3, <2>5, <2>6
<1>6. back = LocalItems(s, rest, low)
  <2>1. \A i \in n + 1 .. l : items[i] \in Seq(X)
    <3>1. \A i \in 1 .. l : items[i] \in Seq(X)
      BY <1>1, ElementOfSeq
    <3>. QED
      BY <1>1, <3>1
  <2>2. /\ back \in Seq(Seq(X)) /\ Len(back) = IF n + 1 <= l THEN l - (n + 1) + 1 ELSE 0
        /\ \A i \in 1 .. l - (n + 1) + 1 : back[i] = items[n + 1 + i - 1]
    <3>1. n + 1 \in Int /\ l \in Int
      BY <1>1
    <3>. HIDE DEF items, X
    <3>. QED
      BY <2>1, <3>1, SubSeqProperties
  <2>. HIDE DEF back
  <2>3. Len(back) = l - n /\ \A j \in 1 .. l - n : back[j] = items[n + j]
    BY <1>1, <2>2
  <2>4. \A j \in 1 .. l - n : back[j] = LocalItems(s, rest, low)[j]
    <3>1. ASSUME NEW j \in 1 .. l - n PROVE back[j] = LocalItems(s, rest, low)[j]
      <4>1. n + j \in 1 .. l
        BY <1>1
      <4>. HIDE DEF items, rest, l
      <4>. QED
        BY <1>1, <1>3, <1>4, <2>3, <4>1
    <3>. QED
      BY <3>1
  <2>. HIDE DEF items, X, rest, l
  <2>. QED
    BY <1>3, <2>2, <2>3, <2>4, SeqEqual
<1>. HIDE DEF front, back, items, X, rest, l
<1>7. FlattenSeq(front \o LocalItems(s, rest, low)) = FlattenSeq(front) \o FlattenSeq(LocalItems(s, rest, low))
      /\ FlattenSeq(front) \in Seq(X) /\ FlattenSeq(LocalItems(s, rest, low)) \in Seq(X)
  BY <1>3, <1>5, FlattenConcat
<1>. QED
  BY <1>5, <1>6, <1>7 DEF SplitLocals, FirstItems, FirstLocals, LocalsOf, front, items, rest, X

\* The first item.
LEMMA FirstLocal ==
  ASSUME NEW s, NEW shape \in Seq(Items), shape # <<>>, NEW top \in Int, NEW low \in Int,
         Higher(top, low, Words(shape[1]))
  PROVE  LocalsOf(s, shape, top) = Local(s, shape, top, 1) \o LocalsOf(s, Rest(shape, 1), low)
<1>1. 1 \in 1 .. Len(shape) /\ 1 \in 0 .. Len(shape)
  OBVIOUS
<1>2. Size(SubSeq(shape, 1, 1)) = Words(shape[1])
  <2>1. Size(SubSeq(shape, 1, 1)) = Above(shape, 1) + Words(shape[1]) /\ Words(shape[1]) \in 1 .. 4
    BY <1>1, UpToItem, AboveItem
  <2>2. Above(shape, 1) = 0
    <3>1. SubSeq(shape, 1, 1 - 1) = <<>>
      BY SubSeqEmpty
    <3>. QED
      BY <3>1, SizeSmall DEF Above
  <2>. QED
    BY <2>1, <2>2
<1>3. SplitLocals(s, shape, top, 1, low)
  BY <1>1, <1>2, LocalsSplit
<1>. DEFINE items == LocalItems(s, shape, top)
<1>4. /\ items \in Seq(Seq(AnyWord(s))) /\ Len(items) = Len(shape)
      /\ items[1] = Local(s, shape, top, 1)
  BY <1>1, ItemsTyped
<1>5. SubSeq(items, 1, 1) = <<items[1]>> /\ items[1] \in Seq(AnyWord(s))
  <2>. DEFINE X == AnyWord(s)
  <2>0. items \in Seq(Seq(X)) /\ Len(items) = Len(shape)
    BY <1>4
  <2>. HIDE DEF items, X
  <2>1. 1 \in 1 .. Len(items)
    BY <1>1, <2>0
  <2>2. items[1] \in Seq(X)
    BY <2>0, <2>1
  <2>3. SubSeq(items, 1, 1) = SubSeq(items, 1, 1 - 1) \o <<items[1]>>
    BY <2>0, <2>1, SubSeqRecursiveSecond
  <2>4. SubSeq(items, 1, 1 - 1) = <<>> /\ <<items[1]>> \in Seq(Seq(X))
    BY <2>0, <2>2, SubSeqEmpty
  <2>5. <<>> \o <<items[1]>> = <<items[1]>>
    BY <2>4, ConcatEmptySeq
  <2>6. SubSeq(items, 1, 1) = <<items[1]>>
    BY <2>3, <2>4, <2>5
  <2>. QED
    BY <2>2, <2>6 DEF X
<1>. HIDE DEF items
<1>6. FlattenSeq(<<items[1]>>) = items[1]
  BY <1>5, FlattenSmall
<1>7. FirstLocals(s, shape, top, 1) = items[1]
  BY <1>5, <1>6 DEF FirstLocals, FirstItems, items
<1>. QED
  BY <1>3, <1>4, <1>7 DEF SplitLocals

LEMMA FirstStep ==
  ASSUME NEW s, NEW shape \in Seq(Items), NEW top \in Int, NEW i \in 1 .. Len(shape)
  PROVE  /\ FirstLocals(s, shape, top, i) = FirstLocals(s, shape, top, i - 1) \o Local(s, shape, top, i)
         /\ Local(s, shape, top, i) \in Seq(AnyWord(s))
<1>. DEFINE items == LocalItems(s, shape, top)
            X == AnyWord(s)
<1>1. /\ items \in Seq(Seq(X)) /\ Len(items) = Len(shape) /\ Len(shape) \in Nat
      /\ items[i] = Local(s, shape, top, i)
  BY ItemsTyped
<1>. HIDE DEF items, X
<1>2. i \in 1 .. Len(items) /\ items[i] \in Seq(X)
  BY <1>1
<1>3. SubSeq(items, 1, i) = SubSeq(items, 1, i - 1) \o <<items[i]>>
  BY <1>1, <1>2, SubSeqRecursiveSecond
<1>4. SubSeq(items, 1, i - 1) \in Seq(Seq(X)) /\ <<items[i]>> \in Seq(Seq(X))
  <2>1. \A j \in 1 .. i - 1 : items[j] \in Seq(X)
    BY <1>1, <1>2
  <2>2. 1 \in Int /\ i - 1 \in Int
    BY <1>2
  <2>3. SubSeq(items, 1, i - 1) \in Seq(Seq(X))
    BY <2>1, <2>2, SubSeqProperties
  <2>. QED
    BY <1>2, <2>3
<1>5. FlattenSeq(SubSeq(items, 1, i - 1) \o <<items[i]>>)
        = FlattenSeq(SubSeq(items, 1, i - 1)) \o FlattenSeq(<<items[i]>>)
  BY <1>4, FlattenConcat
<1>6. FlattenSeq(<<items[i]>>) = items[i]
  BY <1>2, FlattenSmall
<1>. QED
  BY <1>1, <1>2, <1>3, <1>5, <1>6 DEF FirstLocals, FirstItems, items, X

LEMMA FirstEnds ==
  ASSUME NEW s, NEW shape \in Seq(Items), NEW top \in Int
  PROVE  /\ FirstLocals(s, shape, top, 0) = <<>>
         /\ FirstLocals(s, shape, top, Len(shape)) = LocalsOf(s, shape, top)
<1>. DEFINE items == LocalItems(s, shape, top)
            X == AnyWord(s)
<1>1. items \in Seq(Seq(X)) /\ Len(items) = Len(shape)
  BY ItemsTyped
<1>. HIDE DEF items, X
<1>2. SubSeq(items, 1, Len(shape)) = items
  BY <1>1, SubSeqFull
<1>3. SubSeq(items, 1, 0) = <<>>
  BY SubSeqEmpty
<1>. QED
  BY <1>2, <1>3, FlattenSmall DEF FirstLocals, FirstItems, LocalsOf, items

\* The n words from top down.
TopWords(s, n, top) == [i \in 1 .. n |-> W(s, top - i + 1)]

LEMMA FirstValues ==
  ASSUME NEW s, NEW shape \in Seq(Items), NEW top \in Int, NEW n \in 0 .. Len(shape),
         \A i \in 1 .. n : shape[i] = "v"
  PROVE  FirstLocals(s, shape, top, n) = TopWords(s, n, top)
<1>. DEFINE S == {k \in Nat : k <= n => FirstLocals(s, shape, top, k) = TopWords(s, k, top)}
<1>1. 0 \in S
  <2>1. TopWords(s, 0, top) = <<>>
    BY DEF TopWords
  <2>. QED
    BY <2>1, FirstEnds
<1>2. ASSUME NEW k \in S PROVE k + 1 \in S
  <2>1. SUFFICES ASSUME k + 1 <= n PROVE FirstLocals(s, shape, top, k + 1) = TopWords(s, k + 1, top)
    OBVIOUS
  <2>2. k \in Nat /\ k + 1 \in 1 .. n /\ k + 1 \in 1 .. Len(shape) /\ (k + 1) - 1 = k
    BY <2>1
  <2>3. FirstLocals(s, shape, top, k) = TopWords(s, k, top)
    BY <2>1, <2>2
  <2>4. Local(s, shape, top, k + 1) = <<W(s, top - (k + 1) + 1)>>
    <3>1. Above(shape, k + 1) = (k + 1) - 1
      BY <2>2, ValueItems
    <3>2. top - Above(shape, k + 1) = top - (k + 1) + 1
      BY <2>2, <3>1
    <3>. QED
      BY <2>2, <3>2 DEF Local
  <2>5. TopWords(s, k + 1, top) = TopWords(s, k, top) \o <<W(s, top - (k + 1) + 1)>>
    <3>. DEFINE w(i) == W(s, top - i + 1)
    <3>. HIDE DEF w
    <3>1. [i \in 1 .. k + 1 |-> w(i)] = [i \in 1 .. k |-> w(i)] \o <<w(k + 1)>>
      BY <2>2
    <3>. QED
      BY <3>1 DEF TopWords, w
  <2>. HIDE DEF S
  <2>. QED
    BY <2>2, <2>3, <2>4, <2>5, FirstStep
<1>3. S \in SUBSET Nat
  OBVIOUS
<1>. HIDE DEF S
<1>4. S = Nat
  BY <1>1, <1>2, <1>3, Induction
<1>. QED
  BY <1>4 DEF S

LEMMA FirstPlain ==
  ASSUME NEW s, NEW V, NEW A, NEW H, Heights(A), NEW top, top \in Int,
         NEW f, NEW shape, NEW x, FrameOK(s, V, A, H, f, shape, x, top),
         NEW n \in 0 .. Len(shape), NoTraps(shape, n)
  PROVE  FirstLocals(s, shape, top, n) \in Seq(V)
<1>. DEFINE S == {k \in Nat : k <= n => FirstLocals(s, shape, top, k) \in Seq(V)}
<1>0. shape \in Seq(Items) /\ Len(shape) \in Nat
  BY FrameBounds DEF Heights
<1>1. 0 \in S
  <2>1. FirstLocals(s, shape, top, 0) = <<>>
    BY <1>0, FirstEnds
  <2>2. <<>> \in Seq(V)
    OBVIOUS
  <2>. QED
    BY <2>1, <2>2
<1>2. ASSUME NEW k \in S PROVE k + 1 \in S
  <2>1. SUFFICES ASSUME k + 1 <= n PROVE FirstLocals(s, shape, top, k + 1) \in Seq(V)
    OBVIOUS
  <2>2. k \in Nat /\ k + 1 \in 1 .. n /\ k + 1 \in 1 .. Len(shape) /\ (k + 1) - 1 = k
    BY <1>0, <2>1
  <2>3. FirstLocals(s, shape, top, k) \in Seq(V)
    BY <2>1, <2>2
  <2>4. Local(s, shape, top, k + 1) \in Seq(V)
    <3>1. shape[k + 1] # "trap"
      BY <2>2 DEF NoTraps
    <3>2. shape[k + 1] = "v" => W(s, top - Above(shape, k + 1)) \in V
      BY <2>2 DEF FrameOK, ItemOK
    <3>. QED
      BY <3>1, <3>2 DEF Local
  <2>. HIDE DEF S
  <2>5. FirstLocals(s, shape, top, k + 1) = FirstLocals(s, shape, top, k) \o Local(s, shape, top, k + 1)
    BY <1>0, <2>2, FirstStep
  <2>. QED
    BY <2>3, <2>4, <2>5, ConcatProperties
<1>3. S \in SUBSET Nat
  OBVIOUS
<1>. HIDE DEF S
<1>4. S = Nat
  BY <1>1, <1>2, <1>3, Induction
<1>. QED
  BY <1>4 DEF S

\* A frame that starts with n values.
LEMMA ValueLocals ==
  ASSUME NEW s, NEW shape \in Seq(Items), NEW top \in Int, NEW n \in 0 .. Len(shape),
         \A i \in 1 .. n : shape[i] = "v", NEW low \in Int, Higher(top, low, n)
  PROVE  /\ LocalsOf(s, shape, top) = TopWords(s, n, top) \o LocalsOf(s, Rest(shape, n), low)
         /\ n = Len(shape) => LocalsOf(s, shape, top) = TopWords(s, n, top)
<1>1. FirstLocals(s, shape, top, n) = TopWords(s, n, top)
  BY FirstValues
<1>2. Size(SubSeq(shape, 1, n)) = n
  BY ValueItems
<1>3. SplitLocals(s, shape, top, n, low)
  BY <1>2, LocalsSplit
<1>. QED
  BY <1>1, <1>3, FirstEnds DEF SplitLocals

\* A value of a frame is one of its locals.
LEMMA ValueOfItem ==
  ASSUME NEW s, NEW shape \in Seq(Items), NEW top \in Int, NEW i \in 1 .. Len(shape), shape[i] = "v"
  PROVE  W(s, top - Above(shape, i)) \in ToSet(LocalsOf(s, shape, top))
<1>. DEFINE w == W(s, top - Above(shape, i))
            X == AnyWord(s)
            F == FirstLocals(s, shape, top, i - 1)
<1>1. i \in 0 .. Len(shape) /\ i - 1 \in 0 .. Len(shape) /\ Size(SubSeq(shape, 1, i)) \in Nat
  BY SizeSplit
<1>2. PICK low \in Int : Higher(top, low, Size(SubSeq(shape, 1, i)))
  <2>1. top - Size(SubSeq(shape, 1, i)) \in Int
    BY <1>1
  <2>2. top = (top - Size(SubSeq(shape, 1, i))) + Size(SubSeq(shape, 1, i))
    BY <1>1
  <2>. QED
    BY <2>1, <2>2 DEF Higher
<1>3. PICK R \in Seq(X) : LocalsOf(s, shape, top) = FirstLocals(s, shape, top, i) \o R
  BY <1>1, <1>2, LocalsSplit DEF SplitLocals
<1>4. FirstLocals(s, shape, top, i) = F \o Local(s, shape, top, i) /\ Local(s, shape, top, i) = <<w>>
  BY FirstStep DEF Local
<1>5. F \in Seq(X)
  <2>1. Size(SubSeq(shape, 1, i - 1)) \in Nat
    BY <1>1, SizeSplit
  <2>2. top - Size(SubSeq(shape, 1, i - 1)) \in Int
    BY <2>1
  <2>3. Higher(top, top - Size(SubSeq(shape, 1, i - 1)), Size(SubSeq(shape, 1, i - 1)))
    BY <2>1 DEF Higher
  <2>. QED
    BY <1>1, <2>2, <2>3, LocalsSplit
<1>6. <<w>> \in Seq(X)
  BY <1>4, FirstStep
<1>. HIDE DEF w, X, F
<1>7. Len(F) + 1 \in DOMAIN ((F \o <<w>>) \o R) /\ ((F \o <<w>>) \o R)[Len(F) + 1] = w
  BY <1>3, <1>5, <1>6
<1>. QED
  BY <1>3, <1>4, <1>7 DEF ToSet, w

-----------------------------------------------------------------------------
(* The frames and the last value, of any state.                             *)

ArgumentsOf(p, s, x, e) == (IF p.at = "restart" THEN e.args ELSE <<>>) \o SubSeq(s, 1, x + 1)
Entered(f, all, below) ==
  IF Len(all) < Arity[f] THEN below
  ELSE <<FrameRecord(f, SubSeq(all, 1, Arity[f]), SubSeq(all, Arity[f] + 1, Len(all)))>> \o below
EnteredValue(f, all, c) ==
  IF Len(all) < Arity[f] THEN MakeClosure(<<f, "restart">>, Closure(f), all) ELSE c

FramesNow(p, s, x, e) ==
  IF p.at \in {"restart", "grab"}
  THEN Entered(p.fn, ArgumentsOf(p, s, x, e), FramesFromWord(s, x + 2))
  ELSE <<FrameRecord(p.fn, LocalsAt(s, p.shape, 1), PendingAt(s, p.shape, x, 1))>>
         \o IF p.fn = "main" THEN <<>> ELSE FramesFromWord(s, 1 + Size(p.shape) + x)
ValueNow(b, p, s, x, e, a) ==
  IF b = "run" /\ p.at \in {"restart", "grab"} THEN EnteredValue(p.fn, ArgumentsOf(p, s, x, e), a) ELSE a

LEMMA CurrentRead ==
  /\ CurrentFrames = FramesNow(pc, stack, extra_args, env)
  /\ CurrentValue = ValueNow(status, pc, stack, extra_args, env, acc)
<1>1. Arguments = ArgumentsOf(pc, stack, extra_args, env)
  BY DEF Arguments, ArgumentsOf
<1>2. Entering <=> pc.at \in {"restart", "grab"}
  BY DEF Entering
<1>3. TooFew <=> Len(ArgumentsOf(pc, stack, extra_args, env)) < Arity[pc.fn]
  BY <1>1 DEF TooFew
<1>4. FrameAt(pc, extra_args, 1)
        = FrameRecord(pc.fn, LocalsAt(stack, pc.shape, 1), PendingAt(stack, pc.shape, extra_args, 1))
  BY DEF FrameAt, FrameRecord, Locals, LocalsAt, PendingAt
<1>5. Under(pc, extra_args, 1) = 1 + Size(pc.shape) + extra_args
  BY DEF Under
<1>6. CurrentFrames = FramesNow(pc, stack, extra_args, env)
  BY <1>1, <1>2, <1>3, <1>4, <1>5, FramesFromStack DEF CurrentFrames, FramesNow, Entered, FrameRecord
<1>7. CurrentValue = ValueNow(status, pc, stack, extra_args, env, acc)
  BY <1>1, <1>2, <1>3 DEF CurrentValue, ValueNow, EnteredValue
<1>. QED
  BY <1>6, <1>7

LEMMA CurrentReadNext ==
  /\ CurrentFrames' = FramesNow(pc', stack', extra_args', env')
  /\ CurrentValue' = ValueNow(status', pc', stack', extra_args', env', acc')
<1>1. Arguments' = ArgumentsOf(pc', stack', extra_args', env')
  BY DEF Arguments, ArgumentsOf
<1>2. Entering' <=> pc'.at \in {"restart", "grab"}
  BY DEF Entering
<1>3. TooFew' <=> Len(ArgumentsOf(pc', stack', extra_args', env')) < Arity[pc'.fn]
  BY <1>1 DEF TooFew
<1>4. FrameAt(pc, extra_args, 1)'
        = FrameRecord(pc'.fn, LocalsAt(stack', pc'.shape, 1), PendingAt(stack', pc'.shape, extra_args', 1))
  BY DEF FrameAt, FrameRecord, Locals, LocalsAt, PendingAt
<1>5. Under(pc, extra_args, 1)' = 1 + Size(pc'.shape) + extra_args'
  BY DEF Under
<1>8. \A word : FramesFrom(word)' = FramesFromWord(stack', word)
  BY DEF FramesFrom, FramesFromWord, OwnFrame, NextWord, FrameAt, Under, Locals, LocalsAt, PendingAt, FrameRecord
<1>6. CurrentFrames' = FramesNow(pc', stack', extra_args', env')
  <2>1. FramesFrom(extra_args + 2)' = FramesFromWord(stack', extra_args' + 2)
    BY DEF FramesFrom, FramesFromWord, OwnFrame, NextWord, FrameAt, Under, Locals, LocalsAt, PendingAt, FrameRecord
  <2>2. FramesFrom(Under(pc, extra_args, 1))' = FramesFromWord(stack', Under(pc, extra_args, 1)')
    BY DEF FramesFrom, FramesFromWord, OwnFrame, NextWord, FrameAt, Under, Locals, LocalsAt, PendingAt, FrameRecord
  <2>. QED
    BY <1>1, <1>2, <1>3, <1>4, <1>5, <2>1, <2>2 DEF CurrentFrames, FramesNow, Entered, FrameRecord
<1>7. CurrentValue' = ValueNow(status', pc', stack', extra_args', env', acc')
  BY <1>1, <1>2, <1>3 DEF CurrentValue, ValueNow, EnteredValue
<1>. QED
  BY <1>6, <1>7

\* The same with the words named by height.
FramesIn(p, s, x, e) ==
  IF p.at \in {"restart", "grab"}
  THEN Entered(p.fn, ArgumentsOf(p, s, x, e), FramesBelow(s, Len(s) - x - 1))
  ELSE FrameList(s, p.fn, p.shape, x, Len(s))

LEMMA ReadByHeight ==
  ASSUME NEW s, NEW V, NEW A, NEW H, RetsOK(s, V, A, H), NEW p, NEW e, NEW x, NEW t,
         Control(s, V, A, H, p, e, x, t)
  PROVE  FramesNow(p, s, x, e) = FramesIn(p, s, x, e)
<1>0. Len(s) \in Nat /\ A \subseteq Nat \ {0} /\ IsStack(s)
  BY RetsHeights DEF RetsOK
<1>1. CASE OnEntry(s, V, A, p, e, x, t)
  <2>1. p.at \in {"restart", "grab"}
    <3>1. AtGrab(V, p, e, x) => p.at = "grab"
      BY DEF AtGrab, Point
    <3>2. AtRestart(V, p, e, x) => p.at = "restart"
      BY DEF AtRestart, Point
    <3>. QED
      BY <1>1, <3>1, <3>2 DEF OnEntry
  <2>2. x \in Nat /\ Len(s) - (Len(s) - x - 1) + 1 = x + 2
    BY <1>0, <1>1 DEF OnEntry, Arrived
  <2>3. FramesFromWord(s, x + 2) = FramesBelow(s, Len(s) - x - 1)
    BY <2>2 DEF FramesBelow
  <2>. QED
    BY <2>1, <2>3 DEF FramesNow, FramesIn
<1>2. CASE InBody(s, V, A, H, p, e, x, t)
  <2>1. PICK f, shape : p = Body(f, shape) /\ FrameOK(s, V, A, H, f, shape, x, Len(s))
    BY <1>2 DEF InBody
  <2>2. p.fn = f /\ p.at = "body" /\ p.shape = shape
    BY <2>1 DEF Body, Point
  <2>. DEFINE u == ReturnHeight(shape, x, Len(s))
  <2>0. Len(s) \in Int
    BY <1>0
  <2>3. shape \in Seq(Items) /\ x \in Nat /\ Size(shape) \in Nat /\ u \in Nat
    BY <1>0, <2>0, <2>1, FrameBounds
  <2>4. PICK base \in Int : base = 1 /\ base = Len(s) - Len(s) + 1
    BY <1>0
  <2>5. LocalsAt(s, shape, base) = LocalsOf(s, shape, Len(s))
    BY <1>0, <2>3, <2>4, LocalsHeights
  <2>6. PendingAt(s, shape, x, base) = PendingOf(s, shape, x, Len(s))
    BY <1>0, <2>3, <2>4, PendingHeights
  <2>7. FramesFromWord(s, 1 + Size(shape) + x) = FramesBelow(s, u)
    <3>1. Len(s) - u + 1 = 1 + Size(shape) + x
      BY <1>0, <2>3 DEF ReturnHeight
    <3>. QED
      BY <3>1 DEF FramesBelow
  <2>. QED
    BY <2>2, <2>4, <2>5, <2>6, <2>7 DEF FramesNow, FramesIn, FrameList, FrameOf
<1>. QED
  BY <1>1, <1>2 DEF Control

LEMMA ReadNow ==
  ASSUME LaidOut
  PROVE  CurrentFrames = FramesIn(pc, stack, extra_args, env)
<1>1. PICK V, A, H : Laid(V, A, H)
  BY DEF LaidOut
<1>2. RetsOK(stack, V, A, H) /\ Control(stack, V, A, H, pc, env, extra_args, trapSp)
  BY <1>1 DEF Laid, Layout
<1>. QED
  BY <1>2, CurrentRead, ReadByHeight

LEMMA ReadAfter ==
  ASSUME LaidOut'
  PROVE  CurrentFrames' = FramesIn(pc', stack', extra_args', env')
<1>1. PICK V, A, H : Laid(V, A, H)'
  BY DEF LaidOut
<1>2. RetsOK(stack', V, A, H) /\ Control(stack', V, A, H, pc', env', extra_args', trapSp')
  BY <1>1 DEF Laid, Layout
<1>. QED
  BY <1>2, CurrentReadNext, ReadByHeight

-----------------------------------------------------------------------------
(* The abstract state, of a stack in the body of a function.                *)

\* c is b on top of which lies a.
IsConcat(c, a, b) == c = a \o b
Parts(c, a, b) ==
  /\ Len(c) = Len(a) + Len(b) /\ Len(a) \in Nat /\ Len(b) \in Nat
  /\ SubSeq(c, 1, Len(a)) = a /\ SubSeq(c, Len(a) + 1, Len(c)) = b

LEMMA ConcatParts ==
  ASSUME NEW X, NEW a \in Seq(X), NEW b \in Seq(X)
  PROVE  /\ Len(a \o b) = Len(a) + Len(b) /\ Len(a) \in Nat /\ Len(b) \in Nat
         /\ SubSeq(a \o b, 1, Len(a)) = a
         /\ SubSeq(a \o b, Len(a) + 1, Len(a \o b)) = b
         /\ \A d : IsConcat(d, a, b) => Parts(d, a, b)
<1>1. /\ a \o b \in Seq(X) /\ Len(a \o b) = Len(a) + Len(b) /\ Len(a) \in Nat /\ Len(b) \in Nat
      /\ \A i \in 1 .. Len(a) + Len(b) : (a \o b)[i] = IF i <= Len(a) THEN a[i] ELSE b[i - Len(a)]
  BY ConcatProperties, LenProperties
<1>. DEFINE c == a \o b
            n == Len(a)
            m == Len(b)
<1>2. \A i \in 1 .. n : c[i] \in X /\ c[i] = a[i]
  BY <1>1
<1>3. \A i \in n + 1 .. n + m : c[i] \in X /\ c[i] = b[i - n]
  BY <1>1
<1>. HIDE DEF c
<1>4. SubSeq(c, 1, n) = a
  <2>1. /\ SubSeq(c, 1, n) \in Seq(X) /\ Len(SubSeq(c, 1, n)) = n
        /\ \A i \in 1 .. n : SubSeq(c, 1, n)[i] = c[i]
    BY <1>1, <1>2, SubSeqProperties
  <2>. QED
    BY <1>2, <2>1, SeqEqual
<1>5. SubSeq(c, n + 1, n + m) = b
  <2>1. /\ SubSeq(c, n + 1, n + m) \in Seq(X) /\ Len(SubSeq(c, n + 1, n + m)) = m
        /\ \A i \in 1 .. m : SubSeq(c, n + 1, n + m)[i] = c[n + i]
    BY <1>1, <1>3, SubSeqProperties
  <2>2. \A i \in 1 .. m : c[n + i] = b[i]
    BY <1>1, <1>3
  <2>. QED
    BY <2>1, <2>2, SeqEqual
<1>. QED
  BY <1>1, <1>4, <1>5 DEF c, IsConcat, Parts

LEMMA HeadAndTail ==
  ASSUME NEW X, NEW b \in Seq(X), NEW a
  PROVE  /\ Head(<<a>> \o b) = a /\ Tail(<<a>> \o b) = b /\ <<a>> \o b # <<>>
         /\ Len(<<a>> \o b) = 1 + Len(b) /\ (<<a>> \o b)[1] = a
         /\ \A i \in 1 .. Len(b) : (<<a>> \o b)[1 + i] = b[i]
         /\ <<a>> \o b \in Seq(X \cup {a})
<1>. DEFINE Y == X \cup {a}
<1>1. b \in Seq(Y)
  <2>. X \subseteq Y
    OBVIOUS
  <2>. QED
    BY SeqMonotonic
<1>2. a \in Y
  OBVIOUS
<1>. HIDE DEF Y
<1>3. /\ Head(<<a>> \o b) = a /\ Tail(<<a>> \o b) = b /\ <<a>> \o b # <<>>
      /\ Len(<<a>> \o b) = 1 + Len(b) /\ (<<a>> \o b)[1] = a
      /\ \A i \in 1 .. Len(b) : (<<a>> \o b)[1 + i] = b[i]
      /\ <<a>> \o b \in Seq(Y)
  BY <1>1, <1>2
<1>. QED
  BY <1>3 DEF Y

BelowOf(s, f, shape, x, top) == IF f = "main" THEN <<>> ELSE FramesBelow(s, ReturnHeight(shape, x, top))

\* The function in progress is f, its locals are L, what it is still applied to is P,
\* and B are the frames below.
IsNow(f, L, P, B) ==
  /\ frames = <<FrameRecord(f, L, P)>> \o B
  /\ Calls!Current.fn = f /\ Calls!Current.locals = L /\ Calls!Current.pending = P
  /\ Tail(frames) = B
  /\ \A l : Calls!SetLocals(l) = <<FrameRecord(f, l, P)>> \o B
  /\ Calls!InTry <=> Trap \in ToSet(L)

LEMMA NowOf ==
  ASSUME NEW X, NEW f, NEW L, NEW P, NEW B \in Seq(X), frames = <<FrameRecord(f, L, P)>> \o B
  PROVE  IsNow(f, L, P, B)
<1>1. Head(frames) = FrameRecord(f, L, P) /\ Tail(frames) = B
  BY HeadAndTail
<1>2. Calls!Current = FrameRecord(f, L, P)
  BY <1>1 DEF Calls!Current
<1>3. Calls!Current.fn = f /\ Calls!Current.locals = L /\ Calls!Current.pending = P
  BY <1>2 DEF FrameRecord
<1>4. ASSUME NEW l PROVE Calls!SetLocals(l) = <<FrameRecord(f, l, P)>> \o B
  <2>1. [Calls!Current EXCEPT !.locals = l] = FrameRecord(f, l, P)
    BY <1>2 DEF FrameRecord
  <2>. QED
    BY <1>1, <2>1 DEF Calls!SetLocals
<1>5. Calls!InTry <=> Trap \in ToSet(L)
  BY <1>3 DEF Calls!InTry, Calls!Trap, Trap, ToSet, Calls!ToSet
<1>. QED
  BY <1>1, <1>3, <1>4, <1>5 DEF IsNow

\* The state agrees with what is read back from it.
Agrees == frames = CurrentFrames /\ last = CurrentValue

LEMMA BelowTyped ==
  ASSUME NEW s, NEW V, NEW A, NEW H, RetsOK(s, V, A, H), NEW top, top \in Int,
         NEW f, NEW shape, NEW x, FrameOK(s, V, A, H, f, shape, x, top)
  PROVE  BelowOf(s, f, shape, x, top) \in Seq(FrameSet(V))
<1>1. A \subseteq Nat \ {0}
  BY RetsHeights
<1>2. f # "main" => ReturnHeight(shape, x, top) \in A
  BY <1>1, FrameBounds
<1>3. f # "main" => FramesBelow(s, ReturnHeight(shape, x, top)) \in Seq(FrameSet(V))
  BY <1>2, FramesTyped
<1>4. <<>> \in Seq(FrameSet(V))
  OBVIOUS
<1>. QED
  BY <1>3, <1>4 DEF BelowOf

LEMMA BodyNow ==
  ASSUME NEW V, NEW A, NEW H, Laid(V, A, H), At("body"), Agrees
  PROVE  \E f, shape :
           /\ AtBody(V, A, H, f, shape) /\ extra_args \in 0 .. MaxExtraArgs
           /\ shape \in Seq(Items) /\ Len(shape) \in Nat /\ DOMAIN shape = 1 .. Len(shape)
           /\ IsNow(f, LocalsOf(stack, shape, Len(stack)), PendingOf(stack, shape, extra_args, Len(stack)),
                    BelowOf(stack, f, shape, extra_args, Len(stack)))
           /\ last = acc /\ status = "run"
<1>1. PICK f, shape :
           /\ AtBody(V, A, H, f, shape) /\ extra_args \in 0 .. MaxExtraArgs
           /\ shape \in Seq(Items) /\ Len(shape) \in Nat /\ DOMAIN shape = 1 .. Len(shape)
  BY BodyFrame
<1>2. pc.fn = f /\ pc.shape = shape /\ FrameOK(stack, V, A, H, f, shape, extra_args, Len(stack))
  BY <1>1 DEF AtBody, Static
<1>3. pc.at = "body" /\ status = "run"
  BY DEF At
<1>4. LaidOut
  BY DEF LaidOut
<1>5. frames = FrameList(stack, f, shape, extra_args, Len(stack))
  BY <1>2, <1>3, <1>4, ReadNow DEF Agrees, FramesIn
<1>6. last = acc
  BY <1>3, CurrentRead DEF Agrees, ValueNow
<1>7. RetsOK(stack, V, A, H) /\ Len(stack) \in Int
  BY LaidFacts
<1>8. BelowOf(stack, f, shape, extra_args, Len(stack)) \in Seq(FrameSet(V))
  BY <1>2, <1>7, BelowTyped
<1>9. frames = <<FrameRecord(f, LocalsOf(stack, shape, Len(stack)), PendingOf(stack, shape, extra_args, Len(stack)))>>
                 \o BelowOf(stack, f, shape, extra_args, Len(stack))
  BY <1>5 DEF FrameList, FrameOf, BelowOf
<1>10. IsNow(f, LocalsOf(stack, shape, Len(stack)), PendingOf(stack, shape, extra_args, Len(stack)),
             BelowOf(stack, f, shape, extra_args, Len(stack)))
  BY <1>8, <1>9, NowOf
<1>. QED
  BY <1>1, <1>3, <1>6, <1>10

\* In the body of a function after a step.
LEMMA BodyAfter ==
  ASSUME LaidOut', Agrees', pc'.at = "body"
  PROVE  frames' = FrameList(stack', pc'.fn, pc'.shape, extra_args', Len(stack')) /\ last' = acc'
<1>1. frames' = FramesIn(pc', stack', extra_args', env')
  BY ReadAfter DEF Agrees
<1>2. last' = acc'
  BY CurrentReadNext DEF Agrees, ValueNow
<1>. QED
  BY <1>1, <1>2 DEF FramesIn

\* What a frame is above does not depend on the items on it.
SameBase(top, shape, low, rest) == top - Size(shape) = low - Size(rest)

LEMMA SameBaseFrame ==
  ASSUME NEW s, NEW f, NEW x, NEW top, NEW shape, NEW low, NEW rest, SameBase(top, shape, low, rest)
  PROVE  /\ PendingOf(s, rest, x, low) = PendingOf(s, shape, x, top)
         /\ ReturnHeight(rest, x, low) = ReturnHeight(shape, x, top)
         /\ BelowOf(s, f, rest, x, low) = BelowOf(s, f, shape, x, top)
<1>1. top - Size(shape) = low - Size(rest)
  BY DEF SameBase
<1>2. PendingOf(s, rest, x, low) = PendingOf(s, shape, x, top)
  BY <1>1 DEF PendingOf
<1>3. ReturnHeight(rest, x, low) = ReturnHeight(shape, x, top)
  BY <1>1 DEF ReturnHeight
<1>. QED
  BY <1>2, <1>3 DEF BelowOf

SameParts(s, r, f, shape, x, top) ==
  /\ LocalsOf(r, shape, top) = LocalsOf(s, shape, top)
  /\ PendingOf(r, shape, x, top) = PendingOf(s, shape, x, top)
  /\ BelowOf(r, f, shape, x, top) = BelowOf(s, f, shape, x, top)

LEMMA PartsStable ==
  ASSUME NEW s, NEW V, NEW A, NEW H, RetsOK(s, V, A, H),
         NEW r, IsStack(r), Len(r) <= StackWosize, NEW m, Same(s, r, m),
         NEW f, NEW shape, NEW x, NEW top, top \in Int, top <= m, FrameOK(s, V, A, H, f, shape, x, top)
  PROVE  SameParts(s, r, f, shape, x, top)
<1>1. A \subseteq Nat \ {0} /\ m \in Nat
  BY RetsHeights DEF Same
<1>2. SameFrame(s, r, f, shape, x, top)
  <2>1. Heights(A)
    BY <1>1 DEF Heights
  <2>. QED
    BY <2>1, FrameOfStable
<1>3. /\ LocalsOf(r, shape, top) = LocalsOf(s, shape, top)
      /\ PendingOf(r, shape, x, top) = PendingOf(s, shape, x, top)
  BY <1>2 DEF SameFrame, FrameOf, FrameRecord
<1>. DEFINE u == ReturnHeight(shape, x, top)
<1>4. /\ x \in Nat /\ Size(shape) \in Nat /\ u \in Nat
      /\ f # "main" => u \in A
  BY <1>1, FrameBounds
<1>5. u = top - Size(shape) - x
  BY DEF ReturnHeight
<1>6. u <= m
  BY <1>1, <1>4, <1>5
<1>. HIDE DEF u
<1>7. f # "main" => FramesBelow(r, u) = FramesBelow(s, u)
  BY <1>4, <1>6, FramesBelowStable
<1>. QED
  BY <1>3, <1>7 DEF SameParts, BelowOf, u

\* An item more on the stack.
IsGrown(f, locals, shape) ==
  frames' = <<FrameRecord(f, locals \o LocalsOf(stack, shape, Len(stack)),
                          PendingOf(stack, shape, extra_args, Len(stack)))>>
              \o BelowOf(stack, f, shape, extra_args, Len(stack))

LEMMA GrownNow ==
  ASSUME NEW V, NEW A, NEW H, Laid(V, A, H), NEW f, NEW shape, AtBody(V, A, H, f, shape),
         NEW item \in Items, LaidOut', Agrees',
         IsStack(stack'), Same(stack, stack', Len(stack)), Len(stack') = Len(stack) + Words(item),
         Len(stack') <= StackWosize,
         pc' = Body(f, More(item, shape)), extra_args' = extra_args
  PROVE  IsGrown(f, Local(stack', More(item, shape), Len(stack'), 1), shape) /\ last' = acc'
<1>. DEFINE more == More(item, shape)
            x == extra_args
<1>1. pc'.fn = f /\ pc'.shape = more /\ pc'.at = "body"
  BY DEF Body, Point
<1>2. frames' = FrameList(stack', f, more, x, Len(stack')) /\ last' = acc'
  BY <1>1, BodyAfter
<1>3. /\ RetsOK(stack, V, A, H) /\ Len(stack) \in Nat
      /\ FrameOK(stack, V, A, H, f, shape, x, Len(stack)) /\ shape \in Seq(Items)
  BY LaidFacts DEF AtBody, FrameOK
<1>4. PICK low \in Int, top \in Int : low = Len(stack) /\ top = Len(stack') /\ top = low + Words(item)
  BY <1>3 DEF Words
<1>5. /\ more \in Seq(Items) /\ more[1] = item /\ Size(more) = Words(item) + Size(shape)
      /\ Size(shape) \in Nat /\ Rest(more, 1) = shape /\ more # <<>>
  <2>1. /\ more \in Seq(Items) /\ more[1] = item /\ Size(more) = Words(item) + Size(shape)
        /\ Size(shape) \in Nat /\ Rest(more, 1) = shape /\ Len(more) = Len(shape) + 1
    BY <1>3, AddedItem DEF More
  <2>2. more # <<>>
    BY <1>3, <2>1
  <2>. QED
    BY <2>1, <2>2
<1>. HIDE DEF more, x
<1>6. LocalsOf(stack', more, top) = Local(stack', more, top, 1) \o LocalsOf(stack', shape, low)
  <2>1. Higher(top, low, Words(more[1]))
    BY <1>4, <1>5 DEF Higher
  <2>2. LocalsOf(stack', more, top) = Local(stack', more, top, 1) \o LocalsOf(stack', Rest(more, 1), low)
    BY <1>5, <2>1, FirstLocal
  <2>. QED
    BY <1>5, <2>2
<1>7. SameBase(top, more, low, shape)
  <2>1. Words(item) \in Int
    BY DEF Words
  <2>. QED
    BY <1>4, <1>5, <2>1 DEF SameBase
<1>8. SameParts(stack, stack', f, shape, x, low)
  <2>1. Same(stack, stack', low) /\ low <= low /\ FrameOK(stack, V, A, H, f, shape, x, low)
    BY <1>3, <1>4
  <2>. QED
    BY <1>3, <2>1, PartsStable
<1>9. PendingOf(stack', more, x, top) = PendingOf(stack', shape, x, low)
      /\ BelowOf(stack', f, more, x, top) = BelowOf(stack', f, shape, x, low)
  BY <1>7, SameBaseFrame
<1>10. frames' = <<FrameRecord(f, LocalsOf(stack', more, top), PendingOf(stack', more, x, top))>>
                   \o BelowOf(stack', f, more, x, top)
  BY <1>2, <1>4 DEF FrameList, FrameOf, BelowOf
<1>. QED
  BY <1>2, <1>4, <1>6, <1>8, <1>9, <1>10 DEF SameParts, IsGrown, more, x

LEMMA PushesKeep ==
  ASSUME NEW V, NEW A, NEW H, Laid(V, A, H), LaidOut', Agrees, Agrees', PUSH, Fits(stack, 1)
  PROVE  Calls!Keep
<1>1. /\ At("body") /\ stack' = <<acc>> \o stack /\ pc' = Body(pc.fn, <<"v">> \o Static)
      /\ UNCHANGED <<acc, env, trapSp, extra_args, status>>
  BY DEF PUSH, Next1
<1>2. PICK f, shape :
        /\ AtBody(V, A, H, f, shape)
        /\ IsNow(f, LocalsOf(stack, shape, Len(stack)), PendingOf(stack, shape, extra_args, Len(stack)),
                 BelowOf(stack, f, shape, extra_args, Len(stack)))
        /\ last = acc /\ shape \in Seq(Items)
  BY <1>1, BodyNow
<1>3. pc.fn = f /\ Static = shape
  BY <1>2 DEF AtBody
<1>4. IsStack(stack) /\ Len(stack) \in Nat
  BY LaidFacts
<1>5. IsStack(<<acc>>) /\ Len(<<acc>>) = 1 /\ <<acc>>[1] = acc
  BY Literal1
<1>6. /\ IsStack(stack') /\ Len(stack') = 1 + Len(stack) /\ Same(stack, stack', Len(stack))
      /\ W(stack', Len(stack) + 1 - 1 + 1) = acc
  <2>. DEFINE t == <<acc>>
  <2>. HIDE DEF t
  <2>1. IsStack(t) /\ Len(t) = 1 /\ t[1] = acc /\ stack' = t \o stack /\ 1 \in 1 .. Len(t)
    BY <1>1, <1>5 DEF t
  <2>2. /\ IsStack(t \o stack) /\ Len(t \o stack) = Len(t) + Len(stack) /\ Same(stack, t \o stack, Len(stack))
        /\ \A j \in 1 .. Len(t) : W(t \o stack, Len(stack) + Len(t) - j + 1) = t[j]
    BY <1>4, <2>1, Pushed
  <2>. QED
    BY <2>1, <2>2
<1>7. "v" \in Items /\ Words("v") = 1 /\ Len(stack') <= StackWosize
  BY <1>4, <1>6 DEF Items, Words, Fits
<1>8. Len(stack') = Len(stack) + Words("v") /\ pc' = Body(f, More("v", shape)) /\ extra_args' = extra_args
  BY <1>1, <1>3, <1>4, <1>6, <1>7 DEF More
<1>9. IsGrown(f, Local(stack', More("v", shape), Len(stack'), 1), shape) /\ last' = acc'
  BY <1>2, <1>6, <1>7, <1>8, GrownNow
<1>10. Local(stack', More("v", shape), Len(stack'), 1) = <<acc>>
  <2>1. More("v", shape)[1] = "v" /\ Above(More("v", shape), 1) = 0
    BY <1>2, <1>7, AddedItem DEF More
  <2>2. Len(stack') - 0 = Len(stack) + 1 - 1 + 1
    BY <1>4, <1>6
  <2>. QED
    BY <1>6, <2>1, <2>2 DEF Local
<1>11. frames' = Calls!SetLocals(<<acc>> \o Calls!Current.locals)
  BY <1>2, <1>9, <1>10 DEF IsNow, IsGrown
<1>. QED
  BY <1>1, <1>2, <1>9, <1>11 DEF Calls!Keep

\* The words of an address stand for no value.
LEMMA PushesRetaddr ==
  ASSUME NEW V, NEW A, NEW H, Laid(V, A, H), LaidOut', Agrees, Agrees', PUSH_RETADDR, Fits(stack, 3)
  PROVE  UNCHANGED <<frames, last, status>>
<1>1. /\ At("body") /\ stack' = ReturnFrame(Body(pc.fn, Static)) \o stack /\ pc' = Body(pc.fn, <<"ret">> \o Static)
      /\ UNCHANGED <<acc, env, trapSp, extra_args, status>>
  BY DEF PUSH_RETADDR, Next1
<1>2. PICK f, shape :
        /\ AtBody(V, A, H, f, shape)
        /\ IsNow(f, LocalsOf(stack, shape, Len(stack)), PendingOf(stack, shape, extra_args, Len(stack)),
                 BelowOf(stack, f, shape, extra_args, Len(stack)))
        /\ last = acc /\ shape \in Seq(Items)
  BY <1>1, BodyNow
<1>3. pc.fn = f /\ Static = shape
  BY <1>2 DEF AtBody
<1>4. IsStack(stack) /\ Len(stack) \in Nat /\ RetsOK(stack, V, A, H)
  BY LaidFacts
<1>6. IsStack(stack') /\ Len(stack') = 3 + Len(stack) /\ Same(stack, stack', Len(stack))
  <2>. DEFINE t == ReturnFrame(Body(pc.fn, Static))
  <2>1. IsStack(t) /\ Len(t) = 3
    BY Literal3 DEF ReturnFrame
  <2>. HIDE DEF t
  <2>2. stack' = t \o stack
    BY <1>1 DEF t
  <2>3. IsStack(t \o stack) /\ Len(t \o stack) = Len(t) + Len(stack) /\ Same(stack, t \o stack, Len(stack))
    BY <1>4, <2>1, Pushed
  <2>. QED
    BY <2>1, <2>2, <2>3
<1>7. "ret" \in Items /\ Words("ret") = 3 /\ Len(stack') <= StackWosize
  BY <1>4, <1>6 DEF Items, Words, Fits
<1>8. Len(stack') = Len(stack) + Words("ret") /\ pc' = Body(f, More("ret", shape)) /\ extra_args' = extra_args
  BY <1>1, <1>3, <1>4, <1>6, <1>7 DEF More
<1>9. IsGrown(f, Local(stack', More("ret", shape), Len(stack'), 1), shape) /\ last' = acc'
  BY <1>2, <1>6, <1>7, <1>8, GrownNow
<1>10. Local(stack', More("ret", shape), Len(stack'), 1) = <<>>
  <2>1. More("ret", shape)[1] = "ret"
    BY <1>2, <1>7, AddedItem DEF More
  <2>. QED
    BY <2>1 DEF Local
<1>11. <<>> \o LocalsOf(stack, shape, Len(stack)) = LocalsOf(stack, shape, Len(stack))
  <2>1. FrameOK(stack, V, A, H, f, shape, extra_args, Len(stack)) /\ Len(stack) \in Int /\ A \subseteq Nat \ {0}
    BY <1>2, <1>4, LaidFacts DEF AtBody
  <2>2. LocalsOf(stack, shape, Len(stack)) \in Seq(V \cup {Trap})
    BY <2>1, LocalTyped
  <2>. QED
    BY <2>2, ConcatEmptySeq
<1>. QED
  BY <1>1, <1>2, <1>9, <1>10, <1>11 DEF IsNow, IsGrown

LEMMA PushesTry ==
  ASSUME NEW V, NEW A, NEW H, Laid(V, A, H), LaidOut', Agrees, Agrees', PUSHTRAP, Fits(stack, 4)
  PROVE  Calls!Try
<1>1. /\ At("body") /\ pc' = Body(pc.fn, <<"trap">> \o Static)
      /\ stack' = <<Val_codeptr(Body(pc.fn, Static)), trapSp, env, Val_int(extra_args)>> \o stack
      /\ UNCHANGED <<acc, env, extra_args, status>>
  BY DEF PUSHTRAP, Next1
<1>2. PICK f, shape :
        /\ AtBody(V, A, H, f, shape)
        /\ IsNow(f, LocalsOf(stack, shape, Len(stack)), PendingOf(stack, shape, extra_args, Len(stack)),
                 BelowOf(stack, f, shape, extra_args, Len(stack)))
        /\ last = acc /\ shape \in Seq(Items)
  BY <1>1, BodyNow
<1>3. pc.fn = f /\ Static = shape
  BY <1>2 DEF AtBody
<1>4. IsStack(stack) /\ Len(stack) \in Nat
  BY LaidFacts
<1>6. IsStack(stack') /\ Len(stack') = 4 + Len(stack) /\ Same(stack, stack', Len(stack))
  <2>. DEFINE t == <<Val_codeptr(Body(pc.fn, Static)), trapSp, env, Val_int(extra_args)>>
  <2>1. IsStack(t) /\ Len(t) = 4
    BY Literal4
  <2>. HIDE DEF t
  <2>2. stack' = t \o stack
    BY <1>1 DEF t
  <2>3. IsStack(t \o stack) /\ Len(t \o stack) = Len(t) + Len(stack) /\ Same(stack, t \o stack, Len(stack))
    BY <1>4, <2>1, Pushed
  <2>. QED
    BY <2>1, <2>2, <2>3
<1>7. "trap" \in Items /\ Words("trap") = 4 /\ Len(stack') <= StackWosize
  BY <1>4, <1>6 DEF Items, Words, Fits
<1>8. Len(stack') = Len(stack) + Words("trap") /\ pc' = Body(f, More("trap", shape)) /\ extra_args' = extra_args
  BY <1>1, <1>3, <1>4, <1>6, <1>7 DEF More
<1>9. IsGrown(f, Local(stack', More("trap", shape), Len(stack'), 1), shape) /\ last' = acc'
  BY <1>2, <1>6, <1>7, <1>8, GrownNow
<1>10. Local(stack', More("trap", shape), Len(stack'), 1) = <<Trap>>
  <2>1. More("trap", shape)[1] = "trap"
    BY <1>2, <1>7, AddedItem DEF More
  <2>. QED
    BY <2>1 DEF Local
<1>11. frames' = Calls!SetLocals(<<Calls!Trap>> \o Calls!Current.locals)
  BY <1>2, <1>9, <1>10 DEF IsNow, IsGrown, Trap, Calls!Trap
<1>. QED
  BY <1>1, <1>2, <1>9, <1>11 DEF Calls!Try

\* The first n items off a frame, and of the words above it.
IsCut(f, rest, low, shape) ==
  frames' = <<FrameRecord(f, LocalsOf(stack, rest, low), PendingOf(stack, shape, extra_args, Len(stack)))>>
              \o BelowOf(stack, f, shape, extra_args, Len(stack))

\* The first item goes, of n words.
Cuts(n, f, shape) ==
  /\ shape # <<>> /\ n = Words(shape[1])
  /\ stack' = SubSeq(stack, n + 1, Len(stack)) /\ pc' = Body(f, Tail(shape)) /\ extra_args' = extra_args

CutFrames(n, f, shape, V) ==
  LET low == Len(stack) - n
      R   == LocalsOf(stack, Rest(shape, 1), low)
  IN  /\ IsCut(f, Rest(shape, 1), low, shape)
      /\ LocalsOf(stack, shape, Len(stack)) = Local(stack, shape, Len(stack), 1) \o R
      /\ R \in Seq(V \cup {Trap})

LEMMA CutNow ==
  ASSUME NEW V, NEW A, NEW H, Laid(V, A, H), NEW f, NEW shape, AtBody(V, A, H, f, shape),
         LaidOut', Agrees', NEW n, Cuts(n, f, shape)
  PROVE  CutFrames(n, f, shape, V) /\ last' = acc'
<1>. DEFINE rest == Rest(shape, 1)
            x == extra_args
<1>1. shape # <<>> /\ n = Words(shape[1])
  BY DEF Cuts
<1>2. stack' = SubSeq(stack, n + 1, Len(stack)) /\ pc' = Body(f, Tail(shape)) /\ extra_args' = x
  BY DEF Cuts
<1>3. /\ RetsOK(stack, V, A, H) /\ Len(stack) \in Nat /\ Heights(A) /\ A \subseteq Nat \ {0} /\ IsStack(stack)
      /\ FrameOK(stack, V, A, H, f, shape, x, Len(stack)) /\ shape \in Seq(Items)
      /\ Len(stack) <= StackWosize
  BY LaidFacts DEF AtBody, FrameOK, Heights
<1>4. /\ 1 \in 1 .. Len(shape) /\ 1 \in 0 .. Len(shape) /\ Size(SubSeq(shape, 1, 1)) = n
      /\ n \in 1 .. 4 /\ Tail(shape) = rest
  <2>1. /\ 1 \in 1 .. Len(shape) /\ 1 \in 0 .. Len(shape) /\ Size(SubSeq(shape, 1, 1)) = Words(shape[1])
        /\ Words(shape[1]) \in 1 .. 4 /\ Tail(shape) = Rest(shape, 1)
    BY <1>1, <1>3, FirstItem
  <2>. QED
    BY <1>1, <2>1 DEF rest
<1>. HIDE DEF rest, x
<1>5. PICK top \in Int, low \in Int : top = Len(stack) /\ low = top - n /\ Higher(top, low, n)
  <2>1. PICK top \in Int : top = Len(stack)
    BY <1>3
  <2>2. PICK low \in Int : low = top - n
    BY <1>4
  <2>3. top = low + n
    BY <1>4, <2>2
  <2>. QED
    BY <2>1, <2>2, <2>3 DEF Higher
<1>6. FrameOK(stack, V, A, H, f, rest, x, low)
  <2>1. Higher(top, low, Size(SubSeq(shape, 1, 1))) /\ FrameOK(stack, V, A, H, f, shape, x, top)
    BY <1>3, <1>4, <1>5
  <2>2. FrameDropped(stack, V, A, H, f, shape, x, top, 1, low, rest)
    BY <1>3, <1>4, <2>1, DropFrame DEF rest
  <2>. QED
    BY <2>2 DEF FrameDropped
<1>7. low \in Nat
  BY <1>3, <1>6, FrameTop
<1>8. n \in 0 .. Len(stack)
  BY <1>3, <1>4, <1>5, <1>7
<1>9. IsStack(stack') /\ Len(stack') = low /\ Same(stack, stack', low) /\ low <= StackWosize
  <2>1. /\ IsStack(SubSeq(stack, n + 1, Len(stack))) /\ Len(SubSeq(stack, n + 1, Len(stack))) = Len(stack) - n
        /\ Same(stack, SubSeq(stack, n + 1, Len(stack)), Len(stack) - n)
    BY <1>3, <1>8, PoppedStack
  <2>2. low = Len(stack) - n /\ low <= StackWosize
    BY <1>3, <1>4, <1>5, Constants
  <2>. QED
    BY <1>2, <2>1, <2>2
<1>10. frames' = FrameList(stack', f, rest, x, low) /\ last' = acc'
  <2>1. pc'.fn = f /\ pc'.shape = rest /\ pc'.at = "body"
    BY <1>2, <1>4 DEF Body, Point
  <2>. QED
    BY <1>2, <1>9, <2>1, BodyAfter
<1>11. SameParts(stack, stack', f, rest, x, low)
  <2>1. low <= low /\ Len(stack') <= StackWosize
    BY <1>9
  <2>. QED
    BY <1>3, <1>6, <1>9, <2>1, PartsStable
<1>12. SameBase(top, shape, low, rest)
  <2>1. Size(SubSeq(shape, 1, 1)) + Size(rest) = Size(shape) /\ Size(rest) \in Nat /\ Size(shape) \in Nat
    BY <1>3, <1>4, SizeSplit DEF rest, Rest
  <2>. QED
    BY <1>4, <1>5, <2>1 DEF SameBase
<1>13. PendingOf(stack, rest, x, low) = PendingOf(stack, shape, x, top)
       /\ BelowOf(stack, f, rest, x, low) = BelowOf(stack, f, shape, x, top)
  BY <1>12, SameBaseFrame
<1>14. IsCut(f, rest, low, shape)
  <2>1. frames' = <<FrameRecord(f, LocalsOf(stack', rest, low), PendingOf(stack', rest, x, low))>>
                    \o BelowOf(stack', f, rest, x, low)
    BY <1>10 DEF FrameList, FrameOf, BelowOf
  <2>2. frames' = <<FrameRecord(f, LocalsOf(stack, rest, low), PendingOf(stack, shape, x, top))>>
                    \o BelowOf(stack, f, shape, x, top)
    BY <1>11, <1>13, <2>1 DEF SameParts
  <2>. QED
    BY <1>5, <2>2 DEF IsCut, x
<1>15. LocalsOf(stack, shape, top) = Local(stack, shape, top, 1) \o LocalsOf(stack, rest, low)
  <2>1. Higher(top, low, Words(shape[1]))
    BY <1>1, <1>5
  <2>. QED
    BY <1>1, <1>3, <2>1, FirstLocal DEF rest
<1>16. LocalsOf(stack, rest, low) \in Seq(V \cup {Trap})
  BY <1>3, <1>6, LocalTyped
<1>. QED
  BY <1>5, <1>10, <1>14, <1>15, <1>16 DEF rest, CutFrames

LEMMA PopsDrop ==
  ASSUME NEW V, NEW A, NEW H, Laid(V, A, H), LaidOut', Agrees, Agrees', POP
  PROVE  Calls!Drop
<1>1. /\ At("body") /\ Static # <<>> /\ Head(Static) = "v"
      /\ stack' = SubSeq(stack, 1 + 1, Len(stack)) /\ pc' = Body(pc.fn, Tail(Static))
      /\ UNCHANGED <<acc, env, trapSp, extra_args, status>>
  BY DEF POP, Popped, Next1
<1>2. PICK f, shape :
        /\ AtBody(V, A, H, f, shape)
        /\ IsNow(f, LocalsOf(stack, shape, Len(stack)), PendingOf(stack, shape, extra_args, Len(stack)),
                 BelowOf(stack, f, shape, extra_args, Len(stack)))
        /\ last = acc /\ shape \in Seq(Items)
  BY <1>1, BodyNow
<1>3. pc.fn = f /\ Static = shape
  BY <1>2 DEF AtBody
<1>4. shape[1] = "v" /\ Words(shape[1]) = 1 /\ 1 \in 1 .. Len(shape) /\ Above(shape, 1) = 0
  <2>1. Head(shape) = shape[1] /\ 1 \in 1 .. Len(shape) /\ Above(shape, 1) = 0
    BY <1>1, <1>2, <1>3, FirstItem
  <2>. QED
    BY <1>1, <1>3, <2>1 DEF Words
<1>. DEFINE R == LocalsOf(stack, Rest(shape, 1), Len(stack) - 1)
            w == W(stack, Len(stack) - Above(shape, 1))
<1>5. /\ IsCut(f, Rest(shape, 1), Len(stack) - 1, shape) /\ last' = acc'
      /\ LocalsOf(stack, shape, Len(stack)) = Local(stack, shape, Len(stack), 1) \o R
      /\ R \in Seq(V \cup {Trap})
  <2>1. Cuts(1, f, shape)
    BY <1>1, <1>3, <1>4 DEF Cuts
  <2>2. CutFrames(1, f, shape, V) /\ last' = acc'
    BY <1>2, <2>1, CutNow
  <2>. QED
    BY <2>2 DEF CutFrames
<1>6. LocalsOf(stack, shape, Len(stack)) = <<w>> \o R
  BY <1>4, <1>5 DEF Local
<1>7. w \in V
  BY <1>2, <1>4 DEF AtBody, FrameOK, ItemOK
<1>8. w # Trap
  BY <1>7, LaidFacts DEF ValuesOK
<1>. HIDE DEF R, w
<1>9. Head(<<w>> \o R) = w /\ Tail(<<w>> \o R) = R /\ <<w>> \o R # <<>>
  BY <1>5, HeadAndTail
<1>10. /\ Calls!Current.locals # <<>> /\ Head(Calls!Current.locals) # Calls!Trap
       /\ frames' = Calls!SetLocals(Tail(Calls!Current.locals))
  BY <1>2, <1>5, <1>6, <1>8, <1>9 DEF IsNow, IsCut, Trap, Calls!Trap, R
<1>. QED
  BY <1>1, <1>2, <1>5, <1>10 DEF Calls!Drop

LEMMA PopsTry ==
  ASSUME NEW V, NEW A, NEW H, Laid(V, A, H), LaidOut', Agrees, Agrees', POPTRAP
  PROVE  Calls!EndTry
<1>1. /\ At("body") /\ Static # <<>> /\ Head(Static) = "trap"
      /\ stack' = SubSeq(stack, 4 + 1, Len(stack)) /\ pc' = Body(pc.fn, Tail(Static))
      /\ UNCHANGED <<acc, env, extra_args, status>>
  BY DEF POPTRAP, Popped, Next1
<1>2. PICK f, shape :
        /\ AtBody(V, A, H, f, shape)
        /\ IsNow(f, LocalsOf(stack, shape, Len(stack)), PendingOf(stack, shape, extra_args, Len(stack)),
                 BelowOf(stack, f, shape, extra_args, Len(stack)))
        /\ last = acc /\ shape \in Seq(Items)
  BY <1>1, BodyNow
<1>3. pc.fn = f /\ Static = shape
  BY <1>2 DEF AtBody
<1>4. shape[1] = "trap" /\ Words(shape[1]) = 4
  <2>1. Head(shape) = shape[1]
    BY <1>1, <1>2, <1>3, FirstItem
  <2>. QED
    BY <1>1, <1>3, <2>1 DEF Words
<1>. DEFINE R == LocalsOf(stack, Rest(shape, 1), Len(stack) - 4)
<1>5. /\ IsCut(f, Rest(shape, 1), Len(stack) - 4, shape) /\ last' = acc'
      /\ LocalsOf(stack, shape, Len(stack)) = Local(stack, shape, Len(stack), 1) \o R
      /\ R \in Seq(V \cup {Trap})
  <2>1. Cuts(4, f, shape)
    BY <1>1, <1>3, <1>4 DEF Cuts
  <2>2. CutFrames(4, f, shape, V) /\ last' = acc'
    BY <1>2, <2>1, CutNow
  <2>. QED
    BY <2>2 DEF CutFrames
<1>6. LocalsOf(stack, shape, Len(stack)) = <<Trap>> \o R
  BY <1>4, <1>5 DEF Local
<1>. HIDE DEF R
<1>9. Head(<<Trap>> \o R) = Trap /\ Tail(<<Trap>> \o R) = R /\ <<Trap>> \o R # <<>>
  BY <1>5, HeadAndTail
<1>10. /\ Calls!Current.locals # <<>> /\ Head(Calls!Current.locals) = Calls!Trap
       /\ frames' = Calls!SetLocals(Tail(Calls!Current.locals))
  BY <1>2, <1>5, <1>6, <1>9 DEF IsNow, IsCut, Trap, Calls!Trap, R
<1>. QED
  BY <1>1, <1>2, <1>5, <1>10 DEF Calls!EndTry

LEMMA StopsAll ==
  ASSUME NEW V, NEW A, NEW H, Laid(V, A, H), Agrees, Agrees', STOP
  PROVE  Calls!Stop
<1>1. /\ At("body") /\ pc.fn = "main" /\ Static = <<>> /\ status' = "stopped"
      /\ UNCHANGED <<pc, stack, acc, env, trapSp, extra_args>>
  BY DEF STOP
<1>2. PICK f, shape :
        /\ AtBody(V, A, H, f, shape)
        /\ IsNow(f, LocalsOf(stack, shape, Len(stack)), PendingOf(stack, shape, extra_args, Len(stack)),
                 BelowOf(stack, f, shape, extra_args, Len(stack)))
        /\ last = acc
  BY <1>1, BodyNow
<1>3. pc.fn = f /\ Static = shape
  BY <1>2 DEF AtBody
<1>4. LocalsOf(stack, shape, Len(stack)) = <<>>
  <2>1. LocalItems(stack, shape, Len(stack)) = <<>>
    BY <1>1, <1>3 DEF LocalItems
  <2>. QED
    BY <2>1, FlattenSmall DEF LocalsOf
<1>5. Calls!Current.fn = "main" /\ ~ Calls!InTry
  BY <1>1, <1>2, <1>3, <1>4 DEF IsNow, ToSet
<1>6. frames' = frames
  BY <1>1, CurrentRead, CurrentReadNext DEF Agrees
<1>7. last' = last
  <2>1. pc.at = "body" /\ pc'.at = "body"
    BY <1>1 DEF At
  <2>2. CurrentValue = acc /\ CurrentValue' = acc'
    BY <2>1, CurrentRead, CurrentReadNext DEF ValueNow
  <2>. QED
    BY <1>1, <2>2 DEF Agrees
<1>. QED
  BY <1>1, <1>5, <1>6, <1>7 DEF Calls!Stop

LEMMA SameClosures ==
  /\ \A f : Calls!Closure(f) = Closure(f)
  /\ \A f, as : Calls!Partial(f, as) = MakeClosure(<<f, "restart">>, Closure(f), as)
  /\ \A c : Calls!IsClosure(c) <=> IsClosure(c)
<1>1. \A f : Calls!Closure(f) = Closure(f)
  BY DEF Calls!Closure, Calls!Unit, Closure, MakeClosure, Val_unit, Val_int
<1>2. \A f, as : Calls!Partial(f, as) = MakeClosure(<<f, "restart">>, Closure(f), as)
  BY <1>1 DEF Calls!Partial, MakeClosure
<1>3. \A c : Calls!IsClosure(c) <=> IsClosure(c)
  BY DEF Calls!IsClosure, IsClosure
<1>. QED
  BY <1>1, <1>2, <1>3

LEMMA LoadsSome ==
  ASSUME NEW V, NEW A, NEW H, Laid(V, A, H), Agrees, Agrees', Load
  PROVE  \E x \in Calls!Loadable : Calls!Load(x)
<1>1. At("body") /\ UNCHANGED <<pc, stack, env, trapSp, extra_args, status>>
  BY DEF Load
<1>2. PICK f, shape :
        /\ AtBody(V, A, H, f, shape)
        /\ IsNow(f, LocalsOf(stack, shape, Len(stack)), PendingOf(stack, shape, extra_args, Len(stack)),
                 BelowOf(stack, f, shape, extra_args, Len(stack)))
        /\ last = acc /\ shape \in Seq(Items) /\ Len(shape) \in Nat /\ DOMAIN shape = 1 .. Len(shape)
  BY <1>1, BodyNow
<1>3. /\ pc.fn = f /\ Static = shape /\ env = EnvOf(f)
      /\ FrameOK(stack, V, A, H, f, shape, extra_args, Len(stack))
  BY <1>2 DEF AtBody
<1>4. Len(stack) \in Nat /\ IsStack(stack) /\ ValuesOK(V) /\ Heights(A)
  BY LaidFacts DEF Heights
<1>5. frames' = frames
  BY <1>1, CurrentRead, CurrentReadNext DEF Agrees
<1>6. last' = acc'
  <2>1. pc'.at = "body"
    BY <1>1 DEF At
  <2>. QED
    BY <2>1, CurrentReadNext DEF ValueNow, Agrees
<1>7. acc' \in Calls!Loadable
  <2>1. CASE acc' \in Literals \cup {Closure(g) : g \in Functions}
    BY <2>1, SameClosures DEF Calls!Loadable
  <2>2. CASE \E i \in DOMAIN Static : Static[i] = "v" /\ acc' = peek(Size(SubSeq(Static, 1, i - 1)))
    <3>1. PICK i \in 1 .. Len(shape) : shape[i] = "v" /\ acc' = peek(Above(shape, i))
      BY <1>2, <1>3, <2>2 DEF Above
    <3>2. Above(shape, i) \in Nat
      BY <1>2, AboveItem
    <3>3. acc' = W(stack, Len(stack) - Above(shape, i))
      <4>1. Len(stack) - (Len(stack) - Above(shape, i)) + 1 = Above(shape, i) + 1
        BY <1>4, <3>2
      <4>. QED
        BY <3>1, <4>1 DEF peek, W
    <3>4. acc' \in ToSet(LocalsOf(stack, shape, Len(stack)))
      BY <1>2, <1>4, <3>1, <3>3, ValueOfItem
    <3>5. acc' \in V
      BY <1>3, <3>1, <3>3 DEF FrameOK, ItemOK
    <3>6. acc' # Trap
      BY <1>4, <3>5 DEF ValuesOK
    <3>. QED
      BY <1>2, <3>4, <3>6 DEF Calls!Loadable, IsNow, Calls!ToSet, ToSet, Calls!Trap, Trap
  <2>3. CASE pc.fn # "main" /\ acc' = env
    <3>1. acc' = Closure(f) /\ f \in Functions
      BY <1>3, <2>3 DEF EnvOf, FrameOK
    <3>. QED
      BY <3>1, SameClosures DEF Calls!Loadable
  <2>. QED
    BY <2>1, <2>2, <2>3 DEF Load
<1>8. Calls!Load(acc')
  BY <1>1, <1>5, <1>6 DEF Calls!Load
<1>. QED
  BY <1>7, <1>8

-----------------------------------------------------------------------------
(* Functions are entered.                                                   *)

\* c is applied to as.
AppliedTo(c, as, below) == Entered(c.code[1], c.args \o as, below)
AppliedValue(c, as)     == EnteredValue(c.code[1], c.args \o as, c)

LEMMA ApplyIs ==
  ASSUME NEW c, NEW as, NEW below
  PROVE  Calls!Apply(c, as, below) <=> frames' = AppliedTo(c, as, below) /\ last' = AppliedValue(c, as)
BY SameClosures DEF Calls!Apply, Calls!Function, Calls!Frame, AppliedTo, AppliedValue, Entered, EnteredValue, FrameRecord

\* The n words on top of s.
IsTop(all, s, n) == all = SubSeq(s, 1, n)

Takes(f, n) == Arity[f] = n

\* The body of a function of n parameters, with x arguments more.
LEMMA EnteredBody ==
  ASSUME NEW s, IsStack(s), NEW n \in Nat \ {0}, NEW x \in Nat, n + x <= Len(s), NEW f, f # "main", Takes(f, n),
         NEW all, IsTop(all, s, n + x)
  PROVE  FrameList(s, f, Values(n), x, Len(s)) = Entered(f, all, FramesBelow(s, Len(s) - n - x))
<1>. DEFINE shape == Values(n)
            top == Len(s)
<1>0. top \in Nat
  BY LenProperties DEF IsStack
<1>1. shape \in Seq(Items) /\ Len(shape) = n /\ \A i \in 1 .. n : shape[i] = "v"
  <2>1. shape = [i \in 1 .. n |-> "v"] /\ "v" \in Items
    BY DEF Values, Items
  <2>. HIDE DEF shape
  <2>. QED
    BY <2>1
<1>. HIDE DEF shape
<1>2. Size(shape) = n
  <2>1. Size(SubSeq(shape, 1, n)) = n
    BY <1>1, ValueItems
  <2>2. SubSeq(shape, 1, n) = shape
    BY <1>1, SubSeqFull
  <2>. QED
    BY <2>1, <2>2
<1>3. n + x \in 0 .. Len(s)
  BY <1>0
<1>4. /\ IsStack(all) /\ Len(all) = n + x
      /\ \A j \in 1 .. n + x : all[j] = W(s, top - j + 1)
  <2>1. /\ IsStack(SubSeq(s, 1, n + x)) /\ Len(SubSeq(s, 1, n + x)) = n + x
        /\ \A j \in 1 .. n + x : SubSeq(s, 1, n + x)[j] = s[j] /\ s[j] = W(s, Len(s) - j + 1)
    BY <1>3, TopOfStack
  <2>. QED
    BY <2>1 DEF IsTop
<1>5. LocalsOf(s, shape, top) = TopWords(s, n, top)
  <2>1. PICK low \in Int : low = top - n
    BY <1>0
  <2>2. n \in 0 .. Len(shape) /\ top = low + n /\ top \in Int
    BY <1>0, <1>1, <2>1
  <2>. HIDE DEF top
  <2>3. Higher(top, low, n)
    BY <2>2 DEF Higher
  <2>. QED
    BY <1>1, <2>2, <2>3, ValueLocals
<1>6. PICK X : all \in Seq(X)
  BY <1>4 DEF IsStack
<1>. HIDE DEF top
<1>7. SubSeq(all, 1, n) = TopWords(s, n, top)
  <2>1. \A j \in 1 .. n : j \in 1 .. n + x /\ all[j] \in X
    BY <1>4, <1>6
  <2>0. 1 \in Int /\ n \in Int
    OBVIOUS
  <2>2. /\ SubSeq(all, 1, n) \in Seq(X) /\ Len(SubSeq(all, 1, n)) = n
        /\ \A j \in 1 .. n : SubSeq(all, 1, n)[j] = all[j]
    BY <2>0, <2>1, SubSeqProperties
  <2>3. SubSeq(all, 1, n) = [j \in 1 .. n |-> SubSeq(all, 1, n)[j]]
    BY <2>2
  <2>4. \A j \in 1 .. n : SubSeq(all, 1, n)[j] = W(s, top - j + 1)
    BY <1>4, <2>1, <2>2
  <2>. QED
    BY <2>3, <2>4 DEF TopWords
<1>8. SubSeq(all, n + 1, n + x) = PendingOf(s, shape, x, top)
  <2>1. \A j \in n + 1 .. n + x : all[j] \in X
    BY <1>4, <1>6
  <2>0. n + 1 \in Int /\ n + x \in Int
    OBVIOUS
  <2>5. /\ SubSeq(all, n + 1, n + x) \in Seq(X)
        /\ Len(SubSeq(all, n + 1, n + x)) = IF n + 1 <= n + x THEN n + x - (n + 1) + 1 ELSE 0
        /\ \A j \in 1 .. n + x - (n + 1) + 1 : SubSeq(all, n + 1, n + x)[j] = all[n + 1 + j - 1]
    BY <2>0, <2>1, SubSeqProperties
  <2>2. /\ SubSeq(all, n + 1, n + x) \in Seq(X) /\ Len(SubSeq(all, n + 1, n + x)) = x
        /\ \A j \in 1 .. x : SubSeq(all, n + 1, n + x)[j] = all[n + j]
    <3>. DEFINE p == SubSeq(all, n + 1, n + x)
    <3>. HIDE DEF p
    <3>1. /\ p \in Seq(X) /\ Len(p) = IF n + 1 <= n + x THEN n + x - (n + 1) + 1 ELSE 0
          /\ \A j \in 1 .. n + x - (n + 1) + 1 : p[j] = all[n + 1 + j - 1]
      BY <2>5 DEF p
    <3>2. ASSUME NEW j \in 1 .. x PROVE p[j] = all[n + j]
      <4>1. j \in 1 .. n + x - (n + 1) + 1 /\ n + 1 + j - 1 = n + j
        OBVIOUS
      <4>. QED
        BY <3>1, <4>1
    <3>3. p \in Seq(X) /\ Len(p) = x
      BY <3>1
    <3>. QED
      BY <3>2, <3>3 DEF p
  <2>3. SubSeq(all, n + 1, n + x) = [j \in 1 .. x |-> SubSeq(all, n + 1, n + x)[j]]
    BY <2>2
  <2>4. ASSUME NEW j \in 1 .. x PROVE SubSeq(all, n + 1, n + x)[j] = W(s, top - Size(shape) - j + 1)
    <3>1. n + j \in 1 .. n + x /\ top - (n + j) + 1 = top - Size(shape) - j + 1
      BY <1>0, <1>2 DEF top
    <3>. QED
      BY <1>4, <2>2, <3>1
  <2>. QED
    BY <2>3, <2>4 DEF PendingOf
<1>9. ReturnHeight(shape, x, top) = Len(s) - n - x
  BY <1>2 DEF ReturnHeight, top
<1>10. FrameList(s, f, shape, x, top)
         = <<FrameRecord(f, LocalsOf(s, shape, top), PendingOf(s, shape, x, top))>> \o FramesBelow(s, Len(s) - n - x)
  BY <1>9 DEF FrameList, FrameOf
<1>12. Arity[f] = n
  BY DEF Takes
<1>11. ~ Len(all) < Arity[f]
  BY <1>4, <1>12
<1>. QED
  BY <1>4, <1>12, <1>5, <1>7, <1>8, <1>10, <1>11 DEF Entered, shape, top

\* Where the closure in acc says, with x + 1 arguments on the stack.
LEMMA EnteredClosure ==
  ASSUME NEW s, IsStack(s), NEW V, ValuesOK(V), NEW x \in Nat, x + 1 <= Len(s),
         NEW c \in V, IsClosure(c), NEW p, p = Codeptr_val(c.code)
  PROVE  /\ FramesIn(p, s, x, c) = AppliedTo(c, SubSeq(s, 1, x + 1), FramesBelow(s, Len(s) - x - 1))
         /\ ValueNow("run", p, s, x, c, c) = AppliedValue(c, SubSeq(s, 1, x + 1))
<1>. DEFINE as == SubSeq(s, 1, x + 1)
            below == FramesBelow(s, Len(s) - x - 1)
<1>1. Len(s) \in Nat
  BY LenProperties DEF IsStack
<1>2. x \in Nat /\ x + 1 \in 0 .. Len(s)
  BY <1>1
<1>3. IsStack(as) /\ Len(as) = x + 1
  BY <1>1, <1>2, TopOfStack
<1>4. <<>> \o as = as
  BY <1>3, ConcatEmptySeq DEF IsStack
<1>5. \/ \E f \in Functions : c = Closure(f)
      \/ \E f, args : PartialClosure(V, f, args) /\ c = MakeClosure(<<f, "restart">>, Closure(f), args)
  BY DEF ValuesOK, IsClosure
<1>6. ASSUME NEW f \in Functions, c = Closure(f)
      PROVE  FramesIn(p, s, x, c) = AppliedTo(c, as, below) /\ ValueNow("run", p, s, x, c, c) = AppliedValue(c, as)
  <2>1. c.code = <<f, "start">> /\ c.code[1] = f /\ c.args = <<>>
    BY <1>6 DEF Closure, MakeClosure
  <2>2. p = IF Arity[f] > 1 THEN Point(f, "grab", <<>>) ELSE Body(f, Values(1))
    BY <2>1 DEF Codeptr_val
  <2>3. AppliedTo(c, as, below) = Entered(f, as, below) /\ AppliedValue(c, as) = EnteredValue(f, as, c)
    BY <1>4, <2>1 DEF AppliedTo, AppliedValue
  <2>4. CASE Arity[f] > 1
    <3>1. p.fn = f /\ p.at = "grab"
      BY <2>2, <2>4 DEF Point
    <3>2. ArgumentsOf(p, s, x, c) = as
      BY <1>4, <3>1 DEF ArgumentsOf
    <3>. QED
      BY <2>3, <3>1, <3>2 DEF FramesIn, ValueNow
  <2>5. CASE ~ (Arity[f] > 1)
    <3>1. Arity[f] = 1 /\ f # "main"
      BY <2>5, Constants
    <3>2. p.fn = f /\ p.at = "body" /\ p.shape = Values(1)
      BY <2>2, <2>5 DEF Body, Point
    <3>3. FrameList(s, f, Values(1), x, Len(s)) = Entered(f, as, FramesBelow(s, Len(s) - 1 - x))
      <4>0. PICK n \in Nat \ {0} : n = 1
        OBVIOUS
      <4>1. IsTop(as, s, n + x) /\ n + x <= Len(s) /\ Takes(f, n)
        <5>1. x + 1 = n + x /\ x + 1 <= Len(s)
          BY <1>1, <1>2, <4>0
        <5>. QED
          BY <3>1, <4>0, <5>1 DEF IsTop, Takes
      <4>. HIDE DEF as
      <4>2. FrameList(s, f, Values(n), x, Len(s)) = Entered(f, as, FramesBelow(s, Len(s) - n - x))
        <5>1. IsStack(s) /\ x \in Nat /\ f # "main"
          BY <1>1, <1>2, <3>1
        <5>. QED
          BY <4>1, <5>1, EnteredBody
      <4>. QED
        BY <4>0, <4>2
    <3>4. Len(s) - 1 - x = Len(s) - x - 1
      BY <1>1, <1>2
    <3>5. ~ Len(as) < Arity[f]
      BY <1>2, <1>3, <3>1
    <3>. QED
      BY <2>3, <3>2, <3>3, <3>4, <3>5 DEF FramesIn, ValueNow, EnteredValue
  <2>. QED
    BY <2>4, <2>5
<1>7. ASSUME NEW f, NEW args, PartialClosure(V, f, args), c = MakeClosure(<<f, "restart">>, Closure(f), args)
      PROVE  FramesIn(p, s, x, c) = AppliedTo(c, as, below) /\ ValueNow("run", p, s, x, c, c) = AppliedValue(c, as)
  <2>1. c.code = <<f, "restart">> /\ c.code[1] = f /\ c.args = args
    BY <1>7 DEF MakeClosure
  <2>2. p.fn = f /\ p.at = "restart"
    BY <2>1 DEF Codeptr_val, Point
  <2>3. ArgumentsOf(p, s, x, c) = args \o as
    BY <2>1, <2>2 DEF ArgumentsOf
  <2>. QED
    BY <2>1, <2>2, <2>3 DEF FramesIn, ValueNow, AppliedTo, AppliedValue
<1>. QED
  BY <1>5, <1>6, <1>7

\* The closure in acc is applied to as, for the frames B.
IsApplied(as, B) == frames' = AppliedTo(acc, as, B) /\ last' = AppliedValue(acc, as)
Arrives(r, x) == stack' = r /\ extra_args' = x /\ acc' = acc /\ status' = "run"
TopArguments(r, x) == SubSeq(r, 1, x + 1)
FramesUnder(r, x)  == FramesBelow(r, Len(r) - x - 1)

LEMMA AppliedNow ==
  ASSUME NEW V, NEW A, NEW H, Laid(V, A, H), LaidOut', Agrees', IsClosure(acc), Jump,
         NEW r, IsStack(r), NEW x \in Nat, Arrives(r, x), x + 1 <= Len(r)
  PROVE  IsApplied(TopArguments(r, x), FramesUnder(r, x))
<1>1. ValuesOK(V) /\ acc \in V
  BY LaidFacts
<1>2. pc' = Codeptr_val(acc.code) /\ env' = acc
  BY DEF Jump
<1>3. stack' = r /\ extra_args' = x /\ acc' = acc /\ status' = "run"
  BY DEF Arrives
<1>4. PICK p : p = Codeptr_val(acc.code)
  OBVIOUS
<1>5. /\ FramesIn(p, r, x, acc) = AppliedTo(acc, SubSeq(r, 1, x + 1), FramesBelow(r, Len(r) - x - 1))
      /\ ValueNow("run", p, r, x, acc, acc) = AppliedValue(acc, SubSeq(r, 1, x + 1))
  BY <1>1, <1>4, EnteredClosure
<1>6. frames' = FramesIn(pc', stack', extra_args', env')
  BY ReadAfter DEF Agrees
<1>7. last' = ValueNow(status', pc', stack', extra_args', env', acc')
  BY CurrentReadNext DEF Agrees
<1>8. frames' = FramesIn(p, r, x, acc)
  BY <1>2, <1>3, <1>4, <1>6
<1>9. last' = ValueNow("run", p, r, x, acc, acc)
  BY <1>2, <1>3, <1>4, <1>7
<1>. QED
  BY <1>5, <1>8, <1>9 DEF IsApplied, TopArguments, FramesUnder

LEMMA ArgumentItems ==
  ASSUME NEW shape \in Seq(Items), NEW n \in 0 .. Len(shape), SubSeq(shape, 1, n) = Values(n)
  PROVE  \A i \in 1 .. n : shape[i] = "v"
<1>1. ASSUME NEW i \in 1 .. n PROVE shape[i] = "v"
  <2>1. SubSeq(shape, 1, n)[i] = shape[i]
    OBVIOUS
  <2>2. Values(n)[i] = "v"
    BY DEF Values
  <2>. QED
    BY <2>1, <2>2
<1>. QED
  BY <1>1

\* The n words on top, as values.
LEMMA TopValues ==
  ASSUME NEW s, IsStack(s), NEW n \in 0 .. Len(s), NEW V, \A j \in 1 .. n : s[j] \in V
  PROVE  /\ SubSeq(s, 1, n) = TopWords(s, n, Len(s))
         /\ SubSeq(s, 1, n) \in Seq(V) /\ Len(SubSeq(s, 1, n)) = n
<1>. DEFINE as == SubSeq(s, 1, n)
<1>1. /\ IsStack(as) /\ Len(as) = n
      /\ \A j \in 1 .. n : as[j] = s[j] /\ s[j] = W(s, Len(s) - j + 1)
  BY TopOfStack
<1>. HIDE DEF as
<1>0. n \in Nat
  BY LenProperties DEF IsStack
<1>2. as = [j \in 1 .. n |-> as[j]]
  <2>1. PICK X : as \in Seq(X)
    BY <1>1 DEF IsStack
  <2>2. Len(as) = n /\ n \in Nat /\ DOMAIN as = 1 .. n /\ as \in [1 .. n -> X]
    BY <1>0, <1>1, <2>1, LenProperties
  <2>. QED
    BY <2>2
<1>3. as = TopWords(s, n, Len(s))
  BY <1>1, <1>2 DEF TopWords
<1>4. \A j \in 1 .. n : W(s, Len(s) - j + 1) \in V
  BY <1>1
<1>5. TopWords(s, n, Len(s)) \in Seq(V)
  BY <1>0, <1>4 DEF TopWords
<1>. QED
  BY <1>1, <1>2, <1>3, <1>5 DEF as

\* The values on top are given to the function in acc, which is to come back.
LEMMA CallNow ==
  ASSUME NEW V, NEW A, NEW H, Laid(V, A, H), At("body"), Agrees, IsClosure(acc), status' = status,
         NEW n \in Nat \ {0}, HasArguments(n), NEW f, NEW rest, NEW low, UnderArguments(V, A, H, n, f, rest, low),
         IsApplied(SubSeq(stack, 1, n), FrameList(stack, f, rest, extra_args, low))
  PROVE  Calls!Call(n) /\ n \in 1 .. Len(Calls!Current.locals)
<1>1. PICK g, shape :
        /\ AtBody(V, A, H, g, shape) /\ extra_args \in 0 .. MaxExtraArgs
        /\ shape \in Seq(Items) /\ Len(shape) \in Nat
        /\ IsNow(g, LocalsOf(stack, shape, Len(stack)), PendingOf(stack, shape, extra_args, Len(stack)),
                 BelowOf(stack, g, shape, extra_args, Len(stack)))
        /\ last = acc
  BY BodyNow
<1>2. /\ pc.fn = f /\ rest = Rest(Static, n) /\ n <= Len(Static) /\ rest \in Seq(Items)
      /\ low \in Nat /\ Len(stack) = low + n
      /\ FrameOK(stack, V, A, H, f, rest, extra_args, low)
      /\ \A j \in 1 .. n : stack[j] \in V
  BY DEF UnderArguments
<1>3. g = f /\ Static = shape
  BY <1>1, <1>2 DEF AtBody
<1>4. /\ IsStack(stack) /\ Len(stack) \in Nat /\ Heights(A) /\ ValuesOK(V)
  BY LaidFacts DEF Heights
<1>5. n \in 0 .. Len(shape) /\ \A i \in 1 .. n : shape[i] = "v"
  <2>1. n \in 0 .. Len(shape) /\ SubSeq(shape, 1, n) = Values(n)
    BY <1>1, <1>2, <1>3 DEF HasArguments
  <2>. QED
    BY <1>1, <2>1, ArgumentItems
<1>. DEFINE as == SubSeq(stack, 1, n)
            R  == LocalsOf(stack, rest, low)
            L  == LocalsOf(stack, shape, Len(stack))
            P  == PendingOf(stack, shape, extra_args, Len(stack))
            B  == BelowOf(stack, f, shape, extra_args, Len(stack))
<1>6. as = TopWords(stack, n, Len(stack)) /\ as \in Seq(V) /\ Len(as) = n
  <2>1. n \in 0 .. Len(stack)
    BY <1>2
  <2>. QED
    BY <1>2, <1>4, <2>1, TopValues
<1>7. L = as \o R
  <2>1. PICK top \in Int : top = Len(stack)
    BY <1>4
  <2>2. Higher(top, low, n) /\ low \in Int
    BY <1>2, <2>1 DEF Higher
  <2>3. LocalsOf(stack, shape, top) = TopWords(stack, n, top) \o LocalsOf(stack, Rest(shape, n), low)
    BY <1>1, <1>5, <2>2, ValueLocals
  <2>. QED
    BY <1>2, <1>3, <1>6, <2>1, <2>3
<1>8. R \in Seq(V \cup {Trap})
  <2>1. low \in Int /\ A \subseteq Nat \ {0}
    BY <1>2, <1>4 DEF Heights
  <2>. QED
    BY <1>2, <2>1, LocalTyped
<1>9. Trap \notin V
  BY <1>4 DEF ValuesOK
<1>10. SameBase(Len(stack), shape, low, rest)
  <2>1. Size(shape) = Size(SubSeq(shape, 1, n)) + Size(rest) /\ Size(rest) \in Nat
    BY <1>1, <1>2, <1>3, <1>5, SizeSplit DEF Rest
  <2>2. Size(SubSeq(shape, 1, n)) = n
    BY <1>1, <1>5, ValueItems
  <2>. QED
    BY <1>2, <2>1, <2>2 DEF SameBase
<1>11. FrameList(stack, f, rest, extra_args, low) = <<FrameRecord(f, R, P)>> \o B
  <2>1. /\ PendingOf(stack, rest, extra_args, low) = P
        /\ BelowOf(stack, f, rest, extra_args, low) = B
    BY <1>10, SameBaseFrame
  <2>. QED
    BY <2>1 DEF FrameList, FrameOf, BelowOf
<1>12. IsNow(f, L, P, B)
  BY <1>1, <1>3
<1>. HIDE DEF as, R, L, P, B
<1>13. as \in Seq(V \cup {Trap})
  BY <1>6
<1>14. Len(L) = n + Len(R) /\ Len(R) \in Nat /\ SubSeq(L, 1, n) = as /\ SubSeq(L, n + 1, Len(L)) = R
  <2>0. PICK X : X = V \cup {Trap}
    OBVIOUS
  <2>2. as \in Seq(X) /\ R \in Seq(X)
    BY <1>8, <1>13, <2>0
  <2>1. IsConcat(L, as, R)
    BY <1>7 DEF IsConcat
  <2>3. Parts(L, as, R)
    BY <2>1, <2>2, ConcatParts
  <2>. QED
    BY <1>6, <2>3 DEF Parts
<1>15. Trap \notin ToSet(as)
  BY <1>6, <1>9, ElementOfSeq DEF ToSet
<1>16. Calls!SetLocals(R) = FrameList(stack, f, rest, extra_args, low) /\ Calls!Current.locals = L
  BY <1>11, <1>12 DEF IsNow
<1>17. Calls!Apply(last, as, Calls!SetLocals(R))
  <2>1. IsApplied(as, Calls!SetLocals(R))
    BY <1>16 DEF as
  <2>. QED
    BY <1>1, <2>1, ApplyIs DEF IsApplied
<1>18. Calls!IsClosure(last)
  BY <1>1, SameClosures
<1>19. n \in 1 .. Len(L) /\ n <= Len(L)
  BY <1>14
<1>20. Calls!Call(n)
  <2>1. Calls!Trap \notin Calls!ToSet(as)
    BY <1>15 DEF Calls!Trap, Trap, Calls!ToSet, ToSet
  <2>2. UNCHANGED status
    OBVIOUS
  <2>. QED
    BY <1>14, <1>16, <1>17, <1>18, <1>19, <2>1, <2>2 DEF Calls!Call
<1>. QED
  BY <1>16, <1>19, <1>20

LEMMA StackParts ==
  ASSUME NEW a, NEW b, IsStack(a), IsStack(b), NEW d, IsConcat(d, a, b)
  PROVE  Parts(d, a, b)
<1>1. PICK X : a \in Seq(X)
  BY DEF IsStack
<1>2. PICK Y : b \in Seq(Y)
  BY DEF IsStack
<1>3. PICK D : D = X \cup Y
  OBVIOUS
<1>4. a \in Seq(D) /\ b \in Seq(D)
  <2>1. X \subseteq D /\ Y \subseteq D
    BY <1>3
  <2>. QED
    BY <1>1, <1>2, <2>1, SeqMonotonic
<1>. QED
  BY <1>4, ConcatParts

\* A return frame on the words of a function.
FrameWords(r, high, f, shape, x) ==
  high \in 3 .. Len(r) /\ W(r, high) = Val_codeptr(Body(f, shape)) /\ W(r, high - 2) = Val_int(x)

LEMMA PushedFrame ==
  ASSUME NEW s, NEW V, NEW A, NEW H, RetsOK(s, V, A, H),
         NEW r, IsStack(r), Len(r) <= StackWosize, NEW low \in Nat, Same(s, r, low),
         NEW f, NEW shape, NEW x, FrameOK(s, V, A, H, f, shape, x, low),
         NEW high, Higher(high, low, 3), FrameWords(r, high, f, shape, x)
  PROVE  FramesBelow(r, high) = FrameList(s, f, shape, x, low)
<1>1. Heights(A) /\ A \subseteq Nat \ {0}
  BY RetsHeights DEF Heights
<1>2. /\ shape \in Seq(Items) /\ x \in Nat /\ Size(shape) \in Nat
      /\ ReturnHeight(shape, x, low) \in Nat
      /\ f # "main" => ReturnHeight(shape, x, low) \in A
  <2>1. low \in Int
    OBVIOUS
  <2>. QED
    BY <1>1, <2>1, FrameBounds
<1>3. high \in 3 .. Len(r) /\ W(r, high) = Val_codeptr(Body(f, shape)) /\ W(r, high - 2) = Val_int(x)
  BY DEF FrameWords
<1>4. low = high - 3 /\ low \in Int
  BY DEF Higher
<1>5. FramesBelow(r, high) =
        <<FrameOf(r, f, shape, x, low)>>
          \o IF f # "main" /\ ReturnHeight(shape, x, low) \in 1 .. high - 1
             THEN FramesBelow(r, ReturnHeight(shape, x, low)) ELSE <<>>
  BY <1>2, <1>3, <1>4, FramesBelowFrame
<1>6. f # "main" => ReturnHeight(shape, x, low) \in 1 .. high - 1
  <2>1. ReturnHeight(shape, x, low) <= low
    BY <1>2 DEF ReturnHeight
  <2>2. f # "main" => ReturnHeight(shape, x, low) # 0
    BY <1>1, <1>2
  <2>3. high = low + 3
    BY DEF Higher
  <2>. QED
    BY <1>2, <2>1, <2>2, <2>3
<1>7. FramesBelow(r, high) = FrameList(r, f, shape, x, low)
  BY <1>5, <1>6 DEF FrameList
<1>8. FrameList(r, f, shape, x, low) = FrameList(s, f, shape, x, low)
  <2>1. low \in Int /\ low <= low
    OBVIOUS
  <2>. QED
    BY <2>1, FrameListStable
<1>. QED
  BY <1>7, <1>8

LEMMA ApplynCalls ==
  ASSUME NEW V, NEW A, NEW H, Laid(V, A, H), LaidOut', Agrees, Agrees',
         NEW n \in 1 .. 3, APPLYn(n), Fits(stack, 3)
  PROVE  Calls!Call(n) /\ n \in 1 .. Len(Calls!Current.locals)
<1>1. At("body") /\ IsClosure(acc) /\ HasArguments(n) /\ n \in Nat \ {0}
  BY DEF APPLYn
<1>. DEFINE args == SubSeq(stack, 1, n)
            q == SubSeq(stack, n + 1, Len(stack))
<1>2. PICK f, rest, low : UnderArguments(V, A, H, n, f, rest, low)
  BY <1>1, ArgumentsOnTop
<1>3. /\ pc.fn = f /\ env = EnvOf(f) /\ rest = Rest(Static, n) /\ low \in Nat /\ Len(stack) = low + n
      /\ FrameOK(stack, V, A, H, f, rest, extra_args, low)
  BY <1>2 DEF UnderArguments
<1>4. /\ RetsOK(stack, V, A, H) /\ Len(stack) \in Nat /\ IsStack(stack)
  BY LaidFacts
<1>5. PICK frame : frame = <<Val_codeptr(Body(f, rest)), EnvOf(f), Val_int(extra_args)>>
  OBVIOUS
<1>6. stack' = (args \o frame) \o q /\ extra_args' = n - 1 /\ Jump /\ acc' = acc /\ status' = status
  <2>1. ReturnFrame(Body(pc.fn, SubSeq(Static, n + 1, Len(Static)))) = frame
    BY <1>3, <1>5 DEF ReturnFrame, Rest
  <2>. QED
    BY <2>1 DEF APPLYn, Popped
<1>7. n \in 0 .. Len(stack)
  BY <1>3
<1>8. IsStack(args) /\ Len(args) = n
  BY <1>4, <1>7, TopOfStack
<1>9. IsStack(q) /\ Len(q) = low /\ Same(stack, q, low)
  <2>1. IsStack(q) /\ Len(q) = Len(stack) - n /\ Same(stack, q, Len(stack) - n)
    BY <1>4, <1>7, PoppedStack
  <2>2. Len(stack) - n = low
    BY <1>3
  <2>. QED
    BY <2>1, <2>2
<1>10. /\ IsStack(frame) /\ Len(frame) = 3 /\ frame[1] = Val_codeptr(Body(f, rest))
       /\ frame[3] = Val_int(extra_args)
  BY <1>5, Literal3
<1>. HIDE DEF args, q
<1>11. PICK r : r = frame \o q
  OBVIOUS
<1>12. /\ IsStack(r) /\ Len(r) = low + 3 /\ Same(q, r, low)
       /\ W(r, low + 3) = frame[1] /\ W(r, low + 1) = frame[3]
  <2>1. /\ IsStack(r) /\ Len(r) = Len(frame) + Len(q) /\ Same(q, r, Len(q))
        /\ \A j \in 1 .. Len(frame) : W(r, Len(q) + Len(frame) - j + 1) = frame[j]
    <3>1. IsStack(frame) /\ IsStack(q)
      BY <1>9, <1>10
    <3>2. /\ IsStack(frame \o q) /\ Len(frame \o q) = Len(frame) + Len(q) /\ Same(q, frame \o q, Len(q))
          /\ \A j \in 1 .. Len(frame) : W(frame \o q, Len(q) + Len(frame) - j + 1) = frame[j]
      BY <3>1, Pushed
    <3>. QED
      BY <1>11, <3>2
  <2>2. /\ 1 \in 1 .. Len(frame) /\ 3 \in 1 .. Len(frame)
        /\ Len(q) + Len(frame) - 1 + 1 = low + 3
        /\ Len(q) + Len(frame) - 3 + 1 = low + 1
        /\ Len(frame) + Len(q) = low + 3
    BY <1>3, <1>9, <1>10
  <2>3. W(r, Len(q) + Len(frame) - 1 + 1) = frame[1] /\ W(r, Len(q) + Len(frame) - 3 + 1) = frame[3]
    BY <2>1, <2>2
  <2>. QED
    BY <1>9, <2>1, <2>2, <2>3
<1>13. stack' = args \o r
  <2>1. Regrouped(args, frame, q)
    BY <1>8, <1>9, <1>10, ConcatThree
  <2>. QED
    BY <1>6, <1>11, <2>1 DEF Regrouped
<1>14. PICK z : z = args \o r
  OBVIOUS
<1>15. /\ IsStack(z) /\ Len(z) = n + (low + 3) /\ Same(r, z, low + 3) /\ SubSeq(z, 1, n) = args
  <2>1. IsStack(z) /\ Len(z) = Len(args) + Len(r) /\ Same(r, z, Len(r))
    BY <1>8, <1>12, <1>14, Pushed
  <2>2. IsConcat(z, args, r)
    BY <1>14 DEF IsConcat
  <2>3. Parts(z, args, r)
    BY <1>8, <1>12, <2>2, StackParts
  <2>. QED
    BY <1>8, <1>12, <2>1, <2>3 DEF Parts
<1>16. Len(z) <= StackWosize
  BY <1>3, <1>15, Constants DEF Fits
<1>17. Same(stack, z, low)
  <2>1. \A h \in 1 .. low : W(z, h) = W(stack, h)
    <3>1. ASSUME NEW h \in 1 .. low PROVE W(z, h) = W(stack, h)
      <4>1. h \in 1 .. low + 3
        BY <1>3
      <4>2. W(z, h) = W(r, h)
        BY <1>15, <4>1 DEF Same
      <4>3. W(r, h) = W(q, h) /\ W(q, h) = W(stack, h)
        BY <1>9, <1>12 DEF Same
      <4>. QED
        BY <4>2, <4>3
    <3>. QED
      BY <3>1
  <2>2. low <= Len(stack) /\ low <= Len(z) /\ low \in Nat
    BY <1>3, <1>15
  <2>. QED
    BY <2>1, <2>2 DEF Same
<1>18. PICK high \in Int : high = low + 3
  BY <1>3
<1>19. Higher(high, low, 3) /\ FrameWords(z, high, f, rest, extra_args)
  <2>1. W(z, low + 3) = W(r, low + 3) /\ W(z, low + 1) = W(r, low + 1)
    <3>1. low + 3 \in 1 .. low + 3 /\ low + 1 \in 1 .. low + 3
      BY <1>3
    <3>. QED
      BY <1>15, <3>1 DEF Same
  <2>2. high \in 3 .. Len(z) /\ high - 2 = low + 1
    BY <1>3, <1>15, <1>18
  <2>. QED
    BY <1>10, <1>12, <1>18, <2>1, <2>2 DEF Higher, FrameWords
<1>20. FramesBelow(z, high) = FrameList(stack, f, rest, extra_args, low)
  BY <1>3, <1>4, <1>15, <1>16, <1>17, <1>19, PushedFrame
<1>21. PICK y \in Nat : y = n - 1
  OBVIOUS
<1>22. Arrives(z, y) /\ y + 1 <= Len(z)
  <2>1. y + 1 <= Len(z)
    BY <1>3, <1>15, <1>21
  <2>2. status = "run"
    BY <1>1 DEF At
  <2>. QED
    BY <1>6, <1>13, <1>14, <1>21, <2>1, <2>2 DEF Arrives
<1>23. IsApplied(TopArguments(z, y), FramesUnder(z, y))
  BY <1>1, <1>6, <1>15, <1>22, AppliedNow
<1>24. TopArguments(z, y) = args /\ FramesUnder(z, y) = FrameList(stack, f, rest, extra_args, low)
  <2>1. y + 1 = n /\ Len(z) - y - 1 = high
    BY <1>3, <1>15, <1>18, <1>21
  <2>. QED
    BY <1>15, <1>20, <2>1 DEF TopArguments, FramesUnder
<1>25. IsApplied(SubSeq(stack, 1, n), FrameList(stack, f, rest, extra_args, low))
  BY <1>23, <1>24 DEF args
<1>. QED
  BY <1>1, <1>2, <1>6, <1>25, CallNow

\* The address on top of a frame stands for no value of it.
LEMMA RetItem ==
  ASSUME NEW s, NEW V, NEW A, NEW H, RetsOK(s, V, A, H), NEW low \in Int,
         NEW f, NEW rest, NEW x, FrameOK(s, V, A, H, f, rest, x, low), rest # <<>>, rest[1] = "ret"
  PROVE  FramesBelow(s, low) = FrameList(s, f, rest, x, low)
<1>1. Heights(A) /\ A \subseteq Nat \ {0}
  BY RetsHeights DEF Heights
<1>2. rest \in Seq(Items)
  BY DEF FrameOK
<1>3. /\ 1 \in 1 .. Len(rest) /\ Above(rest, 1) = 0 /\ Words(rest[1]) = 3
      /\ Size(SubSeq(rest, 1, 1)) = 3 /\ 1 \in 0 .. Len(rest)
  BY <1>2, FirstItem DEF Words
<1>4. /\ low \in A /\ W(s, low) = Val_codeptr(Body(f, Rest(rest, 1))) /\ W(s, low - 2) = Val_int(x)
  <2>1. ItemOK(s, V, A, H, f, rest, x, 1, low - Above(rest, 1))
    BY <1>3 DEF FrameOK
  <2>2. low - Above(rest, 1) = low
    BY <1>3
  <2>. QED
    BY <2>1, <2>2 DEF ItemOK
<1>5. PICK g, shape, y : RetFrame(s, V, A, H, low, g, shape, y)
  BY <1>4 DEF RetsOK
<1>6. g = f /\ shape = Rest(rest, 1) /\ y = x
  BY <1>4, <1>5 DEF RetFrame, Val_codeptr, Body, Point, Val_int
<1>7. PICK k \in Int : k = low - 3
  OBVIOUS
<1>8. Higher(low, k, 3)
  BY <1>7 DEF Higher
<1>9. FramesBelow(s, low) = FrameList(s, f, shape, x, k)
  <2>1. RetFrame(s, V, A, H, low, f, shape, x)
    BY <1>5, <1>6
  <2>. QED
    BY <1>4, <1>8, <2>1, RetFrames
<1>10. LocalsOf(s, rest, low) = LocalsOf(s, shape, k)
  <2>1. Higher(low, k, Words(rest[1]))
    BY <1>3, <1>8
  <2>2. LocalsOf(s, rest, low) = Local(s, rest, low, 1) \o LocalsOf(s, Rest(rest, 1), k)
    BY <1>2, <2>1, FirstLocal
  <2>3. Local(s, rest, low, 1) = <<>>
    BY DEF Local
  <2>4. LocalsOf(s, Rest(rest, 1), k) \in Seq(AnyWord(s))
    <3>1. Higher(low, k, Size(SubSeq(rest, 1, 1)))
      BY <1>3, <1>8
    <3>. QED
      BY <1>2, <1>3, <3>1, LocalsSplit
  <2>5. <<>> \o LocalsOf(s, Rest(rest, 1), k) = LocalsOf(s, Rest(rest, 1), k)
    BY <2>4, ConcatEmptySeq
  <2>. QED
    BY <1>6, <2>2, <2>3, <2>5
<1>11. SameBase(low, rest, k, shape)
  <2>1. Size(rest) = Size(SubSeq(rest, 1, 1)) + Size(shape) /\ Size(shape) \in Nat
    BY <1>2, <1>3, <1>6, SizeSplit DEF Rest
  <2>. QED
    BY <1>3, <1>7, <2>1 DEF SameBase
<1>12. /\ PendingOf(s, shape, x, k) = PendingOf(s, rest, x, low)
       /\ ReturnHeight(shape, x, k) = ReturnHeight(rest, x, low)
  BY <1>11, SameBaseFrame
<1>. QED
  BY <1>9, <1>10, <1>12 DEF FrameList, FrameOf

LEMMA ApplyCalls ==
  ASSUME NEW V, NEW A, NEW H, Laid(V, A, H), LaidOut', Agrees, Agrees',
         NEW n \in 1 .. MaxShape, APPLY(n)
  PROVE  Calls!Call(n) /\ n \in 1 .. Len(Calls!Current.locals)
<1>1. /\ At("body") /\ IsClosure(acc) /\ HasArguments(n) /\ Len(Static) > n /\ Static[n + 1] = "ret"
      /\ extra_args' = n - 1 /\ Jump
      /\ acc' = acc /\ stack' = stack /\ status' = status
  BY DEF APPLY
<1>2. n \in Nat \ {0}
  BY BoundsAssumption
<1>3. PICK f, rest, low : UnderArguments(V, A, H, n, f, rest, low)
  BY <1>1, <1>2, ArgumentsOnTop
<1>4. /\ rest = Rest(Static, n) /\ rest \in Seq(Items) /\ low \in Nat /\ Len(stack) = low + n
      /\ FrameOK(stack, V, A, H, f, rest, extra_args, low)
  BY <1>3 DEF UnderArguments
<1>5. RetsOK(stack, V, A, H) /\ IsStack(stack)
  BY LaidFacts
<1>6. rest # <<>> /\ rest[1] = "ret"
  <2>1. PICK f1, shape : AtBody(V, A, H, f1, shape) /\ shape \in Seq(Items) /\ Len(shape) \in Nat
    BY <1>1, BodyFrame
  <2>2. Static = shape
    BY <2>1 DEF AtBody
  <2>3. n \in 0 .. Len(shape) /\ 1 \in 1 .. Len(shape) - n
    BY <1>1, <1>2, <2>1, <2>2
  <2>4. Len(Rest(shape, n)) = Len(shape) - n /\ Rest(shape, n)[1] = shape[n + 1]
    BY <2>1, <2>3, DropItems
  <2>. QED
    BY <1>1, <1>4, <2>2, <2>3, <2>4
<1>7. FramesBelow(stack, low) = FrameList(stack, f, rest, extra_args, low)
  <2>1. low \in Int
    BY <1>4
  <2>. QED
    BY <1>4, <1>5, <1>6, <2>1, RetItem
<1>8. PICK y \in Nat : y = n - 1
  BY <1>2
<1>9. Arrives(stack, y) /\ y + 1 <= Len(stack)
  BY <1>1, <1>2, <1>4, <1>8 DEF Arrives, At
<1>10. IsApplied(TopArguments(stack, y), FramesUnder(stack, y))
  BY <1>1, <1>5, <1>9, AppliedNow
<1>11. y + 1 = n /\ Len(stack) - y - 1 = low
  BY <1>2, <1>4, <1>8
<1>12. IsApplied(SubSeq(stack, 1, n), FrameList(stack, f, rest, extra_args, low))
  BY <1>7, <1>10, <1>11 DEF TopArguments, FramesUnder
<1>. QED
  BY <1>1, <1>2, <1>3, <1>12, CallNow

\* At the end of a function: its values, what it is still to be applied to and the
\* frames below.
AtEndNow(V, A, f, B) ==
  /\ f # "main" /\ f \in Functions
  /\ extra_args \in 0 .. MaxExtraArgs /\ Len(Static) \in 0 .. Len(stack)
  /\ Len(stack) - Len(Static) - extra_args \in A
  /\ \A j \in 1 .. Len(Static) : stack[j] \in V
  /\ IsNow(f, TopWords(stack, Len(Static), Len(stack)), TopWords(stack, extra_args, Len(stack) - Len(Static)), B)
  /\ B = FramesBelow(stack, Len(stack) - Len(Static) - extra_args)
  /\ Trap \notin ToSet(TopWords(stack, Len(Static), Len(stack)))
  /\ last = acc

LEMMA EndNow ==
  ASSUME NEW V, NEW A, NEW H, Laid(V, A, H), At("body"), AtEnd, Agrees
  PROVE  \E f, B : AtEndNow(V, A, f, B)
<1>1. PICK f, shape :
        /\ AtBody(V, A, H, f, shape) /\ extra_args \in 0 .. MaxExtraArgs
        /\ shape \in Seq(Items) /\ Len(shape) \in Nat
        /\ IsNow(f, LocalsOf(stack, shape, Len(stack)), PendingOf(stack, shape, extra_args, Len(stack)),
                 BelowOf(stack, f, shape, extra_args, Len(stack)))
        /\ last = acc
  BY BodyNow
<1>2. pc.fn = f /\ Static = shape
  BY <1>1 DEF AtBody
<1>3. f # "main" /\ shape = Values(Len(shape))
  BY <1>2 DEF AtEnd
<1>4. /\ IsStack(stack) /\ Len(stack) \in Nat /\ ValuesOK(V)
  BY LaidFacts
<1>5. /\ Size(shape) = Len(shape) /\ Len(shape) \in 0 .. Len(stack)
      /\ \A j \in 1 .. Len(shape) : stack[j] \in V
  BY <1>2, PendingAtEnd
<1>6. PICK n \in Nat : n = Len(shape)
  BY <1>1
<1>7. \A i \in 1 .. n : shape[i] = "v"
  <2>1. \A i \in 1 .. n : Values(n)[i] = "v"
    BY DEF Values
  <2>. QED
    BY <1>3, <1>6, <2>1
<1>8. PICK top \in Int : top = Len(stack)
  BY <1>4
<1>9. LocalsOf(stack, shape, top) = TopWords(stack, n, top)
  <2>1. PICK low \in Int : low = top - n
    OBVIOUS
  <2>2. Higher(top, low, n)
    BY <2>1 DEF Higher
  <2>3. n \in 0 .. Len(shape)
    BY <1>6
  <2>. QED
    BY <1>1, <1>6, <1>7, <2>2, <2>3, ValueLocals
<1>10. PendingOf(stack, shape, extra_args, top) = TopWords(stack, extra_args, top - n)
  BY <1>5, <1>6 DEF PendingOf, TopWords
<1>11. ReturnHeight(shape, extra_args, top) = top - n - extra_args
  BY <1>5, <1>6 DEF ReturnHeight
<1>12. Trap \notin ToSet(TopWords(stack, n, top))
  <2>1. SubSeq(stack, 1, n) = TopWords(stack, n, Len(stack)) /\ SubSeq(stack, 1, n) \in Seq(V)
    BY <1>4, <1>5, <1>6, TopValues
  <2>2. TopWords(stack, n, top) \in Seq(V) /\ Trap \notin V
    BY <1>4, <1>8, <2>1 DEF ValuesOK
  <2>. QED
    BY <2>2, ElementOfSeq DEF ToSet
<1>13. f \in Functions /\ top - n - extra_args \in A
  <2>1. FrameOK(stack, V, A, H, f, shape, extra_args, Len(stack))
    BY <1>1 DEF AtBody
  <2>. QED
    BY <1>3, <1>8, <1>11, <2>1 DEF FrameOK
<1>14. AtEndNow(V, A, f, BelowOf(stack, f, shape, extra_args, top))
  BY <1>1, <1>2, <1>3, <1>5, <1>6, <1>8, <1>9, <1>10, <1>11, <1>12, <1>13 DEF AtEndNow, BelowOf
<1>. QED
  BY <1>14

LEMMA SameThrough ==
  ASSUME NEW s, NEW q, NEW r, NEW m, NEW k, Same(s, q, m), Same(q, r, k), m <= k
  PROVE  Same(s, r, m)
<1>1. m \in Nat /\ k \in Nat /\ m <= Len(s) /\ k <= Len(r)
  BY DEF Same
<1>2. ASSUME NEW h \in 1 .. m PROVE W(r, h) = W(s, h)
  <2>1. h \in 1 .. k
    BY <1>1
  <2>. QED
    BY <2>1 DEF Same
<1>3. m <= Len(r)
  <2>1. Len(r) \in Int \/ Len(r) \notin Int
    OBVIOUS
  <2>. QED
    BY <1>1
<1>. QED
  BY <1>1, <1>2, <1>3 DEF Same

\* The words on top of a concatenation.
TopsJoined(d, n, a, b, x) == SubSeq(d, 1, n) = a \o SubSeq(b, 1, x)
LEMMA TopOfConcat ==
  ASSUME NEW a, NEW b, IsStack(a), IsStack(b), NEW x \in 0 .. Len(b), NEW n, Higher(n, Len(a), x),
         NEW d, IsConcat(d, a, b)
  PROVE  TopsJoined(d, n, a, b, x)
<1>0. n = Len(a) + x
  BY DEF Higher
<1>1. /\ IsStack(d) /\ Len(d) = Len(a) + Len(b) /\ Len(a) \in Nat /\ Len(b) \in Nat
  BY Pushed DEF IsConcat
<1>2. n \in 0 .. Len(d) /\ x \in Nat /\ n \in Nat
  BY <1>0, <1>1
<1>3. /\ IsStack(SubSeq(d, 1, n)) /\ Len(SubSeq(d, 1, n)) = n
      /\ \A j \in 1 .. n : SubSeq(d, 1, n)[j] = d[j]
  BY <1>1, <1>2, TopOfStack
<1>4. /\ IsStack(SubSeq(b, 1, x)) /\ Len(SubSeq(b, 1, x)) = x
      /\ \A j \in 1 .. x : SubSeq(b, 1, x)[j] = b[j]
  BY <1>1, TopOfStack
<1>. DEFINE l == SubSeq(d, 1, n)
            c == SubSeq(b, 1, x)
            r == a \o c
<1>5. PICK X : a \in Seq(X)
  BY DEF IsStack
<1>6. PICK Y : b \in Seq(Y)
  BY DEF IsStack
<1>7. PICK Z : c \in Seq(Z)
  BY <1>4 DEF IsStack
<1>8. PICK U : l \in Seq(U)
  BY <1>3 DEF IsStack
<1>9. PICK D : D = X \cup Y \cup Z \cup U
  OBVIOUS
<1>10. a \in Seq(D) /\ b \in Seq(D) /\ c \in Seq(D) /\ l \in Seq(D)
  <2>1. X \subseteq D /\ Y \subseteq D /\ Z \subseteq D /\ U \subseteq D
    BY <1>9
  <2>. QED
    BY <1>5, <1>6, <1>7, <1>8, <2>1, SeqMonotonic
<1>. HIDE DEF l, c
<1>11. /\ r \in Seq(D) /\ Len(r) = Len(a) + Len(c)
       /\ \A j \in 1 .. Len(a) + Len(c) : r[j] = IF j <= Len(a) THEN a[j] ELSE c[j - Len(a)]
  BY <1>10, ConcatProperties
<1>12. \A j \in 1 .. Len(a) + Len(b) : d[j] = IF j <= Len(a) THEN a[j] ELSE b[j - Len(a)]
  BY <1>10, ConcatProperties DEF IsConcat
<1>13. Len(c) = x /\ \A j \in 1 .. x : c[j] = b[j]
  BY <1>4 DEF c
<1>14. Len(l) = n /\ \A j \in 1 .. n : l[j] = d[j]
  BY <1>3 DEF l
<1>. HIDE DEF r
<1>15. ASSUME NEW j \in 1 .. n PROVE l[j] = r[j]
  <2>1. j \in 1 .. Len(a) + Len(b) /\ j \in 1 .. Len(a) + Len(c) /\ l[j] = d[j]
    BY <1>0, <1>1, <1>2, <1>13, <1>14
  <2>2. CASE j <= Len(a)
    BY <1>11, <1>12, <2>1, <2>2
  <2>3. CASE ~ (j <= Len(a))
    <3>1. j - Len(a) \in 1 .. x
      BY <1>0, <1>1, <1>2, <2>1, <2>3
    <3>. QED
      BY <1>11, <1>12, <1>13, <2>1, <2>3, <3>1
  <2>. QED
    BY <2>2, <2>3
<1>16. Len(l) = Len(r)
  BY <1>0, <1>11, <1>13, <1>14
<1>17. l = r
  BY <1>10, <1>11, <1>14, <1>15, <1>16, SeqEqual
<1>. QED
  BY <1>17 DEF l, r, c, TopsJoined

\* What lies under the words that a function leaves is read as before.
LEMMA SameBelow ==
  ASSUME NEW V, NEW A, NEW H, Laid(V, A, H), NEW r, IsStack(r), Len(r) <= StackWosize,
         NEW m, Same(stack, r, m), NEW T \in A, T <= m
  PROVE  FramesBelow(r, T) = FramesBelow(stack, T)
<1>1. RetsOK(stack, V, A, H)
  BY LaidFacts
<1>. QED
  BY <1>1, FramesBelowStable

\* The words of a sequence from its top down.
LEMMA TopWordsOf ==
  ASSUME NEW s, IsStack(s), NEW n \in 0 .. Len(s), NEW x \in 0 .. n
  PROVE  /\ TopWords(s, n, Len(s)) = SubSeq(s, 1, n)
         /\ SubSeq(TopWords(s, n, Len(s)), 1, x) = SubSeq(s, 1, x)
         /\ IsStack(TopWords(s, n, Len(s))) /\ Len(TopWords(s, n, Len(s))) = n
<1>. DEFINE X == {s[j] : j \in 1 .. n}
<1>0. Len(s) \in Nat /\ n \in Nat /\ x \in 0 .. Len(s) /\ x \in Nat
  <2>1. Len(s) \in Nat
    BY LenProperties DEF IsStack
  <2>. QED
    BY <2>1
<1>1. \A j \in 1 .. n : s[j] \in X
  OBVIOUS
<1>. HIDE DEF X
<1>2. /\ SubSeq(s, 1, n) = TopWords(s, n, Len(s))
      /\ SubSeq(s, 1, n) \in Seq(X) /\ Len(SubSeq(s, 1, n)) = n
  BY <1>1, TopValues
<1>. DEFINE t == SubSeq(s, 1, n)
            l == SubSeq(t, 1, x)
            r == SubSeq(s, 1, x)
<1>3. IsStack(t) /\ Len(t) = n /\ \A j \in 1 .. n : t[j] = s[j]
  BY <1>0, TopOfStack
<1>4. IsStack(r) /\ Len(r) = x /\ \A j \in 1 .. x : r[j] = s[j]
  BY <1>0, TopOfStack
<1>. HIDE DEF t, r
<1>5. IsStack(l) /\ Len(l) = x /\ \A j \in 1 .. x : l[j] = t[j]
  <2>1. x \in 0 .. Len(t)
    BY <1>3
  <2>. QED
    BY <1>3, <2>1, TopOfStack
<1>. HIDE DEF l
<1>6. ASSUME NEW j \in 1 .. x PROVE l[j] = r[j]
  <2>1. j \in 1 .. n
    BY <1>0
  <2>. QED
    BY <1>3, <1>4, <1>5, <2>1
<1>7. l = r
  <2>1. PICK Y : l \in Seq(Y)
    BY <1>5 DEF IsStack
  <2>2. PICK Z : r \in Seq(Z)
    BY <1>4 DEF IsStack
  <2>3. PICK D : D = Y \cup Z
    OBVIOUS
  <2>4. l \in Seq(D) /\ r \in Seq(D)
    <3>1. Y \subseteq D /\ Z \subseteq D
      BY <2>3
    <3>. QED
      BY <2>1, <2>2, <3>1, SeqMonotonic
  <2>. QED
    BY <1>4, <1>5, <1>6, <2>4, SeqEqual
<1>8. TopWords(s, n, Len(s)) = t
  BY <1>2 DEF t
<1>. QED
  BY <1>3, <1>7, <1>8 DEF l, r, t

\* The same of the words left when those above are gone.
LEMMA WordsLeft ==
  ASSUME NEW s, NEW q, NEW low, Same(s, q, low), Len(q) = low, NEW x \in 0 .. low
  PROVE  TopWords(s, x, low) = TopWords(q, x, low)
<1>1. low \in Nat
  BY DEF Same
<1>2. ASSUME NEW j \in 1 .. x PROVE W(s, low - j + 1) = W(q, low - j + 1)
  <2>1. low - j + 1 \in 1 .. low
    BY <1>1
  <2>. QED
    BY <2>1 DEF Same
<1>. QED
  BY <1>2 DEF TopWords

\* The function's values are gone; q is left.
EndFacts(V, A, f, B, q, low, T) ==
  /\ AtEndNow(V, A, f, B) /\ q = Popped(Size(Static)) /\ Size(Static) = Len(Static)
  /\ IsStack(q) /\ Len(q) = low /\ Same(stack, q, low) /\ low \in Nat /\ low = Len(stack) - Len(Static)
  /\ T \in A /\ T \in Nat \ {0} /\ T = low - extra_args /\ T <= low
  /\ extra_args \in 0 .. low /\ extra_args \in Nat /\ Len(Static) \in Nat /\ Len(stack) \in Nat
  /\ B = FramesBelow(stack, T)
  /\ TopWords(stack, extra_args, low) = SubSeq(q, 1, extra_args)

LEMMA AtEndLeft ==
  ASSUME NEW V, NEW A, NEW H, Laid(V, A, H), At("body"), AtEnd, Agrees
  PROVE  \E f, B, q, low, T : EndFacts(V, A, f, B, q, low, T)
<1>1. PICK f, B : AtEndNow(V, A, f, B)
  BY EndNow
<1>2. /\ extra_args \in 0 .. MaxExtraArgs /\ Len(Static) \in 0 .. Len(stack)
      /\ Len(stack) - Len(Static) - extra_args \in A
      /\ B = FramesBelow(stack, Len(stack) - Len(Static) - extra_args)
  BY <1>1 DEF AtEndNow
<1>3. IsStack(stack) /\ Len(stack) \in Nat /\ A \subseteq Nat \ {0}
  BY LaidFacts
<1>4. Size(Static) = Len(Static)
  BY PendingAtEnd
<1>5. PICK q : q = Popped(Size(Static))
  OBVIOUS
<1>6. PICK m \in Nat : m = Len(Static) /\ m <= Len(stack)
  BY <1>2, <1>3
<1>7. PICK low \in Nat : low = Len(stack) - m
  BY <1>3, <1>6
<1>8. IsStack(q) /\ Len(q) = low /\ Same(stack, q, low)
  <2>1. m \in 0 .. Len(stack)
    BY <1>3, <1>6
  <2>2. /\ IsStack(SubSeq(stack, m + 1, Len(stack))) /\ Len(SubSeq(stack, m + 1, Len(stack))) = Len(stack) - m
        /\ Same(stack, SubSeq(stack, m + 1, Len(stack)), Len(stack) - m)
    BY <1>3, <2>1, PoppedStack
  <2>3. q = SubSeq(stack, m + 1, Len(stack))
    BY <1>4, <1>5, <1>6 DEF Popped
  <2>. QED
    BY <1>7, <2>2, <2>3
<1>9. PICK x \in Nat : x = extra_args
  BY <1>2, Constants
<1>10. PICK T : T = low - x
  OBVIOUS
<1>11. T \in A /\ T \in Nat \ {0} /\ T <= low /\ x \in 0 .. low
  <2>1. T \in A
    BY <1>2, <1>6, <1>7, <1>9, <1>10
  <2>2. T \in Nat \ {0}
    BY <1>3, <2>1
  <2>. QED
    BY <1>10, <2>1, <2>2
<1>12. TopWords(stack, x, low) = SubSeq(q, 1, x)
  <2>1. TopWords(stack, x, low) = TopWords(q, x, low)
    BY <1>8, <1>11, WordsLeft
  <2>2. x \in 0 .. Len(q) /\ x \in 0 .. x
    BY <1>8, <1>11
  <2>3. TopWords(q, x, Len(q)) = SubSeq(q, 1, x)
    BY <1>8, <2>2, TopWordsOf
  <2>. QED
    BY <1>8, <2>1, <2>3
<1>13. EndFacts(V, A, f, B, q, low, T)
  <2>1. /\ Len(Static) \in Nat /\ low = Len(stack) - Len(Static) /\ T = low - extra_args
        /\ extra_args \in 0 .. low /\ extra_args \in Nat /\ low \in Nat
        /\ TopWords(stack, extra_args, low) = SubSeq(q, 1, extra_args)
    BY <1>6, <1>7, <1>9, <1>10, <1>11, <1>12
  <2>2. B = FramesBelow(stack, T)
    BY <1>2, <1>6, <1>7, <1>9, <1>10
  <2>. QED
    BY <1>1, <1>3, <1>4, <1>5, <1>8, <1>11, <2>1, <2>2 DEF EndFacts
<1>. QED
  BY <1>13

LEMMA EndedNow ==
  ASSUME NEW V, NEW A, NEW f, NEW B, NEW q, NEW low, NEW T, EndFacts(V, A, f, B, q, low, T)
  PROVE  /\ Calls!Current.fn # "main" /\ ~ Calls!InTry
         /\ Calls!Current.locals = TopWords(stack, Len(Static), Len(stack))
         /\ Calls!Current.pending = SubSeq(q, 1, extra_args)
         /\ Tail(frames) = FramesBelow(stack, T) /\ last = acc /\ f \in Functions
<1>1. AtEndNow(V, A, f, B) /\ B = FramesBelow(stack, T) /\ low = Len(stack) - Len(Static)
      /\ TopWords(stack, extra_args, low) = SubSeq(q, 1, extra_args)
  BY DEF EndFacts
<1>2. /\ f # "main" /\ last = acc /\ f \in Functions
      /\ IsNow(f, TopWords(stack, Len(Static), Len(stack)), TopWords(stack, extra_args, low), B)
      /\ Trap \notin ToSet(TopWords(stack, Len(Static), Len(stack)))
  BY <1>1 DEF AtEndNow
<1>. QED
  BY <1>1, <1>2 DEF IsNow

LEMMA ApptermCalls ==
  ASSUME NEW V, NEW A, NEW H, Laid(V, A, H), LaidOut', Agrees, Agrees',
         NEW n \in 1 .. MaxShape, APPTERM(n)
  PROVE  Calls!TailCall(n) /\ n \in 1 .. Len(Calls!Current.locals)
<1>1. At("body") /\ AtEnd /\ IsClosure(acc) /\ Jump /\ acc' = acc /\ status' = status
  BY DEF APPTERM
<1>2. PICK f, B, q, low, T : EndFacts(V, A, f, B, q, low, T)
  BY <1>1, AtEndLeft
<1>3. /\ q = Popped(Size(Static))
      /\ IsStack(q) /\ Len(q) = low /\ Same(stack, q, low) /\ low \in Nat /\ low = Len(stack) - Len(Static)
      /\ T \in A /\ T = low - extra_args /\ T <= low
      /\ extra_args \in 0 .. low /\ extra_args \in Nat /\ Len(Static) \in Nat /\ Len(stack) \in Nat
  BY <1>2 DEF EndFacts
<1>4. /\ Calls!Current.fn # "main" /\ ~ Calls!InTry
      /\ Calls!Current.locals = TopWords(stack, Len(Static), Len(stack))
      /\ Calls!Current.pending = SubSeq(q, 1, extra_args)
      /\ Tail(frames) = FramesBelow(stack, T) /\ last = acc /\ f \in Functions
  BY <1>2, EndedNow
<1>5. IsStack(stack) /\ Len(stack) <= StackWosize
  BY LaidFacts
<1>6. PICK args : args = SubSeq(stack, 1, n)
  OBVIOUS
<1>7. /\ Len(Static) >= n /\ extra_args + n - 1 <= MaxExtraArgs
      /\ stack' = args \o q /\ extra_args' = (extra_args + n - 1) % ExtraArgsRange
  BY <1>3, <1>6 DEF APPTERM, HasArguments
<1>8. n \in Nat \ {0} /\ n \in 0 .. Len(stack) /\ n \in 0 .. Len(Static) /\ Len(Static) \in 0 .. Len(stack)
  BY <1>3, <1>7, BoundsAssumption
<1>9. IsStack(args) /\ Len(args) = n
  <2>1. IsStack(SubSeq(stack, 1, n)) /\ Len(SubSeq(stack, 1, n)) = n
    BY <1>5, <1>8, TopOfStack
  <2>. QED
    BY <1>6, <2>1
<1>10. PICK y \in Nat : y = extra_args + n - 1
  BY <1>3, <1>8
<1>11. extra_args' = y
  <2>1. y \in 0 .. MaxExtraArgs + Arity[f] - 1
    BY <1>4, <1>7, <1>10, Constants
  <2>2. y % ExtraArgsRange = y
    BY <1>4, <2>1, NoWrap
  <2>. QED
    BY <1>7, <1>10, <2>2
<1>12. PICK z : IsConcat(z, args, q)
  BY DEF IsConcat
<1>13. stack' = z
  BY <1>7, <1>12 DEF IsConcat
<1>14. IsStack(z) /\ Len(z) = n + low /\ Same(q, z, low)
  <2>1. IsStack(args \o q) /\ Len(args \o q) = Len(args) + Len(q) /\ Same(q, args \o q, Len(q))
    BY <1>3, <1>9, Pushed
  <2>. QED
    BY <1>3, <1>9, <1>12, <2>1 DEF IsConcat
<1>15. Same(stack, z, low)
  BY <1>3, <1>14, SameThrough
<1>16. Len(z) <= StackWosize
  BY <1>3, <1>5, <1>7, <1>8, <1>14, Constants
<1>17. Arrives(z, y) /\ y + 1 <= Len(z)
  <2>1. y + 1 <= Len(z)
    BY <1>3, <1>8, <1>10, <1>14
  <2>. QED
    BY <1>1, <1>11, <1>13, <2>1 DEF Arrives, At
<1>18. IsApplied(TopArguments(z, y), FramesUnder(z, y))
  BY <1>1, <1>14, <1>17, AppliedNow
<1>19. TopArguments(z, y) = args \o SubSeq(q, 1, extra_args)
  <2>1. PICK k : k = Len(args) + extra_args
    OBVIOUS
  <2>2. SubSeq(z, 1, k) = args \o SubSeq(q, 1, extra_args)
    <3>1. Higher(k, Len(args), extra_args)
      BY <2>1 DEF Higher
    <3>2. extra_args \in 0 .. Len(q)
      BY <1>3
    <3>3. IsStack(args) /\ IsStack(q)
      BY <1>3, <1>9
    <3>4. TopsJoined(z, k, args, q, extra_args)
      BY <1>12, <3>1, <3>2, <3>3, TopOfConcat
    <3>. QED
      BY <3>4 DEF TopsJoined
  <2>3. k = y + 1
    BY <1>3, <1>8, <1>9, <1>10, <2>1
  <2>. QED
    BY <2>2, <2>3 DEF TopArguments
<1>20. FramesUnder(z, y) = FramesBelow(stack, T)
  <2>1. Len(z) - y - 1 = T
    BY <1>3, <1>8, <1>10, <1>14
  <2>2. FramesBelow(z, T) = FramesBelow(stack, T)
    BY <1>3, <1>14, <1>15, <1>16, SameBelow
  <2>. QED
    BY <2>1, <2>2 DEF FramesUnder
<1>21. SubSeq(Calls!Current.locals, 1, n) = args /\ Len(Calls!Current.locals) = Len(Static)
  <2>1. /\ SubSeq(TopWords(stack, Len(Static), Len(stack)), 1, n) = SubSeq(stack, 1, n)
        /\ Len(TopWords(stack, Len(Static), Len(stack))) = Len(Static)
    BY <1>5, <1>8, TopWordsOf
  <2>. QED
    BY <1>4, <1>6, <2>1
<1>22. Calls!Apply(last, args \o SubSeq(q, 1, extra_args), Tail(frames))
  <2>1. IsApplied(args \o SubSeq(q, 1, extra_args), Tail(frames))
    BY <1>4, <1>18, <1>19, <1>20
  <2>. QED
    BY <1>4, <2>1, ApplyIs DEF IsApplied
<1>23. Calls!IsClosure(last)
  BY <1>1, <1>4, SameClosures
<1>24. n <= Len(Calls!Current.locals) /\ n \in 1 .. Len(Calls!Current.locals)
  BY <1>3, <1>8, <1>21
<1>25. Calls!TailCall(n)
  BY <1>1, <1>4, <1>21, <1>22, <1>23, <1>24 DEF Calls!TailCall
<1>. QED
  BY <1>24, <1>25

\* The return frame at height T is popped from q.
LEMMA ReturnedNow ==
  ASSUME NEW V, NEW A, NEW H, Laid(V, A, H), LaidOut', Agrees',
         NEW q, IsStack(q), NEW T \in A, Len(q) = T, Same(stack, q, T), ReturnTo(q)
  PROVE  frames' = FramesBelow(stack, T) /\ last' = acc'
<1>1. RetsOK(stack, V, A, H) /\ A \subseteq Nat \ {0} /\ Len(stack) \in Nat /\ Len(stack) <= StackWosize
  BY LaidFacts
<1>2. PICK f, shape, x : RetFrame(stack, V, A, H, T, f, shape, x)
  BY <1>1 DEF RetsOK
<1>3. T \in 3 .. Len(stack) /\ T \in Nat
  BY <1>1, <1>2, RetTraps
<1>4. PICK top \in Nat : top = T - 3
  BY <1>3
<1>5. Higher(T, top, 3)
  BY <1>3, <1>4 DEF Higher
<1>6. FramesBelow(stack, T) = FrameList(stack, f, shape, x, top)
  <2>1. top \in Int
    OBVIOUS
  <2>. QED
    BY <1>1, <1>2, <1>5, <2>1, RetFrames
<1>7. /\ W(stack, T) = Val_codeptr(Body(f, shape)) /\ W(stack, T - 2) = Val_int(x)
      /\ FrameOK(stack, V, A, H, f, shape, x, top)
  BY <1>2, <1>4 DEF RetFrame
<1>8. q[1] = W(stack, T) /\ q[3] = W(stack, T - 2)
  <2>1. W(q, T) = W(stack, T) /\ W(q, T - 2) = W(stack, T - 2)
    <3>1. T \in 1 .. T /\ T - 2 \in 1 .. T
      BY <1>3
    <3>. QED
      BY <3>1 DEF Same
  <2>2. T - T + 1 = 1 /\ T - (T - 2) + 1 = 3
    BY <1>3
  <2>. QED
    BY <2>1, <2>2 DEF W
<1>9. pc' = Body(f, shape) /\ extra_args' = x
  BY <1>7, <1>8 DEF ReturnTo, Val_codeptr, Val_int
<1>10. PICK r : r = SubSeq(q, 4, Len(q))
  OBVIOUS
<1>11. IsStack(r) /\ Len(r) = top /\ Same(q, r, top) /\ stack' = r
  <2>1. 3 \in 0 .. Len(q)
    BY <1>3
  <2>2. /\ IsStack(SubSeq(q, 3 + 1, Len(q))) /\ Len(SubSeq(q, 3 + 1, Len(q))) = Len(q) - 3
        /\ Same(q, SubSeq(q, 3 + 1, Len(q)), Len(q) - 3)
    BY <2>1, PoppedStack
  <2>3. stack' = r
    BY <1>10 DEF ReturnTo
  <2>4. 3 + 1 = 4
    OBVIOUS
  <2>. QED
    BY <1>4, <1>10, <2>2, <2>3, <2>4
<1>12. Same(stack, r, top)
  <2>1. \A h \in 1 .. top : W(r, h) = W(stack, h)
    <3>1. ASSUME NEW h \in 1 .. top PROVE W(r, h) = W(stack, h)
      <4>1. h \in 1 .. T
        BY <1>3, <1>4
      <4>. QED
        BY <1>11, <4>1 DEF Same
    <3>. QED
      BY <3>1
  <2>2. top <= Len(stack) /\ top <= Len(r)
    BY <1>3, <1>4, <1>11
  <2>. QED
    BY <2>1, <2>2 DEF Same
<1>13. FrameList(r, f, shape, x, top) = FrameList(stack, f, shape, x, top)
  <2>1. top \in Int /\ top <= top /\ Len(r) <= StackWosize
    BY <1>1, <1>3, <1>4, <1>11, Constants
  <2>. QED
    BY <1>1, <1>7, <1>11, <1>12, <2>1, FrameListStable
<1>14. frames' = FrameList(stack', pc'.fn, pc'.shape, extra_args', Len(stack')) /\ last' = acc'
  <2>1. pc'.at = "body"
    BY <1>9 DEF Body, Point
  <2>. QED
    BY <2>1, BodyAfter
<1>15. pc'.fn = f /\ pc'.shape = shape
  BY <1>9 DEF Body, Point
<1>. QED
  BY <1>6, <1>9, <1>11, <1>13, <1>14, <1>15

LEMMA ReturnCalls ==
  ASSUME NEW V, NEW A, NEW H, Laid(V, A, H), LaidOut', Agrees, Agrees', RETURN
  PROVE  Calls!Return
<1>1. At("body") /\ AtEnd /\ acc' = acc /\ status' = status
  BY DEF RETURN
<1>2. PICK f, B, q, low, T : EndFacts(V, A, f, B, q, low, T)
  BY <1>1, AtEndLeft
<1>3. /\ q = Popped(Size(Static))
      /\ IsStack(q) /\ Len(q) = low /\ Same(stack, q, low) /\ low \in Nat /\ low = Len(stack) - Len(Static)
      /\ T \in A /\ T = low - extra_args /\ T <= low
      /\ extra_args \in 0 .. low /\ extra_args \in Nat /\ Len(Static) \in Nat /\ Len(stack) \in Nat
  BY <1>2 DEF EndFacts
<1>4. /\ Calls!Current.fn # "main" /\ ~ Calls!InTry
      /\ Calls!Current.pending = SubSeq(q, 1, extra_args)
      /\ Tail(frames) = FramesBelow(stack, T) /\ last = acc
  BY <1>2, EndedNow
<1>5. Len(stack) <= StackWosize
  BY LaidFacts
<1>6. Len(SubSeq(q, 1, extra_args)) = extra_args
  <2>1. extra_args \in 0 .. Len(q)
    BY <1>3
  <2>. QED
    BY <1>3, <2>1, TopOfStack
<1>7. CASE extra_args > 0
  <2>1. IsClosure(acc) /\ extra_args' = extra_args - 1 /\ Jump /\ stack' = q
    BY <1>3, <1>7 DEF RETURN
  <2>2. PICK y \in Nat : y = extra_args - 1
    BY <1>3, <1>7
  <2>3. Arrives(q, y) /\ y + 1 <= Len(q)
    <3>1. y + 1 <= Len(q)
      BY <1>3, <2>2
    <3>. QED
      BY <1>1, <2>1, <2>2, <3>1 DEF Arrives, At
  <2>4. IsApplied(TopArguments(q, y), FramesUnder(q, y))
    BY <1>3, <2>1, <2>3, AppliedNow
  <2>5. y + 1 = extra_args /\ Len(q) - y - 1 = T
    BY <1>3, <2>2
  <2>6. FramesBelow(q, T) = FramesBelow(stack, T)
    <3>1. Len(q) <= StackWosize
      BY <1>3, <1>5, Constants
    <3>. QED
      BY <1>3, <3>1, SameBelow
  <2>7. IsApplied(Calls!Current.pending, Tail(frames))
    BY <1>4, <2>4, <2>5, <2>6 DEF TopArguments, FramesUnder
  <2>8. Calls!Apply(last, Calls!Current.pending, Tail(frames))
    BY <1>4, <2>7, ApplyIs DEF IsApplied
  <2>9. Calls!IsClosure(last)
    BY <1>4, <2>1, SameClosures
  <2>10. Calls!Current.pending # <<>>
    <3>1. Len(Calls!Current.pending) = extra_args
      BY <1>4, <1>6
    <3>2. Len(<<>>) = 0 /\ extra_args # 0
      BY <1>7
    <3>. QED
      BY <3>1, <3>2
  <2>. QED
    BY <1>1, <1>4, <2>8, <2>9, <2>10 DEF Calls!Return
<1>8. CASE ~ (extra_args > 0)
  <2>1. ReturnTo(q) /\ extra_args = 0
    BY <1>3, <1>8 DEF RETURN
  <2>2. T = low
    BY <1>3, <2>1
  <2>3. frames' = FramesBelow(stack, T) /\ last' = acc'
    BY <1>3, <2>1, <2>2, ReturnedNow
  <2>4. Calls!Current.pending = <<>>
    <3>1. SubSeq(q, 1, 0) = <<>>
      BY <1>3 DEF IsStack
    <3>. QED
      BY <1>4, <2>1, <3>1
  <2>. QED
    BY <1>1, <1>4, <2>3, <2>4 DEF Calls!Return
<1>. QED
  BY <1>7, <1>8
-----------------------------------------------------------------------------
(* On the way into a function.                                              *)

\* all are the arguments that f is given, for the frames under height T.
EntryFacts(V, A, f, all, T) ==
  /\ f \in Functions /\ pc.fn = f
  /\ all = ArgumentsOf(pc, stack, extra_args, env)
  /\ T = Len(stack) - extra_args - 1 /\ T \in A /\ T \in Nat \ {0} /\ T <= Len(stack)
  /\ extra_args \in Nat /\ extra_args + 1 \in 0 .. Len(stack)
  /\ frames = Entered(f, all, FramesBelow(stack, T))
  /\ status = "run" => last = EnteredValue(f, all, acc)
  /\ pc.at = "grab" => env = Closure(f) /\ all = SubSeq(stack, 1, extra_args + 1) /\ extra_args \in 0 .. MaxExtraArgs + Arity[f] - 1
  /\ pc.at = "restart" => /\ \E args : PartialClosure(V, f, args) /\ env = MakeClosure(<<f, "restart">>, Closure(f), args)
                          /\ extra_args \in 0 .. MaxExtraArgs

LEMMA EntryNow ==
  ASSUME NEW V, NEW A, NEW H, Laid(V, A, H), Agrees, Entering
  PROVE  \E f, all, T : EntryFacts(V, A, f, all, T)
<1>1. Control(stack, V, A, H, pc, env, extra_args, trapSp)
  BY DEF Laid
<1>2. Arrived(stack, V, A, extra_args, trapSp) /\ (AtGrab(V, pc, env, extra_args) \/ AtRestart(V, pc, env, extra_args))
  BY <1>1 DEF Control, InBody, OnEntry, Body, Point, Entering
<1>3. Len(stack) \in Nat /\ IsStack(stack) /\ A \subseteq Nat \ {0}
  BY LaidFacts
<1>4. PICK x \in Nat : x = extra_args
  BY <1>2 DEF Arrived
<1>5. PICK T : T = Len(stack) - x - 1
  OBVIOUS
<1>6. T \in A /\ T \in Nat \ {0}
  <2>1. T \in A
    BY <1>2, <1>4, <1>5 DEF Arrived
  <2>. QED
    BY <1>3, <2>1
<1>7. T <= Len(stack) /\ x + 1 \in 0 .. Len(stack)
  BY <1>3, <1>5, <1>6
<1>8. PICK f \in Functions :
        /\ pc.fn = f /\ pc.at \in {"grab", "restart"}
        /\ pc.at = "grab" => env = Closure(f) /\ extra_args \in 0 .. MaxExtraArgs + Arity[f] - 1
        /\ pc.at = "restart" => /\ \E args : PartialClosure(V, f, args) /\ env = MakeClosure(<<f, "restart">>, Closure(f), args)
                                /\ extra_args \in 0 .. MaxExtraArgs
  <2>1. CASE AtGrab(V, pc, env, extra_args)
    <3>1. PICK f \in Functions : /\ pc = Point(f, "grab", <<>>) /\ env = Closure(f)
                                 /\ extra_args \in 0 .. MaxExtraArgs + Arity[f] - 1
      BY <2>1 DEF AtGrab
    <3>2. pc.fn = f /\ pc.at = "grab"
      BY <3>1 DEF Point
    <3>. QED
      BY <3>1, <3>2
  <2>2. CASE AtRestart(V, pc, env, extra_args)
    <3>1. PICK f, args :
             /\ f \in Functions /\ pc = Point(f, "restart", <<>>) /\ PartialClosure(V, f, args)
             /\ env = MakeClosure(<<f, "restart">>, Closure(f), args) /\ extra_args \in 0 .. MaxExtraArgs
      BY <2>2 DEF AtRestart
    <3>2. pc.fn = f /\ pc.at = "restart"
      BY <3>1 DEF Point
    <3>. QED
      BY <3>1, <3>2
  <2>. QED
    BY <1>2, <2>1, <2>2
<1>9. PICK all : all = ArgumentsOf(pc, stack, extra_args, env)
  OBVIOUS
<1>10. frames = Entered(f, all, FramesBelow(stack, T))
  <2>1. LaidOut
    BY DEF LaidOut
  <2>2. frames = FramesIn(pc, stack, extra_args, env)
    BY <2>1, ReadNow DEF Agrees
  <2>. QED
    BY <1>4, <1>5, <1>8, <1>9, <2>2 DEF FramesIn
<1>11. status = "run" => last = EnteredValue(f, all, acc)
  <2>1. last = ValueNow(status, pc, stack, extra_args, env, acc)
    BY CurrentRead DEF Agrees
  <2>. QED
    BY <1>8, <1>9, <2>1 DEF ValueNow
<1>12. pc.at = "grab" => all = SubSeq(stack, 1, extra_args + 1)
  <2>1. IsStack(SubSeq(stack, 1, x + 1))
    BY <1>3, <1>7, TopOfStack
  <2>2. <<>> \o SubSeq(stack, 1, x + 1) = SubSeq(stack, 1, x + 1)
    BY <2>1, ConcatEmptySeq DEF IsStack
  <2>. QED
    BY <1>4, <1>9, <2>2 DEF ArgumentsOf
<1>13. EntryFacts(V, A, f, all, T)
  BY <1>4, <1>5, <1>6, <1>7, <1>8, <1>9, <1>10, <1>11, <1>12 DEF EntryFacts
<1>. QED
  BY <1>13

\* After a step.
LEMMA EntryAfter ==
  ASSUME LaidOut', Agrees', pc'.at = "grab", status' = "run",
         NEW f, pc'.fn = f, NEW r, stack' = r, NEW x, extra_args' = x,
         NEW all, TopArguments(r, x) = all, IsStack(all)
  PROVE  frames' = Entered(f, all, FramesUnder(r, x)) /\ last' = EnteredValue(f, all, acc')
<1>1. <<>> \o all = all
  BY ConcatEmptySeq DEF IsStack
<1>2. ArgumentsOf(pc', stack', extra_args', env') = all
  BY <1>1 DEF ArgumentsOf, TopArguments
<1>3. frames' = FramesIn(pc', stack', extra_args', env')
  BY ReadAfter DEF Agrees
<1>4. last' = ValueNow(status', pc', stack', extra_args', env', acc')
  BY CurrentReadNext DEF Agrees
<1>5. frames' = Entered(f, all, FramesUnder(r, x))
  BY <1>2, <1>3 DEF FramesIn, FramesUnder
<1>6. last' = EnteredValue(f, all, acc')
  BY <1>2, <1>4 DEF ValueNow
<1>. QED
  BY <1>5, <1>6

\* The arguments that RESTART pushes were counted already.
LEMMA RestartStutters ==
  ASSUME NEW V, NEW A, NEW H, Laid(V, A, H), LaidOut', Agrees, Agrees', RESTART, Fits(stack, Len(env.args))
  PROVE  UNCHANGED <<frames, last, status>>
<1>1. pc.at = "restart" /\ status = "run" /\ Entering
  BY DEF RESTART, At, Entering
<1>2. PICK f, all, T : EntryFacts(V, A, f, all, T)
  BY <1>1, EntryNow
<1>3. /\ f \in Functions /\ pc.fn = f
      /\ all = ArgumentsOf(pc, stack, extra_args, env)
      /\ T = Len(stack) - extra_args - 1 /\ T \in A /\ T \in Nat \ {0} /\ T <= Len(stack)
      /\ extra_args \in Nat /\ extra_args + 1 \in 0 .. Len(stack) /\ extra_args \in 0 .. MaxExtraArgs
      /\ frames = Entered(f, all, FramesBelow(stack, T))
      /\ last = EnteredValue(f, all, acc)
  BY <1>1, <1>2 DEF EntryFacts
<1>4. PICK args : PartialClosure(V, f, args) /\ env = MakeClosure(<<f, "restart">>, Closure(f), args)
  BY <1>1, <1>2 DEF EntryFacts
<1>5. env.args = args
  BY <1>4 DEF MakeClosure
<1>6. /\ stack' = args \o stack
      /\ extra_args' = (extra_args + Len(args)) % ExtraArgsRange
      /\ pc' = Point(f, "grab", <<>>)
      /\ acc' = acc /\ status' = status
  BY <1>3, <1>5 DEF RESTART
<1>7. IsStack(stack) /\ Len(stack) \in Nat /\ Len(stack) <= StackWosize
  BY LaidFacts
<1>8. IsStack(args) /\ Len(args) \in Nat /\ Len(args) \in 1 .. Arity[f] - 1
  <2>1. args \in Seq(V) /\ Len(args) \in 1 .. Arity[f] - 1
    BY <1>4 DEF PartialClosure
  <2>. QED
    BY <2>1 DEF IsStack
<1>9. PICK y \in Nat : y = extra_args + Len(args)
  BY <1>3, <1>8
<1>10. extra_args' = y
  <2>1. y \in 0 .. MaxExtraArgs + Arity[f] - 1
    BY <1>3, <1>8, <1>9, Constants
  <2>2. y % ExtraArgsRange = y
    BY <1>3, <2>1, NoWrap
  <2>. QED
    BY <1>6, <1>9, <2>2
<1>11. PICK z : IsConcat(z, args, stack)
  BY DEF IsConcat
<1>12. stack' = z
  BY <1>6, <1>11 DEF IsConcat
<1>13. IsStack(z) /\ Len(z) = Len(args) + Len(stack) /\ Same(stack, z, Len(stack))
  <2>1. /\ IsStack(args \o stack) /\ Len(args \o stack) = Len(args) + Len(stack)
        /\ Same(stack, args \o stack, Len(stack))
    BY <1>7, <1>8, Pushed
  <2>. QED
    BY <1>11, <2>1 DEF IsConcat
<1>14. Len(z) <= StackWosize
  BY <1>5, <1>7, <1>8, <1>13, Constants DEF Fits
<1>15. TopArguments(z, y) = all
  <2>1. PICK n \in Nat : n = extra_args + 1
    BY <1>3
  <2>2. PICK k : k = Len(args) + n
    OBVIOUS
  <2>3. Higher(k, Len(args), n)
    BY <2>2 DEF Higher
  <2>4. n \in 0 .. Len(stack)
    BY <1>3, <2>1
  <2>5. TopsJoined(z, k, args, stack, n)
    BY <1>7, <1>8, <1>11, <2>3, <2>4, TopOfConcat
  <2>6. k = y + 1
    BY <1>3, <1>8, <1>9, <2>1, <2>2
  <2>7. all = args \o SubSeq(stack, 1, n)
    BY <1>1, <1>3, <1>5, <2>1 DEF ArgumentsOf
  <2>. QED
    BY <2>5, <2>6, <2>7 DEF TopsJoined, TopArguments
<1>16. FramesUnder(z, y) = FramesBelow(stack, T)
  <2>1. Len(z) - y - 1 = T
    BY <1>3, <1>7, <1>8, <1>9, <1>13
  <2>2. PICK m : m = Len(stack)
    OBVIOUS
  <2>3. Same(stack, z, m) /\ T <= m
    BY <1>3, <1>13, <2>2
  <2>4. FramesBelow(z, T) = FramesBelow(stack, T)
    BY <1>3, <1>13, <1>14, <2>3, SameBelow
  <2>. QED
    BY <2>1, <2>4 DEF FramesUnder
<1>17. IsStack(all)
  <2>1. y + 1 \in 0 .. Len(z)
    BY <1>3, <1>7, <1>8, <1>9, <1>13
  <2>2. IsStack(SubSeq(z, 1, y + 1))
    BY <1>13, <2>1, TopOfStack
  <2>. QED
    BY <1>15, <2>2 DEF TopArguments
<1>18. pc'.fn = f /\ pc'.at = "grab" /\ status' = "run"
  BY <1>1, <1>6 DEF Point
<1>19. frames' = Entered(f, all, FramesUnder(z, y)) /\ last' = EnteredValue(f, all, acc')
  BY <1>10, <1>12, <1>15, <1>17, <1>18, EntryAfter
<1>. QED
  BY <1>3, <1>6, <1>16, <1>19

\* GRAB with enough arguments: the frame was counted already.
LEMMA GrabStutters ==
  ASSUME NEW V, NEW A, NEW H, Laid(V, A, H), LaidOut', Agrees, Agrees', At("grab"),
         extra_args >= Arity[pc.fn] - 1, extra_args' = extra_args - (Arity[pc.fn] - 1),
         pc' = Body(pc.fn, Values(Arity[pc.fn] - 1 + 1)), UNCHANGED <<stack, acc, status>>
  PROVE  UNCHANGED <<frames, last, status>>
<1>1. pc.at = "grab" /\ status = "run" /\ Entering
  BY DEF At, Entering
<1>2. PICK f, all, T : EntryFacts(V, A, f, all, T)
  BY <1>1, EntryNow
<1>3. /\ f \in Functions /\ pc.fn = f
      /\ all = SubSeq(stack, 1, extra_args + 1)
      /\ T = Len(stack) - extra_args - 1
      /\ extra_args \in Nat /\ extra_args + 1 \in 0 .. Len(stack)
      /\ frames = Entered(f, all, FramesBelow(stack, T))
      /\ last = EnteredValue(f, all, acc)
  BY <1>1, <1>2 DEF EntryFacts
<1>4. IsStack(stack) /\ Len(stack) \in Nat
  BY LaidFacts
<1>5. PICK n \in Nat \ {0} : n = Arity[f]
  BY <1>3, Constants
<1>6. PICK x \in Nat : x = extra_args - (n - 1)
  BY <1>3, <1>5
<1>7. n + x = extra_args + 1
  BY <1>3, <1>5, <1>6
<1>8. f # "main" /\ Takes(f, n)
  BY <1>3, <1>5, Constants DEF Takes
<1>9. IsTop(all, stack, n + x) /\ n + x <= Len(stack)
  BY <1>3, <1>4, <1>7 DEF IsTop
<1>10. FrameList(stack, f, Values(n), x, Len(stack)) = Entered(f, all, FramesBelow(stack, Len(stack) - n - x))
  BY <1>4, <1>8, <1>9, EnteredBody
<1>11. Len(stack) - n - x = T
  BY <1>3, <1>4, <1>5, <1>6
<1>12. pc'.fn = f /\ pc'.at = "body" /\ pc'.shape = Values(n) /\ extra_args' = x
  <2>1. Arity[f] - 1 + 1 = n
    BY <1>5
  <2>. QED
    BY <1>3, <1>5, <1>6, <2>1 DEF Body, Point
<1>13. frames' = FrameList(stack', pc'.fn, pc'.shape, extra_args', Len(stack')) /\ last' = acc'
  BY <1>12, BodyAfter
<1>14. frames' = frames
  BY <1>3, <1>10, <1>11, <1>12, <1>13
<1>15. last = acc
  <2>1. Len(all) = extra_args + 1
    BY <1>3, <1>4, TopOfStack
  <2>2. ~ Len(all) < Arity[f]
    BY <1>3, <1>5, <1>6, <2>1
  <2>. QED
    BY <1>3, <2>2 DEF EnteredValue
<1>. QED
  BY <1>13, <1>14, <1>15

\* GRAB with too few: the closure was counted as returned.
LEMMA GrabReturns ==
  ASSUME NEW V, NEW A, NEW H, Laid(V, A, H), LaidOut', Agrees, Agrees', At("grab"),
         extra_args < Arity[pc.fn] - 1,
         acc' = MakeClosure(<<pc.fn, "restart">>, env, SubSeq(stack, 1, extra_args + 1)),
         ReturnTo(Popped(extra_args + 1)), UNCHANGED status
  PROVE  UNCHANGED <<frames, last, status>>
<1>1. pc.at = "grab" /\ status = "run" /\ Entering
  BY DEF At, Entering
<1>2. PICK f, all, T : EntryFacts(V, A, f, all, T)
  BY <1>1, EntryNow
<1>3. /\ f \in Functions /\ pc.fn = f /\ env = Closure(f)
      /\ all = SubSeq(stack, 1, extra_args + 1)
      /\ T = Len(stack) - extra_args - 1 /\ T \in A
      /\ extra_args \in Nat /\ extra_args + 1 \in 0 .. Len(stack)
      /\ frames = Entered(f, all, FramesBelow(stack, T))
      /\ last = EnteredValue(f, all, acc)
  BY <1>1, <1>2 DEF EntryFacts
<1>4. IsStack(stack) /\ Len(stack) \in Nat
  BY LaidFacts
<1>5. Len(all) < Arity[f]
  <2>1. Len(all) = extra_args + 1
    BY <1>3, <1>4, TopOfStack
  <2>2. Arity[f] \in Nat
    BY <1>3, Constants
  <2>. QED
    BY <1>3, <2>1, <2>2
<1>6. frames = FramesBelow(stack, T) /\ last = MakeClosure(<<f, "restart">>, Closure(f), all)
  BY <1>3, <1>5 DEF Entered, EnteredValue
<1>7. PICK q : q = Popped(extra_args + 1)
  OBVIOUS
<1>8. PICK n \in Nat : n = extra_args + 1
  BY <1>3
<1>9. IsStack(q) /\ Len(q) = T /\ Same(stack, q, T)
  <2>1. n \in 0 .. Len(stack) /\ Len(stack) - n = T
    BY <1>3, <1>4, <1>8
  <2>2. /\ IsStack(SubSeq(stack, n + 1, Len(stack))) /\ Len(SubSeq(stack, n + 1, Len(stack))) = Len(stack) - n
        /\ Same(stack, SubSeq(stack, n + 1, Len(stack)), Len(stack) - n)
    BY <1>4, <2>1, PoppedStack
  <2>. QED
    BY <1>7, <1>8, <2>1, <2>2 DEF Popped
<1>10. frames' = FramesBelow(stack, T) /\ last' = acc'
  <2>1. ReturnTo(q) /\ T \in A
    BY <1>3, <1>7
  <2>. QED
    BY <1>9, <2>1, ReturnedNow
<1>11. acc' = MakeClosure(<<f, "restart">>, Closure(f), all)
  BY <1>3
<1>. QED
  BY <1>6, <1>10, <1>11
-----------------------------------------------------------------------------
(* Exceptions.                                                              *)

\* The first handler among the locals of a frame, and the frame once it has caught.
FirstMark(locals, at) ==
  at \in 1 .. Len(locals) /\ locals[at] = Trap /\ \A h \in 1 .. at - 1 : locals[h] # Trap
Handling(frame, at) == [frame EXCEPT !.locals = SubSeq(frame.locals, at + 1, Len(frame.locals))]
HasMark(frame) == Trap \in ToSet(frame.locals)

\* Thrown in fr, an exception is caught at the first handler of frame i: out is left.
ThrowsAt(fr, i, at, out) ==
  /\ i \in 1 .. Len(fr) /\ FirstMark(fr[i].locals, at)
  /\ \A h \in 1 .. i - 1 : ~ HasMark(fr[h])
  /\ out = <<Handling(fr[i], at)>> \o SubSeq(fr, i + 1, Len(fr))
ThrowsTo(fr, out) == \E i, at : ThrowsAt(fr, i, at, out)
NoneCatch(fr)     == \A i \in 1 .. Len(fr) : ~ HasMark(fr[i])

Marking == {i \in DOMAIN frames : HasMark(frames[i])}

LEMMA ThrowMeans ==
  ASSUME NEW x
  PROVE  Calls!Throw(x) <=>
           /\ last' = x
           /\ IF Marking = {}
              THEN status' = "uncaught" /\ UNCHANGED frames
              ELSE LET i      == CHOOSE j \in Marking : \A h \in Marking : j <= h
                       locals == frames[i].locals
                       at     == CHOOSE j \in DOMAIN locals :
                                   locals[j] = Trap /\ \A h \in 1 .. j - 1 : locals[h] # Trap
                   IN  /\ frames' = <<Handling(frames[i], at)>> \o SubSeq(frames, i + 1, Len(frames))
                       /\ UNCHANGED status
BY DEF Calls!Throw, Calls!ToSet, ToSet, Calls!Trap, Trap, Marking, HasMark, Handling

\* The choices that Throw makes are those of ThrowsAt.
LEMMA ThrowCaught ==
  ASSUME NEW V, frames \in Seq(FrameSet(V)), ThrowsTo(frames, frames'), NEW x, last' = x, status' = status
  PROVE  Calls!Throw(x)
<1>1. PICK i, at : ThrowsAt(frames, i, at, frames')
  BY DEF ThrowsTo
<1>2. Len(frames) \in Nat /\ DOMAIN frames = 1 .. Len(frames)
  BY LenProperties
<1>3. i \in 1 .. Len(frames) /\ \A h \in 1 .. i - 1 : ~ HasMark(frames[h])
  BY <1>1 DEF ThrowsAt
<1>4. PICK locals : locals = frames[i].locals
  OBVIOUS
<1>5. locals \in Seq(V \cup {Trap})
  <2>1. frames[i] \in FrameSet(V)
    BY <1>3, ElementOfSeq
  <2>. QED
    BY <1>4, <2>1 DEF FrameSet
<1>6. Len(locals) \in Nat /\ DOMAIN locals = 1 .. Len(locals)
  BY <1>5, LenProperties
<1>7. at \in 1 .. Len(locals) /\ locals[at] = Trap /\ \A h \in 1 .. at - 1 : locals[h] # Trap
  BY <1>1, <1>4 DEF ThrowsAt, FirstMark
<1>8. i \in Marking
  BY <1>2, <1>3, <1>4, <1>6, <1>7 DEF Marking, HasMark, ToSet
<1>9. \A h \in Marking : i <= h
  BY <1>2, <1>3 DEF Marking
<1>10. (CHOOSE j \in Marking : \A h \in Marking : j <= h) = i
  <2>1. \A j \in Marking : (\A h \in Marking : j <= h) => j = i
    <3>1. ASSUME NEW j \in Marking, \A h \in Marking : j <= h PROVE j = i
      <4>1. j <= i /\ i <= j
        BY <1>8, <1>9, <3>1
      <4>2. j \in Int /\ i \in Int
        BY <1>2, <1>3 DEF Marking
      <4>. QED
        BY <4>1, <4>2
    <3>. QED
      BY <3>1
  <2>. QED
    BY <1>8, <1>9, <2>1
<1>11. (CHOOSE j \in DOMAIN locals : locals[j] = Trap /\ \A h \in 1 .. j - 1 : locals[h] # Trap) = at
  <2>1. \A j \in DOMAIN locals : (locals[j] = Trap /\ \A h \in 1 .. j - 1 : locals[h] # Trap) => j = at
    <3>1. ASSUME NEW j \in DOMAIN locals, locals[j] = Trap, \A h \in 1 .. j - 1 : locals[h] # Trap
          PROVE  j = at
      <4>1. j \in Int /\ at \in Int /\ j >= 1 /\ at >= 1
        BY <1>6, <1>7
      <4>2. ~ (j < at)
        BY <1>7, <3>1, <4>1
      <4>3. ~ (at < j)
        BY <1>7, <3>1, <4>1
      <4>. QED
        BY <4>1, <4>2, <4>3
    <3>. QED
      BY <3>1
  <2>. QED
    BY <1>6, <1>7, <2>1
<1>12. frames' = <<Handling(frames[i], at)>> \o SubSeq(frames, i + 1, Len(frames))
  BY <1>1 DEF ThrowsAt
<1>13. Marking # {}
  BY <1>8
<1>. QED
  BY <1>4, <1>10, <1>11, <1>12, <1>13, ThrowMeans

LEMMA ThrowUncaught ==
  ASSUME NEW V, frames \in Seq(FrameSet(V)), NoneCatch(frames), frames' = frames, NEW x, last' = x,
         status' = "uncaught"
  PROVE  Calls!Throw(x)
<1>1. DOMAIN frames = 1 .. Len(frames)
  BY LenProperties
<1>2. Marking = {}
  BY <1>1 DEF Marking, NoneCatch
<1>. QED
  BY <1>2, ThrowMeans

LEMMA AfterFirst ==
  ASSUME NEW X, NEW b \in Seq(X), NEW a, NEW k \in 1 .. Len(b) + 1
  PROVE  SubSeq(<<a>> \o b, k + 1, Len(<<a>> \o b)) = SubSeq(b, k, Len(b))
<1>. DEFINE c == <<a>> \o b
            l == SubSeq(c, k + 1, Len(c))
            r == SubSeq(b, k, Len(b))
<1>1. PICK Y : Y = X \cup {a}
  OBVIOUS
<1>2. c \in Seq(Y) /\ Len(c) = 1 + Len(b) /\ \A i \in 1 .. Len(b) : c[1 + i] = b[i]
  BY <1>1, HeadAndTail
<1>3. Len(b) \in Nat /\ b \in Seq(Y)
  <2>1. X \subseteq Y
    BY <1>1
  <2>. QED
    BY <2>1, LenProperties, SeqMonotonic
<1>. HIDE DEF c
<1>4. k \in Nat /\ k - 1 \in 0 .. Len(b) /\ k \in 0 .. Len(c)
  BY <1>2, <1>3
<1>5. IsStack(b) /\ IsStack(c)
  BY <1>2, <1>3 DEF IsStack
<1>6. PICK p \in Nat : p = k - 1
  BY <1>4
<1>7. p + 1 = k /\ p \in 0 .. Len(b)
  BY <1>4, <1>6
<1>8. /\ IsStack(SubSeq(b, p + 1, Len(b))) /\ Len(SubSeq(b, p + 1, Len(b))) = Len(b) - p
      /\ \A j \in 1 .. Len(b) - p : SubSeq(b, p + 1, Len(b))[j] = b[p + j]
  BY <1>5, <1>7, PoppedStack
<1>9. /\ IsStack(l) /\ Len(l) = Len(c) - k
      /\ \A j \in 1 .. Len(c) - k : l[j] = c[k + j]
  BY <1>4, <1>5, PoppedStack
<1>10. IsStack(r) /\ Len(r) = Len(b) - p /\ \A j \in 1 .. Len(b) - p : r[j] = b[p + j]
  BY <1>7, <1>8
<1>. HIDE DEF l, r
<1>11. Len(l) = Len(r)
  BY <1>2, <1>3, <1>6, <1>9, <1>10
<1>12. ASSUME NEW j \in 1 .. Len(l) PROVE l[j] = r[j]
  <2>1. j \in 1 .. Len(c) - k /\ j \in 1 .. Len(b) - p /\ p + j \in 1 .. Len(b) /\ 1 + (p + j) = k + j
    BY <1>2, <1>3, <1>6, <1>7, <1>9
  <2>. QED
    BY <1>2, <1>9, <1>10, <2>1
<1>13. PICK D : l \in Seq(D) /\ r \in Seq(D)
  <2>1. PICK P : l \in Seq(P)
    BY <1>9 DEF IsStack
  <2>2. PICK Q : r \in Seq(Q)
    BY <1>10 DEF IsStack
  <2>3. PICK D : D = P \cup Q
    OBVIOUS
  <2>4. l \in Seq(D) /\ r \in Seq(D)
    <3>1. P \subseteq D /\ Q \subseteq D
      BY <2>3
    <3>. QED
      BY <2>1, <2>2, <3>1, SeqMonotonic
  <2>. QED
    BY <2>4
<1>14. l = r
  BY <1>11, <1>12, <1>13, SeqEqual
<1>. QED
  BY <1>14 DEF l, r, c

\* A frame without a handler lets exceptions through.
Through(f, L, P, B) == <<FrameRecord(f, L, P)>> \o B

LEMMA ThrowFurther ==
  ASSUME NEW X, NEW B \in Seq(X), NEW f, NEW L, NEW P, Trap \notin ToSet(L), NEW out, ThrowsTo(B, out)
  PROVE  ThrowsTo(Through(f, L, P, B), out)
<1>1. PICK i, at : ThrowsAt(B, i, at, out)
  BY DEF ThrowsTo
<1>2. PICK r : r = FrameRecord(f, L, P)
  OBVIOUS
<1>3. PICK fr : fr = <<r>> \o B
  OBVIOUS
<1>4. fr[1] = r /\ Len(fr) = 1 + Len(B) /\ \A k \in 1 .. Len(B) : fr[1 + k] = B[k]
  <2>1. /\ (<<r>> \o B)[1] = r /\ Len(<<r>> \o B) = 1 + Len(B)
        /\ \A k \in 1 .. Len(B) : (<<r>> \o B)[1 + k] = B[k]
    BY HeadAndTail
  <2>. QED
    BY <1>3, <2>1
<1>5. Len(B) \in Nat
  BY LenProperties
<1>6. i \in 1 .. Len(B) /\ FirstMark(B[i].locals, at) /\ \A h \in 1 .. i - 1 : ~ HasMark(B[h])
  BY <1>1 DEF ThrowsAt
<1>7. PICK k \in Nat : k = i + 1
  BY <1>5, <1>6
<1>8. k \in 1 .. Len(fr) /\ fr[k] = B[i]
  <2>1. k = 1 + i
    BY <1>5, <1>6, <1>7
  <2>. QED
    BY <1>4, <1>5, <1>6, <2>1
<1>9. ~ HasMark(r)
  BY <1>2 DEF HasMark, FrameRecord
<1>10. ASSUME NEW h \in 1 .. k - 1 PROVE ~ HasMark(fr[h])
  <2>1. CASE h = 1
    BY <1>4, <1>9, <2>1
  <2>2. CASE h # 1
    <3>1. h - 1 \in 1 .. i - 1 /\ h - 1 \in 1 .. Len(B) /\ 1 + (h - 1) = h
      BY <1>5, <1>6, <1>7, <2>2
    <3>2. fr[h] = B[h - 1]
      BY <1>4, <3>1
    <3>. QED
      BY <1>6, <3>1, <3>2
  <2>. QED
    BY <2>1, <2>2
<1>11. SubSeq(fr, k + 1, Len(fr)) = SubSeq(B, i + 1, Len(B))
  <2>1. k \in 1 .. Len(B) + 1
    BY <1>5, <1>6, <1>7
  <2>2. SubSeq(<<r>> \o B, k + 1, Len(<<r>> \o B)) = SubSeq(B, k, Len(B))
    BY <2>1, AfterFirst
  <2>. QED
    BY <1>3, <1>7, <2>2
<1>12. out = <<Handling(fr[k], at)>> \o SubSeq(fr, k + 1, Len(fr))
  BY <1>1, <1>8, <1>11 DEF ThrowsAt
<1>13. ThrowsAt(fr, k, at, out)
  BY <1>6, <1>8, <1>10, <1>12 DEF ThrowsAt
<1>. QED
  BY <1>2, <1>3, <1>13 DEF ThrowsTo, Through

LEMMA NoneFurther ==
  ASSUME NEW X, NEW B \in Seq(X), NEW f, NEW L, NEW P, Trap \notin ToSet(L), NoneCatch(B)
  PROVE  NoneCatch(Through(f, L, P, B))
<1>1. PICK r : r = FrameRecord(f, L, P)
  OBVIOUS
<1>2. PICK fr : fr = <<r>> \o B
  OBVIOUS
<1>3. fr[1] = r /\ Len(fr) = 1 + Len(B) /\ \A k \in 1 .. Len(B) : fr[1 + k] = B[k]
  <2>1. /\ (<<r>> \o B)[1] = r /\ Len(<<r>> \o B) = 1 + Len(B)
        /\ \A k \in 1 .. Len(B) : (<<r>> \o B)[1 + k] = B[k]
    BY HeadAndTail
  <2>. QED
    BY <1>2, <2>1
<1>4. Len(B) \in Nat
  BY LenProperties
<1>5. ~ HasMark(r)
  BY <1>1 DEF HasMark, FrameRecord
<1>6. ASSUME NEW h \in 1 .. Len(fr) PROVE ~ HasMark(fr[h])
  <2>1. CASE h = 1
    BY <1>3, <1>5, <2>1
  <2>2. CASE h # 1
    <3>1. h - 1 \in 1 .. Len(B) /\ 1 + (h - 1) = h
      BY <1>3, <1>4, <2>2
    <3>2. fr[h] = B[h - 1]
      BY <1>3, <3>1
    <3>. QED
      BY <3>1, <3>2 DEF NoneCatch
  <2>. QED
    BY <2>1, <2>2
<1>7. NoneCatch(fr)
  BY <1>6 DEF NoneCatch
<1>. QED
  BY <1>1, <1>2, <1>7 DEF Through

\* A frame with one: what is above the handler goes.

LEMMA ThrowHere ==
  ASSUME NEW X, NEW B \in Seq(X), NEW V, Trap \notin V, NEW pre \in Seq(V), NEW Y, NEW post \in Seq(Y),
         NEW L, IsConcat(L, pre, <<Trap>> \o post), NEW f, NEW P
  PROVE  ThrowsTo(Through(f, L, P, B), Through(f, post, P, B))
<1>1. PICK r : r = FrameRecord(f, L, P)
  OBVIOUS
<1>2. PICK fr : fr = <<r>> \o B
  OBVIOUS
<1>3. Len(B) \in Nat
  BY LenProperties
<1>4. /\ fr[1] = r /\ Len(fr) = 1 + Len(B) /\ SubSeq(fr, 2, Len(fr)) = B
  <2>1. (<<r>> \o B)[1] = r /\ Len(<<r>> \o B) = 1 + Len(B)
    BY HeadAndTail
  <2>2. SubSeq(<<r>> \o B, 1 + 1, Len(<<r>> \o B)) = SubSeq(B, 1, Len(B))
    <3>1. 1 \in 1 .. Len(B) + 1
      BY <1>3
    <3>. QED
      BY <3>1, AfterFirst
  <2>3. SubSeq(B, 1, Len(B)) = B
    BY SubSeqFull
  <2>. QED
    BY <1>2, <2>1, <2>2, <2>3
<1>5. PICK t : t = <<Trap>> \o post
  OBVIOUS
<1>6. PICK Z : Z = Y \cup {Trap}
  OBVIOUS
<1>7. t \in Seq(Z) /\ t[1] = Trap /\ Len(t) = 1 + Len(post) /\ Len(post) \in Nat
  <2>1. (<<Trap>> \o post)[1] = Trap /\ Len(<<Trap>> \o post) = 1 + Len(post) /\ <<Trap>> \o post \in Seq(Y \cup {Trap})
    BY HeadAndTail
  <2>2. Len(post) \in Nat
    BY LenProperties
  <2>. QED
    BY <1>5, <1>6, <2>1, <2>2
<1>8. PICK D : pre \in Seq(D) /\ t \in Seq(D)
  <2>1. PICK D : D = V \cup Z
    OBVIOUS
  <2>2. pre \in Seq(D) /\ t \in Seq(D)
    <3>1. V \subseteq D /\ Z \subseteq D
      BY <2>1
    <3>. QED
      BY <1>7, <3>1, SeqMonotonic
  <2>. QED
    BY <2>2
<1>9. /\ Len(L) = Len(pre) + Len(t) /\ Len(pre) \in Nat
      /\ \A j \in 1 .. Len(pre) + Len(t) : L[j] = IF j <= Len(pre) THEN pre[j] ELSE t[j - Len(pre)]
  <2>1. L = pre \o t
    BY <1>5 DEF IsConcat
  <2>2. /\ Len(pre \o t) = Len(pre) + Len(t)
        /\ \A j \in 1 .. Len(pre) + Len(t) : (pre \o t)[j] = IF j <= Len(pre) THEN pre[j] ELSE t[j - Len(pre)]
    BY <1>8, ConcatProperties
  <2>3. Len(pre) \in Nat
    BY LenProperties
  <2>. QED
    BY <2>1, <2>2, <2>3
<1>10. PICK at \in Nat : at = Len(pre) + 1
  BY <1>9
<1>11. FirstMark(L, at)
  <2>1. at \in 1 .. Len(L) /\ at \in 1 .. Len(pre) + Len(t) /\ at - Len(pre) = 1 /\ ~ (at <= Len(pre))
    BY <1>7, <1>9, <1>10
  <2>2. L[at] = Trap
    BY <1>7, <1>9, <2>1
  <2>3. ASSUME NEW h \in 1 .. at - 1 PROVE L[h] # Trap
    <3>1. h \in 1 .. Len(pre) /\ h \in 1 .. Len(pre) + Len(t) /\ h <= Len(pre)
      BY <1>7, <1>9, <1>10
    <3>2. L[h] = pre[h]
      BY <1>9, <3>1
    <3>3. pre[h] \in V
      BY <3>1, ElementOfSeq
    <3>. QED
      BY <3>2, <3>3
  <2>. QED
    BY <2>1, <2>2, <2>3 DEF FirstMark
<1>12. SubSeq(L, at + 1, Len(L)) = post
  <2>1. PICK u : u = pre \o <<Trap>>
    OBVIOUS
  <2>2. IsStack(pre) /\ IsStack(<<Trap>>) /\ IsStack(post) /\ Len(<<Trap>>) = 1
    BY Literal1 DEF IsStack
  <2>3. IsStack(u) /\ Len(u) = at
    <3>1. IsStack(pre \o <<Trap>>) /\ Len(pre \o <<Trap>>) = Len(pre) + Len(<<Trap>>)
      BY <2>2, Pushed
    <3>. QED
      BY <1>10, <2>1, <2>2, <3>1
  <2>4. IsConcat(L, u, post)
    <3>1. Regrouped(pre, <<Trap>>, post)
      BY <2>2, ConcatThree
    <3>. QED
      BY <2>1, <3>1 DEF IsConcat, Regrouped
  <2>5. Parts(L, u, post)
    BY <2>2, <2>3, <2>4, StackParts
  <2>6. SubSeq(L, Len(u) + 1, Len(L)) = post
    BY <2>5 DEF Parts
  <2>. QED
    BY <2>3, <2>6
<1>13. Handling(r, at) = FrameRecord(f, post, P)
  <2>1. SubSeq(r.locals, at + 1, Len(r.locals)) = post
    <3>1. r.locals = L
      BY <1>1 DEF FrameRecord
    <3>. QED
      BY <1>12, <3>1
  <2>2. PICK l : l = SubSeq(r.locals, at + 1, Len(r.locals))
    OBVIOUS
  <2>3. [r EXCEPT !.locals = l] = FrameRecord(f, l, P)
    BY <1>1 DEF FrameRecord
  <2>. QED
    BY <2>1, <2>2, <2>3 DEF Handling
<1>14. ThrowsAt(fr, 1, at, <<FrameRecord(f, post, P)>> \o B)
  <2>1. r.locals = L
    BY <1>1 DEF FrameRecord
  <2>2. 1 \in 1 .. Len(fr) /\ 1 + 1 = 2
    BY <1>3, <1>4
  <2>3. \A h \in 1 .. 1 - 1 : ~ HasMark(fr[h])
    OBVIOUS
  <2>. QED
    BY <1>4, <1>11, <1>13, <2>1, <2>2, <2>3 DEF ThrowsAt
<1>. QED
  BY <1>1, <1>2, <1>14 DEF ThrowsTo, Through

\* The innermost of the trap frames C, and what its handler continues.
IsInnermost(C, o) == o \in C /\ \A q \in C : o <= q
Leads(s, V, A, H, o, g, f, shape, x, low) ==
  g \in H /\ IsOffset(o, g) /\ TrapFrame(s, V, A, H, g, f, shape, x) /\ low \in Int /\ Higher(g, low, 4)

\* Thrown in fr, an exception goes to the innermost of the trap frames C.
Catches(s, V, A, H, fr, C) ==
  /\ C = {} => NoneCatch(fr)
  /\ \A o, g, f, shape, x, low :
       IsInnermost(C, o) /\ Leads(s, V, A, H, o, g, f, shape, x, low)
         => ThrowsTo(fr, FrameList(s, f, shape, x, low))
BelowCatches(s, V, A, H, f, shape, x, top) ==
  f # "main" => Catches(s, V, A, H, FramesBelow(s, ReturnHeight(shape, x, top)),
                        TrapsBelow(s, ReturnHeight(shape, x, top)))

LEMMA PlainLocals ==
  ASSUME NEW s, NEW V, NEW A, NEW H, Heights(A), Trap \notin V, NEW top, top \in Int,
         NEW f, NEW shape, NEW x, FrameOK(s, V, A, H, f, shape, x, top), NoTraps(shape, Len(shape))
  PROVE  Trap \notin ToSet(LocalsOf(s, shape, top))
<1>1. shape \in Seq(Items) /\ Len(shape) \in Nat
  BY FrameBounds DEF Heights
<1>2. Len(shape) \in 0 .. Len(shape)
  BY <1>1
<1>3. FirstLocals(s, shape, top, Len(shape)) \in Seq(V)
  BY <1>2, FirstPlain
<1>4. FirstLocals(s, shape, top, Len(shape)) = LocalsOf(s, shape, top)
  BY <1>1, FirstEnds
<1>5. PICK L : L = LocalsOf(s, shape, top)
  OBVIOUS
<1>6. L \in Seq(V)
  BY <1>3, <1>4, <1>5
<1>7. \A i \in DOMAIN L : L[i] \in V
  BY <1>6
<1>. QED
  BY <1>5, <1>7 DEF ToSet

\* A function without handlers.
LEMMA PlainCatches ==
  ASSUME NEW s, NEW V, NEW A, NEW H, RetsOK(s, V, A, H), ValuesOK(V), NEW top, top \in Int,
         NEW f, NEW shape, NEW x, FrameOK(s, V, A, H, f, shape, x, top), NoTraps(shape, Len(shape)),
         BelowCatches(s, V, A, H, f, shape, x, top)
  PROVE  Catches(s, V, A, H, FrameList(s, f, shape, x, top), FrameTraps(s, f, shape, x, top))
<1>1. Heights(A) /\ A \subseteq Nat \ {0} /\ Trap \notin V
  BY RetsHeights DEF Heights, ValuesOK
<1>2. PICK B : B = BelowOf(s, f, shape, x, top)
  OBVIOUS
<1>3. B \in Seq(FrameSet(V))
  BY <1>2, BelowTyped
<1>4. PICK L, P : L = LocalsOf(s, shape, top) /\ P = PendingOf(s, shape, x, top)
  OBVIOUS
<1>5. FrameList(s, f, shape, x, top) = Through(f, L, P, B)
  BY <1>2, <1>4 DEF FrameList, Through, FrameOf, BelowOf
<1>6. Trap \notin ToSet(L)
  BY <1>1, <1>4, PlainLocals
<1>7. PICK C : C = FrameTraps(s, f, shape, x, top)
  OBVIOUS
<1>8. C = IF f = "main" THEN {} ELSE TrapsBelow(s, ReturnHeight(shape, x, top))
  <2>1. DOMAIN shape = 1 .. Len(shape)
    BY <1>1, FrameBounds
  <2>2. Offsets(shape, top) = {}
    BY <2>1 DEF NoTraps, Offsets
  <2>. QED
    BY <1>7, <2>2 DEF FrameTraps
<1>9. ASSUME C = {} PROVE NoneCatch(B)
  <2>1. CASE f = "main"
    <3>1. Len(<<>>) = 0
      OBVIOUS
    <3>2. B = <<>>
      BY <1>2, <2>1 DEF BelowOf
    <3>. QED
      BY <3>1, <3>2 DEF NoneCatch
  <2>2. CASE f # "main"
    BY <1>2, <1>8, <1>9, <2>2 DEF BelowCatches, Catches, BelowOf
  <2>. QED
    BY <2>1, <2>2
<1>10. ASSUME NEW o, NEW g, NEW f2, NEW shape2, NEW x2, NEW low, IsInnermost(C, o),
              Leads(s, V, A, H, o, g, f2, shape2, x2, low)
       PROVE  ThrowsTo(Through(f, L, P, B), FrameList(s, f2, shape2, x2, low))
  <2>1. f # "main"
    BY <1>8, <1>10 DEF IsInnermost
  <2>2. Catches(s, V, A, H, B, C)
    BY <1>2, <1>8, <2>1 DEF BelowCatches, BelowOf
  <2>3. ThrowsTo(B, FrameList(s, f2, shape2, x2, low))
    BY <1>10, <2>2 DEF Catches
  <2>. QED
    BY <1>3, <1>6, <2>3, ThrowFurther
<1>11. C = {} => NoneCatch(Through(f, L, P, B))
  BY <1>3, <1>6, <1>9, NoneFurther
<1>12. Catches(s, V, A, H, Through(f, L, P, B), C)
  BY <1>10, <1>11 DEF Catches
<1>. QED
  BY <1>5, <1>7, <1>12

\* The first trap frame of a function is the innermost one.
LEMMA FirstIsInnermost ==
  ASSUME NEW s, NEW V, NEW A, NEW H, RetsOK(s, V, A, H), NEW top, top \in Int,
         NEW f, NEW shape, NEW x, FrameOK(s, V, A, H, f, shape, x, top),
         NEW i, i \in 1 .. Len(shape), NoTraps(shape, i - 1), shape[i] = "trap",
         NEW g1 \in Int, Higher(top, g1, Above(shape, i)), NEW o, IsInnermost(FrameTraps(s, f, shape, x, top), o)
  PROVE  IsOffset(o, g1)
<1>1. /\ Len(s) \in Nat /\ A \subseteq Nat \ {0} /\ H \subseteq Nat \ {0} /\ StackWosize \in Nat
  BY RetsHeights, Constants
<1>2. /\ shape \in Seq(Items) /\ Len(shape) \in Nat /\ DOMAIN shape = 1 .. Len(shape)
      /\ ReturnHeight(shape, x, top) \in Nat /\ x \in Nat
      /\ f # "main" => ReturnHeight(shape, x, top) \in A
  <2>1. A \subseteq Nat \ {0}
    BY <1>1
  <2>. QED
    <3>1. shape \in Seq(Items) /\ x \in Nat
      BY <2>1, FrameBounds
    <3>2. ReturnHeight(shape, x, top) \in Nat /\ (f # "main" => ReturnHeight(shape, x, top) \in A)
      BY <2>1, FrameBounds
    <3>3. Len(shape) \in Nat /\ DOMAIN shape = 1 .. Len(shape)
      BY <3>1
    <3>. QED
      BY <3>1, <3>2, <3>3
<1>3. PICK u \in Nat : u = ReturnHeight(shape, x, top)
  BY <1>2
<1>4. Above(shape, i) \in Nat /\ g1 = top - Above(shape, i) /\ g1 - 4 >= u
  <2>1. /\ Above(shape, i) \in Nat /\ top - Above(shape, i) - Words(shape[i]) >= ReturnHeight(shape, x, top) + x
        /\ top - Above(shape, i) \in Int
    BY <1>1, FrameItem
  <2>2. Words(shape[i]) = 4
    BY DEF Words
  <2>3. g1 = top - Above(shape, i)
    BY <2>1 DEF Higher
  <2>. QED
    BY <1>2, <1>3, <2>1, <2>2, <2>3
<1>5. PICK o1 \in Int : o1 = StackWosize - g1
  BY <1>1, <1>4
<1>6. o1 \in FrameTraps(s, f, shape, x, top)
  <2>1. o1 \in Offsets(shape, top)
    BY <1>2, <1>4, <1>5 DEF Offsets
  <2>. QED
    BY <2>1 DEF FrameTraps
<1>7. o <= o1
  BY <1>6 DEF IsInnermost
<1>8. o \in Offsets(shape, top) \/ (f # "main" /\ o \in TrapsBelow(s, u))
  BY <1>3 DEF IsInnermost, FrameTraps
<1>9. CASE o \in Offsets(shape, top)
  <2>1. PICK j \in 1 .. Len(shape) : shape[j] = "trap" /\ o = StackWosize - (top - Above(shape, j))
    BY <1>2, <1>9 DEF Offsets
  <2>2. j \in Int /\ i \in Int /\ ~ (j < i)
    <3>1. ~ j \in 1 .. i - 1
      BY <2>1 DEF NoTraps
    <3>. QED
      BY <3>1
  <2>3. CASE j = i
    BY <1>4, <2>1, <2>3 DEF IsOffset
  <2>4. CASE i < j
    <3>1. Above(shape, i) + Words(shape[i]) <= Above(shape, j)
      BY <1>2, <2>1, <2>4, ItemsDescend
    <3>2. Above(shape, j) \in Nat /\ Words(shape[i]) = 4
      BY <1>2, AboveItem DEF Words
    <3>3. PICK a \in Nat, b \in Nat : a = Above(shape, i) /\ b = Above(shape, j)
      BY <1>4, <3>2
    <3>4. a + 4 <= b /\ o = StackWosize - (top - b) /\ g1 = top - a /\ o <= StackWosize - g1
      BY <1>4, <1>5, <1>7, <2>1, <3>1, <3>2, <3>3
    <3>5. StackWosize - (top - b) <= StackWosize - (top - a)
      BY <3>4
    <3>6. StackWosize \in Int /\ top \in Int /\ a \in Int /\ b \in Int
      BY <1>1, <3>3
    <3>7. b <= a
      BY <3>5, <3>6
    <3>. QED
      BY <3>4, <3>6, <3>7
  <2>. QED
    BY <2>2, <2>3, <2>4
<1>10. CASE f # "main" /\ o \in TrapsBelow(s, u)
  <2>1. u \in A
    BY <1>2, <1>3, <1>10
  <2>2. PICK h \in H : h < u /\ IsOffset(o, h)
    BY <1>10, <2>1, TrapsBelowBounded
  <2>3. h \in Nat
    BY <1>1
  <2>4. FALSE
    BY <1>1, <1>3, <1>4, <1>5, <1>7, <2>2, <2>3 DEF IsOffset
  <2>. QED
    BY <2>4
<1>. QED
  BY <1>8, <1>9, <1>10

IsMark(shape, i) == shape[i] = "trap"

\* The locals of a function, from its first handler on.
LEMMA MarkedLocals ==
  ASSUME NEW s, NEW shape \in Seq(Items), NEW top \in Int, NEW i \in 1 .. Len(shape), IsMark(shape, i),
         NEW g \in Int, Higher(top, g, Above(shape, i)), NEW low \in Int, Higher(g, low, 4)
  PROVE  IsConcat(LocalsOf(s, shape, top), FirstLocals(s, shape, top, i - 1),
                  <<Trap>> \o LocalsOf(s, Rest(shape, i), low))
<1>1. Len(shape) \in Nat
  OBVIOUS
<1>2. PICK n \in 0 .. Len(shape) : n = i - 1
  <2>1. i - 1 \in 0 .. Len(shape)
    BY <1>1
  <2>. QED
    BY <2>1
<1>3. 1 \in 1 .. Len(shape) - n /\ n + 1 = i
  BY <1>1, <1>2
<1>4. PICK r : r = Rest(shape, n)
  OBVIOUS
<1>5. r \in Seq(Items) /\ Len(r) = Len(shape) - n /\ r[1] = shape[n + 1] /\ Rest(r, 1) = Rest(shape, n + 1)
  BY <1>3, <1>4, DropItems
<1>6. r # <<>> /\ r[1] = "trap" /\ Rest(r, 1) = Rest(shape, i)
  <2>1. Len(r) # 0
    BY <1>3, <1>5
  <2>2. Len(<<>>) = 0
    OBVIOUS
  <2>. QED
    BY <1>3, <1>5, <2>1, <2>2 DEF IsMark
<1>7. Higher(top, g, Size(SubSeq(shape, 1, n)))
  BY <1>2 DEF Above
<1>8. LocalsOf(s, shape, top) = FirstLocals(s, shape, top, n) \o LocalsOf(s, r, g)
  <2>1. SplitLocals(s, shape, top, n, g)
    BY <1>7, LocalsSplit
  <2>. QED
    BY <1>4, <2>1 DEF SplitLocals
<1>9. Higher(g, low, Words(r[1]))
  BY <1>6 DEF Words
<1>10. LocalsOf(s, r, g) = Local(s, r, g, 1) \o LocalsOf(s, Rest(r, 1), low)
  <2>1. r # <<>>
    BY <1>6
  <2>. QED
    BY <1>5, <1>9, <2>1, FirstLocal
<1>11. Local(s, r, g, 1) = <<Trap>>
  BY <1>6 DEF Local
<1>12. LocalsOf(s, r, g) = <<Trap>> \o LocalsOf(s, Rest(shape, i), low)
  BY <1>6, <1>10, <1>11
<1>. QED
  BY <1>2, <1>8, <1>12 DEF IsConcat

\* A function with one catches.
LEMMA FirstCatches ==
  ASSUME NEW s, NEW V, NEW A, NEW H, RetsOK(s, V, A, H), ValuesOK(V), NEW top, top \in Int,
         NEW f, NEW shape, NEW x, FrameOK(s, V, A, H, f, shape, x, top),
         NEW i, i \in 1 .. Len(shape), NoTraps(shape, i - 1), IsMark(shape, i)
  PROVE  Catches(s, V, A, H, FrameList(s, f, shape, x, top), FrameTraps(s, f, shape, x, top))
<1>1. /\ Heights(A) /\ A \subseteq Nat \ {0} /\ H \subseteq Nat \ {0} /\ Trap \notin V /\ StackWosize \in Nat
  BY RetsHeights, Constants DEF Heights, ValuesOK
<1>2. shape \in Seq(Items) /\ Len(shape) \in Nat
  BY <1>1, FrameBounds
<1>3. PICK B : B = BelowOf(s, f, shape, x, top)
  OBVIOUS
<1>4. B \in Seq(FrameSet(V))
  BY <1>3, BelowTyped
<1>5. PICK L, P : L = LocalsOf(s, shape, top) /\ P = PendingOf(s, shape, x, top)
  OBVIOUS
<1>6. FrameList(s, f, shape, x, top) = Through(f, L, P, B)
  BY <1>3, <1>5 DEF FrameList, Through, FrameOf, BelowOf
<1>7. Above(shape, i) \in Nat /\ Size(Rest(shape, i)) \in Nat /\ Size(shape) \in Nat
      /\ Above(shape, i) + 4 + Size(Rest(shape, i)) = Size(shape)
  <2>1. Words(shape[i]) = 4
    BY DEF IsMark, Words
  <2>2. /\ Above(shape, i) \in Nat /\ Size(Rest(shape, i)) \in Nat /\ Size(shape) \in Nat
        /\ Above(shape, i) + Words(shape[i]) + Size(Rest(shape, i)) = Size(shape)
    BY <1>2, AboveItem
  <2>. QED
    BY <2>1, <2>2
<1>8. PICK g1 \in Int : g1 = top - Above(shape, i)
  BY <1>7
<1>9. Higher(top, g1, Above(shape, i))
  BY <1>7, <1>8 DEF Higher
<1>10. PICK C : C = FrameTraps(s, f, shape, x, top)
  OBVIOUS
<1>11. C # {}
  <2>1. i \in DOMAIN shape /\ shape[i] = "trap"
    BY <1>2 DEF IsMark
  <2>2. StackWosize - (top - Above(shape, i)) \in Offsets(shape, top)
    BY <2>1 DEF Offsets
  <2>. QED
    BY <1>10, <2>2 DEF FrameTraps
<1>12. ItemOK(s, V, A, H, f, shape, x, i, g1)
  BY <1>8 DEF FrameOK
<1>13. W(s, g1) = Val_codeptr(Body(f, Rest(shape, i))) /\ W(s, g1 - 3) = Val_int(x)
  BY <1>12 DEF ItemOK, IsMark
<1>14. ASSUME NEW o, NEW g, NEW f2, NEW shape2, NEW x2, NEW low, IsInnermost(C, o),
              Leads(s, V, A, H, o, g, f2, shape2, x2, low)
       PROVE  ThrowsTo(Through(f, L, P, B), FrameList(s, f2, shape2, x2, low))
  <2>1. IsOffset(o, g1)
    <3>1. IsInnermost(FrameTraps(s, f, shape, x, top), o) /\ shape[i] = "trap"
      BY <1>10, <1>14 DEF IsMark
    <3>. QED
      BY <1>9, <3>1, FirstIsInnermost
  <2>2. g = g1
    <3>1. g \in H /\ IsOffset(o, g)
      BY <1>14 DEF Leads
    <3>2. g \in Nat
      BY <1>1, <3>1
    <3>. QED
      BY <1>1, <2>1, <3>1, <3>2 DEF IsOffset
  <2>3. TrapFrame(s, V, A, H, g1, f2, shape2, x2) /\ low \in Int /\ Higher(g1, low, 4)
    BY <1>14, <2>2 DEF Leads
  <2>4. f2 = f /\ shape2 = Rest(shape, i) /\ x2 = x
    BY <1>13, <2>3 DEF TrapFrame, Val_codeptr, Body, Point, Val_int
  <2>5. low = g1 - 4
    BY <2>3 DEF Higher
  <2>6. FrameOK(s, V, A, H, f, Rest(shape, i), x, low)
    BY <2>3, <2>4, <2>5 DEF TrapFrame
  <2>7. SameBase(top, shape, low, Rest(shape, i))
    <3>1. PICK a \in Nat, b \in Nat, c \in Nat :
            a = Above(shape, i) /\ b = Size(Rest(shape, i)) /\ c = Size(shape)
      BY <1>7
    <3>2. a + 4 + b = c /\ low = top - a - 4
      BY <1>7, <1>8, <2>5, <3>1
    <3>3. top - c = low - b
      BY <3>2
    <3>. QED
      BY <3>1, <3>3 DEF SameBase
  <2>8. PendingOf(s, Rest(shape, i), x, low) = P /\ BelowOf(s, f, Rest(shape, i), x, low) = B
    BY <1>3, <1>5, <2>7, SameBaseFrame
  <2>9. PICK post : post = LocalsOf(s, Rest(shape, i), low)
    OBVIOUS
  <2>10. post \in Seq(V \cup {Trap})
    BY <1>1, <2>3, <2>6, <2>9, LocalTyped
  <2>11. PICK pre : pre = FirstLocals(s, shape, top, i - 1)
    OBVIOUS
  <2>12. pre \in Seq(V)
    <3>1. i - 1 \in 0 .. Len(shape)
      BY <1>2
    <3>. QED
      BY <1>1, <2>11, <3>1, FirstPlain
  <2>13. IsConcat(L, pre, <<Trap>> \o post)
    <3>1. IsConcat(LocalsOf(s, shape, top), FirstLocals(s, shape, top, i - 1),
                   <<Trap>> \o LocalsOf(s, Rest(shape, i), low))
      BY <1>2, <1>9, <2>3, MarkedLocals
    <3>. QED
      BY <1>5, <2>9, <2>11, <3>1
  <2>14. ThrowsTo(Through(f, L, P, B), Through(f, post, P, B))
    BY <1>1, <1>4, <2>10, <2>12, <2>13, ThrowHere
  <2>15. FrameList(s, f2, shape2, x2, low) = Through(f, post, P, B)
    BY <2>4, <2>8, <2>9 DEF FrameList, Through, FrameOf, BelowOf
  <2>. QED
    BY <2>14, <2>15
<1>15. Catches(s, V, A, H, Through(f, L, P, B), C)
  BY <1>11, <1>14 DEF Catches
<1>. QED
  BY <1>6, <1>10, <1>15

LEMMA FrameCatches ==
  ASSUME NEW s, NEW V, NEW A, NEW H, RetsOK(s, V, A, H), ValuesOK(V), NEW top, top \in Int,
         NEW f, NEW shape, NEW x, FrameOK(s, V, A, H, f, shape, x, top),
         BelowCatches(s, V, A, H, f, shape, x, top)
  PROVE  Catches(s, V, A, H, FrameList(s, f, shape, x, top), FrameTraps(s, f, shape, x, top))
<1>1. shape \in Seq(Items) /\ Len(shape) \in Nat
  <2>1. A \subseteq Nat \ {0}
    BY RetsHeights
  <2>. QED
    BY <2>1, FrameBounds
<1>2. CASE NoTraps(shape, Len(shape))
  BY <1>2, PlainCatches
<1>3. CASE ~ NoTraps(shape, Len(shape))
  <2>. DEFINE S == {k \in 1 .. Len(shape) : IsMark(shape, k)}
  <2>1. S \in SUBSET Nat /\ S # {}
    BY <1>3 DEF NoTraps, IsMark
  <2>2. PICK i \in S : \A k \in S : i <= k
    BY <2>1, Least
  <2>3. i \in 1 .. Len(shape) /\ IsMark(shape, i)
    BY <2>2
  <2>4. NoTraps(shape, i - 1)
    <3>1. ASSUME NEW k \in 1 .. i - 1, IsMark(shape, k) PROVE FALSE
      <4>1. k \in 1 .. Len(shape) /\ ~ (i <= k)
        BY <1>1, <2>3
      <4>. QED
        BY <2>2, <3>1, <4>1
    <3>. QED
      BY <3>1 DEF NoTraps, IsMark
  <2>. HIDE DEF S
  <2>. QED
    BY <2>3, <2>4, FirstCatches
<1>. QED
  BY <1>2, <1>3

\* So do the functions under a return frame.
LEMMA FramesCatch ==
  ASSUME NEW s, NEW V, NEW A, NEW H, RetsOK(s, V, A, H), ValuesOK(V)
  PROVE  \A h \in A : Catches(s, V, A, H, FramesBelow(s, h), TrapsBelow(s, h))
<1>. DEFINE S == {h \in A : ~ Catches(s, V, A, H, FramesBelow(s, h), TrapsBelow(s, h))}
<1>1. SUFFICES ASSUME S # {} PROVE FALSE
  OBVIOUS
<1>2. A \subseteq Nat \ {0}
  BY RetsHeights
<1>3. S \in SUBSET Nat
  BY <1>2
<1>4. PICK h \in S : \A k \in S : h <= k
  BY <1>1, <1>3, Least
<1>5. /\ h \in A /\ h \in Nat /\ ~ Catches(s, V, A, H, FramesBelow(s, h), TrapsBelow(s, h))
      /\ \A k \in A : k < h => Catches(s, V, A, H, FramesBelow(s, k), TrapsBelow(s, k))
  BY <1>2, <1>4
<1>. HIDE DEF S
<1>6. PICK f, shape, x : RetFrame(s, V, A, H, h, f, shape, x)
  BY <1>5 DEF RetsOK
<1>7. /\ TrapsBelow(s, h) = FrameTraps(s, f, shape, x, h - 3)
      /\ f # "main" => ReturnHeight(shape, x, h - 3) \in A /\ ReturnHeight(shape, x, h - 3) < h
  BY <1>5, <1>6, RetTraps
<1>8. PICK top \in Int : top = h - 3
  BY <1>5
<1>9. Higher(h, top, 3)
  BY <1>5, <1>8 DEF Higher
<1>10. FramesBelow(s, h) = FrameList(s, f, shape, x, top)
  BY <1>5, <1>6, <1>8, <1>9, RetFrames
<1>11. FrameOK(s, V, A, H, f, shape, x, top)
  BY <1>6, <1>8 DEF RetFrame
<1>12. BelowCatches(s, V, A, H, f, shape, x, top)
  BY <1>5, <1>7, <1>8 DEF BelowCatches
<1>13. Catches(s, V, A, H, FrameList(s, f, shape, x, top), FrameTraps(s, f, shape, x, top))
  BY <1>8, <1>11, <1>12, FrameCatches
<1>. QED
  BY <1>5, <1>7, <1>8, <1>10, <1>13

\* The frames and handlers in progress.
NowCatch(V, A, H, C) ==
  /\ frames \in Seq(FrameSet(V)) /\ Catches(stack, V, A, H, frames, C)
  /\ trapSp = Innermost(C) /\ \A o \in C : \E g \in H : IsOffset(o, g)

LEMMA ThroughTyped ==
  ASSUME NEW V, NEW f, f \in Functions \cup {"main"}, NEW L \in Seq(V \cup {Trap}), NEW P \in Seq(V),
         NEW B \in Seq(FrameSet(V))
  PROVE  Through(f, L, P, B) \in Seq(FrameSet(V))
<1>1. FrameRecord(f, L, P) \in FrameSet(V)
  BY DEF FrameRecord, FrameSet
<1>2. PICK X, r : X = FrameSet(V) /\ r = FrameRecord(f, L, P)
  OBVIOUS
<1>3. r \in X /\ B \in Seq(X)
  BY <1>1, <1>2
<1>4. <<r>> \in Seq(X)
  BY <1>3
<1>5. <<r>> \o B \in Seq(X)
  BY <1>3, <1>4, ConcatProperties
<1>. QED
  BY <1>2, <1>5 DEF Through

LEMMA ThroughCatches ==
  ASSUME NEW s, NEW V, NEW A, NEW H, NEW X, NEW B \in Seq(X), NEW C, Catches(s, V, A, H, B, C),
         NEW f, NEW L, NEW P, Trap \notin ToSet(L)
  PROVE  Catches(s, V, A, H, Through(f, L, P, B), C)
<1>1. C = {} => NoneCatch(Through(f, L, P, B))
  <2>1. ASSUME C = {} PROVE NoneCatch(Through(f, L, P, B))
    <3>1. NoneCatch(B)
      BY <2>1 DEF Catches
    <3>. QED
      BY <3>1, NoneFurther
  <2>. QED
    BY <2>1
<1>2. ASSUME NEW o, NEW g, NEW f2, NEW shape, NEW x, NEW low, IsInnermost(C, o),
             Leads(s, V, A, H, o, g, f2, shape, x, low)
      PROVE  ThrowsTo(Through(f, L, P, B), FrameList(s, f2, shape, x, low))
  <2>1. ThrowsTo(B, FrameList(s, f2, shape, x, low))
    BY <1>2 DEF Catches
  <2>. QED
    BY <2>1, ThrowFurther
<1>. QED
  BY <1>1, <1>2 DEF Catches

\* In the body of a function.
LEMMA BodyCatches ==
  ASSUME NEW V, NEW A, NEW H, Laid(V, A, H), Agrees, InBody(stack, V, A, H, pc, env, extra_args, trapSp)
  PROVE  \E C : NowCatch(V, A, H, C)
<1>1. RetsOK(stack, V, A, H) /\ ValuesOK(V) /\ Len(stack) \in Nat /\ A \subseteq Nat \ {0}
  BY LaidFacts
<1>2. PICK top \in Int : top = Len(stack)
  BY <1>1
<1>3. PICK f, shape, x :
        /\ pc = Body(f, shape) /\ x = extra_args
        /\ FrameOK(stack, V, A, H, f, shape, x, top)
        /\ trapSp = Innermost(FrameTraps(stack, f, shape, x, top))
  BY <1>2 DEF InBody
<1>4. pc.fn = f /\ pc.shape = shape /\ pc.at = "body"
  BY <1>3 DEF Body, Point
<1>5. frames = FrameList(stack, f, shape, x, top)
  <2>1. LaidOut
    BY DEF LaidOut
  <2>2. frames = FramesIn(pc, stack, extra_args, env)
    BY <2>1, ReadNow DEF Agrees
  <2>. QED
    BY <1>2, <1>3, <1>4, <2>2 DEF FramesIn
<1>6. PICK B : B = BelowOf(stack, f, shape, x, top)
  OBVIOUS
<1>7. B \in Seq(FrameSet(V))
  BY <1>1, <1>3, <1>6, BelowTyped
<1>8. PICK L, P : L = LocalsOf(stack, shape, top) /\ P = PendingOf(stack, shape, x, top)
  OBVIOUS
<1>9. L \in Seq(V \cup {Trap}) /\ P \in Seq(V)
  BY <1>1, <1>3, <1>8, LocalTyped
<1>10. f \in Functions \cup {"main"}
  BY <1>3 DEF FrameOK
<1>11. frames = Through(f, L, P, B)
  BY <1>5, <1>6, <1>8 DEF FrameList, Through, FrameOf, BelowOf
<1>12. frames \in Seq(FrameSet(V))
  BY <1>7, <1>9, <1>10, <1>11, ThroughTyped
<1>13. BelowCatches(stack, V, A, H, f, shape, x, top)
  <2>1. f # "main" => ReturnHeight(shape, x, top) \in A
    BY <1>1, <1>3, FrameBounds
  <2>. QED
    BY <1>1, <2>1, FramesCatch DEF BelowCatches
<1>14. PICK C : C = FrameTraps(stack, f, shape, x, top)
  OBVIOUS
<1>15. Catches(stack, V, A, H, frames, C)
  <2>1. Catches(stack, V, A, H, FrameList(stack, f, shape, x, top), FrameTraps(stack, f, shape, x, top))
    BY <1>1, <1>3, <1>13, FrameCatches
  <2>. QED
    BY <1>5, <1>14, <2>1
<1>16. ASSUME NEW o \in C PROVE \E g \in H : IsOffset(o, g)
  <2>1. o \in FrameTraps(stack, f, shape, x, top)
    BY <1>14
  <2>. QED
    BY <1>1, <1>3, <2>1, FrameTrapsKnown
<1>17. NowCatch(V, A, H, C)
  BY <1>3, <1>12, <1>14, <1>15, <1>16 DEF NowCatch
<1>. QED
  BY <1>17

\* The arguments of the function that control is on the way to.
LEMMA EntryArguments ==
  ASSUME NEW V, NEW A, NEW H, Laid(V, A, H), NEW f, NEW all, NEW T, EntryFacts(V, A, f, all, T),
         Entering, Arrived(stack, V, A, extra_args, trapSp)
  PROVE  all \in Seq(V)
<1>1. IsStack(stack) /\ extra_args + 1 \in 0 .. Len(stack)
  BY LaidFacts DEF EntryFacts
<1>2. PICK n : n = extra_args + 1
  OBVIOUS
<1>3. n \in 0 .. Len(stack) /\ \A j \in 1 .. n : stack[j] \in V
  BY <1>1, <1>2 DEF Arrived
<1>4. SubSeq(stack, 1, n) \in Seq(V)
  BY <1>1, <1>3, TopValues
<1>5. PICK a, b : a = (IF pc.at = "restart" THEN env.args ELSE <<>>) /\ b = SubSeq(stack, 1, n)
  OBVIOUS
<1>6. all = a \o b
  BY <1>2, <1>5 DEF EntryFacts, ArgumentsOf
<1>7. a \in Seq(V)
  <2>1. CASE pc.at = "restart"
    <3>1. PICK args : PartialClosure(V, f, args) /\ env = MakeClosure(<<f, "restart">>, Closure(f), args)
      BY <2>1 DEF EntryFacts
    <3>2. env.args = args
      BY <3>1 DEF MakeClosure
    <3>3. args \in Seq(V)
      BY <3>1 DEF PartialClosure
    <3>. QED
      BY <1>5, <2>1, <3>2, <3>3
  <2>2. CASE pc.at # "restart"
    <3>1. <<>> \in Seq(V)
      OBVIOUS
    <3>. QED
      BY <1>5, <2>2, <3>1
  <2>. QED
    BY <2>1, <2>2
<1>. QED
  BY <1>4, <1>5, <1>6, <1>7, ConcatProperties

\* On the way into a function.
LEMMA EntryCatches ==
  ASSUME NEW V, NEW A, NEW H, Laid(V, A, H), Agrees, OnEntry(stack, V, A, pc, env, extra_args, trapSp)
  PROVE  \E C : NowCatch(V, A, H, C)
<1>1. /\ RetsOK(stack, V, A, H) /\ ValuesOK(V) /\ Len(stack) \in Nat /\ A \subseteq Nat \ {0}
      /\ Trap \notin V
  BY LaidFacts DEF ValuesOK
<1>2. Arrived(stack, V, A, extra_args, trapSp)
  BY DEF OnEntry
<1>3. Entering
  <2>1. pc.at \in {"restart", "grab"}
    <3>1. CASE AtGrab(V, pc, env, extra_args)
      BY <3>1 DEF AtGrab, Point
    <3>2. CASE AtRestart(V, pc, env, extra_args)
      BY <3>2 DEF AtRestart, Point
    <3>. QED
      BY <3>1, <3>2 DEF OnEntry
  <2>. QED
    BY <2>1 DEF Entering
<1>4. PICK f, all, T : EntryFacts(V, A, f, all, T)
  BY <1>3, EntryNow
<1>5. all \in Seq(V)
  BY <1>2, <1>3, <1>4, EntryArguments
<1>6. T \in A /\ f \in Functions /\ T = Len(stack) - extra_args - 1
  BY <1>4 DEF EntryFacts
<1>7. PICK B, C : B = FramesBelow(stack, T) /\ C = TrapsBelow(stack, T)
  OBVIOUS
<1>8. frames = Entered(f, all, B)
  BY <1>4, <1>7 DEF EntryFacts
<1>9. B \in Seq(FrameSet(V)) /\ Catches(stack, V, A, H, B, C)
  BY <1>1, <1>6, <1>7, FramesTyped, FramesCatch
<1>10. trapSp = Innermost(C)
  BY <1>2, <1>6, <1>7 DEF Arrived
<1>11. \A o \in C : \E g \in H : IsOffset(o, g)
  BY <1>1, <1>6, <1>7, TrapsBelowBounded
<1>12. frames \in Seq(FrameSet(V)) /\ Catches(stack, V, A, H, frames, C)
  <2>1. CASE Len(all) < Arity[f]
    BY <1>8, <1>9, <2>1 DEF Entered
  <2>2. CASE ~ (Len(all) < Arity[f])
    <3>1. PICK L, P : L = SubSeq(all, 1, Arity[f]) /\ P = SubSeq(all, Arity[f] + 1, Len(all))
      OBVIOUS
    <3>2. frames = Through(f, L, P, B)
      BY <1>8, <2>2, <3>1 DEF Entered, Through
    <3>3. Arity[f] \in 0 .. Len(all) /\ Len(all) \in Nat
      BY <1>5, <1>6, <2>2, Constants
    <3>4. L \in Seq(V) /\ P \in Seq(V)
      <4>1. PICK n \in 0 .. Len(all) : n = Arity[f]
        BY <3>3
      <4>2. SubSeq(all, 1, n) \in Seq(V) /\ SubSeq(all, n + 1, Len(all)) \in Seq(V)
        <5>1. 1 \in Int /\ n \in Int /\ n + 1 \in Int /\ Len(all) \in Int
          BY <3>3
        <5>2. \A i \in 1 .. Len(all) : all[i] \in V
          BY <1>5
        <5>3. 1 .. n \subseteq 1 .. Len(all) /\ n + 1 .. Len(all) \subseteq 1 .. Len(all)
          BY <3>3
        <5>. QED
          BY <1>5, <5>1, <5>2, <5>3, SubSeqProperties
      <4>. QED
        BY <3>1, <4>1, <4>2
    <3>5. L \in Seq(V \cup {Trap})
      <4>1. V \subseteq V \cup {Trap}
        OBVIOUS
      <4>. QED
        BY <3>4, <4>1, SeqMonotonic
    <3>6. Trap \notin ToSet(L)
      <4>1. \A i \in DOMAIN L : L[i] \in V
        BY <3>4
      <4>. QED
        BY <1>1, <4>1 DEF ToSet
    <3>7. f \in Functions \cup {"main"}
      BY <1>6
    <3>8. Through(f, L, P, B) \in Seq(FrameSet(V))
      BY <1>9, <3>4, <3>5, <3>7, ThroughTyped
    <3>9. Catches(stack, V, A, H, Through(f, L, P, B), C)
      BY <1>9, <3>6, ThroughCatches
    <3>. QED
      BY <3>2, <3>8, <3>9
  <2>. QED
    BY <2>1, <2>2
<1>13. NowCatch(V, A, H, C)
  BY <1>10, <1>11, <1>12 DEF NowCatch
<1>. QED
  BY <1>13

LEMMA NowCatches ==
  ASSUME NEW V, NEW A, NEW H, Laid(V, A, H), Agrees
  PROVE  \E C : NowCatch(V, A, H, C)
<1>1. InBody(stack, V, A, H, pc, env, extra_args, trapSp) \/ OnEntry(stack, V, A, pc, env, extra_args, trapSp)
  BY DEF Laid, Control
<1>. QED
  BY <1>1, BodyCatches, EntryCatches

\* The handler that RAISE jumps to.
LEMMA HandlerNow ==
  ASSUME NEW V, NEW A, NEW H, Laid(V, A, H), LaidOut', Agrees', NEW o \in Nat, NEW g, g \in H, IsOffset(o, g),
         NEW x, Raise(x), trapSp = Val_int(o)
  PROVE  /\ \E f, shape, y, low : /\ Leads(stack, V, A, H, o, g, f, shape, y, low)
                                  /\ frames' = FrameList(stack, f, shape, y, low)
         /\ last' = x /\ status' = status
<1>1. /\ Layout(stack, V, A, H) /\ RetsOK(stack, V, A, H) /\ IsStack(stack)
      /\ Len(stack) \in Nat /\ Len(stack) <= StackWosize /\ A \subseteq Nat \ {0}
  BY LaidFacts
<1>2. g \in 4 .. Len(stack) /\ o = StackWosize - g
  BY <1>1, TrapHeights DEF IsOffset
<1>3. trapSp # Val_int(-1) /\ trapSp.n = o
  BY DEF Val_int
<1>4. PICK k \in 0 .. Len(stack) : k = Len(stack) - g
  <2>1. Len(stack) - g \in 0 .. Len(stack)
    BY <1>1, <1>2
  <2>. QED
    BY <2>1
<1>5. PICK s : s = SubSeq(stack, k + 1, Len(stack))
  OBVIOUS
<1>6. FromOffset(trapSp.n) = s
  <2>1. Len(stack) - (StackWosize - o) + 1 = k + 1
    BY <1>1, <1>2, <1>4, Constants
  <2>. QED
    BY <1>3, <1>5, <2>1 DEF FromOffset
<1>7. /\ pc' = s[1].at /\ extra_args' = s[4].n /\ acc' = x /\ status' = status
      /\ stack' = SubSeq(s, 5, Len(s))
  BY <1>3, <1>6 DEF Raise
<1>8. IsStack(s) /\ Len(s) = g /\ Same(stack, s, g)
  <2>1. /\ IsStack(SubSeq(stack, k + 1, Len(stack))) /\ Len(SubSeq(stack, k + 1, Len(stack))) = Len(stack) - k
        /\ Same(stack, SubSeq(stack, k + 1, Len(stack)), Len(stack) - k)
    BY <1>1, PoppedStack
  <2>2. Len(stack) - k = g
    BY <1>1, <1>2, <1>4
  <2>. QED
    BY <1>5, <2>1, <2>2
<1>9. PICK low \in Nat : low = g - 4
  BY <1>2
<1>10. IsStack(stack') /\ Len(stack') = low /\ Same(s, stack', low)
  <2>1. 4 \in 0 .. Len(s) /\ 4 + 1 = 5
    BY <1>2, <1>8
  <2>2. /\ IsStack(SubSeq(s, 4 + 1, Len(s))) /\ Len(SubSeq(s, 4 + 1, Len(s))) = Len(s) - 4
        /\ Same(s, SubSeq(s, 4 + 1, Len(s)), Len(s) - 4)
    BY <1>8, <2>1, PoppedStack
  <2>. QED
    BY <1>7, <1>8, <1>9, <2>1, <2>2
<1>11. Same(stack, stack', low)
  <2>1. low <= g /\ low <= low /\ g \in Nat
    BY <1>2, <1>9
  <2>2. Same(stack, s, low)
    <3>1. low <= Len(stack) /\ low <= Len(s) /\ \A h \in 1 .. low : h \in 1 .. g
      BY <1>1, <1>2, <1>8, <2>1
    <3>. QED
      BY <1>8, <3>1 DEF Same
  <2>3. PICK r : r = stack'
    OBVIOUS
  <2>4. Same(s, r, low)
    BY <1>10, <2>3
  <2>5. Same(stack, r, low)
    BY <2>1, <2>2, <2>4, SameThrough
  <2>. QED
    BY <2>3, <2>5
<1>12. PICK f, shape, y : TrapFrame(stack, V, A, H, g, f, shape, y)
  BY <1>1 DEF Layout
<1>13. W(stack, g) = Val_codeptr(Body(f, shape)) /\ W(stack, g - 3) = Val_int(y) /\ FrameOK(stack, V, A, H, f, shape, y, low)
  BY <1>9, <1>12 DEF TrapFrame
<1>14. s[1] = W(stack, g) /\ s[4] = W(stack, g - 3)
  <2>1. W(s, g) = W(stack, g) /\ W(s, g - 3) = W(stack, g - 3)
    <3>1. g \in 1 .. g /\ g - 3 \in 1 .. g
      BY <1>2
    <3>. QED
      BY <1>8, <3>1 DEF Same
  <2>2. Len(s) - g + 1 = 1 /\ Len(s) - (g - 3) + 1 = 4
    BY <1>2, <1>8
  <2>3. W(s, g) = s[1] /\ W(s, g - 3) = s[4]
    BY <2>2 DEF W
  <2>. QED
    BY <2>1, <2>3
<1>15. pc' = Body(f, shape) /\ extra_args' = y
  BY <1>7, <1>13, <1>14 DEF Val_codeptr, Val_int
<1>16. frames' = FrameList(stack', f, shape, y, low) /\ last' = x
  <2>1. pc'.at = "body" /\ pc'.fn = f /\ pc'.shape = shape
    BY <1>15 DEF Body, Point
  <2>2. frames' = FrameList(stack', pc'.fn, pc'.shape, extra_args', Len(stack')) /\ last' = acc'
    BY <2>1, BodyAfter
  <2>. QED
    BY <1>7, <1>10, <1>15, <2>1, <2>2
<1>17. FrameList(stack', f, shape, y, low) = FrameList(stack, f, shape, y, low)
  <2>1. low \in Int /\ low <= low /\ Len(stack') <= StackWosize
    <3>1. low <= Len(stack) /\ StackWosize \in Nat
      BY <1>1, <1>2, <1>9, Constants
    <3>. QED
      BY <1>1, <1>10, <3>1
  <2>2. PICK r : r = stack'
    OBVIOUS
  <2>3. IsStack(r) /\ Len(r) <= StackWosize /\ Same(stack, r, low)
    BY <1>10, <1>11, <2>1, <2>2
  <2>4. FrameList(r, f, shape, y, low) = FrameList(stack, f, shape, y, low)
    BY <1>1, <1>13, <2>1, <2>3, FrameListStable
  <2>. QED
    BY <2>2, <2>4
<1>18. Leads(stack, V, A, H, o, g, f, shape, y, low)
  <2>1. Higher(g, low, 4) /\ low \in Int
    BY <1>2, <1>9 DEF Higher
  <2>. QED
    BY <1>12, <2>1 DEF Leads
<1>. QED
  BY <1>7, <1>16, <1>17, <1>18

LEMMA RaiseCalls ==
  ASSUME NEW V, NEW A, NEW H, Laid(V, A, H), LaidOut', Agrees, Agrees', NEW x, Raise(x)
  PROVE  Calls!Throw(x)
<1>1. PICK C : NowCatch(V, A, H, C)
  BY NowCatches
<1>2. /\ frames \in Seq(FrameSet(V)) /\ Catches(stack, V, A, H, frames, C)
      /\ trapSp = Innermost(C) /\ \A o \in C : \E g \in H : IsOffset(o, g)
  BY <1>1 DEF NowCatch
<1>3. \A g \in H : g \in Nat /\ g <= StackWosize
  <2>1. H \subseteq 1 .. Len(stack) /\ Len(stack) \in Nat /\ Len(stack) <= StackWosize
    BY LaidFacts
  <2>. QED
    BY <2>1, Constants
<1>4. /\ C \subseteq 0 .. StackWosize
      /\ C = {} => Innermost(C) = Val_int(-1)
      /\ C # {} => \E o \in C : Innermost(C) = Val_int(o) /\ (\A q \in C : o <= q)
  BY <1>2, <1>3, InnermostIsOne
<1>5. CASE C = {}
  <2>1. acc' = x /\ status' = "uncaught" /\ UNCHANGED <<pc, stack, env, trapSp, extra_args>>
    BY <1>2, <1>4, <1>5 DEF Raise
  <2>2. frames' = frames
    <3>1. frames = FramesNow(pc, stack, extra_args, env)
      BY CurrentRead DEF Agrees
    <3>2. frames' = FramesNow(pc', stack', extra_args', env')
      BY CurrentReadNext DEF Agrees
    <3>. QED
      BY <2>1, <3>1, <3>2
  <2>3. last' = x
    <3>1. last' = ValueNow(status', pc', stack', extra_args', env', acc')
      BY CurrentReadNext DEF Agrees
    <3>. QED
      BY <2>1, <3>1 DEF ValueNow
  <2>4. NoneCatch(frames)
    BY <1>2, <1>5 DEF Catches
  <2>. QED
    BY <1>2, <2>1, <2>2, <2>3, <2>4, ThrowUncaught
<1>6. CASE C # {}
  <2>1. PICK o \in C : Innermost(C) = Val_int(o) /\ (\A q \in C : o <= q)
    BY <1>4, <1>6
  <2>2. o \in Nat /\ trapSp = Val_int(o)
    BY <1>2, <1>4, <2>1
  <2>3. PICK g \in H : IsOffset(o, g)
    BY <1>2, <2>1
  <2>4. /\ \E f, shape, y, low : /\ Leads(stack, V, A, H, o, g, f, shape, y, low)
                                 /\ frames' = FrameList(stack, f, shape, y, low)
        /\ last' = x /\ status' = status
    BY <2>2, <2>3, HandlerNow
  <2>5. PICK f, shape, y, low : /\ Leads(stack, V, A, H, o, g, f, shape, y, low)
                                /\ frames' = FrameList(stack, f, shape, y, low)
    BY <2>4
  <2>6. IsInnermost(C, o)
    BY <2>1 DEF IsInnermost
  <2>7. ThrowsTo(frames, FrameList(stack, f, shape, y, low))
    BY <1>2, <2>5, <2>6 DEF Catches
  <2>8. ThrowsTo(frames, frames')
    BY <2>5, <2>7
  <2>. QED
    BY <1>2, <2>4, <2>8, ThrowCaught
<1>. QED
  BY <1>5, <1>6

-----------------------------------------------------------------------------
(* The refinement.                                                         *)

LEMMA InitCalls ==
  ASSUME ReadInit
  PROVE  Calls!Init
<1>1. Init /\ Agrees
  BY DEF ReadInit, Agrees
<1>2. /\ pc = Body("main", <<>>) /\ stack = <<>> /\ acc = Val_unit /\ extra_args = 0 /\ status = "run"
  BY <1>1 DEF Init
<1>3. pc.fn = "main" /\ pc.at = "body" /\ pc.shape = <<>> /\ Len(stack) = 0
  BY <1>2 DEF Body, Point
<1>4. frames = FrameList(stack, "main", <<>>, 0, 0)
  <2>1. LaidOut
    BY <1>1, InitLaid
  <2>2. frames = FramesIn(pc, stack, extra_args, env)
    BY <1>1, <2>1, ReadNow DEF Agrees
  <2>. QED
    BY <1>2, <1>3, <2>2 DEF FramesIn
<1>5. LocalsOf(stack, <<>>, 0) = <<>>
  <2>1. LocalItems(stack, <<>>, 0) = <<>>
    BY DEF LocalItems
  <2>. QED
    BY <2>1, FlattenSmall DEF LocalsOf
<1>6. PendingOf(stack, <<>>, 0, 0) = <<>>
  BY DEF PendingOf
<1>7. PICK r : r = FrameRecord("main", <<>>, <<>>)
  OBVIOUS
<1>8. frames = <<r>> \o <<>>
  BY <1>4, <1>5, <1>6, <1>7 DEF FrameList, FrameOf
<1>9. <<r>> \o <<>> = <<r>>
  <2>1. <<r>> \in Seq({r})
    OBVIOUS
  <2>. QED
    BY <2>1, ConcatEmptySeq
<1>10. last = Val_unit
  BY <1>1, <1>2, <1>3, CurrentRead DEF Agrees, ValueNow
<1>. QED
  BY <1>2, <1>7, <1>8, <1>9, <1>10 DEF Calls!Init, Calls!Frame, Calls!Unit, FrameRecord, Val_unit, Val_int

\* An exception that the runtime raises.
LEMMA RaisedByRuntime ==
  ASSUME NEW V, NEW A, NEW H, Laid(V, A, H), LaidOut', Agrees, Agrees', status = "run",
         NEW x \in {OCAML_Stack_overflow, OCAML_Out_of_memory}, Raise(x)
  PROVE  Calls!Next
<1>1. Calls!Throw(x)
  BY RaiseCalls
<1>. QED
  BY <1>1 DEF Calls!Next

LEMMA OverflowCalls ==
  ASSUME NEW V, NEW A, NEW H, Laid(V, A, H), LaidOut', Agrees, Agrees', status = "run", Overflow
  PROVE  Calls!Next
<1>1. Raise(OCAML_Stack_overflow)
  BY DEF Overflow
<1>. QED
  BY <1>1, RaisedByRuntime

LEMMA SameRead ==
  ASSUME Agrees, UNCHANGED vars
  PROVE  CurrentFrames' = frames /\ CurrentValue' = last
<1>1. UNCHANGED <<pc, stack, acc, env, extra_args, status>>
  BY DEF vars
<1>2. CurrentFrames' = CurrentFrames
  BY <1>1, CurrentRead, CurrentReadNext
<1>3. CurrentValue' = CurrentValue
  BY <1>1, CurrentRead, CurrentReadNext
<1>. QED
  BY <1>2, <1>3 DEF Agrees

\* Every instruction is a step of the language or none.
LEMMA NextCalls ==
  ASSUME LaidOut, LaidOut', Agrees, Agrees', Next
  PROVE  Calls!Next \/ UNCHANGED <<frames, last, status>>
<1>1. PICK V, A, H : Laid(V, A, H)
  BY DEF LaidOut
<1>2. status = "run"
  BY DEF Next, Load, PUSH, POP, STOP, PUSH_RETADDR, APPLY, APPTERM, APPLYn, RETURN, RESTART, GRAB,
         PUSHTRAP, POPTRAP, RAISE, At
<1>3. CASE Load
  <2>1. \E x \in Calls!Loadable : Calls!Load(x)
    BY <1>1, <1>3, LoadsSome
  <2>. QED
    BY <1>2, <2>1 DEF Calls!Next
<1>4. CASE PUSH
  <2>1. CASE Fits(stack, 1)
    <3>1. Calls!Keep
      BY <1>1, <1>4, <2>1, PushesKeep
    <3>. QED
      BY <1>2, <3>1 DEF Calls!Next
  <2>2. CASE ~ Fits(stack, 1)
    <3>1. Overflow
      BY <1>4, <2>2 DEF PUSH
    <3>. QED
      BY <1>1, <1>2, <3>1, OverflowCalls
  <2>. QED
    BY <2>1, <2>2
<1>5. CASE POP
  <2>1. Calls!Drop
    BY <1>1, <1>5, PopsDrop
  <2>. QED
    BY <1>2, <2>1 DEF Calls!Next
<1>6. CASE STOP
  <2>1. Calls!Stop
    BY <1>1, <1>6, StopsAll
  <2>. QED
    BY <1>2, <2>1 DEF Calls!Next
<1>7. CASE PUSH_RETADDR
  <2>1. CASE Fits(stack, 3)
    BY <1>1, <1>7, <2>1, PushesRetaddr
  <2>2. CASE ~ Fits(stack, 3)
    <3>1. Overflow
      BY <1>7, <2>2 DEF PUSH_RETADDR
    <3>. QED
      BY <1>1, <1>2, <3>1, OverflowCalls
  <2>. QED
    BY <2>1, <2>2
<1>8. ASSUME NEW n \in 1 .. MaxShape, APPLY(n) PROVE Calls!Next
  <2>1. Calls!Call(n) /\ n \in 1 .. Len(Calls!Current.locals)
    BY <1>1, <1>8, ApplyCalls
  <2>. QED
    BY <1>2, <2>1 DEF Calls!Next
<1>9. ASSUME NEW n \in 1 .. MaxShape, APPTERM(n) PROVE Calls!Next
  <2>1. Calls!TailCall(n) /\ n \in 1 .. Len(Calls!Current.locals)
    BY <1>1, <1>9, ApptermCalls
  <2>. QED
    BY <1>2, <2>1 DEF Calls!Next
<1>10. ASSUME NEW n \in 1 .. 3, APPLYn(n) PROVE Calls!Next
  <2>1. CASE Fits(stack, 3)
    <3>1. Calls!Call(n) /\ n \in 1 .. Len(Calls!Current.locals)
      BY <1>1, <1>10, <2>1, ApplynCalls
    <3>. QED
      BY <1>2, <3>1 DEF Calls!Next
  <2>2. CASE ~ Fits(stack, 3)
    <3>1. Overflow
      BY <1>10, <2>2 DEF APPLYn
    <3>. QED
      BY <1>1, <1>2, <3>1, OverflowCalls
  <2>. QED
    BY <2>1, <2>2
<1>11. CASE RETURN
  <2>1. Calls!Return
    BY <1>1, <1>11, ReturnCalls
  <2>. QED
    BY <1>2, <2>1 DEF Calls!Next
<1>12. CASE RESTART
  <2>1. CASE Fits(stack, Len(env.args))
    BY <1>1, <1>12, <2>1, RestartStutters
  <2>2. CASE ~ Fits(stack, Len(env.args))
    <3>1. Overflow
      BY <1>12, <2>2 DEF RESTART
    <3>. QED
      BY <1>1, <1>2, <3>1, OverflowCalls
  <2>. QED
    BY <2>1, <2>2
<1>13. CASE GRAB
  <2>1. At("grab")
    BY <1>13 DEF GRAB
  <2>2. CASE /\ extra_args >= Arity[pc.fn] - 1 /\ extra_args' = extra_args - (Arity[pc.fn] - 1)
             /\ pc' = Body(pc.fn, Values(Arity[pc.fn] - 1 + 1)) /\ UNCHANGED <<stack, acc, status>>
    BY <1>1, <2>1, <2>2, GrabStutters
  <2>3. CASE /\ extra_args < Arity[pc.fn] - 1
             /\ acc' = MakeClosure(<<pc.fn, "restart">>, env, SubSeq(stack, 1, extra_args + 1))
             /\ ReturnTo(Popped(extra_args + 1)) /\ UNCHANGED status
    BY <1>1, <2>1, <2>3, GrabReturns
  <2>4. CASE Raise(OCAML_Out_of_memory)
    BY <1>1, <1>2, <2>4, RaisedByRuntime
  <2>. QED
    BY <1>13, <2>2, <2>3, <2>4 DEF GRAB
<1>14. CASE PUSHTRAP
  <2>1. CASE Fits(stack, 4)
    <3>1. Calls!Try
      BY <1>1, <1>14, <2>1, PushesTry
    <3>. QED
      BY <1>2, <3>1 DEF Calls!Next
  <2>2. CASE ~ Fits(stack, 4)
    <3>1. Overflow
      BY <1>14, <2>2 DEF PUSHTRAP
    <3>. QED
      BY <1>1, <1>2, <3>1, OverflowCalls
  <2>. QED
    BY <2>1, <2>2
<1>15. CASE POPTRAP
  <2>1. Calls!EndTry
    BY <1>1, <1>15, PopsTry
  <2>. QED
    BY <1>2, <2>1 DEF Calls!Next
<1>16. CASE RAISE
  <2>1. At("body") /\ Raise(acc)
    BY <1>16 DEF RAISE
  <2>2. last = acc
    BY <1>1, <2>1, BodyNow
  <2>3. Calls!Throw(acc)
    BY <1>1, <2>1, RaiseCalls
  <2>4. Calls!Throw(last)
    BY <2>2, <2>3
  <2>. QED
    BY <1>2, <2>4 DEF Calls!Next
<1>. QED
  BY <1>3, <1>4, <1>5, <1>6, <1>7, <1>8, <1>9, <1>10, <1>11, <1>12, <1>13, <1>14, <1>15, <1>16 DEF Next

\* Whatever program runs, the machine calls, returns and raises as the language says:
\* every instruction is a step of CurriedCalls on the frames read back from the stack,
\* or moves words that stand for no value (interp.c:466-673, 1487-1550).
THEOREM CallsImplemented == ReadSpec => ImplementsCalls
<1>1. ReadInit => Calls!Init /\ LaidOut /\ Agrees
  <2>1. ReadInit => Init
    BY DEF ReadInit
  <2>. QED
    BY <2>1, InitCalls, InitLaid DEF ReadInit, Agrees
<1>2. LaidOut /\ Agrees /\ [ReadNext]_<<vars, frames, last>> => (LaidOut /\ Agrees)'
  <2>1. SUFFICES ASSUME LaidOut, Agrees, [ReadNext]_<<vars, frames, last>>
                 PROVE  LaidOut' /\ Agrees'
    OBVIOUS
  <2>2. [Next]_vars
    BY <2>1 DEF ReadNext
  <2>3. LaidOut'
    BY <2>1, <2>2, NextLaid
  <2>4. CASE ReadNext
    BY <2>3, <2>4 DEF ReadNext, Agrees
  <2>5. CASE UNCHANGED <<vars, frames, last>>
    <3>1. CurrentFrames' = frames /\ CurrentValue' = last
      BY <2>1, <2>5, SameRead
    <3>. QED
      BY <2>3, <2>5, <3>1 DEF Agrees
  <2>. QED
    BY <2>1, <2>4, <2>5
<1>3. LaidOut /\ Agrees /\ (LaidOut /\ Agrees)' /\ [ReadNext]_<<vars, frames, last>>
        => [Calls!Next]_(Calls!vars)
  <2>1. SUFFICES ASSUME LaidOut, Agrees, LaidOut', Agrees', [ReadNext]_<<vars, frames, last>>
                 PROVE  Calls!Next \/ UNCHANGED <<frames, last, status>>
    BY DEF Calls!vars
  <2>2. CASE ReadNext
    <3>1. Next
      BY <2>2 DEF ReadNext
    <3>. QED
      BY <2>1, <3>1, NextCalls
  <2>3. CASE UNCHANGED <<vars, frames, last>>
    BY <2>3 DEF vars
  <2>. QED
    BY <2>1, <2>2, <2>3
<1>. QED
  BY <1>1, <1>2, <1>3, PTL DEF ReadSpec, ImplementsCalls
=============================================================================
