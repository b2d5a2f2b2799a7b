------------------------------ MODULE Elements ------------------------------
(***************************************************************************)
(* Sequences as the proofs see them: by the set of their elements, and by  *)
(* a relation R, a set of pairs, in which each element stands to the later *)
(* ones.                                                                   *)
(***************************************************************************)
EXTENDS Sequences, Integers, SequenceTheorems, TLAPS

Elems(s) == {s[i] : i \in 1..Len(s)}

Sorted(s, R) == \A i, j \in 1..Len(s) : i < j => <<s[i], s[j]>> \in R

LEMMA ElemsAppend ==
  ASSUME NEW S, NEW s \in Seq(S), NEW x \in S
  PROVE  Elems(Append(s, x)) = Elems(s) \cup {x}
<1>1. /\ Len(Append(s, x)) = Len(s) + 1 /\ Len(s) \in Nat
      /\ \A i \in 1..Len(s) : Append(s, x)[i] = s[i]
      /\ Append(s, x)[Len(s) + 1] = x
  BY AppendProperties, LenProperties
<1>2. 1 .. Len(s) + 1 = 1..Len(s) \cup {Len(s) + 1}
  BY <1>1
<1> QED
  BY <1>1, <1>2 DEF Elems

LEMMA ElemsTail ==
  ASSUME NEW S, NEW s \in Seq(S), s # <<>>
  PROVE  Elems(s) = {Head(s)} \cup Elems(Tail(s))
<1>1. /\ Len(Tail(s)) = Len(s) - 1 /\ Len(s) \in Nat \ {0} /\ Head(s) = s[1]
      /\ \A i \in 1..Len(Tail(s)) : Tail(s)[i] = s[i + 1]
  BY HeadTailProperties, EmptySeq
<1>2. ASSUME NEW x \in Elems(s) PROVE x \in {Head(s)} \cup Elems(Tail(s))
  <2>1. PICK i \in 1..Len(s) : x = s[i]
    BY <1>2 DEF Elems
  <2>2. CASE i = 1
    BY <1>1, <2>1, <2>2
  <2>3. CASE i # 1
    <3>1. i - 1 \in 1..Len(Tail(s)) /\ (i - 1) + 1 = i
      BY <1>1, <2>3
    <3>2. Tail(s)[i - 1] = x
      BY <1>1, <2>1, <3>1
    <3> QED
      BY <3>1, <3>2 DEF Elems
  <2> QED
    BY <2>2, <2>3
<1>3. Head(s) \in Elems(s)
  <2>1. 1 \in 1..Len(s)
    BY <1>1
  <2> QED
    BY <1>1, <2>1 DEF Elems
<1>4. ASSUME NEW x \in Elems(Tail(s)) PROVE x \in Elems(s)
  <2>1. PICK i \in 1..Len(Tail(s)) : x = Tail(s)[i]
    BY <1>4 DEF Elems
  <2>2. i + 1 \in 1..Len(s) /\ s[i + 1] = x
    BY <1>1, <2>1
  <2> QED
    BY <2>2 DEF Elems
<1> QED
  BY <1>2, <1>3, <1>4

LEMMA ElemsTyped ==
  ASSUME NEW S, NEW s \in Seq(S)
  PROVE  Elems(s) \subseteq S /\ Elems(<<>>) = {}
<1>1. \A i \in 1..Len(s) : s[i] \in S
  BY ElementOfSeq
<1>2. Len(<<>>) = 0
  BY EmptySeq
<1> QED
  BY <1>1, <1>2 DEF Elems

LEMMA SortedAppend ==
  ASSUME NEW S, NEW s \in Seq(S), NEW x \in S, NEW R, Sorted(s, R),
         \A y \in Elems(s) : <<y, x>> \in R
  PROVE  Sorted(Append(s, x), R)
<1>1. /\ Len(Append(s, x)) = Len(s) + 1 /\ Len(s) \in Nat
      /\ \A i \in 1..Len(s) : Append(s, x)[i] = s[i]
      /\ Append(s, x)[Len(s) + 1] = x
  BY AppendProperties, LenProperties
<1> SUFFICES ASSUME NEW i \in 1 .. Len(s) + 1, NEW j \in 1 .. Len(s) + 1, i < j
             PROVE  <<Append(s, x)[i], Append(s, x)[j]>> \in R
  BY <1>1 DEF Sorted
<1>2. i \in 1..Len(s) /\ s[i] \in Elems(s)
  BY <1>1 DEF Elems
<1>3. CASE j = Len(s) + 1
  BY <1>1, <1>2, <1>3
<1>4. CASE j # Len(s) + 1
  <2>1. j \in 1..Len(s)
    BY <1>1, <1>4
  <2> QED
    BY <1>1, <1>2, <2>1 DEF Sorted
<1> QED
  BY <1>3, <1>4

LEMMA SortedTail ==
  ASSUME NEW S, NEW s \in Seq(S), s # <<>>, NEW R, Sorted(s, R)
  PROVE  Sorted(Tail(s), R) /\ \A y \in Elems(Tail(s)) : <<Head(s), y>> \in R
<1>1. /\ Len(Tail(s)) = Len(s) - 1 /\ Len(s) \in Nat \ {0} /\ Head(s) = s[1]
      /\ \A i \in 1..Len(Tail(s)) : Tail(s)[i] = s[i + 1]
  BY HeadTailProperties, EmptySeq
<1>2. \A i \in 1..Len(Tail(s)) : i + 1 \in 1..Len(s) /\ 1 < i + 1
  BY <1>1
<1>3. \A i, j \in 1..Len(Tail(s)) : i < j => i + 1 < j + 1
  BY <1>1
<1>4. Sorted(Tail(s), R)
  BY <1>1, <1>2, <1>3 DEF Sorted
<1>5. 1 \in 1..Len(s)
  BY <1>1
<1>6. \A i \in 1..Len(Tail(s)) : <<Head(s), Tail(s)[i]>> \in R
  BY <1>1, <1>2, <1>5 DEF Sorted
<1> QED
  BY <1>4, <1>6 DEF Elems

LEMMA SortedEmpty == \A R : Sorted(<<>>, R)
<1>1. Len(<<>>) = 0
  BY EmptySeq
<1> QED
  BY <1>1 DEF Sorted

LEMMA ElemsConcat ==
  ASSUME NEW S, NEW s \in Seq(S), NEW u \in Seq(S)
  PROVE  Elems(s \o u) = Elems(s) \cup Elems(u)
<1>1. /\ Len(s \o u) = Len(s) + Len(u) /\ Len(s) \in Nat /\ Len(u) \in Nat
      /\ \A i \in 1 .. Len(s) + Len(u) : (s \o u)[i] = IF i <= Len(s) THEN s[i] ELSE u[i - Len(s)]
  BY ConcatProperties, LenProperties
<1>2. ASSUME NEW x \in Elems(s \o u) PROVE x \in Elems(s) \cup Elems(u)
  <2>1. PICK i \in 1 .. Len(s) + Len(u) : x = (s \o u)[i]
    BY <1>1, <1>2 DEF Elems
  <2>2. CASE i <= Len(s)
    BY <1>1, <2>1, <2>2 DEF Elems
  <2>3. CASE i > Len(s)
    <3>1. i - Len(s) \in 1..Len(u) /\ x = u[i - Len(s)]
      BY <1>1, <2>1, <2>3
    <3> QED
      BY <3>1 DEF Elems
  <2> QED
    BY <1>1, <2>2, <2>3
<1>3. ASSUME NEW x \in Elems(s) PROVE x \in Elems(s \o u)
  <2>1. PICK i \in 1..Len(s) : x = s[i]
    BY <1>3 DEF Elems
  <2>2. i \in 1 .. Len(s) + Len(u) /\ (s \o u)[i] = x
    BY <1>1, <2>1
  <2> QED
    BY <1>1, <2>2 DEF Elems
<1>4. ASSUME NEW x \in Elems(u) PROVE x \in Elems(s \o u)
  <2>1. PICK i \in 1..Len(u) : x = u[i]
    BY <1>4 DEF Elems
  <2>2. i + Len(s) \in 1 .. Len(s) + Len(u) /\ (s \o u)[i + Len(s)] = x
    BY <1>1, <2>1
  <2> QED
    BY <1>1, <2>2 DEF Elems
<1> QED
  BY <1>2, <1>3, <1>4

LEMMA SortedConcat ==
  ASSUME NEW S, NEW s \in Seq(S), NEW u \in Seq(S), NEW R
  PROVE  Sorted(s \o u, R) <=> /\ Sorted(s, R) /\ Sorted(u, R)
                               /\ \A x \in Elems(s), y \in Elems(u) : <<x, y>> \in R
<1>1. /\ Len(s \o u) = Len(s) + Len(u) /\ Len(s) \in Nat /\ Len(u) \in Nat
      /\ \A i \in 1 .. Len(s) + Len(u) : (s \o u)[i] = IF i <= Len(s) THEN s[i] ELSE u[i - Len(s)]
  BY ConcatProperties, LenProperties
<1>2. /\ \A i \in 1..Len(s) : i \in 1 .. Len(s) + Len(u) /\ (s \o u)[i] = s[i]
      /\ \A i \in 1..Len(u) : /\ i + Len(s) \in 1 .. Len(s) + Len(u)
                              /\ (s \o u)[i + Len(s)] = u[i]
  BY <1>1
<1>3. ASSUME Sorted(s \o u, R)
      PROVE  /\ Sorted(s, R) /\ Sorted(u, R)
             /\ \A x \in Elems(s), y \in Elems(u) : <<x, y>> \in R
  <2>1. Sorted(s, R)
    BY <1>1, <1>2, <1>3 DEF Sorted
  <2>2. ASSUME NEW i \in 1..Len(u), NEW j \in 1..Len(u), i < j PROVE <<u[i], u[j]>> \in R
    <3>1. i + Len(s) < j + Len(s)
      BY <1>1, <2>2
    <3> QED
      BY <1>1, <1>2, <1>3, <3>1 DEF Sorted
  <2>3. ASSUME NEW i \in 1..Len(s), NEW j \in 1..Len(u) PROVE <<s[i], u[j]>> \in R
    <3>1. i < j + Len(s)
      BY <1>1
    <3> QED
      BY <1>1, <1>2, <1>3, <3>1 DEF Sorted
  <2> QED
    BY <2>1, <2>2, <2>3 DEF Sorted, Elems
<1>4. ASSUME Sorted(s, R), Sorted(u, R), \A x \in Elems(s), y \in Elems(u) : <<x, y>> \in R,
             NEW i \in 1 .. Len(s) + Len(u), NEW j \in 1 .. Len(s) + Len(u), i < j
      PROVE  <<(s \o u)[i], (s \o u)[j]>> \in R
  <2>1. CASE j <= Len(s)
    BY <1>1, <1>4, <2>1 DEF Sorted
  <2>2. CASE i > Len(s)
    <3>1. /\ i - Len(s) \in 1..Len(u) /\ j - Len(s) \in 1..Len(u) /\ i - Len(s) < j - Len(s)
          /\ (s \o u)[i] = u[i - Len(s)] /\ (s \o u)[j] = u[j - Len(s)]
      BY <1>1, <1>4, <2>2
    <3> QED
      BY <1>4, <3>1 DEF Sorted
  <2>3. CASE i <= Len(s) /\ j > Len(s)
    <3>1. /\ i \in 1..Len(s) /\ j - Len(s) \in 1..Len(u)
          /\ (s \o u)[i] = s[i] /\ (s \o u)[j] = u[j - Len(s)]
      BY <1>1, <2>3
    <3> QED
      BY <1>4, <3>1 DEF Elems
  <2>4. i <= Len(s) \/ i > Len(s)
    BY <1>1
  <2>5. j <= Len(s) \/ j > Len(s)
    BY <1>1
  <2> QED
    BY <2>1, <2>2, <2>3, <2>4, <2>5
<1> QED
  BY <1>1, <1>3, <1>4 DEF Sorted

(* Cutting a sequence in two.                                              *)
LEMMA Cut ==
  ASSUME NEW S, NEW s \in Seq(S), NEW k \in 0..Len(s)
  PROVE  /\ SubSeq(s, 1, k) \in Seq(S) /\ SubSeq(s, k + 1, Len(s)) \in Seq(S)
         /\ s = SubSeq(s, 1, k) \o SubSeq(s, k + 1, Len(s))
<1>1. Len(s) \in Nat /\ k \in Nat
  BY LenProperties
<1>2. SubSeq(s, 1, k) \in Seq(S) /\ SubSeq(s, k + 1, Len(s)) \in Seq(S)
  BY <1>1, SubSeqProperties
<1>3. 1 \in 1 .. Len(s) + 1 /\ k \in (1 - 1)..Len(s) /\ Len(s) \in k..Len(s)
  BY <1>1
<1>4. SubSeq(s, 1, k) \o SubSeq(s, k + 1, Len(s)) = SubSeq(s, 1, Len(s))
  BY <1>3, ConcatAdjacentSubSeq
<1> QED
  BY <1>2, <1>4, SubSeqFull
=============================================================================
