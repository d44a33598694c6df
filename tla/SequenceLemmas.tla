--------------------------- MODULE SequenceLemmas ---------------------------
(***************************************************************************)
(* Induction over numbers and sequences, and what Keep leaves of a         *)
(* sequence.  An induction is over a set, that of the numbers or of the    *)
(* sequences for which something holds: that the less-than relation is     *)
(* well founded gives a least number outside it.                           *)
(***************************************************************************)
EXTENDS Subsequences, SequenceTheorems, WellFoundedInduction, TLAPS

-----------------------------------------------------------------------------
(* Induction, with the sets of the numbers and of the sequences for which   *)
(* something holds.                                                         *)

\* A set of natural numbers that is not empty has a least element.
LEMMA LeastNumber ==
  ASSUME NEW T, T \subseteq Nat, T # {}
  PROVE  \E x \in T : \A y \in T : x <= y
<1> DEFINE R == OpToRel(<, Nat)
<1>1. IsWellFoundedOn(R, Nat)
  BY NatLessThanWellFounded, Zenon
<1>2. PICK x \in T : \A y \in T : ~(<<y, x>> \in R)
  <2> HIDE DEF R
  <2> QED
    BY <1>1, WFMin
<1>3. \A y \in Nat, z \in Nat : y < z => <<y, z>> \in R
  BY DEF OpToRel
<1>4. \A y \in T : ~(y < x)
  <2> HIDE DEF R
  <2> QED
    BY <1>2, <1>3
<1> QED
  BY <1>4

\* Induction over the natural numbers.
LEMMA NumberInduction ==
  ASSUME NEW T, 0 \in T, \A n \in Nat : n \in T => n + 1 \in T
  PROVE  Nat \subseteq T
<1> SUFFICES ASSUME Nat \ T # {} PROVE FALSE
  OBVIOUS
<1>1. PICK x \in Nat \ T : \A y \in Nat \ T : x <= y
  BY LeastNumber
<1>2. x - 1 \in Nat /\ x - 1 \notin T
  BY <1>1
<1> QED
  BY <1>1, <1>2

\* Induction over sequences that grow at their end.
LEMMA SequenceInduction ==
  ASSUME NEW V, NEW T, <<>> \in T,
         \A s \in Seq(V), x \in V : s \in T => Append(s, x) \in T
  PROVE  Seq(V) \subseteq T
<1> DEFINE N == {n \in Nat : \A s \in Seq(V) : Len(s) = n => s \in T}
<1>1. 0 \in N
  BY EmptySeq
<1>2. ASSUME NEW n \in Nat, n \in N
      PROVE  n + 1 \in N
  <2> SUFFICES ASSUME NEW s \in Seq(V), Len(s) = n + 1
               PROVE  s \in T
    OBVIOUS
  <2>1. s # <<>>
    BY EmptySeq
  <2>2. PICK r \in Seq(V), x \in V : s = Append(r, x)
    BY <2>1, SequenceEmptyOrAppend
  <2>3. Len(r) \in Nat /\ Len(s) = Len(r) + 1
    BY <2>2, AppendProperties, LenProperties
  <2>4. r \in T
    BY <1>2, <2>3
  <2> QED
    BY <2>2, <2>4
<1>3. Nat \subseteq N
  <2> HIDE DEF N
  <2> QED
    BY <1>1, <1>2, NumberInduction
<1> QED
  BY <1>3, LenProperties

-----------------------------------------------------------------------------
(* The samples that are kept.                                               *)

\* The recursive function of Keep, over the first n elements: it exists.
KeepStep(f, s, S, i) ==
    IF i = 0 THEN <<>>
    ELSE IF s[i] \in S THEN Append(f[i - 1], s[i]) ELSE f[i - 1]
KeepsUpTo(f, s, S, n) == f = [i \in 0..n |-> KeepStep(f, s, S, i)]

\* Its equation, at each number.
LEMMA KeepsStepwise ==
  ASSUME NEW s, NEW S, NEW n \in Nat, NEW f, KeepsUpTo(f, s, S, n)
  PROVE  \A i \in 0..n : f[i] = KeepStep(f, s, S, i)
BY DEF KeepsUpTo

\* It exists: by induction, one more number at a time.
LEMMA KeepExists ==
  ASSUME NEW s, NEW S, NEW len \in Nat
  PROVE  \E f : KeepsUpTo(f, s, S, len)
<1> DEFINE T == {n \in Nat : \E f : KeepsUpTo(f, s, S, n)}
<1>1. 0 \in T
  <2> DEFINE f == [i \in 0..0 |-> <<>>]
  <2>1. KeepsUpTo(f, s, S, 0)
    BY DEF KeepsUpTo, KeepStep
  <2> QED
    BY <2>1
<1>2. ASSUME NEW n \in Nat, n \in T
      PROVE  n + 1 \in T
  <2>1. PICK f : KeepsUpTo(f, s, S, n)
    BY <1>2
  <2> DEFINE g == [i \in 0..(n + 1) |-> IF i <= n THEN f[i] ELSE KeepStep(f, s, S, n + 1)]
  <2>2. ASSUME NEW i \in 0..(n + 1)
        PROVE  g[i] = KeepStep(g, s, S, i)
    <3>1. i <= n => f[i] = KeepStep(f, s, S, i)
      BY <2>1, KeepsStepwise
    <3>2. i # 0 => g[i - 1] = f[i - 1]
      OBVIOUS
    <3>3. KeepStep(g, s, S, i) = KeepStep(f, s, S, i)
      BY <3>2 DEF KeepStep
    <3> QED
      BY <3>1, <3>3
  <2>3. g = [i \in 0..(n + 1) |-> g[i]]
    OBVIOUS
  <2>4. KeepsUpTo(g, s, S, n + 1)
    <3> HIDE DEF g
    <3> QED
      BY <2>2, <2>3 DEF KeepsUpTo
  <2> QED
    BY <2>4
<1>3. len \in T
  <2> HIDE DEF T
  <2> QED
    BY <1>1, <1>2, NumberInduction
<1> QED
  BY <1>3

KeepsBy(f, s, S) ==
    /\ Keep(s, S) = f[Len(s)]
    /\ \A i \in 0..Len(s) : f[i] = KeepStep(f, s, S, i)

\* Keep is the last value of that function.
LEMMA KeepStepwise ==
  ASSUME NEW V, NEW s \in Seq(V), NEW S
  PROVE  \E f : KeepsBy(f, s, S)
<1>1. Len(s) \in Nat
  BY LenProperties
<1> DEFINE f == CHOOSE g : KeepsUpTo(g, s, S, Len(s))
<1>2. KeepsUpTo(f, s, S, Len(s))
  BY <1>1, KeepExists, Zenon
<1>3. Keep(s, S) = f[Len(s)]
  BY DEF Keep, KeepsUpTo, KeepStep
<1> HIDE DEF f
<1>4. KeepsBy(f, s, S)
  BY <1>1, <1>2, <1>3, KeepsStepwise DEF KeepsBy
<1> QED
  BY <1>4

\* Keep of nothing, and of a sequence with one element more.
LEMMA KeepOfNone ==
  ASSUME NEW S PROVE Keep(<<>>, S) = <<>>
<1>1. <<>> \in Seq({}) /\ Len(<<>>) = 0
  BY EmptySeq
<1>2. PICK f : KeepsBy(f, <<>>, S)
  BY <1>1, KeepStepwise
<1>3. /\ Keep(<<>>, S) = f[Len(<<>>)]
      /\ \A i \in 0..Len(<<>>) : f[i] = KeepStep(f, <<>>, S, i)
  BY <1>2 DEF KeepsBy
<1> QED
  BY <1>1, <1>3 DEF KeepStep

LEMMA KeepOfAppend ==
  ASSUME NEW V, NEW s \in Seq(V), NEW x \in V, NEW S
  PROVE  Keep(Append(s, x), S) = IF x \in S THEN Append(Keep(s, S), x) ELSE Keep(s, S)
<1> DEFINE t == Append(s, x)
<1>1. /\ Len(s) \in Nat /\ t \in Seq(V) /\ Len(t) = Len(s) + 1
      /\ \A i \in 1..Len(s) : t[i] = s[i]
      /\ t[Len(s) + 1] = x
  BY AppendProperties, LenProperties
<1>2. PICK f : KeepsBy(f, s, S)
  BY KeepStepwise
<1> HIDE DEF t
<1>3. PICK g : KeepsBy(g, t, S)
  BY <1>1, KeepStepwise
<1> USE DEF KeepsBy
<1> DEFINE T == {n \in Nat : n <= Len(s) => f[n] = g[n]}
<1>4. Len(s) \in T
  <2>1. 0 \in T
    BY <1>1, <1>2, <1>3 DEF KeepStep
  <2>2. ASSUME NEW n \in Nat, n \in T PROVE n + 1 \in T
    <3> SUFFICES ASSUME n + 1 <= Len(s) PROVE f[n + 1] = g[n + 1]
      OBVIOUS
    <3>1. n + 1 \in 1..Len(s) /\ n + 1 \in 0..Len(t) /\ (n + 1) - 1 = n
      BY <1>1
    <3>2. f[n] = g[n] /\ t[n + 1] = s[n + 1]
      BY <1>1, <2>2, <3>1
    <3> QED
      BY <1>2, <1>3, <3>1, <3>2 DEF KeepStep
  <2> HIDE DEF T
  <2> QED
    BY <1>1, <2>1, <2>2, NumberInduction
<1>5. g[Len(s) + 1] = IF x \in S THEN Append(g[Len(s)], x) ELSE g[Len(s)]
  <2>1. Len(s) + 1 \in 0..Len(t) /\ (Len(s) + 1) - 1 = Len(s) /\ Len(s) + 1 # 0
    BY <1>1
  <2> QED
    BY <1>1, <1>3, <2>1 DEF KeepStep
<1>6. f[Len(s)] = g[Len(s)]
  BY <1>4
<1> QED
  BY <1>1, <1>2, <1>3, <1>5, <1>6 DEF t

\* What an append adds to the elements of a sequence.
LEMMA RangeOfAppend ==
  ASSUME NEW V, NEW s \in Seq(V), NEW x \in V
  PROVE  Range(Append(s, x)) = Range(s) \cup {x}
<1>1. /\ Len(s) \in Nat /\ Append(s, x) \in Seq(V) /\ Len(Append(s, x)) = Len(s) + 1
      /\ \A i \in 1..Len(s) : Append(s, x)[i] = s[i]
      /\ Append(s, x)[Len(s) + 1] = x
  BY AppendProperties, LenProperties
<1>2. /\ Range(Append(s, x)) = {Append(s, x)[i] : i \in 1..(Len(s) + 1)}
      /\ Range(s) = {s[i] : i \in 1..Len(s)}
  BY <1>1, RangeEquality
<1>3. 1..(Len(s) + 1) = 1..Len(s) \cup {Len(s) + 1}
  BY <1>1
<1> QED
  BY <1>1, <1>2, <1>3

\* Nothing has no elements.
LEMMA RangeOfNone == Range(<<>>) = {}
BY DEF Range

\* Those elements are kept that are in the set, each in its sequence.
LEMMA KeepElements ==
  ASSUME NEW V, NEW S, NEW s \in Seq(V)
  PROVE  /\ Keep(s, S) \in Seq(V)
         /\ Len(Keep(s, S)) <= Len(s)
         /\ Range(Keep(s, S)) = Range(s) \cap S
<1> DEFINE T == {r \in Seq(V) : /\ Keep(r, S) \in Seq(V)
                                /\ Len(Keep(r, S)) <= Len(r)
                                /\ Range(Keep(r, S)) = Range(r) \cap S}
<1>1. <<>> \in T
  <2>1. <<>> \in Seq(V) /\ Len(<<>>) = 0 /\ Keep(<<>>, S) = <<>> /\ Range(<<>>) = {}
    BY KeepOfNone, EmptySeq, RangeOfNone
  <2>2. Len(Keep(<<>>, S)) <= Len(<<>>) /\ Range(Keep(<<>>, S)) = Range(<<>>) \cap S
    BY <2>1
  <2> QED
    BY <2>1, <2>2, Zenon
<1>2. ASSUME NEW r \in Seq(V), NEW x \in V, r \in T
      PROVE  Append(r, x) \in T
  <2>1. /\ Append(r, x) \in Seq(V) /\ Len(Append(r, x)) = Len(r) + 1
        /\ Len(r) \in Nat /\ Range(Append(r, x)) = Range(r) \cup {x}
    BY AppendProperties, LenProperties, RangeOfAppend
  <2>2. /\ Keep(r, S) \in Seq(V) /\ Len(Keep(r, S)) \in Nat /\ Len(Keep(r, S)) <= Len(r)
        /\ Range(Keep(r, S)) = Range(r) \cap S
    BY <1>2, LenProperties
  <2>3. CASE x \in S
    <3>1. Keep(Append(r, x), S) = Append(Keep(r, S), x)
      BY <2>3, KeepOfAppend
    <3>2. /\ Append(Keep(r, S), x) \in Seq(V)
          /\ Len(Append(Keep(r, S), x)) = Len(Keep(r, S)) + 1
          /\ Range(Append(Keep(r, S), x)) = Range(Keep(r, S)) \cup {x}
      BY <2>2, AppendProperties, RangeOfAppend
    <3>3. Range(Keep(Append(r, x), S)) = Range(Append(r, x)) \cap S
      BY <2>1, <2>2, <2>3, <3>1, <3>2
    <3>4. Len(Keep(Append(r, x), S)) <= Len(Append(r, x))
      BY <2>1, <2>2, <3>1, <3>2
    <3> QED
      BY <2>1, <3>1, <3>2, <3>3, <3>4
  <2>4. CASE x \notin S
    <3>1. Keep(Append(r, x), S) = Keep(r, S)
      BY <2>4, KeepOfAppend
    <3> QED
      BY <2>1, <2>2, <2>4, <3>1
  <2> QED
    BY <2>3, <2>4
<1> HIDE DEF T
<1>3. s \in T
  BY <1>1, <1>2, SequenceInduction
<1> QED
  BY <1>3 DEF T

\* Sets that have the same elements of a sequence keep the same.
LEMMA KeepSame ==
  ASSUME NEW V, NEW S, NEW R, NEW s \in Seq(V), Range(s) \cap S = Range(s) \cap R
  PROVE  Keep(s, S) = Keep(s, R)
<1> DEFINE T == {r \in Seq(V) : Range(r) \cap S = Range(r) \cap R => Keep(r, S) = Keep(r, R)}
<1>1. <<>> \in T
  BY KeepOfNone, EmptySeq
<1>2. ASSUME NEW r \in Seq(V), NEW x \in V, r \in T
      PROVE  Append(r, x) \in T
  <2>1. Append(r, x) \in Seq(V) /\ Range(Append(r, x)) = Range(r) \cup {x}
    BY AppendProperties, RangeOfAppend
  <2>2. ASSUME Range(Append(r, x)) \cap S = Range(Append(r, x)) \cap R
        PROVE  Keep(Append(r, x), S) = Keep(Append(r, x), R)
    <3>1. (x \in S <=> x \in R) /\ Range(r) \cap S = Range(r) \cap R
      BY <2>1, <2>2
    <3>2. Keep(r, S) = Keep(r, R)
      BY <1>2, <3>1
    <3>3. /\ Keep(Append(r, x), S) = IF x \in S THEN Append(Keep(r, S), x) ELSE Keep(r, S)
          /\ Keep(Append(r, x), R) = IF x \in R THEN Append(Keep(r, R), x) ELSE Keep(r, R)
      BY KeepOfAppend
    <3> QED
      BY <3>1, <3>2, <3>3
  <2> QED
    BY <2>1, <2>2
<1> HIDE DEF T
<1>3. s \in T
  BY <1>1, <1>2, SequenceInduction
<1> QED
  BY <1>3 DEF T

\* All is kept of a sequence of elements of the set, and nothing of one of others.
LEMMA KeepAll ==
  ASSUME NEW V, NEW S, NEW s \in Seq(V), Range(s) \subseteq S
  PROVE  Keep(s, S) = s
<1> DEFINE T == {r \in Seq(V) : Range(r) \subseteq S => Keep(r, S) = r}
<1>1. <<>> \in T
  BY KeepOfNone, EmptySeq
<1>2. ASSUME NEW r \in Seq(V), NEW x \in V, r \in T
      PROVE  Append(r, x) \in T
  <2>1. Append(r, x) \in Seq(V) /\ Range(Append(r, x)) = Range(r) \cup {x}
    BY AppendProperties, RangeOfAppend
  <2> QED
    BY <1>2, <2>1, KeepOfAppend
<1> HIDE DEF T
<1>3. s \in T
  BY <1>1, <1>2, SequenceInduction
<1> QED
  BY <1>3 DEF T

\* Nothing is kept of a sequence without elements of the set.
LEMMA KeepNone ==
  ASSUME NEW V, NEW S, NEW s \in Seq(V), Range(s) \cap S = {}
  PROVE  Keep(s, S) = <<>>
<1>1. Keep(s, S) \in Seq(V) /\ Range(Keep(s, S)) = {}
  BY KeepElements
<1>2. ASSUME Len(Keep(s, S)) # 0 PROVE FALSE
  <2>1. Len(Keep(s, S)) \in Nat /\ 1 \in 1..Len(Keep(s, S))
    BY <1>1, <1>2, LenProperties
  <2>2. Range(Keep(s, S)) = {Keep(s, S)[i] : i \in 1..Len(Keep(s, S))}
    BY <1>1, RangeEquality
  <2> QED
    BY <1>1, <2>1, <2>2
<1> QED
  BY <1>1, <1>2, EmptySeq

\* An append to the second of two sequences is one to both.
LEMMA AppendOfConcat ==
  ASSUME NEW V, NEW s \in Seq(V), NEW r \in Seq(V), NEW x \in V
  PROVE  s \o Append(r, x) = Append(s \o r, x)
<1>1. s \o r \in Seq(V) /\ <<x>> \in Seq(V)
  BY ConcatProperties
<1>2. Append(r, x) = r \o <<x>> /\ Append(s \o r, x) = (s \o r) \o <<x>>
  BY <1>1, AppendIsConcat
<1> QED
  BY <1>1, <1>2, ConcatAssociative

\* What is kept of two sequences is kept of each.
LEMMA KeepConcat ==
  ASSUME NEW V, NEW S, NEW s \in Seq(V), NEW t \in Seq(V)
  PROVE  Keep(s \o t, S) = Keep(s, S) \o Keep(t, S)
<1> DEFINE T == {r \in Seq(V) : Keep(s \o r, S) = Keep(s, S) \o Keep(r, S)}
<1>1. Keep(s, S) \in Seq(V)
  BY KeepElements
<1>2. <<>> \in T
  BY <1>1, KeepOfNone, EmptySeq, ConcatEmptySeq
<1>3. ASSUME NEW r \in Seq(V), NEW x \in V, r \in T
      PROVE  Append(r, x) \in T
  <2>1. Append(r, x) \in Seq(V) /\ s \o r \in Seq(V) /\ <<x>> \in Seq(V)
    BY AppendProperties, ConcatProperties
  <2>2. s \o Append(r, x) = Append(s \o r, x)
    BY AppendOfConcat
  <2>3. Keep(r, S) \in Seq(V)
    BY KeepElements
  <2>4. Keep(s, S) \o Append(Keep(r, S), x) = Append(Keep(s, S) \o Keep(r, S), x)
    BY SMTT(60), <1>1, <2>3, AppendOfConcat
  <2>5. /\ Keep(Append(s \o r, x), S) =
              IF x \in S THEN Append(Keep(s \o r, S), x) ELSE Keep(s \o r, S)
        /\ Keep(Append(r, x), S) = IF x \in S THEN Append(Keep(r, S), x) ELSE Keep(r, S)
    BY <2>1, KeepOfAppend
  <2>6. Keep(s \o r, S) = Keep(s, S) \o Keep(r, S)
    BY <1>3
  <2>7. Keep(s \o Append(r, x), S) = Keep(s, S) \o Keep(Append(r, x), S)
    BY <2>2, <2>4, <2>5, <2>6
  <2> QED
    BY <2>1, <2>7
<1> HIDE DEF T
<1>4. t \in T
  BY <1>2, <1>3, SequenceInduction
<1> QED
  BY <1>4 DEF T

\* What is kept twice is in both sets.
LEMMA KeepTwice ==
  ASSUME NEW V, NEW S, NEW R, NEW s \in Seq(V)
  PROVE  Keep(Keep(s, S), R) = Keep(s, S \cap R)
<1> DEFINE T == {r \in Seq(V) : Keep(Keep(r, S), R) = Keep(r, S \cap R)}
<1>1. <<>> \in T
  BY KeepOfNone, EmptySeq
<1>2. ASSUME NEW r \in Seq(V), NEW x \in V, r \in T
      PROVE  Append(r, x) \in T
  <2>1. Append(r, x) \in Seq(V) /\ Keep(r, S) \in Seq(V)
    BY AppendProperties, KeepElements
  <2>2. Keep(Append(r, x), S) = IF x \in S THEN Append(Keep(r, S), x) ELSE Keep(r, S)
    BY KeepOfAppend
  <2>3. Keep(Append(Keep(r, S), x), R) =
          IF x \in R THEN Append(Keep(Keep(r, S), R), x) ELSE Keep(Keep(r, S), R)
    BY <2>1, KeepOfAppend
  <2>4. Keep(Append(r, x), S \cap R) =
          IF x \in S \cap R THEN Append(Keep(r, S \cap R), x) ELSE Keep(r, S \cap R)
    BY KeepOfAppend
  <2>5. Keep(Keep(r, S), R) = Keep(r, S \cap R)
    BY <1>2
  <2>6. Keep(Keep(Append(r, x), S), R) = Keep(Append(r, x), S \cap R)
    <3>1. CASE x \in S
      <4>1. Keep(Append(r, x), S) = Append(Keep(r, S), x)
        BY <2>2, <3>1, Zenon
      <4>2. x \in S \cap R <=> x \in R
        BY <3>1
      <4>3. CASE x \in R
        BY <2>3, <2>4, <2>5, <4>1, <4>2, <4>3, Zenon
      <4>4. CASE x \notin R
        BY <2>3, <2>4, <2>5, <4>1, <4>2, <4>4, Zenon
      <4> QED
        BY <4>3, <4>4
    <3>2. CASE x \notin S
      <4>1. x \notin S \cap R
        BY <3>2
      <4> QED
        BY <2>2, <2>4, <2>5, <3>2, <4>1, Zenon
    <3> QED
      BY <3>1, <3>2
  <2> QED
    BY <2>1, <2>6
<1> HIDE DEF T
<1>3. s \in T
  BY <1>1, <1>2, SequenceInduction
<1> QED
  BY <1>3 DEF T

\* What was kept can be told by its elements.
LEMMA OwnKept ==
  ASSUME NEW V, NEW X, NEW s \in Seq(V)
  PROVE  Keep(s, Range(Keep(s, X))) = Keep(s, X)
<1>1. Range(Keep(s, X)) = Range(s) \cap X
  BY KeepElements
<1> QED
  BY <1>1, KeepSame

-----------------------------------------------------------------------------
(* Parts of sequences, and whole batches.                                   *)

\* What is taken from the front of two sequences, if it is all of the first.
LEMMA FrontOfConcat ==
  ASSUME NEW V, NEW p \in Seq(V), NEW s \in Seq(V), NEW n \in Len(p)..(Len(p) + Len(s))
  PROVE  /\ SubSeq(p \o s, 1, n) = p \o SubSeq(s, 1, n - Len(p))
         /\ SubSeq(s, 1, n - Len(p)) \in Seq(V)
         /\ Len(SubSeq(s, 1, n - Len(p))) = n - Len(p)
         /\ \A i \in 1..(n - Len(p)) : SubSeq(s, 1, n - Len(p))[i] = s[i]
<1> DEFINE k == n - Len(p)
           l == SubSeq(p \o s, 1, n)
           f == SubSeq(s, 1, k)
           r == p \o f
<1>1. Len(p) \in Nat /\ Len(s) \in Nat /\ n \in Nat /\ k \in Nat /\ k <= Len(s)
  BY LenProperties
<1>2. /\ Len(p \o s) = Len(p) + Len(s) /\ p \o s \in Seq(V)
      /\ \A i \in 1..(Len(p) + Len(s)) :
           (p \o s)[i] = IF i <= Len(p) THEN p[i] ELSE s[i - Len(p)]
  BY ConcatProperties
<1>3. /\ \A i \in 1..n : (p \o s)[i] \in V
      /\ \A i \in 1..k : s[i] \in V
  <2>1. 1..n \subseteq 1..Len(p \o s) /\ 1..k \subseteq 1..Len(s)
    BY <1>1, <1>2
  <2> QED
    BY <1>2, <2>1, ElementOfSeq
<1>4. l \in Seq(V) /\ Len(l) = n /\ \A i \in 1..n : l[i] = (p \o s)[i]
  <2> HIDE DEF k
  <2> QED
    BY <1>1, <1>3, SubSeqProperties
<1>5. f \in Seq(V) /\ Len(f) = k /\ \A i \in 1..k : f[i] = s[i]
  <2> HIDE DEF k
  <2> QED
    BY <1>1, <1>3, SubSeqProperties
<1> HIDE DEF l, f
<1>6. /\ r \in Seq(V) /\ Len(r) = Len(p) + Len(f)
      /\ \A i \in 1..(Len(p) + Len(f)) : r[i] = IF i <= Len(p) THEN p[i] ELSE f[i - Len(p)]
  BY <1>5, ConcatProperties
<1> HIDE DEF r
<1> HIDE DEF k
<1>7. k = n - Len(p)
  BY DEF k
<1>8. ASSUME NEW i \in 1..Len(l) PROVE l[i] = r[i]
  <2>1. i \in 1..n /\ i \in 1..(Len(p) + Len(s)) /\ i \in 1..(Len(p) + Len(f))
    BY <1>1, <1>4, <1>5, <1>7
  <2>2. l[i] = IF i <= Len(p) THEN p[i] ELSE s[i - Len(p)]
    BY <1>2, <1>4, <2>1
  <2>3. i > Len(p) => f[i - Len(p)] = s[i - Len(p)]
    BY <1>1, <1>5, <1>7, <2>1
  <2> QED
    BY SMTT(60), <1>1, <1>6, <2>1, <2>2, <2>3
<1>9. Len(l) = Len(r)
  BY <1>1, <1>4, <1>5, <1>6, <1>7
<1>10. l = r
  BY <1>4, <1>6, <1>8, <1>9, SeqEqual
<1> QED
  BY <1>5, <1>10 DEF l, f, r, k

\* Whole batches.
LEMMA Division ==
  ASSUME NEW a \in Nat, NEW b \in Nat \ {0}
  PROVE  /\ a \div b \in Nat
         /\ (a \div b) * b <= a
         /\ a < (a \div b) * b + b
OBVIOUS

\* The first n batches, of those that there are.
LEMMA Batch ==
  ASSUME NEW a \in Nat, NEW b \in Nat \ {0}, NEW n \in 1..(a \div b)
  PROVE  /\ n * b \in Nat /\ n * b <= a /\ n * b >= b
         /\ (n - 1) * b = n * b - b
<1>1. a \div b \in Nat /\ (a \div b) * b <= a
  BY Division
<1>2. n \in Nat /\ n >= 1 /\ n <= a \div b
  BY <1>1
<1>3. n * b \in Nat /\ (n - 1) * b = n * b - b
  BY <1>2
<1>4. n * b <= (a \div b) * b
  BY <1>1, <1>2
<1>5. n * b >= b
  BY <1>2
<1> QED
  BY <1>1, <1>3, <1>4, <1>5
=============================================================================
