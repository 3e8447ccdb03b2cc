-------------------------- MODULE TextPipelineProofs --------------------------
(* What TLAPS proves about TextPipeline, for every value of its constants. *)
EXTENDS TextPipeline, SequenceTheorems, WellFoundedInduction, TLAPS

\* The strings; the provers do not know of the literals that they are strings.
Symbol == STRING \cup {"L", "C", "Z", "R", "P", "K", "E", "[", "?", "0", "m", "a"}
Text == Seq(Symbol)

-----------------------------------------------------------------------------
(* Numbers.                                                                  *)

\* A set of natural numbers has a least one.
LEMMA LeastExists ==
  ASSUME NEW S, S \subseteq Nat, S # {}
  PROVE  Least(S) \in S /\ \A m \in S : Least(S) <= m
<1>1. PICK x \in S : \A y \in S : ~(<<y, x>> \in OpToRel(<, Nat))
  BY NatLessThanWellFounded, WFMin
<1>2. \A y \in S : ~(y < x)
  BY <1>1 DEF OpToRel
<1>3. \A y \in S : x <= y
  BY <1>2
<1>4. QED
  BY <1>3 DEF Least

\* What is least in a set is its Least.
LEMMA LeastIs ==
  ASSUME NEW S, S \subseteq Int, NEW n \in S, \A m \in S : n <= m
  PROVE  Least(S) = n
<1>1. \A k \in S : (\A m \in S : k <= m) => k = n
  OBVIOUS
<1>2. QED
  BY <1>1 DEF Least

\* A set of numbers up to N has a greatest one.
LEMMA GreatestExists ==
  ASSUME NEW N \in Nat, NEW S, S \subseteq 0 .. N, S # {}
  PROVE  Greatest(S) \in S /\ \A m \in S : m <= Greatest(S)
<1> DEFINE T == {N - m : m \in S}
<1>1. T \subseteq Nat /\ T # {}
  <2>1. \A m \in 0 .. N : N - m \in Nat
    OBVIOUS
  <2>2. PICK m \in S : TRUE
    OBVIOUS
  <2>3. N - m \in T
    OBVIOUS
  <2>4. QED
    BY <2>1, <2>3
<1>2. PICK t \in T : \A u \in T : t <= u
  <2> HIDE DEF T
  <2>1. Least(T) \in T /\ \A u \in T : Least(T) <= u
    BY <1>1, LeastExists
  <2>2. QED
    BY <2>1
<1>3. PICK n \in S : t = N - n
  OBVIOUS
<1>4. ASSUME NEW m \in S PROVE m <= n
  <2>1. t <= N - m
    BY <1>2
  <2>2. QED
    BY <1>3, <2>1
<1>5. QED
  BY <1>4 DEF Greatest

\* What is greatest in a set is its Greatest.
LEMMA GreatestIs ==
  ASSUME NEW S, S \subseteq Int, NEW n \in S, \A m \in S : m <= n
  PROVE  Greatest(S) = n
<1>1. \A k \in S : (\A m \in S : m <= k) => k = n
  OBVIOUS
<1>2. QED
  BY <1>1 DEF Greatest

\* Induction up to a number, about a set: there is no least number outside of it.
LEMMA UpTo ==
  ASSUME NEW N \in Nat, NEW S, 0 \in S, \A k \in 0 .. N - 1 : k \in S => k + 1 \in S
  PROVE  \A k \in 0 .. N : k \in S
<1> DEFINE Out == {k \in 0 .. N : k \notin S}
<1> SUFFICES ASSUME Out # {} PROVE FALSE
  OBVIOUS
<1>1. Least(Out) \in Out /\ \A m \in Out : Least(Out) <= m
  <2>1. Out \subseteq Nat
    OBVIOUS
  <2> HIDE DEF Out
  <2>2. QED
    BY <2>1, LeastExists
<1>2. PICK k \in Out : \A m \in Out : k <= m
  BY <1>1
<1>3. k # 0 /\ k \in 1 .. N
  OBVIOUS
<1>4. k - 1 \in 0 .. N - 1 /\ k - 1 \in 0 .. N /\ ~(k <= k - 1) /\ (k - 1) + 1 = k
  BY <1>3
<1>5. k - 1 \in S
  BY <1>2, <1>4
<1>6. QED
  BY <1>4, <1>5

-----------------------------------------------------------------------------
(* Sequences.                                                                *)

\* A part of a sequence, symbol by symbol.
LEMMA Slice ==
  ASSUME NEW T, NEW s \in Seq(T), NEW m \in Int, NEW n \in Int, 1 <= m, n <= Len(s), m <= n + 1
  PROVE  /\ SubSeq(s, m, n) \in Seq(T)
         /\ Len(SubSeq(s, m, n)) = n - m + 1
         /\ \A i \in 1 .. n - m + 1 : SubSeq(s, m, n)[i] = s[m + i - 1]
<1>1. Len(s) \in Nat
  BY LenProperties
<1>2. \A i \in m .. n : s[i] \in T
  BY <1>1, ElementOfSeq
<1>3. QED
  BY <1>1, <1>2, SubSeqProperties

\* The rest of a sequence, symbol by symbol.
LEMMA FromIs ==
  ASSUME NEW T, NEW s \in Seq(T), NEW n \in 1 .. Len(s) + 1
  PROVE  /\ From(s, n) \in Seq(T)
         /\ Len(From(s, n)) = Len(s) - n + 1
         /\ \A i \in 1 .. Len(s) - n + 1 : From(s, n)[i] = s[n + i - 1]
<1>1. Len(s) \in Nat
  BY LenProperties
<1>2. QED
  BY <1>1, Slice DEF From

\* The smaller of two numbers.
LEMMA SmallerIs ==
  ASSUME NEW m \in Int, NEW n \in Int
  PROVE  Smaller(m, n) \in Int /\ Smaller(m, n) = IF m <= n THEN m ELSE n
BY DEF Smaller

\* tail_chars: as many as there are, at most n, from the end.
LEMMA LastCharsIs ==
  ASSUME NEW T, NEW s \in Seq(T), NEW n \in Nat
  PROVE  LET k == IF n <= Len(s) THEN n ELSE Len(s)
         IN  /\ k \in Nat
             /\ LastChars(s, n) = From(s, Len(s) - k + 1)
             /\ LastChars(s, n) \in Seq(T) /\ Len(LastChars(s, n)) = k
             /\ \A i \in 1 .. k : LastChars(s, n)[i] = s[Len(s) - k + i]
<1> DEFINE k == IF n <= Len(s) THEN n ELSE Len(s)
<1>1. Len(s) \in Nat
  BY LenProperties
<1>2. k \in Nat /\ k <= Len(s) /\ Smaller(n, Len(s)) = k
  BY <1>1 DEF Smaller
<1>3. LastChars(s, n) = From(s, Len(s) - k + 1)
  BY <1>2 DEF LastChars
<1> HIDE DEF k
<1>4. Len(s) - k + 1 \in 1 .. Len(s) + 1 /\ Len(s) - (Len(s) - k + 1) + 1 = k
      /\ \A i \in 1 .. k : (Len(s) - k + 1) + i - 1 = Len(s) - k + i
  BY <1>1, <1>2
<1>5. /\ From(s, Len(s) - k + 1) \in Seq(T)
      /\ Len(From(s, Len(s) - k + 1)) = Len(s) - (Len(s) - k + 1) + 1
      /\ \A i \in 1 .. Len(s) - (Len(s) - k + 1) + 1 :
           From(s, Len(s) - k + 1)[i] = s[(Len(s) - k + 1) + i - 1]
  BY <1>4, FromIs
<1>6. \A i \in 1 .. k : From(s, Len(s) - k + 1)[i] = s[Len(s) - k + i]
  BY <1>4, <1>5
<1>7. /\ k \in Nat
      /\ LastChars(s, n) = From(s, Len(s) - k + 1)
      /\ LastChars(s, n) \in Seq(T) /\ Len(LastChars(s, n)) = k
      /\ \A i \in 1 .. k : LastChars(s, n)[i] = s[Len(s) - k + i]
  BY <1>2, <1>3, <1>4, <1>5, <1>6
<1>8. QED
  BY <1>7 DEF k

\* Sequences of one, two and three.
LEMMA SmallSequences ==
  ASSUME NEW T, NEW a \in T, NEW b \in T, NEW c \in T
  PROVE  /\ <<a>> \in Seq(T) /\ Len(<<a>>) = 1 /\ <<a>>[1] = a
         /\ <<a, b>> \in Seq(T) /\ Len(<<a, b>>) = 2 /\ <<a, b>>[1] = a /\ <<a, b>>[2] = b
         /\ <<a, b, c>> \in Seq(T) /\ Len(<<a, b, c>>) = 3
         /\ <<a, b, c>>[1] = a /\ <<a, b, c>>[2] = b /\ <<a, b, c>>[3] = c
OBVIOUS

\* To be a prefix, symbol by symbol.
LEMMA PrefixIs ==
  ASSUME NEW T, NEW p \in Seq(T), NEW s \in Seq(T)
  PROVE  IsPrefix(p, s) <=> Len(p) <= Len(s) /\ \A i \in 1 .. Len(p) : p[i] = s[i]
<1>1. Len(p) \in Nat /\ Len(s) \in Nat
  BY LenProperties
<1>2. SUFFICES ASSUME Len(p) <= Len(s)
              PROVE  SubSeq(p, 1, Len(p)) = SubSeq(s, 1, Len(p)) <=> \A i \in 1 .. Len(p) : p[i] = s[i]
  BY DEF IsPrefix
<1>3. SubSeq(p, 1, Len(p)) = p
  BY SubSeqFull
<1>4. /\ SubSeq(s, 1, Len(p)) \in Seq(T)
      /\ Len(SubSeq(s, 1, Len(p))) = Len(p)
      /\ \A i \in 1 .. Len(p) : SubSeq(s, 1, Len(p))[i] = s[i]
  <2>1. Len(p) - 1 + 1 = Len(p) /\ \A i \in 1 .. Len(p) : 1 + i - 1 = i
    BY <1>1
  <2>2. 1 <= Len(p) + 1 /\ Len(p) \in Int
    BY <1>1
  <2>3. /\ SubSeq(s, 1, Len(p)) \in Seq(T)
        /\ Len(SubSeq(s, 1, Len(p))) = Len(p) - 1 + 1
        /\ \A i \in 1 .. Len(p) - 1 + 1 : SubSeq(s, 1, Len(p))[i] = s[1 + i - 1]
    BY <1>2, <2>2, Slice
  <2>4. QED
    BY <2>1, <2>3
<1>5. ASSUME \A i \in 1 .. Len(p) : p[i] = s[i] PROVE p = SubSeq(s, 1, Len(p))
  BY <1>4, <1>5, SeqEqual
<1>6. QED
  BY <1>3, <1>4, <1>5

\* Two sequences joined, symbol by symbol.
LEMMA ConcatIs ==
  ASSUME NEW T, NEW s \in Seq(T), NEW t \in Seq(T)
  PROVE  /\ s \o t \in Seq(T) /\ Len(s \o t) = Len(s) + Len(t)
         /\ Len(s) \in Nat /\ Len(t) \in Nat
         /\ \A i \in 1 .. Len(s) : (s \o t)[i] = s[i]
         /\ \A i \in 1 .. Len(t) : (s \o t)[Len(s) + i] = t[i]
<1>1. Len(s) \in Nat /\ Len(t) \in Nat
  BY LenProperties
<1>2. /\ s \o t \in Seq(T) /\ Len(s \o t) = Len(s) + Len(t)
      /\ \A i \in 1 .. Len(s) + Len(t) : (s \o t)[i] = IF i <= Len(s) THEN s[i] ELSE t[i - Len(s)]
  BY ConcatProperties
<1>3. \A i \in 1 .. Len(s) : i \in 1 .. Len(s) + Len(t) /\ i <= Len(s)
  BY <1>1
<1>4. \A i \in 1 .. Len(t) : Len(s) + i \in 1 .. Len(s) + Len(t) /\ ~(Len(s) + i <= Len(s)) /\ (Len(s) + i) - Len(s) = i
  BY <1>1
<1>5. \A i \in 1 .. Len(s) : (s \o t)[i] = s[i]
  BY <1>2, <1>3
<1>6. \A i \in 1 .. Len(t) : (s \o t)[Len(s) + i] = t[i]
  BY <1>2, <1>4
<1>7. QED
  BY <1>1, <1>2, <1>5, <1>6

\* A sequence is empty exactly when its length is 0.
LEMMA EmptyText ==
  ASSUME NEW T, NEW s \in Seq(T)
  PROVE  /\ Len(s) \in Nat /\ DOMAIN s = 1 .. Len(s)
         /\ \A i \in 1 .. Len(s) : s[i] \in T
         /\ s = <<>> <=> Len(s) = 0
<1>1. Len(s) \in Nat /\ DOMAIN s = 1 .. Len(s)
  BY LenProperties
<1>2. s # <<>> => Len(s) \in Nat \ {0}
  BY EmptySeq
<1>3. Len(<<>>) = 0
  BY EmptySeq
<1>4. \A i \in 1 .. Len(s) : s[i] \in T
  BY ElementOfSeq
<1>5. QED
  BY <1>1, <1>2, <1>3, <1>4

\* The first of a sequence.
LEMMA HeadIs ==
  ASSUME NEW T, NEW s \in Seq(T), s # <<>>
  PROVE  Head(s) = s[1] /\ Head(s) \in T /\ Len(s) \in Nat /\ Len(s) >= 1
<1>1. Head(s) \in T
  BY HeadTailProperties
<1>2. Len(s) \in Nat /\ Len(s) # 0
  BY EmptyText
<1>3. QED
  BY <1>1, <1>2

\* A sequence is what comes first and what is left.
LEMMA Split ==
  ASSUME NEW T, NEW s \in Seq(T), NEW n \in 0 .. Len(s)
  PROVE  SubSeq(s, 1, n) \o From(s, n + 1) = s
<1>1. Len(s) \in Nat
  BY LenProperties
<1>2. 1 \in 1 .. Len(s) + 1 /\ n \in 1 - 1 .. Len(s) /\ Len(s) \in n .. Len(s)
  BY <1>1
<1>3. SubSeq(s, 1, n) \o SubSeq(s, n + 1, Len(s)) = SubSeq(s, 1, Len(s))
  BY <1>2, ConcatAdjacentSubSeq
<1>4. QED
  BY <1>3, SubSeqFull DEF From

\* The rest from within the first of two sequences.
LEMMA FromConcat ==
  ASSUME NEW T, NEW s \in Seq(T), NEW t \in Seq(T), NEW n \in 1 .. Len(s) + 1
  PROVE  From(s \o t, n) = From(s, n) \o t
<1> DEFINE a == From(s \o t, n)
           b == From(s, n) \o t
<1>1. /\ s \o t \in Seq(T) /\ Len(s \o t) = Len(s) + Len(t) /\ Len(s) \in Nat /\ Len(t) \in Nat
      /\ \A i \in 1 .. Len(s) : (s \o t)[i] = s[i]
      /\ \A i \in 1 .. Len(t) : (s \o t)[Len(s) + i] = t[i]
  BY ConcatIs
<1>2. n \in 1 .. Len(s \o t) + 1
  BY <1>1
<1>3. /\ a \in Seq(T) /\ Len(a) = Len(s) + Len(t) - n + 1
      /\ \A i \in 1 .. Len(s) + Len(t) - n + 1 : a[i] = (s \o t)[n + i - 1]
  <2>1. /\ From(s \o t, n) \in Seq(T) /\ Len(From(s \o t, n)) = Len(s \o t) - n + 1
        /\ \A i \in 1 .. Len(s \o t) - n + 1 : From(s \o t, n)[i] = (s \o t)[n + i - 1]
    BY <1>1, <1>2, FromIs, ZenonT(60)
  <2>2. QED
    BY <1>1, <2>1
<1>4. /\ From(s, n) \in Seq(T) /\ Len(From(s, n)) = Len(s) - n + 1
      /\ \A i \in 1 .. Len(s) - n + 1 : From(s, n)[i] = s[n + i - 1]
  BY FromIs
<1>5. /\ b \in Seq(T) /\ Len(b) = Len(s) - n + 1 + Len(t)
      /\ \A i \in 1 .. Len(s) - n + 1 : b[i] = From(s, n)[i]
      /\ \A i \in 1 .. Len(t) : b[Len(s) - n + 1 + i] = t[i]
  <2> DEFINE f == From(s, n)
  <2>1. f \in Seq(T) /\ Len(f) = Len(s) - n + 1 /\ b = f \o t /\ f = From(s, n)
    BY <1>4
  <2> HIDE DEF a, b, f
  <2>2. f \in Seq(T)
    BY <2>1
  <2>3. /\ f \o t \in Seq(T) /\ Len(f \o t) = Len(f) + Len(t)
        /\ \A i \in 1 .. Len(f) : (f \o t)[i] = f[i]
        /\ \A i \in 1 .. Len(t) : (f \o t)[Len(f) + i] = t[i]
    BY <2>2, ConcatIs
  <2>4. QED
    BY <2>1, <2>3
<1> HIDE DEF a, b
<1>6. ASSUME NEW i \in 1 .. Len(a) PROVE a[i] = b[i]
  <2>1. a[i] = (s \o t)[n + i - 1]
    BY <1>3
  <2>2. CASE i <= Len(s) - n + 1
    <3>1. i \in 1 .. Len(s) - n + 1 /\ n + i - 1 \in 1 .. Len(s)
      BY <1>1, <2>2
    <3>2. QED
      BY <1>1, <1>4, <1>5, <2>1, <3>1
  <2>3. CASE ~(i <= Len(s) - n + 1)
    <3> DEFINE j == i - (Len(s) - n + 1)
    <3>1. j \in 1 .. Len(t) /\ n + i - 1 = Len(s) + j /\ i = Len(s) - n + 1 + j
      BY <1>1, <1>3, <2>3
    <3>2. (s \o t)[Len(s) + j] = t[j] /\ b[Len(s) - n + 1 + j] = t[j]
      BY <1>1, <1>5, <3>1
    <3>3. QED
      BY <2>1, <3>1, <3>2
  <2>4. QED
    BY <2>2, <2>3
<1>7. Len(a) = Len(b)
  BY <1>1, <1>3, <1>5
<1>8. a = b
  BY <1>3, <1>5, <1>6, <1>7, SeqEqual
<1>9. QED
  BY <1>8 DEF a, b

\* What is behind the first of two sequences is in the second.
LEMMA FromBehind ==
  ASSUME NEW T, NEW s \in Seq(T), NEW t \in Seq(T), NEW n \in 1 .. Len(t) + 1
  PROVE  From(s \o t, Len(s) + n) = From(t, n)
<1> DEFINE a == From(s \o t, Len(s) + n)
           b == From(t, n)
<1>1. /\ s \o t \in Seq(T) /\ Len(s \o t) = Len(s) + Len(t) /\ Len(s) \in Nat /\ Len(t) \in Nat
      /\ \A i \in 1 .. Len(t) : (s \o t)[Len(s) + i] = t[i]
  BY ConcatIs
<1>2. Len(s) + n \in 1 .. Len(s \o t) + 1
  BY <1>1
<1>3. /\ a \in Seq(T) /\ Len(a) = Len(s \o t) - (Len(s) + n) + 1
      /\ \A i \in 1 .. Len(s \o t) - (Len(s) + n) + 1 : a[i] = (s \o t)[Len(s) + n + i - 1]
  BY <1>1, <1>2, FromIs, ZenonT(60)
<1>4. /\ b \in Seq(T) /\ Len(b) = Len(t) - n + 1
      /\ \A i \in 1 .. Len(t) - n + 1 : b[i] = t[n + i - 1]
  BY FromIs
<1> HIDE DEF a, b
<1>5. Len(a) = Len(b)
  BY <1>1, <1>3, <1>4
<1>6. ASSUME NEW i \in 1 .. Len(a) PROVE a[i] = b[i]
  <2>1. Len(a) = Len(t) - n + 1
    BY <1>1, <1>3
  <2>2. /\ n + i - 1 \in 1 .. Len(t) /\ Len(s) + n + i - 1 = Len(s) + (n + i - 1)
        /\ i \in 1 .. Len(s \o t) - (Len(s) + n) + 1 /\ i \in 1 .. Len(t) - n + 1
    BY <1>1, <2>1
  <2>3. (s \o t)[Len(s) + (n + i - 1)] = t[n + i - 1]
    BY <1>1, <2>2
  <2>4. QED
    BY <1>3, <1>4, <2>2, <2>3
<1>7. a = b
  BY <1>3, <1>4, <1>5, <1>6, SeqEqual
<1>8. QED
  BY <1>7 DEF a, b

\* Joined texts are a text.
LEMMA TextConcat == \A a, b \in Text : a \o b \in Text
BY ConcatProperties DEF Text

\* Texts may be joined in any order.
LEMMA TextAssociative == \A a, b, c \in Text : (a \o b) \o c = a \o (b \o c)
BY ConcatAssociative DEF Text

-----------------------------------------------------------------------------
(* FlattenSeq: its recursion has a solution, and one only.                    *)

IsFlat(s, n, f) == f = [i \in 1 .. n |-> IF i = 1 THEN s[i] ELSE f[i - 1] \o s[i]]

\* What FlattenSeq passes through exists,
LEMMA FlatExists ==
  ASSUME NEW T, NEW s \in Seq(Seq(T)), NEW n \in 0 .. Len(s)
  PROVE  \E f \in [1 .. n -> Seq(T)] : IsFlat(s, n, f)
<1>1. Len(s) \in Nat /\ \A i \in 1 .. Len(s) : s[i] \in Seq(T)
  BY LenProperties, ElementOfSeq
<1> DEFINE Good == {k \in 0 .. Len(s) : \E f \in [1 .. k -> Seq(T)] : IsFlat(s, k, f)}
<1>2. 0 \in Good
  <2> DEFINE e == [i \in 1 .. 0 |-> IF i = 1 THEN s[i] ELSE <<>>]
  <2>1. e \in [1 .. 0 -> Seq(T)]
    OBVIOUS
  <2>2. IsFlat(s, 0, e)
    <3>1. e = [i \in 1 .. 0 |-> IF i = 1 THEN s[i] ELSE e[i - 1] \o s[i]]
      OBVIOUS
    <3>2. QED
      BY <3>1 DEF IsFlat
  <2> HIDE DEF e
  <2>3. \E f \in [1 .. 0 -> Seq(T)] : IsFlat(s, 0, f)
    BY <2>1, <2>2
  <2>4. 0 \in 0 .. Len(s)
    BY <1>1
  <2>5. QED
    BY <2>3, <2>4
<1>3. ASSUME NEW k \in 0 .. Len(s) - 1, k \in Good PROVE k + 1 \in Good
  <2>1. PICK f \in [1 .. k -> Seq(T)] : IsFlat(s, k, f)
    BY <1>3
  <2>2. k \in Nat /\ k + 1 \in 1 .. Len(s)
    BY <1>1
  <2>3. ASSUME k >= 1 PROVE f[k] \in Seq(T) /\ f[k] \o s[k + 1] \in Seq(T)
    <3>1. f[k] \in Seq(T)
      BY <2>2, <2>3
    <3>2. s[k + 1] \in Seq(T)
      BY <1>1, <2>2
    <3>3. QED
      BY <3>1, <3>2, ConcatProperties
  <2> DEFINE new == IF k = 0 THEN s[1] ELSE f[k] \o s[k + 1]
             g == [i \in 1 .. k + 1 |-> IF i = k + 1 THEN new ELSE f[i]]
  <2>4. new \in Seq(T)
    BY <1>1, <2>2, <2>3
  <2>5. \A i \in 1 .. k : f[i] = IF i = 1 THEN s[i] ELSE f[i - 1] \o s[i]
    BY <2>1 DEF IsFlat
  <2>6. g \in [1 .. k + 1 -> Seq(T)]
    <3> HIDE DEF new
    <3>1. \A i \in 1 .. k + 1 : i # k + 1 => i \in 1 .. k
      BY <2>2
    <3>2. QED
      BY <2>4, <3>1
  <2>7. ASSUME NEW i \in 1 .. k + 1
        PROVE  g[i] = IF i = 1 THEN s[i] ELSE g[i - 1] \o s[i]
    <3>1. CASE i = k + 1
      <4>1. g[i] = new
        BY <3>1
      <4>2. CASE k = 0
        BY <3>1, <4>1, <4>2
      <4>3. CASE k # 0
        <5>1. i # 1 /\ i - 1 = k /\ k \in 1 .. k + 1 /\ k # k + 1
          BY <2>2, <3>1, <4>3
        <5>2. g[k] = f[k]
          BY <5>1
        <5>3. QED
          BY <3>1, <4>1, <4>3, <5>1, <5>2
      <4>4. QED
        BY <4>2, <4>3
    <3>2. CASE i # k + 1
      <4> HIDE DEF new
      <4>1. i \in 1 .. k /\ (i # 1 => i - 1 \in 1 .. k /\ i - 1 \in 1 .. k + 1 /\ i - 1 # k + 1)
        BY <2>2, <3>2
      <4>2. g[i] = f[i]
        BY <3>2
      <4>3. i # 1 => g[i - 1] = f[i - 1]
        BY <4>1
      <4>4. QED
        BY <2>5, <4>1, <4>2, <4>3
    <3>3. QED
      BY <3>1, <3>2
  <2>8. g = [i \in 1 .. k + 1 |-> IF i = 1 THEN s[i] ELSE g[i - 1] \o s[i]]
    <3>1. DOMAIN g = 1 .. k + 1
      OBVIOUS
    <3> HIDE DEF g
    <3>2. g = [i \in 1 .. k + 1 |-> g[i]]
      BY <2>6
    <3>3. QED
      BY <2>7, <3>2
  <2>9. QED
    <3> HIDE DEF g
    <3>1. IsFlat(s, k + 1, g)
      BY <2>8 DEF IsFlat
    <3>2. k + 1 \in 0 .. Len(s)
      BY <2>2
    <3>3. QED
      BY <2>6, <3>1, <3>2
<1>4. QED
  <2> HIDE DEF Good
  <2>1. \A k \in 0 .. Len(s) : k \in Good
    BY <1>1, <1>2, <1>3, UpTo
  <2>2. QED
    BY <2>1 DEF Good

\* depends only on the sequences,
LEMMA FlatAgrees ==
  ASSUME NEW s, NEW t, NEW n \in Nat, NEW m \in Nat, n <= m, \A i \in 1 .. n : s[i] = t[i],
         NEW f, IsFlat(s, n, f), NEW g, IsFlat(t, m, g)
  PROVE  \A i \in 1 .. n : f[i] = g[i]
<1> DEFINE Same == {k \in 0 .. n : k = 0 \/ f[k] = g[k]}
<1>1. \A i \in 1 .. n : f[i] = IF i = 1 THEN s[i] ELSE f[i - 1] \o s[i]
  BY DEF IsFlat
<1>2. \A i \in 1 .. n : g[i] = IF i = 1 THEN t[i] ELSE g[i - 1] \o t[i]
  <2>1. \A i \in 1 .. m : g[i] = IF i = 1 THEN t[i] ELSE g[i - 1] \o t[i]
    BY DEF IsFlat
  <2>2. \A i \in 1 .. n : i \in 1 .. m
    OBVIOUS
  <2>3. QED
    BY <2>1, <2>2
<1>3. ASSUME NEW k \in 0 .. n - 1, k \in Same PROVE k + 1 \in Same
  <2>1. k + 1 \in 1 .. n /\ k + 1 \in 0 .. n /\ (k + 1) - 1 = k /\ (k + 1 = 1 <=> k = 0)
    OBVIOUS
  <2>2. f[k + 1] = IF k = 0 THEN s[k + 1] ELSE f[k] \o s[k + 1]
    BY <1>1, <2>1
  <2>3. g[k + 1] = IF k = 0 THEN t[k + 1] ELSE g[k] \o t[k + 1]
    BY <1>2, <2>1
  <2>4. s[k + 1] = t[k + 1]
    BY <2>1
  <2>5. k = 0 \/ f[k] = g[k]
    BY <1>3
  <2>6. f[k + 1] = g[k + 1]
    BY <2>2, <2>3, <2>4, <2>5
  <2>7. QED
    BY <2>1, <2>6
<1>4. 0 \in Same
  OBVIOUS
<1>5. \A k \in 0 .. n : k \in Same
  <2> HIDE DEF Same
  <2>1. QED
    BY <1>3, <1>4, UpTo
<1>6. QED
  BY <1>5

\* and ends with what it yields.
LEMMA FlatIs ==
  ASSUME NEW T, NEW s \in Seq(Seq(T)), s # <<>>, NEW f, IsFlat(s, Len(s), f)
  PROVE  FlattenSeq(s) = f[Len(s)]
<1>1. Len(s) \in Nat /\ Len(s) # 0
  BY EmptyText
<1> DEFINE g == CHOOSE flatten : flatten = [i \in 1 .. Len(s) |-> IF i = 1 THEN s[i] ELSE flatten[i - 1] \o s[i]]
<1>2. FlattenSeq(s) = g[Len(s)]
  BY <1>1 DEF FlattenSeq
<1>3. IsFlat(s, Len(s), g)
  <2>1. f = [i \in 1 .. Len(s) |-> IF i = 1 THEN s[i] ELSE f[i - 1] \o s[i]]
    BY DEF IsFlat
  <2>2. g = [i \in 1 .. Len(s) |-> IF i = 1 THEN s[i] ELSE g[i - 1] \o s[i]]
    BY <2>1
  <2>3. QED
    BY <2>2 DEF IsFlat
<1> HIDE DEF g
<1>4. \A i \in 1 .. Len(s) : f[i] = g[i]
  <2>1. Len(s) <= Len(s) /\ \A i \in 1 .. Len(s) : s[i] = s[i]
    BY <1>1
  <2>2. QED
    BY <1>1, <1>3, <2>1, FlatAgrees
<1>5. Len(s) \in 1 .. Len(s)
  BY <1>1
<1>6. QED
  BY <1>2, <1>4, <1>5

\* Nothing joined is nothing.
LEMMA FlattenEmpty == FlattenSeq(<<>>) = <<>>
BY EmptySeq DEF FlattenSeq

\* Sequences joined are a sequence.
LEMMA FlattenType ==
  ASSUME NEW T, NEW s \in Seq(Seq(T))
  PROVE  FlattenSeq(s) \in Seq(T)
<1>1. CASE s = <<>>
  BY <1>1, FlattenEmpty, EmptySeq
<1>2. CASE s # <<>>
  <2>1. Len(s) \in Nat /\ Len(s) # 0
    BY <1>2, EmptyText
  <2> DEFINE n == Len(s)
  <2>2. n \in 0 .. Len(s)
    BY <2>1
  <2> HIDE DEF n
  <2>3. PICK g \in [1 .. n -> Seq(T)] : IsFlat(s, n, g)
    BY <2>2, FlatExists
  <2>4. PICK f \in [1 .. Len(s) -> Seq(T)] : IsFlat(s, Len(s), f)
    BY <2>3 DEF n
  <2>5. FlattenSeq(s) = f[Len(s)]
    BY <1>2, <2>4, FlatIs
  <2>6. Len(s) \in 1 .. Len(s)
    BY <2>1
  <2>7. f[Len(s)] \in Seq(T)
    BY <2>6
  <2>8. QED
    BY <2>5, <2>7
<1>3. QED
  BY <1>1, <1>2

\* One more sequence comes last.
LEMMA FlattenAppend ==
  ASSUME NEW T, NEW s \in Seq(Seq(T)), NEW x \in Seq(T)
  PROVE  FlattenSeq(Append(s, x)) = FlattenSeq(s) \o x
<1> DEFINE t == Append(s, x)
<1>1. /\ t \in Seq(Seq(T)) /\ t # <<>> /\ Len(t) = Len(s) + 1
      /\ \A i \in 1 .. Len(s) : t[i] = s[i]
      /\ t[Len(s) + 1] = x
  BY AppendProperties
<1>2. Len(s) \in Nat
  BY LenProperties
<1> HIDE DEF t
<1>3. PICK g : IsFlat(t, Len(t), g)
  <2>1. Len(t) \in 0 .. Len(t)
    BY <1>1, <1>2
  <2>2. QED
    BY <1>1, <2>1, FlatExists
<1>4. FlattenSeq(t) = g[Len(s) + 1]
  BY <1>1, <1>3, FlatIs
<1>5. g[Len(s) + 1] = IF Len(s) + 1 = 1 THEN x ELSE g[Len(s)] \o x
  <2>1. Len(s) + 1 \in 1 .. Len(t) /\ (Len(s) + 1) - 1 = Len(s)
    BY <1>1, <1>2
  <2>2. \A i \in 1 .. Len(t) : g[i] = IF i = 1 THEN t[i] ELSE g[i - 1] \o t[i]
    BY <1>3 DEF IsFlat
  <2>3. QED
    BY <1>1, <2>1, <2>2
<1>6. CASE s = <<>>
  <2>1. Len(s) + 1 = 1
    BY <1>6, EmptySeq
  <2>2. FlattenSeq(s) \o x = x
    BY <1>6, FlattenEmpty, ConcatEmptySeq
  <2>3. QED
    BY <1>4, <1>5, <2>1, <2>2 DEF t
<1>7. CASE s # <<>>
  <2>1. Len(s) # 0
    BY <1>7, EmptyText
  <2>2. PICK f : IsFlat(s, Len(s), f)
    <3>1. Len(s) \in 0 .. Len(s)
      BY <1>2
    <3>2. QED
      BY <3>1, FlatExists
  <2>3. FlattenSeq(s) = f[Len(s)]
    BY <1>7, <2>2, FlatIs
  <2>4. \A i \in 1 .. Len(s) : f[i] = g[i]
    <3>1. Len(s) <= Len(t) /\ Len(t) \in Nat /\ t \in Seq(Seq(T))
      BY <1>1, <1>2
    <3>2. \A i \in 1 .. Len(s) : s[i] = t[i]
      BY <1>1
    <3>3. IsFlat(s, Len(s), f) /\ IsFlat(t, Len(t), g)
      BY <1>3, <2>2
    <3> DEFINE n == Len(s)
               m == Len(t)
    <3>4. n \in Nat /\ m \in Nat /\ n <= m /\ \A i \in 1 .. n : s[i] = t[i]
      BY <1>2, <3>1, <3>2
    <3>5. IsFlat(s, n, f) /\ IsFlat(t, m, g)
      BY <3>3
    <3> HIDE DEF n, m
    <3>6. \A i \in 1 .. n : f[i] = g[i]
      BY <3>4, <3>5, FlatAgrees, SMTT(30)
    <3>7. QED
      BY <3>6 DEF n
  <2>5. f[Len(s)] = g[Len(s)]
    BY <1>2, <2>1, <2>4
  <2>6. QED
    BY <1>2, <1>4, <1>5, <2>1, <2>3, <2>5 DEF t
<1>8. QED
  BY <1>6, <1>7

\* Two lists of sequences may be joined each for itself.
LEMMA FlattenConcat ==
  ASSUME NEW T, NEW s \in Seq(Seq(T)), NEW t \in Seq(Seq(T))
  PROVE  FlattenSeq(s \o t) = FlattenSeq(s) \o FlattenSeq(t)
<1>1. Len(t) \in Nat /\ \A i \in 1 .. Len(t) : t[i] \in Seq(T)
  BY LenProperties, ElementOfSeq
<1> DEFINE P(k) == SubSeq(t, 1, k)
           Good == {k \in 0 .. Len(t) : FlattenSeq(s \o P(k)) = FlattenSeq(s) \o FlattenSeq(P(k))}
<1>2. FlattenSeq(s) \in Seq(T)
  BY FlattenType
<1>3. 0 \in Good
  <2>1. P(0) = <<>>
    BY SubSeqEmpty
  <2>2. s \o <<>> = s /\ FlattenSeq(s) \o <<>> = FlattenSeq(s)
    BY <1>2, ConcatEmptySeq
  <2>3. 0 \in 0 .. Len(t)
    BY <1>1
  <2> HIDE DEF P
  <2>4. FlattenSeq(s \o P(0)) = FlattenSeq(s) \o FlattenSeq(P(0))
    BY <2>1, <2>2, FlattenEmpty
  <2>5. QED
    BY <2>3, <2>4
<1>4. ASSUME NEW k \in 0 .. Len(t) - 1, k \in Good PROVE k + 1 \in Good
  <2>1. k \in Nat /\ k + 1 \in 1 .. Len(t) /\ (k + 1) - 1 = k /\ 1 \in 1 .. Len(t) /\ k + 1 \in 0 .. Len(t)
    BY <1>1
  <2> DEFINE p == P(k)
             x == t[k + 1]
  <2>2. P(k + 1) = p \o <<x>>
    <3>1. k + 1 \in 1 .. Len(t)
      BY <2>1
    <3>2. SubSeq(t, 1, k + 1) = SubSeq(t, 1, (k + 1) - 1) \o <<t[k + 1]>>
      BY <2>1, SubSeqRecursiveSecond
    <3>3. QED
      BY <2>1, <3>2
  <2>3. p \in Seq(Seq(T)) /\ x \in Seq(T)
    <3>1. 1 <= k + 1 /\ k <= Len(t) /\ k \in Int
      BY <2>1, <1>1
    <3>2. SubSeq(t, 1, k) \in Seq(Seq(T))
      BY <3>1, Slice
    <3>3. QED
      BY <1>1, <2>1, <3>2
  <2>4. FlattenSeq(s \o p) = FlattenSeq(s) \o FlattenSeq(p)
    <3> HIDE DEF P
    <3>1. QED
      BY <1>4
  <2> HIDE DEF p, x, P, Good
  <2>5. <<x>> \in Seq(Seq(T)) /\ s \o p \in Seq(Seq(T)) /\ FlattenSeq(p) \in Seq(T)
    BY <2>3, SmallSequences, ConcatProperties, FlattenType
  <2>6. s \o (p \o <<x>>) = (s \o p) \o <<x>>
    <3> DEFINE y == <<x>>
               U == Seq(T)
    <3>1. s \in Seq(U) /\ p \in Seq(U) /\ y \in Seq(U)
      BY <2>3, <2>5
    <3> HIDE DEF y, U
    <3>2. s \o (p \o y) = (s \o p) \o y
      BY <3>1, ConcatAssociative, SMTT(30)
    <3>3. QED
      BY <3>2 DEF y
  <2>7. p \o <<x>> = Append(p, x) /\ (s \o p) \o <<x>> = Append(s \o p, x)
    BY <2>3, <2>5, AppendIsConcat
  <2>8. FlattenSeq(s \o (p \o <<x>>)) = (FlattenSeq(s) \o FlattenSeq(p)) \o x
    <3>1. FlattenSeq(Append(s \o p, x)) = FlattenSeq(s \o p) \o x
      BY <2>3, <2>5, FlattenAppend
    <3>2. QED
      BY <2>4, <2>6, <2>7, <3>1
  <2>9. FlattenSeq(p \o <<x>>) = FlattenSeq(p) \o x
    BY <2>3, <2>7, FlattenAppend
  <2>10. (FlattenSeq(s) \o FlattenSeq(p)) \o x = FlattenSeq(s) \o (FlattenSeq(p) \o x)
    BY <1>2, <2>3, <2>5, ConcatAssociative, SMTT(30)
  <2>11. QED
    <3>1. FlattenSeq(s \o P(k + 1)) = FlattenSeq(s) \o FlattenSeq(P(k + 1))
      BY <2>2, <2>8, <2>9, <2>10
    <3>2. QED
      BY <2>1, <3>1 DEF Good
<1>5. \A k \in 0 .. Len(t) : k \in Good
  <2> HIDE DEF Good
  <2>1. QED
    BY <1>1, <1>3, <1>4, UpTo
<1>6. Len(t) \in Good /\ P(Len(t)) = t
  BY <1>1, <1>5, SubSeqFull
<1>7. QED
  BY <1>6

\* One sequence alone.
LEMMA FlattenOne ==
  ASSUME NEW T, NEW x \in Seq(T)
  PROVE  FlattenSeq(<<x>>) = x
<1>1. <<>> \in Seq(Seq(T)) /\ Append(<<>>, x) = <<x>>
  BY EmptySeq
<1>2. FlattenSeq(Append(<<>>, x)) = FlattenSeq(<<>>) \o x
  BY <1>1, FlattenAppend
<1>3. <<>> \o x = x
  BY ConcatEmptySeq
<1>4. QED
  BY <1>1, <1>2, <1>3, FlattenEmpty

-----------------------------------------------------------------------------
(* The windows.                                                              *)

\* All of a sequence, from its first on.
LEMMA FromFirst ==
  ASSUME NEW T, NEW s \in Seq(T)
  PROVE  From(s, 1) = s
BY SubSeqFull DEF From

\* The last n of no more than n are all.
LEMMA LastAll ==
  ASSUME NEW T, NEW s \in Seq(T), NEW n \in Nat, Len(s) <= n
  PROVE  LastChars(s, n) = s
<1>1. Len(s) \in Nat
  BY LenProperties
<1>2. Smaller(n, Len(s)) = Len(s)
  BY <1>1 DEF Smaller
<1>3. Len(s) - Len(s) + 1 = 1
  BY <1>1
<1>4. LastChars(s, n) = From(s, 1)
  BY <1>2, <1>3 DEF LastChars
<1>5. QED
  BY <1>4, FromFirst

\* The last n are in the second of two sequences when it is long enough.
LEMMA LastBehind ==
  ASSUME NEW T, NEW s \in Seq(T), NEW t \in Seq(T), NEW n \in Nat, n <= Len(t)
  PROVE  LastChars(s \o t, n) = LastChars(t, n)
<1>1. s \o t \in Seq(T) /\ Len(s \o t) = Len(s) + Len(t) /\ Len(s) \in Nat /\ Len(t) \in Nat
  BY ConcatIs
<1>2. LastChars(s \o t, n) = From(s \o t, Len(s \o t) - n + 1)
  <2>1. n <= Len(s \o t)
    BY <1>1
  <2>2. QED
    BY <1>1, <2>1, LastCharsIs
<1>3. LastChars(t, n) = From(t, Len(t) - n + 1)
  BY LastCharsIs
<1>4. Len(t) - n + 1 \in 1 .. Len(t) + 1 /\ Len(s \o t) - n + 1 = Len(s) + (Len(t) - n + 1)
  BY <1>1
<1>5. From(s \o t, Len(s) + (Len(t) - n + 1)) = From(t, Len(t) - n + 1)
  BY <1>4, FromBehind
<1>6. QED
  BY <1>2, <1>3, <1>4, <1>5

\* What was not kept of the first does not matter.
LEMMA LastOfLast ==
  ASSUME NEW T, NEW s \in Seq(T), NEW t \in Seq(T), NEW n \in Nat
  PROVE  LastChars(s \o t, n) = LastChars(LastChars(s, n) \o t, n)
<1>1. Len(s) \in Nat /\ Len(t) \in Nat
  BY LenProperties
<1>2. CASE Len(s) <= n
  BY <1>2, LastAll
<1>3. CASE n <= Len(s)
  <2> DEFINE x == SubSeq(s, 1, Len(s) - n)
             y == LastChars(s, n)
  <2>1. y = From(s, (Len(s) - n) + 1) /\ y \in Seq(T) /\ Len(y) = n
    BY <1>3, LastCharsIs
  <2>2. Len(s) - n \in 0 .. Len(s)
    BY <1>1, <1>3
  <2>3. x \in Seq(T)
    <3>1. 1 <= (Len(s) - n) + 1 /\ Len(s) - n <= Len(s) /\ Len(s) - n \in Int
      BY <1>1, <2>2
    <3>2. QED
      BY <3>1, Slice
  <2>4. s = x \o y
    <3>1. SubSeq(s, 1, Len(s) - n) \o From(s, (Len(s) - n) + 1) = s
      BY <2>2, Split
    <3>2. QED
      BY <2>1, <3>1
  <2> HIDE DEF x, y
  <2>5. y \o t \in Seq(T) /\ Len(y \o t) = n + Len(t)
    BY <2>1, ConcatIs
  <2>6. s \o t = x \o (y \o t)
    <3>1. x \in Seq(T) /\ y \in Seq(T) /\ t \in Seq(T)
      BY <2>1, <2>3
    <3>2. (x \o y) \o t = x \o (y \o t)
      BY <3>1, ConcatAssociative, SMTT(30)
    <3>3. QED
      BY <2>4, <3>2
  <2>7. n <= Len(y \o t)
    BY <1>1, <2>5
  <2>8. LastChars(x \o (y \o t), n) = LastChars(y \o t, n)
    BY <2>3, <2>5, <2>7, LastBehind
  <2>9. QED
    BY <2>6, <2>8 DEF y
<1>4. QED
  BY <1>1, <1>2, <1>3

\* A list of sequences, joined in two parts.
LEMMA FlattenSplit ==
  ASSUME NEW T, NEW s \in Seq(Seq(T)), NEW k \in 0 .. Len(s)
  PROVE  /\ SubSeq(s, 1, k) \in Seq(Seq(T)) /\ From(s, k + 1) \in Seq(Seq(T))
         /\ FlattenSeq(s) = FlattenSeq(SubSeq(s, 1, k)) \o FlattenSeq(From(s, k + 1))
<1> DEFINE U == Seq(T)
           a == SubSeq(s, 1, k)
           b == From(s, k + 1)
<1>1. s \in Seq(U)
  OBVIOUS
<1>2. Len(s) \in Nat
  BY LenProperties
<1>3. 1 <= k + 1 /\ k <= Len(s) /\ k \in Int /\ k + 1 \in 1 .. Len(s) + 1
  BY <1>2
<1> HIDE DEF U
<1>4. a \in Seq(U) /\ b \in Seq(U)
  BY <1>1, <1>3, Slice, FromIs
<1>5. a \o b = s
  BY <1>1, Split
<1>6. a \in Seq(Seq(T)) /\ b \in Seq(Seq(T))
  BY <1>4 DEF U
<1> HIDE DEF a, b
<1>7. FlattenSeq(a \o b) = FlattenSeq(a) \o FlattenSeq(b)
  BY <1>6, FlattenConcat
<1>8. QED
  BY <1>5, <1>6, <1>7 DEF a, b

\* Of a sequence that is not empty, the first and the rest.
LEMMA FlattenFirst ==
  ASSUME NEW T, NEW s \in Seq(Seq(T)), s # <<>>
  PROVE  /\ Head(s) \in Seq(T) /\ Tail(s) \in Seq(Seq(T))
         /\ FlattenSeq(s) = Head(s) \o FlattenSeq(Tail(s))
<1> DEFINE U == Seq(T)
           h == Head(s)
           t == Tail(s)
<1>1. s \in Seq(U)
  OBVIOUS
<1> HIDE DEF U
<1>2. h \in U /\ t \in Seq(U)
  BY <1>1, HeadTailProperties
<1>3. Len(s) \in Nat /\ Len(s) # 0
  BY <1>1, EmptyText
<1>4. SubSeq(s, 1, Len(s)) = <<s[1]>> \o SubSeq(s, 1 + 1, Len(s))
  <2>1. 1 \in 1 .. Len(s) /\ Len(s) \in 1 .. Len(s)
    BY <1>3
  <2>2. QED
    BY <1>1, <2>1, SubSeqRecursiveFirst
<1>5. s = <<h>> \o t
  <2>1. SubSeq(s, 1, Len(s)) = s /\ Tail(s) = SubSeq(s, 2, Len(s)) /\ Head(s) = s[1]
    BY <1>1, SubSeqFull, TailIsSubSeq, HeadIs
  <2>2. QED
    BY <1>4, <2>1
<1>6. h \in Seq(T) /\ t \in Seq(Seq(T))
  BY <1>2 DEF U
<1> HIDE DEF h, t
<1>7. <<h>> \in Seq(Seq(T))
  BY <1>6
<1> DEFINE g == <<h>>
<1>8. FlattenSeq(g) = h
  BY <1>6, FlattenOne
<1>9. g \in Seq(Seq(T)) /\ s = g \o t
  BY <1>5, <1>7
<1> HIDE DEF g
<1>10. FlattenSeq(g \o t) = FlattenSeq(g) \o FlattenSeq(t)
  BY <1>6, <1>9, FlattenConcat
<1>11. QED
  BY <1>6, <1>8, <1>9, <1>10 DEF h, t

\* trim drops as many characters as it should, from the front.
LEMMA TrimmedIs ==
  ASSUME NEW segments \in Seq(Text), NEW overflow \in 0 .. Len(FlattenSeq(segments))
  PROVE  /\ Trimmed(segments, overflow) \in Seq(Text)
         /\ FlattenSeq(Trimmed(segments, overflow)) = From(FlattenSeq(segments), overflow + 1)
<1> DEFINE S == {k \in 0 .. Len(segments) : Chars(SubSeq(segments, 1, k)) <= overflow}
           gone == Greatest(S)
           front == SubSeq(segments, 1, gone)
           rest == From(segments, gone + 1)
           A == FlattenSeq(front)
           B == FlattenSeq(rest)
           more == overflow - Len(A)
<1>1. Len(segments) \in Nat /\ FlattenSeq(segments) \in Text
  BY LenProperties, FlattenType DEF Text
<1>2. Len(FlattenSeq(segments)) \in Nat /\ overflow \in Nat
  <2>1. Len(FlattenSeq(segments)) \in Nat
    BY <1>1, LenProperties DEF Text
  <2>2. QED
    BY <2>1
<1>3. gone \in S /\ \A m \in S : m <= gone
  <2>1. 0 \in S
    <3>1. SubSeq(segments, 1, 0) = <<>>
      BY SubSeqEmpty
    <3>2. Chars(SubSeq(segments, 1, 0)) = 0
      BY <3>1, FlattenEmpty, EmptySeq DEF Chars
    <3>3. QED
      BY <1>1, <1>2, <3>2
  <2>2. S \subseteq 0 .. Len(segments)
    OBVIOUS
  <2> HIDE DEF S
  <2>3. QED
    BY <1>1, <2>1, <2>2, GreatestExists
<1>4. gone \in 0 .. Len(segments) /\ Len(A) <= overflow
  BY <1>3 DEF Chars
<1>5. \A m \in 0 .. Len(segments) : Chars(SubSeq(segments, 1, m)) <= overflow => m <= gone
  BY <1>3
<1>6. Trimmed(segments, overflow) =
        IF more = 0 \/ rest = <<>> THEN rest
        ELSE <<LastChars(Head(rest), Len(Head(rest)) - more)>> \o Tail(rest)
  BY DEF Trimmed, Chars
<1> HIDE DEF S, gone
<1>7. front \in Seq(Text) /\ rest \in Seq(Text) /\ FlattenSeq(segments) = A \o B
  BY <1>4, FlattenSplit DEF Text
<1>8. rest = <<>> => gone = Len(segments)
  <2>1. gone + 1 \in 1 .. Len(segments) + 1
    BY <1>1, <1>4
  <2>2. Len(rest) = Len(segments) - (gone + 1) + 1
    BY <2>1, FromIs
  <2>3. QED
    BY <1>1, <1>4, <2>2, EmptySeq
<1>9. A \in Text /\ B \in Text /\ Len(A) \in Nat /\ Len(B) \in Nat /\ Len(FlattenSeq(segments)) = Len(A) + Len(B)
  <2>1. A \in Text /\ B \in Text
    BY <1>7, FlattenType DEF Text
  <2> HIDE DEF A, B
  <2>2. QED
    BY <1>7, <2>1, ConcatIs DEF Text
<1>10. more \in Nat /\ overflow + 1 = Len(A) + (more + 1) /\ more <= Len(B)
  BY <1>2, <1>4, <1>9
<1>11. From(FlattenSeq(segments), overflow + 1) = From(B, more + 1)
  <2>1. more + 1 \in 1 .. Len(B) + 1
    BY <1>9, <1>10
  <2> HIDE DEF A, B, more
  <2>2. From(A \o B, Len(A) + (more + 1)) = From(B, more + 1)
    BY <1>9, <2>1, FromBehind DEF Text
  <2>3. QED
    BY <1>7, <1>10, <2>2
<1>12. CASE more = 0
  <2>1. Trimmed(segments, overflow) = rest /\ FlattenSeq(rest) = B
    BY <1>6, <1>12
  <2>2. From(B, more + 1) = B
    <3>1. more + 1 = 1
      BY <1>12
    <3>2. From(B, 1) = B
      BY <1>9, FromFirst DEF Text
    <3>3. QED
      BY <3>1, <3>2
  <2>3. QED
    BY <1>7, <1>11, <2>1, <2>2
<1>13. CASE more # 0
  <2>1. rest # <<>>
    <3>1. SUFFICES ASSUME rest = <<>> PROVE FALSE
      OBVIOUS
    <3>2. Len(B) = 0
      BY <3>1, FlattenEmpty, EmptySeq
    <3>3. QED
      BY <1>10, <1>13, <3>2
  <2> DEFINE h == Head(rest)
             R == FlattenSeq(Tail(rest))
             l == LastChars(h, Len(h) - more)
  <2>2. h \in Text /\ Tail(rest) \in Seq(Text) /\ B = h \o R /\ R \in Text
    BY <1>7, <2>1, FlattenFirst, FlattenType DEF Text
  <2>3. Len(h) \in Nat
    BY <2>2, LenProperties DEF Text
  <2>4. more < Len(h)
    <3>0. more \in Nat /\ more = overflow - Len(A)
      BY <1>10
    <3> HIDE DEF more, h, A
    <3>1. SUFFICES ASSUME Len(h) <= more PROVE FALSE
      BY <3>0, <2>3
    <3>2. gone + 1 \in 1 .. Len(segments) /\ gone \in Nat /\ (gone + 1) - 1 = gone /\ 1 \in 1 .. Len(segments)
      <4>1. gone + 1 \in 1 .. Len(segments) + 1
        BY <1>1, <1>4
      <4>2. Len(rest) = Len(segments) - (gone + 1) + 1
        BY <4>1, FromIs
      <4>3. Len(rest) # 0
        BY <1>7, <2>1, EmptyText
      <4>4. QED
        BY <1>1, <1>4, <4>2, <4>3
    <3>3. segments[gone + 1] = h
      <4>1. \A i \in 1 .. Len(segments) - (gone + 1) + 1 : rest[i] = segments[(gone + 1) + i - 1]
        <5>1. gone + 1 \in 1 .. Len(segments) + 1
          BY <3>2, <1>1
        <5>2. QED
          BY <5>1, FromIs
      <4>2. 1 \in 1 .. Len(segments) - (gone + 1) + 1 /\ (gone + 1) + 1 - 1 = gone + 1
        BY <1>1, <3>2
      <4>3. h = rest[1]
        BY <1>7, <2>1, HeadIs DEF h
      <4>4. QED
        BY <4>1, <4>2, <4>3
    <3>4. SubSeq(segments, 1, gone + 1) = front \o <<h>>
      <4>1. SubSeq(segments, 1, gone + 1) = SubSeq(segments, 1, (gone + 1) - 1) \o <<segments[gone + 1]>>
        BY <3>2, SubSeqRecursiveSecond
      <4>2. QED
        BY <3>2, <3>3, <4>1
    <3>5. front \o <<h>> = Append(front, h)
      BY <1>7, <2>2, AppendIsConcat
    <3>6. FlattenSeq(Append(front, h)) = A \o h
      BY <1>7, <2>2, FlattenAppend DEF Text, A
    <3>7. Len(A \o h) = Len(A) + Len(h)
      BY <1>9, <2>2, ConcatIs DEF Text
    <3>8. Chars(SubSeq(segments, 1, gone + 1)) = Len(A) + Len(h)
      BY <3>4, <3>5, <3>6, <3>7 DEF Chars
    <3>9. Len(A) + Len(h) <= overflow
      BY <1>2, <1>9, <2>3, <3>0, <3>1
    <3>10. gone + 1 \in 0 .. Len(segments)
      BY <1>1, <3>2
    <3>11. gone + 1 <= gone
      BY <1>5, <3>8, <3>9, <3>10
    <3>12. QED
      BY <3>2, <3>11
  <2>5. Trimmed(segments, overflow) = <<l>> \o Tail(rest)
    BY <1>6, <1>13, <2>1
  <2>6. l = From(h, more + 1) /\ l \in Text
    <3>0. more \in Nat
      BY <1>10
    <3> HIDE DEF h, more
    <3>1. Len(h) - more \in Nat /\ Len(h) - more <= Len(h) /\ Len(h) - (Len(h) - more) + 1 = more + 1
      BY <3>0, <2>3, <2>4
    <3>2. LastChars(h, Len(h) - more) = From(h, Len(h) - (Len(h) - more) + 1) /\ LastChars(h, Len(h) - more) \in Text
      BY <2>2, <3>1, LastCharsIs DEF Text
    <3>3. QED
      BY <3>1, <3>2 DEF l
  <2>7. From(B, more + 1) = l \o R
    <3>0. more \in Nat
      BY <1>10
    <3> HIDE DEF h, R, more, l, B
    <3>1. more + 1 \in 1 .. Len(h) + 1
      BY <3>0, <2>3, <2>4
    <3>2. From(h \o R, more + 1) = From(h, more + 1) \o R
      BY <2>2, <3>1, FromConcat DEF Text
    <3>3. QED
      BY <2>2, <2>6, <3>2
  <2> DEFINE first == <<l>>
  <2>8. first \in Seq(Text) /\ FlattenSeq(first) = l
    <3> HIDE DEF l
    <3>1. QED
      BY <2>6, FlattenOne DEF Text
  <2> HIDE DEF first, l
  <2>9. first \o Tail(rest) \in Seq(Text) /\ FlattenSeq(first \o Tail(rest)) = l \o R
    <3>1. FlattenSeq(first \o Tail(rest)) = FlattenSeq(first) \o FlattenSeq(Tail(rest))
      BY <2>2, <2>8, FlattenConcat DEF Text
    <3>2. first \o Tail(rest) \in Seq(Text)
      <4> HIDE DEF rest
      <4>1. QED
        BY <2>2, <2>8, ConcatProperties
    <3>3. QED
      BY <2>8, <3>1, <3>2
  <2>10. QED
    BY <1>11, <2>5, <2>7, <2>9 DEF first
<1>14. QED
  BY <1>12, <1>13

\* What the window of text holds of all that was pushed.
Windowed(w, all) ==
  /\ w.segments \in Seq(Text)
  /\ FlattenSeq(w.segments) = LastChars(all, WindowChars)
  /\ w.chars = Chars(w.segments)

\* TextWindow::push, trim included, keeps the window at the end of what was pushed.
LEMMA TextPushIs ==
  ASSUME NEW w, NEW all \in Text, NEW chunk \in Text, Windowed(w, all)
  PROVE  Windowed(TextPush(w, chunk), all \o chunk)
<1> DEFINE kept == LastChars(all, WindowChars)
           y == kept \o chunk
           W == WindowChars
           chars == w.chars + Len(chunk)
<1>1. W \in Nat /\ W # 0
  BY PipelineAssumption
<1>2. kept \in Text /\ Len(kept) \in Nat /\ Len(kept) <= W
  <2>1. Len(all) \in Nat
    BY LenProperties DEF Text
  <2>2. LastChars(all, W) \in Text /\ Len(LastChars(all, W)) = IF W <= Len(all) THEN W ELSE Len(all)
    BY <1>1, LastCharsIs DEF Text
  <2>3. QED
    BY <1>1, <2>1, <2>2
<1>3. w.segments \in Seq(Text) /\ FlattenSeq(w.segments) = kept /\ w.chars = Len(kept)
  BY DEF Windowed, Chars
<1>4. LastChars(all \o chunk, W) = LastChars(y, W)
  BY <1>1, LastOfLast DEF Text
<1> HIDE DEF kept
<1>5. y \in Text /\ Len(y) = Len(kept) + Len(chunk) /\ Len(chunk) \in Nat
  BY <1>2, ConcatIs DEF Text
<1>6. chars = Len(y)
  BY <1>3, <1>5
<1>7. SUFFICES Windowed(TextPush(w, chunk), y)
  <2> HIDE DEF y
  <2>1. QED
    BY <1>4 DEF Windowed, W
<1> HIDE DEF y
<1>8. CASE chunk = <<>>
  <2>1. TextPush(w, chunk) = w
    BY <1>8 DEF TextPush
  <2>2. y = kept
    BY <1>2, <1>8, ConcatEmptySeq DEF y, Text
  <2>3. LastChars(kept, W) = kept
    BY <1>1, <1>2, LastAll DEF Text
  <2>4. QED
    BY <1>3, <2>1, <2>2, <2>3 DEF Windowed, Chars
<1>9. CASE chunk # <<>> /\ Len(chunk) >= W
  <2> DEFINE l == LastChars(chunk, W)
             one == <<l>>
  <2>1. TextPush(w, chunk) = [chars |-> W, segments |-> one]
    BY <1>9 DEF TextPush
  <2>2. l \in Text /\ Len(l) = W
    <3>1. W <= Len(chunk)
      BY <1>1, <1>5, <1>9
    <3>2. QED
      BY <1>1, <3>1, LastCharsIs DEF Text
  <2>3. LastChars(y, W) = l
    <3>1. W <= Len(chunk)
      BY <1>1, <1>5, <1>9
    <3>2. QED
      BY <1>1, <1>2, <3>1, LastBehind DEF y, Text
  <2> HIDE DEF l
  <2>4. one \in Seq(Text) /\ FlattenSeq(one) = l
    BY <2>2, FlattenOne DEF Text
  <2> HIDE DEF one
  <2>5. QED
    BY <2>1, <2>2, <2>3, <2>4 DEF Windowed, Chars
<1> DEFINE more == Append(w.segments, chunk)
<1>10. more \in Seq(Text) /\ FlattenSeq(more) = y
  <2> DEFINE s == w.segments
  <2>1. s \in Seq(Text) /\ FlattenSeq(s) = kept
    BY <1>3
  <2> HIDE DEF s
  <2>2. Append(s, chunk) \in Seq(Text)
    BY <2>1, AppendProperties
  <2>3. FlattenSeq(Append(s, chunk)) = FlattenSeq(s) \o chunk
    BY <2>1, FlattenAppend DEF Text
  <2>4. QED
    BY <2>1, <2>2, <2>3 DEF s, y
<1>11. CASE chunk # <<>> /\ ~(Len(chunk) >= W) /\ chars <= W
  <2>1. TextPush(w, chunk) = [chars |-> chars, segments |-> more]
    BY <1>11 DEF TextPush
  <2>2. LastChars(y, W) = y
    BY <1>1, <1>5, <1>6, <1>11, LastAll DEF Text
  <2> HIDE DEF more, chars
  <2>3. QED
    BY <1>6, <1>10, <2>1, <2>2 DEF Windowed, Chars
<1>12. CASE chunk # <<>> /\ ~(Len(chunk) >= W) /\ ~(chars <= W)
  <2> DEFINE over == chars - W
  <2>1. TextPush(w, chunk) = [chars |-> W, segments |-> Trimmed(more, over)]
    BY <1>12 DEF TextPush
  <2> HIDE DEF more, chars
  <2>2. Len(y) \in Nat /\ over = Len(y) - W /\ over \in 0 .. Len(y) /\ W <= Len(y)
    BY <1>1, <1>2, <1>5, <1>6, <1>12
  <2> HIDE DEF over, W
  <2>3. Trimmed(more, over) \in Seq(Text) /\ FlattenSeq(Trimmed(more, over)) = From(y, over + 1)
    BY <1>10, <2>2, TrimmedIs
  <2>4. LastChars(y, W) = From(y, over + 1) /\ Len(LastChars(y, W)) = W
    BY <1>1, <1>5, <2>2, LastCharsIs DEF Text
  <2>5. QED
    BY <2>1, <2>3, <2>4 DEF Windowed, Chars, W
<1>13. QED
  BY <1>8, <1>9, <1>11, <1>12

-----------------------------------------------------------------------------
\* To be a suffix.
LEMMA SuffixIs ==
  ASSUME NEW T, NEW u \in Seq(T), NEW s \in Seq(T)
  PROVE  IsSuffix(s, u \o s)
<1> DEFINE t == u \o s
           rs == Reverse(s)
           rt == Reverse(t)
<1>1. /\ t \in Seq(T) /\ Len(t) = Len(u) + Len(s) /\ Len(u) \in Nat /\ Len(s) \in Nat
      /\ \A i \in 1 .. Len(s) : t[Len(u) + i] = s[i]
  BY ConcatIs
<1> HIDE DEF t
<1>2. rs \in Seq(T) /\ Len(rs) = Len(s) /\ \A i \in 1 .. Len(s) : rs[i] = s[Len(s) - i + 1]
  <2>1. \A i \in 1 .. Len(s) : Len(s) - i + 1 \in 1 .. Len(s)
    BY <1>1
  <2>2. \A i \in 1 .. Len(s) : s[Len(s) - i + 1] \in T
    BY <2>1, ElementOfSeq
  <2>3. rs = [i \in 1 .. Len(s) |-> s[Len(s) - i + 1]]
    BY DEF Reverse
  <2>4. QED
    BY <1>1, <2>2, <2>3
<1>3. rt \in Seq(T) /\ Len(rt) = Len(t) /\ \A i \in 1 .. Len(t) : rt[i] = t[Len(t) - i + 1]
  <2>1. \A i \in 1 .. Len(t) : Len(t) - i + 1 \in 1 .. Len(t)
    BY <1>1
  <2>2. \A i \in 1 .. Len(t) : t[Len(t) - i + 1] \in T
    BY <1>1, <2>1, ElementOfSeq
  <2>3. rt = [i \in 1 .. Len(t) |-> t[Len(t) - i + 1]]
    BY DEF Reverse
  <2>4. QED
    BY <1>1, <2>2, <2>3
<1> HIDE DEF rs, rt
<1>4. ASSUME NEW i \in 1 .. Len(rs) PROVE rs[i] = rt[i]
  <2>1. /\ i \in 1 .. Len(s) /\ i \in 1 .. Len(t) /\ Len(s) - i + 1 \in 1 .. Len(s)
        /\ Len(t) - i + 1 = Len(u) + (Len(s) - i + 1)
    BY <1>1, <1>2
  <2>2. rs[i] = s[Len(s) - i + 1] /\ rt[i] = t[Len(u) + (Len(s) - i + 1)]
    BY <1>2, <1>3, <2>1
  <2>3. QED
    BY <1>1, <2>1, <2>2
<1>5. Len(rs) <= Len(rt)
  BY <1>1, <1>2, <1>3
<1>6. IsPrefix(rs, rt)
  BY <1>2, <1>3, <1>4, <1>5, PrefixIs
<1>7. QED
  BY <1>6 DEF IsSuffix, t, rs, rt

\* The window of chunks.
Entries == Seq([seq : Nat, data : Text])
EndsWith(t, s) == \E u \in Text : t = u \o s
Chunked(w, all, n) ==
  /\ w.entries \in Entries
  /\ EndsWith(all, FlattenSeq(Texts(w.entries)))
  /\ w.chars = Chars(Texts(w.entries)) /\ w.chars <= WindowChars
  /\ n > 0 => w.entries # <<>> /\ Last(w.entries).seq = n

\* The texts of the entries of a window.
LEMMA TextsIs ==
  ASSUME NEW e \in Entries
  PROVE  /\ Texts(e) \in Seq(Text) /\ Len(Texts(e)) = Len(e)
         /\ \A k \in 1 .. Len(e) : Texts(e)[k] = e[k].data /\ e[k].data \in Text /\ e[k].seq \in Nat
<1>1. Len(e) \in Nat /\ DOMAIN e = 1 .. Len(e) /\ \A k \in 1 .. Len(e) : e[k] \in [seq : Nat, data : Text]
  BY LenProperties, ElementOfSeq DEF Entries
<1>2. \A k \in 1 .. Len(e) : e[k].data \in Text /\ e[k].seq \in Nat
  BY <1>1
<1>3. Texts(e) = [k \in 1 .. Len(e) |-> e[k].data]
  BY <1>1 DEF Texts
<1>4. QED
  BY <1>1, <1>2, <1>3

\* One more entry.
LEMMA TextsAppend ==
  ASSUME NEW e \in Entries, NEW x \in [seq : Nat, data : Text]
  PROVE  Append(e, x) \in Entries /\ Texts(Append(e, x)) = Append(Texts(e), x.data)
<1> DEFINE a == Append(e, x)
           b == Append(Texts(e), x.data)
<1>1. /\ a \in Entries /\ Len(a) = Len(e) + 1 /\ a[Len(e) + 1] = x /\ \A i \in 1 .. Len(e) : a[i] = e[i]
  BY AppendProperties DEF Entries
<1>2. Texts(e) \in Seq(Text) /\ Len(Texts(e)) = Len(e) /\ \A k \in 1 .. Len(e) : Texts(e)[k] = e[k].data
  BY TextsIs
<1>3. x.data \in Text /\ Len(e) \in Nat
  BY LenProperties DEF Entries
<1>4. b \in Seq(Text) /\ Len(b) = Len(e) + 1 /\ b[Len(e) + 1] = x.data /\ \A i \in 1 .. Len(e) : b[i] = e[i].data
  <2> DEFINE t == Texts(e)
             d == x.data
  <2>1. t \in Seq(Text) /\ d \in Text
    BY <1>2, <1>3
  <2> HIDE DEF t, d
  <2>2. /\ Append(t, d) \in Seq(Text) /\ Len(Append(t, d)) = Len(t) + 1
        /\ \A i \in 1 .. Len(t) : Append(t, d)[i] = t[i]
        /\ Append(t, d)[Len(t) + 1] = d
    BY <2>1, AppendProperties
  <2>3. b = Append(t, d)
    BY DEF t, d
  <2>4. t = Texts(e) /\ d = x.data
    BY DEF t, d
  <2> HIDE DEF b
  <2>5. QED
    BY <1>2, <2>2, <2>3, <2>4
<1>5. Texts(a) \in Seq(Text) /\ Len(Texts(a)) = Len(e) + 1 /\ \A k \in 1 .. Len(e) + 1 : Texts(a)[k] = a[k].data
  <2> HIDE DEF a
  <2>1. QED
    BY <1>1, TextsIs
<1> HIDE DEF a, b
<1>6. ASSUME NEW i \in 1 .. Len(e) + 1 PROVE Texts(a)[i] = b[i]
  <2>1. CASE i = Len(e) + 1
    BY <1>1, <1>4, <1>5, <2>1
  <2>2. CASE i # Len(e) + 1
    <3>1. i \in 1 .. Len(e)
      BY <1>3, <2>2
    <3>2. QED
      BY <1>1, <1>4, <1>5, <3>1
  <2>3. QED
    BY <2>1, <2>2
<1>7. Texts(a) = b
  BY <1>4, <1>5, <1>6, SeqEqual
<1>8. QED
  BY <1>1, <1>7 DEF a, b

\* A part of the entries.
LEMMA TextsSlice ==
  ASSUME NEW e \in Entries, NEW m \in Int, NEW n \in Int, 1 <= m, n <= Len(e), m <= n + 1
  PROVE  SubSeq(e, m, n) \in Entries /\ Texts(SubSeq(e, m, n)) = SubSeq(Texts(e), m, n)
<1> DEFINE a == SubSeq(e, m, n)
           b == SubSeq(Texts(e), m, n)
<1>1. a \in Entries /\ Len(a) = n - m + 1 /\ \A i \in 1 .. n - m + 1 : a[i] = e[m + i - 1]
  BY Slice, ZenonT(60) DEF Entries
<1>2. Texts(e) \in Seq(Text) /\ Len(Texts(e)) = Len(e) /\ \A k \in 1 .. Len(e) : Texts(e)[k] = e[k].data
  BY TextsIs
<1>3. b \in Seq(Text) /\ Len(b) = n - m + 1 /\ \A i \in 1 .. n - m + 1 : b[i] = Texts(e)[m + i - 1]
  BY <1>2, Slice
<1>4. Len(e) \in Nat
  BY LenProperties DEF Entries
<1> HIDE DEF a, b
<1>5. Texts(a) \in Seq(Text) /\ Len(Texts(a)) = n - m + 1 /\ \A k \in 1 .. n - m + 1 : Texts(a)[k] = a[k].data
  BY <1>1, TextsIs
<1>6. ASSUME NEW i \in 1 .. n - m + 1 PROVE Texts(a)[i] = b[i]
  <2>1. m + i - 1 \in 1 .. Len(e)
    BY <1>4
  <2>2. QED
    BY <1>1, <1>2, <1>3, <1>5, <2>1
<1>7. Texts(a) = b
  BY <1>3, <1>5, <1>6, SeqEqual
<1>8. QED
  BY <1>1, <1>7 DEF a, b

\* What is left of a list when its last text stays.
LEMMA FlattenLast ==
  ASSUME NEW t \in Seq(Text), NEW x \in Text, NEW k \in 0 .. Len(t)
  PROVE  /\ From(Append(t, x), k + 1) \in Seq(Text)
         /\ FlattenSeq(From(Append(t, x), k + 1)) = FlattenSeq(From(t, k + 1)) \o x
<1> DEFINE r == From(t, k + 1)
           y == <<x>>
<1>1. Len(t) \in Nat /\ k + 1 \in 1 .. Len(t) + 1
  BY LenProperties
<1>2. r \in Seq(Text)
  BY <1>1, FromIs
<1>3. Append(t, x) = t \o y /\ y \in Seq(Text)
  BY AppendIsConcat
<1> HIDE DEF y
<1>4. From(t \o y, k + 1) = r \o y
  BY <1>1, <1>3, FromConcat
<1> HIDE DEF r
<1>5. r \o y = Append(r, x)
  BY <1>2, AppendIsConcat DEF y
<1>6. FlattenSeq(Append(r, x)) = FlattenSeq(r) \o x
  BY <1>2, FlattenAppend DEF Text
<1>7. Append(r, x) \in Seq(Text)
  BY <1>2, AppendProperties
<1>8. QED
  BY <1>3, <1>4, <1>5, <1>6, <1>7 DEF r

\* ChunkWindow::push keeps the newest chunks, within the limit unless one is left.
LEMMA ChunkPushIs ==
  ASSUME NEW w, NEW all \in Text, NEW n \in Nat, NEW m \in Nat, NEW chunk \in Text, Chunked(w, all, n)
  PROVE  Chunked(ChunkPush(w, m, chunk), all \o chunk, m)
<1> DEFINE W == WindowChars
           stored == LastChars(chunk, W)
           x == Entry(m, chunk)
           e == w.entries
           a == Append(e, x)
           TE == Texts(e)
           chars == w.chars + Len(Last(a).data)
           Left(k) == chars - Chars(Texts(SubSeq(a, 1, k)))
           S == {k \in 0 .. Len(a) - 1 : k = Len(a) - 1 \/ Left(k) <= W}
           gone == Least(S)
           P(k) == FlattenSeq(SubSeq(TE, 1, k))
           Q(k) == FlattenSeq(From(TE, k + 1))
<1>1. W \in Nat /\ W # 0
  BY PipelineAssumption
<1>2. stored \in Text /\ Len(stored) \in Nat /\ Len(stored) <= W /\ Len(chunk) \in Nat
  <2>1. Len(chunk) \in Nat
    BY LenProperties DEF Text
  <2>2. stored \in Text /\ Len(stored) = IF W <= Len(chunk) THEN W ELSE Len(chunk)
    BY <1>1, LastCharsIs DEF Text
  <2> HIDE DEF stored
  <2>3. QED
    BY <1>1, <2>1, <2>2
<1>3. x = [seq |-> m, data |-> stored] /\ x \in [seq : Nat, data : Text] /\ x.data = stored /\ x.seq = m
  BY <1>2 DEF Entry
<1>4. /\ e \in Entries /\ EndsWith(all, FlattenSeq(TE)) /\ w.chars = Len(FlattenSeq(TE))
  BY DEF Chunked, Chars
<1>5. ChunkPush(w, m, chunk) = [chars |-> Left(gone), entries |-> From(a, gone + 1)]
  BY DEF ChunkPush
<1> HIDE DEF stored, x, e
<1>6. Len(e) \in Nat /\ TE \in Seq(Text) /\ Len(TE) = Len(e) /\ FlattenSeq(TE) \in Text /\ Len(FlattenSeq(TE)) \in Nat
  <2>1. Len(e) \in Nat /\ TE \in Seq(Text) /\ Len(TE) = Len(e)
    BY <1>4, TextsIs, LenProperties DEF Entries
  <2> HIDE DEF TE
  <2>2. FlattenSeq(TE) \in Text
    BY <2>1, FlattenType DEF Text
  <2>3. QED
    BY <2>1, <2>2, LenProperties DEF Text
<1>7. a \in Entries /\ Texts(a) = Append(TE, stored) /\ Len(a) = Len(e) + 1 /\ a[Len(e) + 1] = x
  <2>1. a \in Entries /\ Texts(a) = Append(TE, x.data)
    BY <1>3, <1>4, TextsAppend
  <2>2. Len(a) = Len(e) + 1 /\ a[Len(e) + 1] = x
    BY <1>3, <1>4, AppendProperties DEF Entries
  <2> HIDE DEF a
  <2>3. QED
    BY <1>3, <2>1, <2>2
<1> HIDE DEF a, TE
<1>8. chars = Len(FlattenSeq(TE)) + Len(stored)
  BY <1>3, <1>4, <1>7 DEF Last
<1> HIDE DEF chars
\* What is dropped and what is kept, for every place to cut.
<1>9. ASSUME NEW k \in 0 .. Len(e)
      PROVE  /\ P(k) \in Text /\ Q(k) \in Text /\ FlattenSeq(TE) = P(k) \o Q(k)
             /\ Len(P(k)) \in Nat /\ Len(Q(k)) \in Nat
             /\ Left(k) = Len(Q(k)) + Len(stored)
             /\ Texts(From(a, k + 1)) \in Seq(Text)
             /\ FlattenSeq(Texts(From(a, k + 1))) = Q(k) \o stored
             /\ From(a, k + 1) \in Entries /\ From(a, k + 1) # <<>> /\ Last(From(a, k + 1)) = x
  <2>1. SubSeq(TE, 1, k) \in Seq(Text) /\ From(TE, k + 1) \in Seq(Text) /\ FlattenSeq(TE) = P(k) \o Q(k)
    <3>1. k \in 0 .. Len(TE)
      BY <1>6
    <3>2. QED
      BY <1>6, <3>1, FlattenSplit DEF Text
  <2>2. P(k) \in Text /\ Q(k) \in Text
    BY <2>1, FlattenType DEF Text
  <2>3. Len(P(k)) \in Nat /\ Len(Q(k)) \in Nat /\ Len(FlattenSeq(TE)) = Len(P(k)) + Len(Q(k))
    <3> DEFINE p == P(k)
               q == Q(k)
    <3>1. p \in Text /\ q \in Text /\ FlattenSeq(TE) = p \o q
      BY <2>1, <2>2
    <3> HIDE DEF p, q, P, Q
    <3>2. Len(p) \in Nat /\ Len(q) \in Nat /\ Len(p \o q) = Len(p) + Len(q)
      BY <3>1, ConcatIs DEF Text
    <3>3. QED
      BY <3>1, <3>2 DEF p, q
  <2>4. SubSeq(a, 1, k) \in Entries /\ Texts(SubSeq(a, 1, k)) = SubSeq(TE, 1, k)
    <3> DEFINE one == 1
    <3>1. one <= k + 1 /\ 1 <= one /\ k <= Len(a) /\ k \in Int /\ one \in Int
      BY <1>6, <1>7
    <3>2. SubSeq(a, 1, k) \in Entries /\ Texts(SubSeq(a, 1, k)) = SubSeq(Texts(a), 1, k)
      <4> HIDE DEF one
      <4>1. SubSeq(a, one, k) \in Entries /\ Texts(SubSeq(a, one, k)) = SubSeq(Texts(a), one, k)
        BY <1>7, <3>1, TextsSlice
      <4>2. QED
        BY <4>1 DEF one
    <3>3. SubSeq(Append(TE, stored), 1, k) = SubSeq(TE, 1, k)
      <4> DEFINE y == <<stored>>
      <4>1. y \in Seq(Text) /\ Append(TE, stored) = TE \o y
        BY <1>2, <1>6, AppendIsConcat
      <4> HIDE DEF y
      <4>2. CASE k = 0
        BY <4>2, SubSeqEmpty
      <4>3. CASE k # 0
        <5>1. 1 \in 1 .. Len(TE) /\ k \in 1 .. Len(TE)
          BY <1>6, <4>3
        <5>2. SubSeq(TE \o y, 1, k) = SubSeq(TE, 1, k)
          BY <1>6, <4>1, <5>1, SubSeqOfConcat1
        <5>3. QED
          BY <4>1, <5>2
      <4>4. QED
        BY <4>2, <4>3
    <3>4. QED
      BY <1>7, <3>2, <3>3
  <2>5. Left(k) = Len(Q(k)) + Len(stored)
    <3>1. Chars(Texts(SubSeq(a, 1, k))) = Len(P(k))
      BY <2>4 DEF Chars
    <3> HIDE DEF P, Q
    <3>2. QED
      BY <1>2, <1>8, <2>3, <3>1
  <2>6. From(a, k + 1) \in Entries /\ Texts(From(a, k + 1)) = From(Append(TE, stored), k + 1)
    <3>1. 1 <= k + 1 /\ Len(a) <= Len(a) /\ k + 1 <= Len(a) + 1 /\ k + 1 \in Int /\ Len(a) \in Int
      BY <1>6, <1>7
    <3>2. SubSeq(a, k + 1, Len(a)) \in Entries /\ Texts(SubSeq(a, k + 1, Len(a))) = SubSeq(Texts(a), k + 1, Len(a))
      BY <1>7, <3>1, TextsSlice
    <3>3. Len(Append(TE, stored)) = Len(a)
      BY <1>2, <1>6, <1>7, AppendProperties
    <3>4. QED
      BY <1>7, <3>2, <3>3 DEF From
  <2>7. /\ From(Append(TE, stored), k + 1) \in Seq(Text)
        /\ FlattenSeq(From(Append(TE, stored), k + 1)) = Q(k) \o stored
    <3>1. k \in 0 .. Len(TE)
      BY <1>6
    <3>2. QED
      BY <1>2, <1>6, <3>1, FlattenLast
  <2>8. From(a, k + 1) # <<>> /\ Last(From(a, k + 1)) = x
    <3> DEFINE r == From(a, k + 1)
    <3>1. k + 1 \in 1 .. Len(a) + 1
      BY <1>6, <1>7
    <3>2. /\ r \in Entries /\ Len(r) = Len(a) - (k + 1) + 1
          /\ \A i \in 1 .. Len(a) - (k + 1) + 1 : r[i] = a[(k + 1) + i - 1]
      BY <1>7, <3>1, FromIs DEF Entries
    <3> HIDE DEF r
    <3>3. /\ Len(a) - (k + 1) + 1 \in 1 .. Len(a) - (k + 1) + 1
          /\ (k + 1) + (Len(a) - (k + 1) + 1) - 1 = Len(e) + 1 /\ Len(r) # 0
      BY <1>6, <1>7, <3>2
    <3>4. r[Len(r)] = x
      BY <1>7, <3>2, <3>3
    <3>5. r # <<>>
      BY <3>3, EmptySeq
    <3>6. QED
      BY <3>4, <3>5 DEF Last, r
  <2> HIDE DEF P, Q, Left
  <2>9. QED
    BY <2>1, <2>2, <2>3, <2>5, <2>6, <2>7, <2>8
<1>10. gone \in 0 .. Len(e) /\ (gone = Len(e) \/ Left(gone) <= W)
  <2>1. Len(a) - 1 = Len(e)
    BY <1>6, <1>7
  <2> HIDE DEF Left
  <2>2. S \subseteq Nat /\ Len(e) \in S /\ S = {k \in 0 .. Len(e) : k = Len(e) \/ Left(k) <= W}
    BY <1>6, <2>1
  <2>3. gone \in S
    <3> HIDE DEF S
    <3>1. QED
      BY <2>2, LeastExists
  <2> HIDE DEF S, gone
  <2>4. QED
    BY <2>2, <2>3
<1> HIDE DEF P, Q, Left, gone, S
<1>11. Left(gone) <= W
  <2>1. CASE gone = Len(e)
    <3>1. From(TE, gone + 1) = <<>>
      <4>1. Len(TE) < gone + 1 /\ Len(TE) \in Int /\ gone + 1 \in Int
        BY <1>6, <2>1
      <4>2. QED
        BY <4>1, SubSeqEmpty DEF From
    <3>2. Len(Q(gone)) = 0
      BY <3>1, FlattenEmpty, EmptySeq DEF Q
    <3>3. Left(gone) = 0 + Len(stored)
      BY <1>9, <1>10, <3>2
    <3>4. QED
      BY <1>2, <3>3
  <2>2. QED
    BY <1>10, <2>1
<1> DEFINE p == P(gone)
           q == Q(gone)
<1>12. /\ p \in Text /\ q \in Text /\ FlattenSeq(TE) = p \o q /\ Len(p) \in Nat /\ Len(q) \in Nat
       /\ Left(gone) = Len(q) + Len(stored)
       /\ FlattenSeq(Texts(From(a, gone + 1))) = q \o stored
       /\ From(a, gone + 1) \in Entries /\ From(a, gone + 1) # <<>> /\ Last(From(a, gone + 1)) = x
  BY <1>9, <1>10
<1> HIDE DEF p, q
<1>13. PICK u \in Text : all = u \o (p \o q)
  BY <1>4, <1>12 DEF EndsWith
<1>14. EndsWith(all \o chunk, q \o stored)
  <2>1. CASE Len(chunk) <= W
    <3>1. stored = chunk
      BY <1>1, <2>1, LastAll DEF stored, Text
    <3>2. u \o (p \o q) = (u \o p) \o q /\ u \o p \in Text
      BY <1>12, <1>13, TextConcat, TextAssociative
    <3>3. ((u \o p) \o q) \o chunk = (u \o p) \o (q \o chunk)
      <4> DEFINE up == u \o p
      <4>1. up \in Text
        BY <3>2
      <4> HIDE DEF up
      <4>2. (up \o q) \o chunk = up \o (q \o chunk)
        BY <1>12, <4>1, TextConcat, TextAssociative
      <4>3. QED
        BY <4>2 DEF up
    <3>4. QED
      BY <1>13, <3>1, <3>2, <3>3 DEF EndsWith
  <2>2. CASE ~(Len(chunk) <= W)
    <3>1. stored = From(chunk, (Len(chunk) - W) + 1) /\ Len(stored) = W
      <4>1. W <= Len(chunk)
        BY <1>1, <1>2, <2>2
      <4>2. QED
        BY <1>1, <4>1, LastCharsIs DEF stored, Text
    <3>2. q = <<>>
      <4>1. Len(q) = 0
        BY <1>1, <1>11, <1>12, <3>1
      <4>2. QED
        BY <1>12, <4>1, EmptyText DEF Text
    <3> DEFINE c == SubSeq(chunk, 1, Len(chunk) - W)
    <3>3. Len(chunk) - W \in 0 .. Len(chunk)
      BY <1>1, <1>2, <2>2
    <3>4. c \o stored = chunk
      BY <3>1, <3>3, Split DEF Text
    <3>5. c \in Text
      <4>1. 1 <= (Len(chunk) - W) + 1 /\ Len(chunk) - W <= Len(chunk) /\ Len(chunk) - W \in Int
        BY <1>1, <1>2, <3>3
      <4>2. QED
        BY <4>1, Slice DEF Text
    <3> HIDE DEF c
    <3>6. all \o chunk = (all \o c) \o stored /\ all \o c \in Text
      <4>1. all \o c \in Text /\ (all \o c) \o stored = all \o (c \o stored)
        BY <1>2, <3>5, TextConcat, TextAssociative, SMTT(30)
      <4>2. QED
        BY <3>4, <4>1
    <3>7. q \o stored = stored
      BY <1>2, <3>2, ConcatEmptySeq DEF Text
    <3>8. QED
      BY <3>6, <3>7 DEF EndsWith
  <2>3. QED
    BY <2>1, <2>2
<1>15. Len(q \o stored) = Len(q) + Len(stored)
  BY <1>2, <1>12, ConcatIs DEF Text
<1>16. QED
  <2> DEFINE r == From(a, gone + 1)
             c == ChunkPush(w, m, chunk)
  <2>1. c.chars = Left(gone) /\ c.entries = r
    BY <1>5
  <2>2. /\ r \in Entries /\ r # <<>> /\ Last(r).seq = m /\ FlattenSeq(Texts(r)) = q \o stored
    BY <1>3, <1>12
  <2> HIDE DEF r, c
  <2>3. c.chars = Chars(Texts(r)) /\ c.chars <= WindowChars
    BY <1>11, <1>12, <1>15, <2>1, <2>2 DEF Chars, W
  <2>4. Chunked(c, all \o chunk, m)
    BY <1>14, <2>1, <2>2, <2>3 DEF Chunked
  <2>5. QED
    BY <2>4 DEF c

-----------------------------------------------------------------------------
(* The decoder.                                                              *)

\* For texts: to be a prefix,
LEMMA TextPrefix ==
  \A p, s \in Text : IsPrefix(p, s) <=> Len(p) <= Len(s) /\ \A i \in 1 .. Len(p) : p[i] = s[i]
BY PrefixIs DEF Text

\* to be equal,
LEMMA TextEqual ==
  \A s, t \in Text : Len(s) = Len(t) /\ (\A i \in 1 .. Len(s) : s[i] = t[i]) => s = t
BY SeqEqual DEF Text

\* the literals as symbols,
LEMMA Symbols == \A x \in {"L", "C", "Z", "R", "P", "K", "E", "[", "?", "0", "m", "a"} : x \in Symbol
BY DEF Symbol

\* texts of one,
LEMMA OneSymbol ==
  \A a \in Symbol : <<a>> \in Text /\ Len(<<a>>) = 1 /\ <<a>>[1] = a
BY SmallSequences DEF Text

\* two
LEMMA TwoSymbols ==
  \A a, b \in Symbol : <<a, b>> \in Text /\ Len(<<a, b>>) = 2 /\ <<a, b>>[1] = a /\ <<a, b>>[2] = b
BY SmallSequences DEF Text

\* and three symbols.
LEMMA ThreeSymbols ==
  \A a, b, c \in Symbol :
    /\ <<a, b, c>> \in Text /\ Len(<<a, b, c>>) = 3
    /\ <<a, b, c>>[1] = a /\ <<a, b, c>>[2] = b /\ <<a, b, c>>[3] = c
BY SmallSequences DEF Text

\* A loop of N turns: what it passes through exists.
Turned(X, x0, N, step, f) ==
  f \in [0 .. N -> X] /\ f = [k \in 0 .. N |-> IF k = 0 THEN x0 ELSE step[f[k - 1]]]

\* Such a function exists.
LEMMA Turns ==
  ASSUME NEW X, NEW x0 \in X, NEW N \in Nat, NEW step \in [X -> X]
  PROVE  \E f : Turned(X, x0, N, step, f)
<1> DEFINE Runs(n, f) == f = [k \in 0 .. n |-> IF k = 0 THEN x0 ELSE step[f[k - 1]]]
           Good == {n \in 0 .. N : \E f \in [0 .. n -> X] : Runs(n, f)}
<1>1. 0 \in Good
  <2> DEFINE e == [k \in 0 .. 0 |-> x0]
  <2>1. e \in [0 .. 0 -> X]
    OBVIOUS
  <2>2. Runs(0, e)
    <3>1. \A k \in 0 .. 0 : k = 0
      OBVIOUS
    <3>2. e = [k \in 0 .. 0 |-> IF k = 0 THEN x0 ELSE step[e[k - 1]]]
      BY <3>1
    <3>3. QED
      BY <3>2
  <2> HIDE DEF e, Runs
  <2>3. \E f \in [0 .. 0 -> X] : Runs(0, f)
    BY <2>1, <2>2
  <2>4. QED
    BY <2>3
<1>2. ASSUME NEW n \in 0 .. N - 1, n \in Good PROVE n + 1 \in Good
  <2>1. PICK f \in [0 .. n -> X] : Runs(n, f)
    BY <1>2
  <2> DEFINE g == [k \in 0 .. n + 1 |-> IF k = n + 1 THEN step[f[n]] ELSE f[k]]
  <2>2. n \in Nat /\ n \in 0 .. n /\ \A k \in 0 .. n + 1 : k # n + 1 => k \in 0 .. n
    OBVIOUS
  <2>3. f[n] \in X /\ step[f[n]] \in X
    BY <2>2
  <2>4. g \in [0 .. n + 1 -> X]
    BY <2>2, <2>3
  <2>5. \A k \in 0 .. n : f[k] = IF k = 0 THEN x0 ELSE step[f[k - 1]]
    BY <2>1
  <2>6. ASSUME NEW k \in 0 .. n + 1
        PROVE  g[k] = IF k = 0 THEN x0 ELSE step[g[k - 1]]
    <3>1. CASE k = n + 1
      <4>1. k # 0 /\ k - 1 = n /\ n \in 0 .. n + 1 /\ n # n + 1
        BY <2>2, <3>1
      <4>2. g[k] = step[f[n]] /\ g[n] = f[n]
        BY <3>1, <4>1
      <4>3. QED
        BY <4>1, <4>2
    <3>2. CASE k # n + 1
      <4>1. k \in 0 .. n /\ (k # 0 => k - 1 \in 0 .. n + 1 /\ k - 1 # n + 1)
        BY <2>2, <3>2
      <4>2. g[k] = f[k] /\ (k # 0 => g[k - 1] = f[k - 1])
        BY <3>2, <4>1
      <4>3. QED
        BY <2>5, <4>1, <4>2
    <3>3. QED
      BY <3>1, <3>2
  <2>7. DOMAIN g = 0 .. n + 1
    OBVIOUS
  <2> HIDE DEF g
  <2>8. Runs(n + 1, g)
    <3>1. g = [k \in 0 .. n + 1 |-> g[k]]
      BY <2>4
    <3>2. g = [k \in 0 .. n + 1 |-> IF k = 0 THEN x0 ELSE step[g[k - 1]]]
      BY <2>6, <3>1
    <3>3. QED
      BY <3>2
  <2>9. n + 1 \in 0 .. N
    OBVIOUS
  <2> HIDE DEF Runs
  <2>10. QED
    BY <2>4, <2>8, <2>9
<1>3. \A n \in 0 .. N : n \in Good
  <2> HIDE DEF Good
  <2>1. QED
    BY <1>1, <1>2, UpTo
<1>4. PICK f \in [0 .. N -> X] : Runs(N, f)
  <2>1. N \in Good
    BY <1>3
  <2> HIDE DEF Runs
  <2>2. QED
    BY <2>1
<1>5. Turned(X, x0, N, step, f)
  BY <1>4 DEF Turned
<1>6. QED
  BY <1>5

\* What is ahead at a place of the bytes, symbol by symbol.
LEMMA AheadIs ==
  ASSUME NEW b \in Text, NEW i \in 1 .. Len(b)
  PROVE  LET a == From(b, i)
         IN  /\ a \in Text /\ Len(a) = Len(b) - i + 1 /\ a # <<>>
             /\ Head(a) = b[i] /\ b[i] \in Symbol
             /\ Whole(a) <=> i + 2 <= Len(b) /\ b[i] = "L" /\ b[i + 1] = "C" /\ b[i + 2] = "C"
             /\ IsPrefix(<<"L", "C">>, a) <=> i + 1 <= Len(b) /\ b[i] = "L" /\ b[i + 1] = "C"
             /\ Unfinished(a) <=> \/ i = Len(b) /\ b[i] = "L"
                                  \/ i + 1 = Len(b) /\ b[i] = "L" /\ b[i + 1] = "C"
<1> DEFINE a == From(b, i)
<1>1. Len(b) \in Nat /\ i \in 1 .. Len(b) + 1 /\ b[i] \in Symbol
  BY LenProperties, ElementOfSeq DEF Text
<1>2. a \in Text /\ Len(a) = Len(b) - i + 1 /\ \A k \in 1 .. Len(b) - i + 1 : a[k] = b[i + k - 1]
  BY <1>1, FromIs DEF Text
<1> HIDE DEF a
<1>3. a # <<>> /\ Head(a) = b[i]
  <2>1. Len(a) # 0
    BY <1>1, <1>2
  <2>2. a # <<>>
    BY <2>1, EmptySeq
  <2>3. Head(a) = a[1]
    BY <1>2, <2>2, HeadIs DEF Text
  <2>4. 1 \in 1 .. Len(b) - i + 1 /\ i + 1 - 1 = i
    BY <1>1
  <2>5. QED
    BY <1>2, <2>2, <2>3, <2>4
<1>4. /\ Len(b) - i + 1 >= 1 => a[1] = b[i]
      /\ Len(b) - i + 1 >= 2 => a[2] = b[i + 1]
      /\ Len(b) - i + 1 >= 3 => a[3] = b[i + 2]
  <2>1. /\ Len(b) - i + 1 >= 1 => 1 \in 1 .. Len(b) - i + 1 /\ i + 1 - 1 = i
        /\ Len(b) - i + 1 >= 2 => 2 \in 1 .. Len(b) - i + 1 /\ i + 2 - 1 = i + 1
        /\ Len(b) - i + 1 >= 3 => 3 \in 1 .. Len(b) - i + 1 /\ i + 3 - 1 = i + 2
    BY <1>1
  <2>2. QED
    BY <1>2, <2>1
<1>5. Whole(a) <=> i + 2 <= Len(b) /\ b[i] = "L" /\ b[i + 1] = "C" /\ b[i + 2] = "C"
  <2> DEFINE p == <<"L", "C", "C">>
  <2>1. p \in Text /\ Len(p) = 3 /\ p[1] = "L" /\ p[2] = "C" /\ p[3] = "C"
    <3>1. "L" \in Symbol /\ "C" \in Symbol
      BY Symbols
    <3>2. QED
      BY <3>1, ThreeSymbols
  <2>2. Whole(a) <=> IsPrefix(p, a)
    BY DEF Whole
  <2> HIDE DEF p
  <2>3. IsPrefix(p, a) <=> Len(p) <= Len(a) /\ \A k \in 1 .. Len(p) : p[k] = a[k]
    BY <1>2, <2>1, TextPrefix
  <2>4. \A k \in 1 .. 3 : k = 1 \/ k = 2 \/ k = 3
    OBVIOUS
  <2>5. 1 \in 1 .. 3 /\ 2 \in 1 .. 3 /\ 3 \in 1 .. 3
    OBVIOUS
  <2>6. IsPrefix(p, a) <=> 3 <= Len(a) /\ a[1] = "L" /\ a[2] = "C" /\ a[3] = "C"
    BY <2>1, <2>3, <2>4, <2>5
  <2>7. QED
    BY <1>1, <1>2, <1>4, <2>2, <2>6
<1>6. IsPrefix(<<"L", "C">>, a) <=> i + 1 <= Len(b) /\ b[i] = "L" /\ b[i + 1] = "C"
  <2> DEFINE p == <<"L", "C">>
  <2>1. p \in Text /\ Len(p) = 2 /\ p[1] = "L" /\ p[2] = "C"
    <3>1. "L" \in Symbol /\ "C" \in Symbol
      BY Symbols
    <3>2. QED
      BY <3>1, TwoSymbols
  <2> HIDE DEF p
  <2>3. IsPrefix(p, a) <=> Len(p) <= Len(a) /\ \A k \in 1 .. Len(p) : p[k] = a[k]
    BY <1>2, <2>1, TextPrefix
  <2>4. \A k \in 1 .. 2 : k = 1 \/ k = 2
    OBVIOUS
  <2>5. 1 \in 1 .. 2 /\ 2 \in 1 .. 2
    OBVIOUS
  <2>6. IsPrefix(p, a) <=> 2 <= Len(a) /\ a[1] = "L" /\ a[2] = "C"
    BY <2>1, <2>3, <2>4, <2>5
  <2>7. IsPrefix(p, a) <=> i + 1 <= Len(b) /\ b[i] = "L" /\ b[i + 1] = "C"
    BY <1>1, <1>2, <1>4, <2>6
  <2>8. QED
    BY <2>7 DEF p
<1>7. Unfinished(a) <=> \/ i = Len(b) /\ b[i] = "L"
                        \/ i + 1 = Len(b) /\ b[i] = "L" /\ b[i + 1] = "C"
  <2> DEFINE p == <<"L">>
             q == <<"L", "C">>
  <2>1. /\ p \in Text /\ Len(p) = 1 /\ p[1] = "L"
        /\ q \in Text /\ Len(q) = 2 /\ q[1] = "L" /\ q[2] = "C"
    <3>1. "L" \in Symbol /\ "C" \in Symbol
      BY Symbols
    <3>2. QED
      BY <3>1, OneSymbol, TwoSymbols
  <2>2. Unfinished(a) <=> a = p \/ a = q
    BY DEF Unfinished
  <2> HIDE DEF p, q
  <2>3. \A k \in 1 .. 2 : k = 1 \/ k = 2
    OBVIOUS
  <2>4. \A k \in 1 .. 1 : k = 1
    OBVIOUS
  <2>5. a = p <=> Len(a) = 1 /\ a[1] = "L"
    <3>1. ASSUME Len(a) = 1 /\ a[1] = "L" PROVE a = p
      <4>1. Len(a) = Len(p) /\ \A k \in 1 .. Len(a) : a[k] = p[k]
        BY <2>1, <2>4, <3>1
      <4>2. QED
        BY <1>2, <2>1, <4>1, TextEqual
    <3>2. QED
      BY <2>1, <3>1
  <2>6. a = q <=> Len(a) = 2 /\ a[1] = "L" /\ a[2] = "C"
    <3>1. ASSUME Len(a) = 2 /\ a[1] = "L" /\ a[2] = "C" PROVE a = q
      <4>1. Len(a) = Len(q) /\ \A k \in 1 .. Len(a) : a[k] = q[k]
        BY <2>1, <2>3, <3>1
      <4>2. QED
        BY <1>2, <2>1, <4>1, TextEqual
    <3>2. QED
      BY <2>1, <3>1
  <2>7. QED
    BY <1>1, <1>2, <1>4, <2>2, <2>5, <2>6
<1>8. /\ a \in Text /\ Len(a) = Len(b) - i + 1 /\ a # <<>>
      /\ Head(a) = b[i] /\ b[i] \in Symbol
      /\ Whole(a) <=> i + 2 <= Len(b) /\ b[i] = "L" /\ b[i + 1] = "C" /\ b[i + 2] = "C"
      /\ IsPrefix(<<"L", "C">>, a) <=> i + 1 <= Len(b) /\ b[i] = "L" /\ b[i + 1] = "C"
      /\ Unfinished(a) <=> \/ i = Len(b) /\ b[i] = "L"
                           \/ i + 1 = Len(b) /\ b[i] = "L" /\ b[i + 1] = "C"
  BY <1>1, <1>2, <1>3, <1>5, <1>6, <1>7
<1>9. QED
  BY <1>8 DEF a

\* What the first n places of some bytes yield.
Out(b, n) == FlattenSeq([i \in 1 .. n |-> Char(From(b, i))])

\* What a place in the bytes yields is a text, and nothing at a continuation.
LEMMA CharIs ==
  ASSUME NEW b \in Text, NEW i \in 1 .. Len(b)
  PROVE  Char(From(b, i)) \in Text /\ (b[i] = "C" => Char(From(b, i)) = <<>>)
<1> DEFINE a == From(b, i)
<1>1. Head(a) = b[i] /\ b[i] \in Symbol /\ (Whole(a) => b[i] = "L")
  BY AheadIs
<1> HIDE DEF a
<1>2. <<"Z">> \in Text /\ <<>> \in Text /\ \A x \in Symbol : <<x>> \in Text
  <2>1. <<>> \in Text
    BY EmptySeq DEF Text
  <2>2. "Z" \in Symbol
    BY Symbols
  <2>3. QED
    BY <2>1, <2>2, OneSymbol
<1>3. Char(a) \in Text
  BY <1>1, <1>2 DEF Char
<1>4. b[i] = "C" => ~Whole(a) /\ ~Ascii(Head(a))
  BY <1>1 DEF Ascii
<1>5. b[i] = "C" => Char(a) = <<>>
  BY <1>4 DEF Char
<1>6. QED
  BY <1>3, <1>5 DEF a

\* What the bytes up to n yield is a text.
LEMMA OutType ==
  ASSUME NEW b \in Text, NEW n \in 0 .. Len(b)
  PROVE  Out(b, n) \in Text /\ [i \in 1 .. n |-> Char(From(b, i))] \in Seq(Text)
<1>1. Len(b) \in Nat /\ \A i \in 1 .. n : i \in 1 .. Len(b)
  BY LenProperties DEF Text
<1>2. \A i \in 1 .. n : Char(From(b, i)) \in Text
  BY <1>1, CharIs
<1>3. [i \in 1 .. n |-> Char(From(b, i))] \in Seq(Text)
  BY <1>1, <1>2
<1> DEFINE s == [i \in 1 .. n |-> Char(From(b, i))]
<1>4. s \in Seq(Text)
  BY <1>3
<1> HIDE DEF s
<1>5. FlattenSeq(s) \in Text
  BY <1>4, FlattenType DEF Text
<1>6. QED
  BY <1>4, <1>5 DEF s, Out

\* No bytes yield nothing.
LEMMA OutZero == \A b : Out(b, 0) = <<>>
<1>1. ASSUME NEW b PROVE [i \in 1 .. 0 |-> Char(From(b, i))] = <<>>
  OBVIOUS
<1>2. QED
  BY <1>1, FlattenEmpty DEF Out

\* One byte more.
LEMMA OutNext ==
  ASSUME NEW b \in Text, NEW n \in 0 .. Len(b) - 1
  PROVE  Out(b, n + 1) = Out(b, n) \o Char(From(b, n + 1))
<1> DEFINE s == [i \in 1 .. n |-> Char(From(b, i))]
           t == [i \in 1 .. n + 1 |-> Char(From(b, i))]
           x == Char(From(b, n + 1))
<1>1. Len(b) \in Nat
  BY LenProperties DEF Text
<1>2. n \in Nat /\ n \in 0 .. Len(b) /\ n + 1 \in 0 .. Len(b) /\ n + 1 \in 1 .. Len(b)
  BY <1>1
<1>3. s \in Seq(Text) /\ t \in Seq(Text)
  BY <1>2, OutType
<1>4. x \in Text
  BY <1>2, CharIs
<1>5. Len(s) = n /\ Len(t) = n + 1 /\ \A i \in 1 .. n : s[i] = t[i]
  BY <1>2
<1>6. t[n + 1] = x
  BY <1>2
<1> HIDE DEF s, t, x
<1>7. /\ Append(s, x) \in Seq(Text) /\ Len(Append(s, x)) = n + 1
      /\ \A i \in 1 .. n : Append(s, x)[i] = s[i]
      /\ Append(s, x)[n + 1] = x
  <2>1. /\ Append(s, x) \in Seq(Text) /\ Len(Append(s, x)) = Len(s) + 1
        /\ \A i \in 1 .. Len(s) : Append(s, x)[i] = s[i]
        /\ Append(s, x)[Len(s) + 1] = x
    BY <1>3, <1>4, AppendProperties
  <2>2. QED
    BY <1>5, <2>1
<1>8. \A i \in 1 .. n + 1 : i \in 1 .. n \/ i = n + 1
  BY <1>2
<1>9. t = Append(s, x)
  <2>1. \A i \in 1 .. Len(t) : t[i] = Append(s, x)[i]
    BY <1>5, <1>6, <1>7, <1>8
  <2>2. Len(t) = Len(Append(s, x))
    BY <1>5, <1>7
  <2>3. QED
    BY <1>3, <1>7, <2>1, <2>2, SeqEqual
<1>10. FlattenSeq(t) = FlattenSeq(s) \o x
  BY <1>3, <1>4, <1>9, FlattenAppend DEF Text
<1>11. QED
  BY <1>10 DEF Out, s, t, x

\* A continuation byte yields nothing by itself.
LEMMA OutSkip ==
  ASSUME NEW b \in Text, NEW n \in 0 .. Len(b) - 1, b[n + 1] = "C"
  PROVE  Out(b, n + 1) = Out(b, n)
<1>1. Len(b) \in Nat
  BY LenProperties DEF Text
<1>2. n + 1 \in 1 .. Len(b) /\ n \in 0 .. Len(b)
  BY <1>1
<1>3. Out(b, n + 1) = Out(b, n) \o Char(From(b, n + 1))
  BY OutNext
<1>4. Char(From(b, n + 1)) = <<>> /\ Out(b, n) \in Text
  BY <1>2, CharIs, OutType
<1>5. QED
  BY <1>3, <1>4, ConcatEmptySeq DEF Text


\* One turn takes a whole character, or what was the beginning of one, or a symbol.
LEMMA SizeIs ==
  ASSUME NEW b \in Text, NEW i \in 1 .. Len(b), ~Unfinished(From(b, i))
  PROVE  /\ Size(From(b, i)) \in 1 .. 3 /\ i + Size(From(b, i)) <= Len(b) + 1
         /\ Out(b, i + Size(From(b, i)) - 1) = Out(b, i - 1) \o Char(From(b, i))
         /\ \A j \in i .. i + Size(From(b, i)) - 1 : ~Unfinished(From(b, j))
<1> DEFINE a == From(b, i)
<1>1. Len(b) \in Nat
  BY LenProperties DEF Text
<1>2. /\ Whole(a) <=> i + 2 <= Len(b) /\ b[i] = "L" /\ b[i + 1] = "C" /\ b[i + 2] = "C"
      /\ IsPrefix(<<"L", "C">>, a) <=> i + 1 <= Len(b) /\ b[i] = "L" /\ b[i + 1] = "C"
  BY AheadIs
<1>3. ASSUME NEW j \in 1 .. Len(b), b[j] = "C" PROVE ~Unfinished(From(b, j))
  BY <1>3, AheadIs
<1>4. Out(b, i) = Out(b, i - 1) \o Char(a)
  <2>1. i - 1 \in 0 .. Len(b) - 1 /\ (i - 1) + 1 = i
    BY <1>1
  <2>2. Out(b, (i - 1) + 1) = Out(b, i - 1) \o Char(From(b, (i - 1) + 1))
    BY <2>1, OutNext
  <2>3. QED
    BY <2>1, <2>2
<1>5. ~Unfinished(a)
  OBVIOUS
<1>6. CASE Whole(a)
  <2>1. Size(a) = 3
    BY <1>6 DEF Size
  <2>2. i + 1 \in 1 .. Len(b) /\ i + 2 \in 1 .. Len(b) /\ i \in 0 .. Len(b) - 1 /\ i + 1 \in 0 .. Len(b) - 1
        /\ (i + 1) + 1 = i + 2 /\ b[i + 1] = "C" /\ b[i + 2] = "C"
    BY <1>1, <1>2, <1>6
  <2>3. Out(b, i + 1) = Out(b, i)
    BY <2>2, OutSkip
  <2>4. Out(b, (i + 1) + 1) = Out(b, i + 1)
    <3> DEFINE k == i + 1
    <3>1. k \in 0 .. Len(b) - 1 /\ b[k + 1] = "C"
      BY <2>2
    <3> HIDE DEF k
    <3>2. Out(b, k + 1) = Out(b, k)
      BY <3>1, OutSkip
    <3>3. QED
      BY <3>2 DEF k
  <2>5. Out(b, i + 2) = Out(b, i - 1) \o Char(a)
    BY <1>4, <2>2, <2>3, <2>4
  <2>6. \A j \in i .. i + 3 - 1 : j = i \/ j = i + 1 \/ j = i + 2
    OBVIOUS
  <2>7. i + 3 - 1 = i + 2
    OBVIOUS
  <2>8. ~Unfinished(From(b, i + 1)) /\ ~Unfinished(From(b, i + 2))
    BY <1>3, <2>2
  <2>9. \A j \in i .. i + 3 - 1 : ~Unfinished(From(b, j))
    BY <1>5, <2>6, <2>8
  <2>10. i + 3 <= Len(b) + 1
    BY <1>1, <2>2
  <2>11. Size(a) \in 1 .. 3 /\ i + Size(a) <= Len(b) + 1
         /\ Out(b, i + Size(a) - 1) = Out(b, i - 1) \o Char(a)
         /\ \A j \in i .. i + Size(a) - 1 : ~Unfinished(From(b, j))
    <3> HIDE DEF a
    <3>1. QED
      BY <2>1, <2>5, <2>7, <2>9, <2>10
  <2>12. QED
    BY <2>11
<1>7. CASE ~Whole(a) /\ IsPrefix(<<"L", "C">>, a)
  <2>1. Size(a) = 2
    BY <1>7 DEF Size
  <2>2. i + 1 \in 1 .. Len(b) /\ i \in 0 .. Len(b) - 1 /\ b[i + 1] = "C"
    BY <1>1, <1>2, <1>7
  <2>3. Out(b, i + 1) = Out(b, i)
    BY <2>2, OutSkip
  <2>4. ~Unfinished(From(b, i + 1))
    BY <1>3, <2>2
  <2>5. \A j \in i .. i + 2 - 1 : j = i \/ j = i + 1
    OBVIOUS
  <2>6. \A j \in i .. i + 2 - 1 : ~Unfinished(From(b, j))
    BY <1>5, <2>4, <2>5
  <2>7. i + 2 <= Len(b) + 1 /\ i + 2 - 1 = i + 1
    BY <1>1, <2>2
  <2>8. Size(a) \in 1 .. 3 /\ i + Size(a) <= Len(b) + 1
        /\ Out(b, i + Size(a) - 1) = Out(b, i - 1) \o Char(a)
        /\ \A j \in i .. i + Size(a) - 1 : ~Unfinished(From(b, j))
    <3> HIDE DEF a
    <3>1. QED
      BY <1>4, <2>1, <2>3, <2>6, <2>7
  <2>9. QED
    BY <2>8
<1>8. CASE ~Whole(a) /\ ~IsPrefix(<<"L", "C">>, a)
  <2>1. Size(a) = 1
    BY <1>8 DEF Size
  <2>2. \A j \in i .. i + 1 - 1 : j = i
    OBVIOUS
  <2>3. \A j \in i .. i + 1 - 1 : ~Unfinished(From(b, j))
    BY <1>5, <2>2
  <2>4. i + 1 <= Len(b) + 1 /\ i + 1 - 1 = i
    BY <1>1
  <2>5. Size(a) \in 1 .. 3 /\ i + Size(a) <= Len(b) + 1
        /\ Out(b, i + Size(a) - 1) = Out(b, i - 1) \o Char(a)
        /\ \A j \in i .. i + Size(a) - 1 : ~Unfinished(From(b, j))
    <3> HIDE DEF a
    <3>1. QED
      BY <1>4, <2>1, <2>3, <2>4
  <2>6. QED
    BY <2>5
<1>9. QED
  BY <1>6, <1>7, <1>8

\* Where the loop is: it yielded what the places before it do, and passed no
\* character that is not whole.
Places(b) ==
  {at \in [text : Text, index : 1 .. Len(b) + 1] :
     /\ at.text = Out(b, at.index - 1)
     /\ \A i \in 1 .. at.index - 1 : ~Unfinished(From(b, i))}
Ended(b, n) == From(b, n) = <<>> \/ Unfinished(From(b, n))

\* A turn of the decoder's loop goes on to the next such place, unless it has ended.
LEMMA DecodeTurnIs ==
  ASSUME NEW b \in Text, NEW at \in Places(b)
  PROVE  /\ DecodeTurn(b, at) \in Places(b)
         /\ IF Ended(b, at.index) THEN DecodeTurn(b, at) = at ELSE DecodeTurn(b, at).index > at.index
<1> DEFINE n == at.index
           a == From(b, n)
           to == [text |-> at.text \o Char(a), index |-> n + Size(a)]
<1>1. Len(b) \in Nat
  BY LenProperties DEF Text
<1>2. at.text \in Text /\ n \in 1 .. Len(b) + 1 /\ at.text = Out(b, n - 1)
      /\ \A i \in 1 .. n - 1 : ~Unfinished(From(b, i))
  BY DEF Places
<1>3. CASE a = <<>> \/ Unfinished(a)
  <2>1. DecodeTurn(b, at) = at
    BY <1>3 DEF DecodeTurn
  <2>2. QED
    BY <1>3, <2>1 DEF Ended
<1>4. CASE a # <<>> /\ ~Unfinished(a)
  <2>1. DecodeTurn(b, at) = to
    BY <1>4 DEF DecodeTurn
  <2>2. n \in 1 .. Len(b)
    <3>1. SUFFICES n # Len(b) + 1
      BY <1>1, <1>2
    <3>2. CASE n = Len(b) + 1
      <4>1. Len(a) = Len(b) - n + 1 /\ a \in Text
        BY <1>2, FromIs DEF Text
      <4>2. Len(a) = 0
        BY <1>1, <3>2, <4>1
      <4>3. a = <<>>
        BY <4>1, <4>2, EmptyText DEF Text
      <4>4. QED
        BY <1>4, <4>3
    <3>3. QED
      BY <3>2
  <2> DEFINE z == Size(a)
             c == Char(a)
  <2>3. /\ z \in 1 .. 3 /\ n + z <= Len(b) + 1
        /\ Out(b, n + z - 1) = Out(b, n - 1) \o c
        /\ \A j \in n .. n + z - 1 : ~Unfinished(From(b, j))
    BY <1>4, <2>2, SizeIs
  <2>4. c \in Text
    BY <2>2, CharIs
  <2>5. to = [text |-> at.text \o c, index |-> n + z]
    OBVIOUS
  <2> HIDE DEF n, a, z, c, to
  <2>6. at.text \o c \in Text
    BY <1>2, <2>4, TextConcat
  <2>7. n + z \in 1 .. Len(b) + 1 /\ n + z > n /\ \A j \in 1 .. n + z - 1 : j \in 1 .. n - 1 \/ j \in n .. n + z - 1
    BY <1>1, <2>2, <2>3
  <2>8. to.index = n + z /\ to.text = at.text \o c /\ to \in [text : Text, index : 1 .. Len(b) + 1]
    BY <2>5, <2>6, <2>7
  <2>9. to \in Places(b)
    <3>1. at.text \o c = Out(b, n + z - 1)
      BY <1>2, <2>3
    <3>2. \A i \in 1 .. n + z - 1 : ~Unfinished(From(b, i))
      BY <1>2, <2>3, <2>7
    <3>3. to.text = Out(b, to.index - 1) /\ \A i \in 1 .. to.index - 1 : ~Unfinished(From(b, i))
      <4> DEFINE m == n + z
      <4>0. n + z = m /\ m \in Int /\ n \in Int /\ z \in Int
        BY <1>1, <1>2, <2>3
      <4> HIDE DEF m
      <4>5. to.index = m
        BY <2>8, <4>0
      <4>6. to.text = Out(b, m - 1)
        BY <2>8, <3>1, <4>0
      <4>7. \A i \in 1 .. m - 1 : ~Unfinished(From(b, i))
        BY <3>2, <4>0
      <4>1. to.index = m /\ to.text = Out(b, m - 1) /\ \A i \in 1 .. m - 1 : ~Unfinished(From(b, i))
        BY <4>5, <4>6, <4>7
      <4> HIDE DEF m
      <4>2. QED
        BY <4>1
    <3>4. QED
      BY <2>8, <3>3 DEF Places
  <2>10. QED
    BY <1>4, <2>1, <2>7, <2>8, <2>9 DEF n, a, Ended
<1>5. QED
  BY <1>3, <1>4

\* All that is whole comes out, the rest is nothing or a character's beginning.
LEMMA DecodedIs ==
  ASSUME NEW b \in Text
  PROVE  \E n \in 1 .. Len(b) + 1 :
           /\ Decoded(b).text = Out(b, n - 1) /\ Decoded(b).text \in Text
           /\ Decoded(b).rest = From(b, n) /\ Ended(b, n)
           /\ \A i \in 1 .. n - 1 : ~Unfinished(From(b, i))
<1> DEFINE N == Len(b)
           x0 == [text |-> <<>>, index |-> 1]
           Loops(f) == f = [k \in 0 .. N |-> IF k = 0 THEN x0 ELSE DecodeTurn(b, f[k - 1])]
           turn == CHOOSE f : Loops(f)
           X == Places(b)
           step == [x \in X |-> DecodeTurn(b, x)]
<1>1. N \in Nat
  BY LenProperties DEF Text
<1>2. x0 \in X
  <2>1. <<>> \in Text
    BY EmptySeq DEF Text
  <2>2. x0.text = Out(b, 1 - 1)
    BY OutZero
  <2>3. QED
    BY <1>1, <2>1, <2>2 DEF Places
<1>3. step \in [X -> X]
  BY DecodeTurnIs
<1>4. Decoded(b) = [text |-> turn[N].text, rest |-> From(b, turn[N].index)]
  BY DEF Decoded
<1>5. Loops(turn)
  <2>1. \A x \in X : step[x] = DecodeTurn(b, x)
    OBVIOUS
  <2> HIDE DEF N, x0, X, step
  <2>2. PICK f \in [0 .. N -> X] : f = [k \in 0 .. N |-> IF k = 0 THEN x0 ELSE step[f[k - 1]]]
    <3>1. step \in [X -> X]
      BY <1>3 DEF step, X
    <3>2. PICK g : Turned(X, x0, N, step, g)
      BY <1>1, <1>2, <3>1, Turns
    <3>3. QED
      BY <3>2 DEF Turned
  <2>3. ASSUME NEW k \in 0 .. N, k # 0 PROVE step[f[k - 1]] = DecodeTurn(b, f[k - 1])
    <3>1. k - 1 \in 0 .. N
      BY <1>1, <2>3
    <3>2. f[k - 1] \in X
      BY <3>1
    <3>3. QED
      BY <2>1, <3>2
  <2>4. Loops(f)
    <3>1. [k \in 0 .. N |-> IF k = 0 THEN x0 ELSE step[f[k - 1]]]
            = [k \in 0 .. N |-> IF k = 0 THEN x0 ELSE DecodeTurn(b, f[k - 1])]
      BY <2>3
    <3>2. QED
      BY <2>2, <3>1
  <2> HIDE DEF Loops
  <2>5. QED
    BY <2>4
<1> HIDE DEF x0, turn, X, N
<1>6. /\ turn[0] = x0
      /\ \A k \in 0 .. N : k # 0 => turn[k] = DecodeTurn(b, turn[k - 1])
  <2>1. turn = [k \in 0 .. N |-> IF k = 0 THEN x0 ELSE DecodeTurn(b, turn[k - 1])]
    BY <1>5
  <2>2. 0 \in 0 .. N
    BY <1>1
  <2>3. QED
    BY <2>1, <2>2
<1> HIDE DEF Loops
<1> DEFINE S == {k \in 0 .. N : turn[k] \in X /\ (Ended(b, turn[k].index) \/ turn[k].index > k)}
<1>7. 0 \in S
  BY <1>1, <1>2, <1>6 DEF x0
<1>8. ASSUME NEW k \in 0 .. N - 1, k \in S PROVE k + 1 \in S
  <2>1. k + 1 \in 0 .. N /\ k + 1 # 0 /\ (k + 1) - 1 = k
    BY <1>1
  <2>2. turn[k + 1] = DecodeTurn(b, turn[k])
    BY <1>6, <2>1
  <2>3. turn[k] \in Places(b) /\ (Ended(b, turn[k].index) \/ turn[k].index > k)
    BY <1>8 DEF X
  <2> DEFINE at == turn[k]
             to == turn[k + 1]
  <2>4. at \in Places(b) /\ to = DecodeTurn(b, at) /\ (Ended(b, at.index) \/ at.index > k)
    BY <2>2, <2>3
  <2> HIDE DEF at, to
  <2>5. to \in Places(b) /\ IF Ended(b, at.index) THEN to = at ELSE to.index > at.index
    BY <2>4, DecodeTurnIs
  <2>6. at.index \in Nat /\ to.index \in Nat
    BY <1>1, <2>4, <2>5 DEF Places, N
  <2>7. Ended(b, to.index) \/ to.index > k + 1
    BY <2>4, <2>5, <2>6
  <2>8. QED
    BY <2>1, <2>5, <2>7 DEF to, X
<1> DEFINE last == turn[N]
<1>9. last \in Places(b) /\ (Ended(b, last.index) \/ last.index > N)
  <2>1. \A k \in 0 .. N : k \in S
    <3> HIDE DEF S
    <3>1. QED
      BY <1>1, <1>7, <1>8, UpTo
  <2>2. N \in 0 .. N
    BY <1>1
  <2>3. QED
    BY <2>1, <2>2 DEF X
<1>10. Decoded(b).text = last.text /\ Decoded(b).rest = From(b, last.index)
  BY <1>4
<1> HIDE DEF last, S
<1> DEFINE n == last.index
<1>11. /\ n \in 1 .. Len(b) + 1 /\ last.text = Out(b, n - 1) /\ last.text \in Text
       /\ \A i \in 1 .. n - 1 : ~Unfinished(From(b, i))
  BY <1>9 DEF Places
<1>12. Ended(b, n)
  <2>1. CASE n > N
    <3>0. Len(b) - n + 1 = 0
      BY <1>1, <1>11, <2>1 DEF N
    <3>1. From(b, n) \in Text /\ Len(From(b, n)) = Len(b) - n + 1
      BY <1>11, FromIs DEF Text
    <3>2. From(b, n) = <<>>
      BY <3>0, <3>1, EmptyText DEF Text
    <3>3. QED
      BY <3>2 DEF Ended
  <2>2. QED
    BY <1>9, <2>1
<1>13. QED
  BY <1>10, <1>11, <1>12

\* For texts: lengths,
LEMMA LengthOfText == \A b \in Text : Len(b) \in Nat /\ (b = <<>> <=> Len(b) = 0) /\ (\A i \in 1 .. Len(b) : b[i] \in Symbol)
BY EmptyText DEF Text

\* the rest,
LEMMA FromText ==
  \A b \in Text : \A n \in 1 .. Len(b) + 1 :
    /\ From(b, n) \in Text /\ Len(From(b, n)) = Len(b) - n + 1
    /\ \A i \in 1 .. Len(b) - n + 1 : From(b, n)[i] = b[n + i - 1]
BY FromIs DEF Text

\* two joined,
LEMMA TextJoined ==
  \A b, c \in Text :
    /\ b \o c \in Text /\ Len(b \o c) = Len(b) + Len(c)
    /\ \A i \in 1 .. Len(b) : (b \o c)[i] = b[i]
    /\ \A i \in 1 .. Len(c) : (b \o c)[Len(b) + i] = c[i]
BY ConcatIs DEF Text

\* the rest of the rest.
LEMMA FromFrom ==
  ASSUME NEW b \in Text, NEW n \in 1 .. Len(b) + 1, NEW k \in 1 .. Len(b) - n + 2
  PROVE  From(From(b, n), k) = From(b, n + k - 1)
<1> DEFINE a == From(b, n)
           m == n + k - 1
           p == From(a, k)
           q == From(b, m)
<1>1. Len(b) \in Nat
  BY LengthOfText
<1>2. a \in Text /\ Len(a) = Len(b) - n + 1 /\ \A i \in 1 .. Len(b) - n + 1 : a[i] = b[n + i - 1]
  BY FromText
<1>3. m \in 1 .. Len(b) + 1 /\ k \in 1 .. Len(a) + 1 /\ Len(a) - k + 1 = Len(b) - m + 1 /\ m = n + k - 1
  BY <1>1, <1>2
<1>4. q \in Text /\ Len(q) = Len(b) - m + 1 /\ \A i \in 1 .. Len(b) - m + 1 : q[i] = b[m + i - 1]
  <2> HIDE DEF m
  <2>1. QED
    BY <1>3, FromText
<1>5. p \in Text /\ Len(p) = Len(a) - k + 1 /\ \A i \in 1 .. Len(a) - k + 1 : p[i] = a[k + i - 1]
  <2> HIDE DEF a
  <2>1. QED
    BY <1>2, <1>3, FromText
<1> HIDE DEF a, m, p, q
<1>6. ASSUME NEW i \in 1 .. Len(p) PROVE p[i] = q[i]
  <2>1. i \in 1 .. Len(a) - k + 1 /\ i \in 1 .. Len(b) - m + 1
    BY <1>3, <1>5
  <2>2. k + i - 1 \in 1 .. Len(b) - n + 1 /\ n + (k + i - 1) - 1 = m + i - 1
    BY <1>1, <1>2, <1>3, <2>1
  <2>3. a[k + i - 1] = b[n + (k + i - 1) - 1]
    BY <1>2, <2>2
  <2>4. QED
    BY <1>4, <1>5, <2>1, <2>2, <2>3
<1>7. p = q
  BY <1>3, <1>4, <1>5, <1>6, TextEqual
<1>8. QED
  BY <1>7 DEF p, q, a, m

\* What was passed before more came is passed again in the same way.
LEMMA StaysPassed ==
  ASSUME NEW b \in Text, NEW m \in Text, NEW i \in 1 .. Len(b), ~Unfinished(From(b, i))
  PROVE  ~Unfinished(From(b \o m, i)) /\ Char(From(b \o m, i)) = Char(From(b, i))
<1> DEFINE c == b \o m
<1>1. Len(b) \in Nat /\ Len(m) \in Nat /\ c \in Text /\ Len(c) = Len(b) + Len(m)
      /\ \A k \in 1 .. Len(b) : c[k] = b[k]
  BY LengthOfText, TextJoined
<1> HIDE DEF c
<1>2. i \in 1 .. Len(c) /\ c[i] = b[i]
      /\ (i + 1 <= Len(b) => i + 1 \in 1 .. Len(b) /\ c[i + 1] = b[i + 1])
      /\ (i + 2 <= Len(b) => i + 2 \in 1 .. Len(b) /\ c[i + 2] = b[i + 2])
  BY <1>1
<1> DEFINE a == From(b, i)
           d == From(c, i)
<1>3. /\ Head(a) = b[i]
      /\ Whole(a) <=> i + 2 <= Len(b) /\ b[i] = "L" /\ b[i + 1] = "C" /\ b[i + 2] = "C"
      /\ Unfinished(a) <=> \/ i = Len(b) /\ b[i] = "L"
                           \/ i + 1 = Len(b) /\ b[i] = "L" /\ b[i + 1] = "C"
  BY AheadIs
<1>4. /\ Head(d) = c[i]
      /\ Whole(d) <=> i + 2 <= Len(c) /\ c[i] = "L" /\ c[i + 1] = "C" /\ c[i + 2] = "C"
      /\ Unfinished(d) <=> \/ i = Len(c) /\ c[i] = "L"
                           \/ i + 1 = Len(c) /\ c[i] = "L" /\ c[i + 1] = "C"
  BY <1>1, <1>2, AheadIs
<1>5. ~Unfinished(a)
  OBVIOUS
<1> HIDE DEF a, d
<1>6. ~Unfinished(d)
  BY <1>1, <1>2, <1>3, <1>4, <1>5
<1>7. Whole(d) <=> Whole(a)
  BY <1>1, <1>2, <1>3, <1>4, <1>5
<1>8. Char(d) = Char(a)
  BY <1>2, <1>3, <1>4, <1>7 DEF Char
<1>9. QED
  BY <1>6, <1>8 DEF a, c, d

\* More bytes do not change what the settled ones yield.
LEMMA OutSame ==
  ASSUME NEW b \in Text, NEW m \in Text, NEW n \in 0 .. Len(b), \A i \in 1 .. n : ~Unfinished(From(b, i))
  PROVE  Out(b \o m, n) = Out(b, n)
<1>1. Len(b) \in Nat /\ \A i \in 1 .. n : i \in 1 .. Len(b)
  BY LengthOfText
<1>2. \A i \in 1 .. n : Char(From(b \o m, i)) = Char(From(b, i))
  BY <1>1, StaysPassed
<1>3. [i \in 1 .. n |-> Char(From(b \o m, i))] = [i \in 1 .. n |-> Char(From(b, i))]
  BY <1>2
<1>4. QED
  BY <1>3 DEF Out

\* What the places yield is what some yield and then the others.
LEMMA OutShift ==
  ASSUME NEW b \in Text, NEW n \in 1 .. Len(b) + 1, NEW k \in 0 .. Len(b) - n + 1
  PROVE  Out(b, n - 1 + k) = Out(b, n - 1) \o Out(From(b, n), k)
<1> DEFINE a == From(b, n)
           N == Len(b) - n + 1
           S == {j \in 0 .. N : Out(b, n - 1 + j) = Out(b, n - 1) \o Out(a, j)}
<1>1. Len(b) \in Nat
  BY LengthOfText
<1>2. a \in Text /\ Len(a) = N
  BY FromText
<1>3. N \in Nat /\ n - 1 \in 0 .. Len(b)
  BY <1>1
<1>4. Out(b, n - 1) \in Text
  BY <1>3, OutType
<1>5. 0 \in S
  <2>1. n - 1 + 0 = n - 1
    OBVIOUS
  <2>2. Out(a, 0) = <<>>
    BY OutZero
  <2>3. Out(b, n - 1) \o <<>> = Out(b, n - 1)
    BY <1>4, ConcatEmptySeq DEF Text
  <2>4. Out(b, n - 1 + 0) = Out(b, n - 1) \o Out(a, 0)
    <3> HIDE DEF a
    <3>1. QED
      BY <2>1, <2>2, <2>3
  <2>5. 0 \in 0 .. N
    BY <1>3
  <2>6. QED
    BY <2>4, <2>5
<1>6. ASSUME NEW j \in 0 .. N - 1, j \in S PROVE j + 1 \in S
  <2>1. /\ j \in 0 .. Len(a) - 1 /\ j + 1 \in 0 .. N /\ n - 1 + j \in 0 .. Len(b) - 1
        /\ (n - 1 + j) + 1 = n - 1 + (j + 1) /\ j \in 0 .. Len(a) /\ j + 1 \in 1 .. Len(a)
        /\ j + 1 \in 1 .. Len(b) - n + 2 /\ n + (j + 1) - 1 = (n - 1 + j) + 1
    BY <1>1, <1>2, <1>3
  <2>2. Out(a, j + 1) = Out(a, j) \o Char(From(a, j + 1))
    <3> HIDE DEF a, S, N
    <3>1. QED
      BY <1>2, <2>1, OutNext
  <2>3. Out(b, (n - 1 + j) + 1) = Out(b, n - 1 + j) \o Char(From(b, (n - 1 + j) + 1))
    <3> DEFINE l == n - 1 + j
    <3>1. l \in 0 .. Len(b) - 1
      BY <2>1
    <3> HIDE DEF l
    <3>2. Out(b, l + 1) = Out(b, l) \o Char(From(b, l + 1))
      BY <3>1, OutNext
    <3>3. QED
      BY <3>2 DEF l
  <2>4. From(a, j + 1) = From(b, n + (j + 1) - 1)
    <3> DEFINE l == j + 1
    <3>1. l \in 1 .. Len(b) - n + 2
      BY <2>1
    <3> HIDE DEF l
    <3>2. From(From(b, n), l) = From(b, n + l - 1)
      BY <3>1, FromFrom
    <3>3. QED
      BY <3>2 DEF l
  <2>5. Out(b, n - 1 + j) = Out(b, n - 1) \o Out(a, j)
    BY <1>6
  <2> DEFINE x == Char(From(a, j + 1))
             y == Out(a, j)
             z == Out(b, n - 1)
  <2>6. x \in Text /\ y \in Text /\ z \in Text
    <3> HIDE DEF a
    <3>1. QED
      BY <1>2, <1>4, <2>1, CharIs, OutType
  <2>7. Out(b, n - 1 + (j + 1)) = (z \o y) \o x
    BY <2>1, <2>3, <2>4, <2>5
  <2>8. Out(a, j + 1) = y \o x
    BY <2>2
  <2>9. (z \o y) \o x = z \o (y \o x)
    <3> HIDE DEF x, y, z
    <3>1. QED
      BY <2>6, TextAssociative
  <2>10. Out(b, n - 1 + (j + 1)) = Out(b, n - 1) \o Out(a, j + 1)
    BY <2>7, <2>8, <2>9
  <2>11. QED
    BY <2>1, <2>10
<1>7. \A j \in 0 .. N : j \in S
  <2> HIDE DEF S, N, a
  <2>1. QED
    BY <1>3, <1>5, <1>6, UpTo
<1>8. QED
  BY <1>7

\* The decoder between two reads: t came out of bytes and u waits.
Settled(bytes, t, u) ==
  \E n \in 1 .. Len(bytes) + 1 :
    /\ u = From(bytes, n) /\ Ended(bytes, n)
    /\ t = Out(bytes, n - 1)
    /\ \A i \in 1 .. n - 1 : ~Unfinished(From(bytes, i))

\* A push keeps the decoder settled.
LEMMA SettledNext ==
  ASSUME NEW b \in Text, NEW m \in Text, NEW t, NEW u, Settled(b, t, u)
  PROVE  /\ u \o m \in Text /\ Decoded(u \o m).text \in Text /\ Decoded(u \o m).rest \in Text
         /\ Settled(b \o m, t \o Decoded(u \o m).text, Decoded(u \o m).rest)
<1>1. PICK n \in 1 .. Len(b) + 1 :
        /\ u = From(b, n) /\ Ended(b, n) /\ t = Out(b, n - 1)
        /\ \A i \in 1 .. n - 1 : ~Unfinished(From(b, i))
  BY DEF Settled
<1> DEFINE c == b \o m
           v == u \o m
<1>2. Len(b) \in Nat /\ Len(m) \in Nat /\ c \in Text /\ Len(c) = Len(b) + Len(m)
  BY LengthOfText, TextJoined
<1>3. u \in Text /\ v \in Text /\ v = From(c, n)
  <2>1. u \in Text
    BY <1>1, FromText
  <2>2. From(c, n) = From(b, n) \o m
    BY FromConcat DEF Text
  <2>3. QED
    BY <1>1, <2>1, <2>2, TextConcat
<1>4. n \in 1 .. Len(c) + 1 /\ Len(v) = Len(c) - n + 1 /\ n - 1 \in 0 .. Len(b)
  <2>1. n \in 1 .. Len(c) + 1 /\ n - 1 \in 0 .. Len(b)
    BY <1>2
  <2> HIDE DEF c, v
  <2>2. QED
    BY <1>2, <1>3, <2>1, FromText
<1>5. t = Out(c, n - 1)
  <2> DEFINE l == n - 1
  <2>1. l \in 0 .. Len(b) /\ \A i \in 1 .. l : ~Unfinished(From(b, i))
    BY <1>1, <1>4
  <2> HIDE DEF l
  <2>2. Out(b \o m, l) = Out(b, l)
    BY <2>1, OutSame
  <2>3. QED
    BY <1>1, <2>2 DEF l
<1>6. ASSUME NEW i \in 1 .. n - 1 PROVE ~Unfinished(From(c, i))
  <2>1. i \in 1 .. Len(b) /\ ~Unfinished(From(b, i))
    BY <1>1, <1>2
  <2>2. QED
    BY <2>1, StaysPassed
<1> HIDE DEF c, v
<1>7. PICK k \in 1 .. Len(v) + 1 :
        /\ Decoded(v).text = Out(v, k - 1) /\ Decoded(v).text \in Text
        /\ Decoded(v).rest = From(v, k) /\ Ended(v, k)
        /\ \A i \in 1 .. k - 1 : ~Unfinished(From(v, i))
  BY <1>3, DecodedIs
<1>8. ASSUME NEW j \in 1 .. Len(v) + 1 PROVE From(v, j) = From(c, n + j - 1)
  <2>1. j \in 1 .. Len(c) - n + 2
    BY <1>2, <1>4
  <2>2. From(From(c, n), j) = From(c, n + j - 1)
    BY <1>2, <1>4, <2>1, FromFrom
  <2>3. QED
    BY <1>3, <2>2
<1> DEFINE l == n + k - 1
<1>9. l \in 1 .. Len(c) + 1 /\ l = n + k - 1 /\ k - 1 \in 0 .. Len(c) - n + 1 /\ n - 1 + (k - 1) = l - 1
  BY <1>2, <1>4, <1>7
<1>10. Decoded(v).rest = From(c, l) /\ Ended(c, l)
  BY <1>7, <1>8 DEF Ended
<1> HIDE DEF l
<1>11. t \o Decoded(v).text = Out(c, l - 1)
  <2> DEFINE h == k - 1
  <2>1. h \in 0 .. Len(c) - n + 1 /\ n - 1 + h = l - 1
    BY <1>9
  <2>2. Decoded(v).text = Out(v, h)
    BY <1>7
  <2> HIDE DEF h
  <2>3. Out(c, n - 1 + h) = Out(c, n - 1) \o Out(From(c, n), h)
    BY <1>2, <1>4, <2>1, OutShift
  <2>4. QED
    BY <1>3, <1>5, <2>1, <2>2, <2>3
<1>12. ASSUME NEW i \in 1 .. l - 1 PROVE ~Unfinished(From(c, i))
  <2>1. CASE i <= n - 1
    <3>1. i \in 1 .. n - 1
      BY <1>9, <2>1
    <3>2. QED
      BY <1>6, <3>1
  <2>2. CASE ~(i <= n - 1)
    <3> DEFINE j == i - n + 1
    <3>1. j \in 1 .. k - 1 /\ j \in 1 .. Len(v) + 1 /\ n + j - 1 = i
      BY <1>2, <1>4, <1>7, <1>9, <2>2
    <3> HIDE DEF j
    <3>2. ~Unfinished(From(v, j)) /\ From(v, j) = From(c, n + j - 1)
      BY <1>7, <1>8, <3>1
    <3>3. QED
      BY <3>1, <3>2
  <2>3. QED
    BY <2>1, <2>2
<1>13. Decoded(v).rest \in Text
  BY <1>3, <1>7, FromText
<1>14. Settled(c, t \o Decoded(v).text, Decoded(v).rest)
  BY <1>9, <1>10, <1>11, <1>12 DEF Settled
<1>15. QED
  BY <1>3, <1>7, <1>13, <1>14 DEF c, v

\* Nothing but whole characters came out, and what waits is the end of the bytes.
LEMMA SettledDecoded ==
  ASSUME NEW b \in Text, NEW t, NEW u, Settled(b, t, u)
  PROVE  /\ t = Characters(b) /\ t \in Text
         /\ Unfinished(u) = (u # <<>>)
         /\ IsSuffix(u, b) /\ u \in Text
<1>1. PICK n \in 1 .. Len(b) + 1 :
        /\ u = From(b, n) /\ Ended(b, n) /\ t = Out(b, n - 1)
        /\ \A i \in 1 .. n - 1 : ~Unfinished(From(b, i))
  BY DEF Settled
<1>2. Len(b) \in Nat /\ n - 1 \in 0 .. Len(b) /\ (n - 1) + 1 = n
  BY LengthOfText
<1>3. u \in Text /\ Len(u) = Len(b) - n + 1 /\ (u = <<>> <=> Len(u) = 0)
  BY <1>1, FromText, LengthOfText
<1>4. t \in Text
  BY <1>1, <1>2, OutType
<1>5. IsSuffix(u, b)
  <2> DEFINE k == n - 1
             p == SubSeq(b, 1, k)
  <2>1. k \in 0 .. Len(b) /\ k + 1 = n /\ k \in Int /\ 1 <= k + 1 /\ k <= Len(b)
    BY <1>2
  <2> HIDE DEF k
  <2>2. p \o From(b, k + 1) = b
    BY <2>1, Split DEF Text
  <2>3. p \in Text
    BY <2>1, Slice DEF Text
  <2> HIDE DEF p
  <2>4. IsSuffix(u, p \o u)
    BY <1>3, <2>3, SuffixIs DEF Text
  <2>5. QED
    BY <1>1, <2>1, <2>2, <2>4
<1>6. Unfinished(u) = (u # <<>>)
  <2>1. <<>> # <<"L">> /\ <<>> # <<"L", "C">>
    OBVIOUS
  <2>2. ~Unfinished(<<>>)
    BY <2>1 DEF Unfinished
  <2>3. u = <<>> \/ Unfinished(u)
    BY <1>1 DEF Ended
  <2>4. Unfinished(u) \in BOOLEAN
    BY DEF Unfinished
  <2>5. QED
    BY <2>2, <2>3, <2>4
<1>7. Characters(b) = Out(b, Len(b))
  <2>1. DOMAIN b = 1 .. Len(b)
    BY EmptyText DEF Text
  <2>2. [i \in DOMAIN b |-> Char(From(b, i))] = [i \in 1 .. Len(b) |-> Char(From(b, i))]
    BY <2>1
  <2>3. QED
    BY <2>2 DEF Out, Characters
<1>8. Out(b, Len(b)) = Out(b, n - 1)
  <2>1. CASE u = <<>>
    <3>1. n - 1 = Len(b)
      BY <1>2, <1>3, <2>1
    <3>2. QED
      BY <3>1
  <2>2. CASE u # <<>>
    <3>1. Unfinished(From(b, n)) /\ n \in 1 .. Len(b)
      BY <1>1, <1>2, <1>3, <2>2 DEF Ended
    <3>2. /\ Head(From(b, n)) = b[n] /\ From(b, n) \in Text
          /\ Whole(From(b, n)) <=> n + 2 <= Len(b) /\ b[n] = "L" /\ b[n + 1] = "C" /\ b[n + 2] = "C"
          /\ Unfinished(From(b, n)) <=> \/ n = Len(b) /\ b[n] = "L"
                                        \/ n + 1 = Len(b) /\ b[n] = "L" /\ b[n + 1] = "C"
      BY <3>1, AheadIs
    <3>3. b[n] = "L" /\ (n = Len(b) \/ (n + 1 = Len(b) /\ b[n + 1] = "C"))
      BY <3>1, <3>2
    <3>4. ~Whole(From(b, n))
      BY <1>2, <3>2, <3>3
    <3>5. ~Ascii(Head(From(b, n)))
      BY <3>2, <3>3 DEF Ascii
    <3>6. Char(From(b, n)) = <<>>
      BY <3>4, <3>5 DEF Char
    <3>7. Out(b, n) = Out(b, n - 1)
      <4> DEFINE k == n - 1
      <4>1. k \in 0 .. Len(b) - 1 /\ k + 1 = n /\ k \in 0 .. Len(b)
        BY <1>2, <3>1
      <4> HIDE DEF k
      <4>2. Out(b, k + 1) = Out(b, k) \o Char(From(b, k + 1)) /\ Out(b, k) \in Text
        BY <4>1, OutNext, OutType
      <4>3. Out(b, k) \o <<>> = Out(b, k)
        BY <4>2, ConcatEmptySeq DEF Text
      <4>4. QED
        BY <3>6, <4>1, <4>2, <4>3 DEF k
    <3>8. CASE n = Len(b)
      BY <3>7, <3>8
    <3>9. CASE n + 1 = Len(b) /\ b[n + 1] = "C"
      <4>1. n \in 0 .. Len(b) - 1
        BY <1>2, <3>9
      <4>2. Out(b, n + 1) = Out(b, n)
        BY <3>9, <4>1, OutSkip
      <4>3. QED
        BY <3>7, <3>9, <4>2
    <3>10. QED
      BY <3>3, <3>8, <3>9
  <2>3. QED
    BY <2>1, <2>2
<1>9. QED
  BY <1>1, <1>3, <1>4, <1>5, <1>6, <1>7, <1>8

-----------------------------------------------------------------------------
(* The stripper of the exit marker.                                          *)

\* A part of a text is a text.
LEMMA SliceText ==
  \A s \in Text : \A m, n \in Int : 1 <= m /\ n <= Len(s) /\ m <= n + 1 =>
    /\ SubSeq(s, m, n) \in Text /\ Len(SubSeq(s, m, n)) = n - m + 1
    /\ \A i \in 1 .. n - m + 1 : SubSeq(s, m, n)[i] = s[m + i - 1]
BY Slice DEF Text

\* Where the prefix of a marker is, symbol by symbol.
LEMMA StartsIs ==
  ASSUME NEW s \in Text, NEW i
  PROVE  i \in Starts(s) <=> /\ i \in 1 .. Len(s) /\ i + 2 <= Len(s)
                             /\ s[i] = "R" /\ s[i + 1] = "P" /\ s[i + 2] = "K"
<1>1. Len(s) \in Nat /\ DOMAIN s = 1 .. Len(s)
  BY EmptyText DEF Text
<1>2. SUFFICES ASSUME i \in 1 .. Len(s)
               PROVE  IsPrefix(Prefix, From(s, i)) <=>
                        i + 2 <= Len(s) /\ s[i] = "R" /\ s[i + 1] = "P" /\ s[i + 2] = "K"
  BY <1>1 DEF Starts
<1> DEFINE a == From(s, i)
<1>3. a \in Text /\ Len(a) = Len(s) - i + 1 /\ \A k \in 1 .. Len(s) - i + 1 : a[k] = s[i + k - 1]
  BY <1>1, <1>2, FromText
<1>4. Prefix \in Text /\ Len(Prefix) = 3 /\ Prefix[1] = "R" /\ Prefix[2] = "P" /\ Prefix[3] = "K"
  <2>1. "R" \in Symbol /\ "P" \in Symbol /\ "K" \in Symbol
    BY Symbols
  <2>2. QED
    BY <2>1, ThreeSymbols DEF Prefix
<1> HIDE DEF a
<1>5. IsPrefix(Prefix, a) <=> Len(Prefix) <= Len(a) /\ \A k \in 1 .. Len(Prefix) : Prefix[k] = a[k]
  BY <1>3, <1>4, TextPrefix
<1>6. \A k \in 1 .. 3 : k = 1 \/ k = 2 \/ k = 3
  OBVIOUS
<1>7. 1 \in 1 .. 3 /\ 2 \in 1 .. 3 /\ 3 \in 1 .. 3
  OBVIOUS
<1>8. IsPrefix(Prefix, a) <=> 3 <= Len(a) /\ a[1] = "R" /\ a[2] = "P" /\ a[3] = "K"
  BY <1>4, <1>5, <1>6, <1>7
<1>9. /\ Len(s) - i + 1 >= 1 => 1 \in 1 .. Len(s) - i + 1 /\ i + 1 - 1 = i
      /\ Len(s) - i + 1 >= 2 => 2 \in 1 .. Len(s) - i + 1 /\ i + 2 - 1 = i + 1
      /\ Len(s) - i + 1 >= 3 => 3 \in 1 .. Len(s) - i + 1 /\ i + 3 - 1 = i + 2
  BY <1>1, <1>2
<1>10. /\ Len(s) - i + 1 >= 1 => a[1] = s[i]
       /\ Len(s) - i + 1 >= 2 => a[2] = s[i + 1]
       /\ Len(s) - i + 1 >= 3 => a[3] = s[i + 2]
  BY <1>3, <1>9
<1>11. 3 <= Len(a) <=> i + 2 <= Len(s)
  BY <1>1, <1>2, <1>3
<1>12. IsPrefix(Prefix, a) <=> i + 2 <= Len(s) /\ s[i] = "R" /\ s[i + 1] = "P" /\ s[i + 2] = "K"
  BY <1>1, <1>2, <1>3, <1>8, <1>10, <1>11
<1>13. QED
  BY <1>12 DEF a

\* Where its token may end.
LEMMA EndsIs == \A s, i : Ends(s, i) = {j \in i + 3 .. Len(s) : s[j] = "U"}
<1>1. Len(Prefix) = 3
  BY DEF Prefix
<1>2. QED
  BY <1>1 DEF Ends, MarkerEnd

\* The first end of a marker, and the token before it.
LEMMA FirstEnd ==
  ASSUME NEW s \in Text, NEW i \in Nat, i >= 1, Ends(s, i) # {}
  PROVE  LET e == Least(Ends(s, i))
         IN  /\ e \in i + 3 .. Len(s) /\ s[e] = "U" /\ \A j \in Ends(s, i) : e <= j
             /\ SubSeq(s, i + 3, e - 1) \in Text /\ Len(SubSeq(s, i + 3, e - 1)) = e - i - 3
             /\ \A k \in 1 .. e - i - 3 : SubSeq(s, i + 3, e - 1)[k] = s[i + k + 2]
<1> DEFINE e == Least(Ends(s, i))
<1>1. Len(s) \in Nat /\ Ends(s, i) = {j \in i + 3 .. Len(s) : s[j] = "U"}
  BY LengthOfText, EndsIs
<1>2. Ends(s, i) \subseteq Nat
  BY <1>1
<1>3. e \in Ends(s, i) /\ \A j \in Ends(s, i) : e <= j
  BY <1>2, LeastExists
<1> HIDE DEF e
<1>4. e \in i + 3 .. Len(s) /\ s[e] = "U"
  BY <1>1, <1>3
<1> DEFINE m == i + 3
           n == e - 1
<1>5. m \in Int /\ n \in Int /\ 1 <= m /\ n <= Len(s) /\ m <= n + 1 /\ n - m + 1 = e - i - 3
      /\ \A k \in 1 .. e - i - 3 : m + k - 1 = i + k + 2
  BY <1>1, <1>4
<1>6. /\ SubSeq(s, m, n) \in Text /\ Len(SubSeq(s, m, n)) = e - i - 3
      /\ \A k \in 1 .. e - i - 3 : SubSeq(s, m, n)[k] = s[i + k + 2]
  <2> HIDE DEF m, n
  <2>1. /\ SubSeq(s, m, n) \in Text /\ Len(SubSeq(s, m, n)) = n - m + 1
        /\ \A k \in 1 .. n - m + 1 : SubSeq(s, m, n)[k] = s[m + k - 1]
    BY <1>5, SliceText
  <2>2. QED
    BY <1>5, <2>1
<1>7. /\ e \in i + 3 .. Len(s) /\ s[e] = "U" /\ \A j \in Ends(s, i) : e <= j
      /\ SubSeq(s, i + 3, e - 1) \in Text /\ Len(SubSeq(s, i + 3, e - 1)) = e - i - 3
      /\ \A k \in 1 .. e - i - 3 : SubSeq(s, i + 3, e - 1)[k] = s[i + k + 2]
  BY <1>3, <1>4, <1>6
<1>8. QED
  BY <1>7 DEF e

\* Where a whole marker is.
LEMMA MarkersIs ==
  ASSUME NEW s \in Text, NEW i
  PROVE  i \in Markers(s) <=> /\ i \in Starts(s) /\ Ends(s, i) # {}
                              /\ IsExitCode(SubSeq(s, i + 3, Least(Ends(s, i)) - 1))
<1>1. Len(Prefix) = 3
  BY DEF Prefix
<1>2. QED
  BY <1>1 DEF Markers

\* The same sequence inside of another one, moved by n.
Inside(s, t, n) ==
  /\ n \in Nat /\ n + Len(s) <= Len(t)
  /\ \A i \in 1 .. Len(s) : t[n + i] = s[i]

\* The first of two texts is inside of both joined,
LEMMA InsideFirst ==
  ASSUME NEW s \in Text, NEW t \in Text
  PROVE  Inside(s, s \o t, 0)
<1>1. Len(s) \in Nat /\ Len(t) \in Nat /\ Len(s \o t) = Len(s) + Len(t) /\ \A i \in 1 .. Len(s) : (s \o t)[i] = s[i]
  BY LengthOfText, TextJoined
<1>2. \A i \in 1 .. Len(s) : 0 + i = i
  BY <1>1
<1>3. QED
  BY <1>1, <1>2 DEF Inside

\* and so is the second.
LEMMA InsideBehind ==
  ASSUME NEW s \in Text, NEW t \in Text
  PROVE  Inside(t, s \o t, Len(s))
<1>1. Len(s) \in Nat /\ Len(t) \in Nat /\ Len(s \o t) = Len(s) + Len(t) /\ \A i \in 1 .. Len(t) : (s \o t)[Len(s) + i] = t[i]
  BY LengthOfText, TextJoined
<1>2. QED
  BY <1>1 DEF Inside

\* What begins and ends in the inner sequence does so in the outer one.
LEMMA StartsInside ==
  ASSUME NEW s \in Text, NEW t \in Text, NEW n \in Nat, Inside(s, t, n), NEW i \in Int, i >= 1, i + 2 <= Len(s)
  PROVE  i \in Starts(s) <=> n + i \in Starts(t)
<1>1. Len(s) \in Nat /\ Len(t) \in Nat /\ n \in Nat /\ n + Len(s) <= Len(t) /\ \A k \in 1 .. Len(s) : t[n + k] = s[k]
  BY LengthOfText DEF Inside
<1>2. /\ i \in 1 .. Len(s) /\ i + 1 \in 1 .. Len(s) /\ i + 2 \in 1 .. Len(s)
      /\ n + i \in 1 .. Len(t) /\ (n + i) + 2 <= Len(t)
      /\ n + (i + 1) = (n + i) + 1 /\ n + (i + 2) = (n + i) + 2
  BY <1>1
<1>3. t[n + i] = s[i] /\ t[(n + i) + 1] = s[i + 1] /\ t[(n + i) + 2] = s[i + 2]
  <2>1. t[n + i] = s[i] /\ t[n + (i + 1)] = s[i + 1] /\ t[n + (i + 2)] = s[i + 2]
    BY <1>1, <1>2
  <2>2. QED
    BY <1>2, <2>1
<1>4. i \in Starts(s) <=> s[i] = "R" /\ s[i + 1] = "P" /\ s[i + 2] = "K"
  BY <1>2, StartsIs
<1>5. n + i \in Starts(t) <=> t[n + i] = "R" /\ t[(n + i) + 1] = "P" /\ t[(n + i) + 2] = "K"
  <2> DEFINE k == n + i
  <2>1. k \in 1 .. Len(t) /\ k + 2 <= Len(t)
    BY <1>2
  <2> HIDE DEF k
  <2>2. k \in Starts(t) <=> t[k] = "R" /\ t[k + 1] = "P" /\ t[k + 2] = "K"
    BY <2>1, StartsIs
  <2>3. QED
    BY <2>2 DEF k
<1>6. QED
  BY <1>3, <1>4, <1>5

\* A token ends at the same place inside of a longer text,
LEMMA EndsInside ==
  ASSUME NEW s \in Text, NEW t \in Text, NEW n \in Nat, Inside(s, t, n), NEW i \in Nat, i >= 1, Ends(s, i) # {}
  PROVE  /\ Ends(t, n + i) # {}
         /\ Least(Ends(t, n + i)) = n + Least(Ends(s, i))
         /\ SubSeq(t, n + i + 3, Least(Ends(t, n + i)) - 1) = SubSeq(s, i + 3, Least(Ends(s, i)) - 1)
<1> DEFINE e == Least(Ends(s, i))
           f == Least(Ends(t, n + i))
           p == SubSeq(s, i + 3, e - 1)
           q == SubSeq(t, n + i + 3, f - 1)
           m == n + i
<1>1. Len(s) \in Nat /\ Len(t) \in Nat /\ n \in Nat /\ n + Len(s) <= Len(t) /\ \A k \in 1 .. Len(s) : t[n + k] = s[k]
  BY LengthOfText DEF Inside
<1>2. Ends(s, i) = {j \in i + 3 .. Len(s) : s[j] = "U"} /\ Ends(t, n + i) = {j \in n + i + 3 .. Len(t) : t[j] = "U"}
  BY EndsIs
<1>3. /\ e \in i + 3 .. Len(s) /\ s[e] = "U" /\ \A j \in Ends(s, i) : e <= j
      /\ p \in Text /\ Len(p) = e - i - 3 /\ \A k \in 1 .. e - i - 3 : p[k] = s[i + k + 2]
  BY FirstEnd
<1> HIDE DEF e
<1>4. e \in 1 .. Len(s) /\ n + e \in n + i + 3 .. Len(t)
  BY <1>1, <1>3
<1>5. n + e \in Ends(t, n + i)
  BY <1>1, <1>2, <1>3, <1>4
<1>6. ASSUME NEW j \in Ends(t, n + i) PROVE n + e <= j
  <2>1. SUFFICES ASSUME j < n + e PROVE FALSE
    BY <1>1, <1>2, <1>4
  <2> DEFINE k == j - n
  <2>2. j \in n + i + 3 .. Len(t) /\ t[j] = "U"
    BY <1>2
  <2>3. k \in i + 3 .. Len(s) /\ k \in 1 .. Len(s) /\ k < e /\ n + k = j
    BY <1>1, <1>4, <2>1, <2>2
  <2> HIDE DEF k
  <2>4. s[k] = "U"
    BY <1>1, <2>2, <2>3
  <2>5. k \in Ends(s, i)
    BY <1>2, <2>3, <2>4
  <2>6. e <= k
    BY <1>3, <2>5
  <2>7. QED
    BY <1>4, <2>3, <2>6
<1>7. f = n + e
  <2>1. Ends(t, n + i) \subseteq Int
    BY <1>1, <1>2
  <2>2. QED
    BY <1>5, <1>6, <2>1, LeastIs
<1>8. m \in Nat /\ m >= 1 /\ Ends(t, m) # {}
  BY <1>1, <1>5
<1>9. /\ q \in Text /\ Len(q) = f - m - 3 /\ \A k \in 1 .. f - m - 3 : q[k] = t[m + k + 2]
  <2> HIDE DEF m
  <2>1. /\ SubSeq(t, m + 3, Least(Ends(t, m)) - 1) \in Text
        /\ Len(SubSeq(t, m + 3, Least(Ends(t, m)) - 1)) = Least(Ends(t, m)) - m - 3
        /\ \A k \in 1 .. Least(Ends(t, m)) - m - 3 : SubSeq(t, m + 3, Least(Ends(t, m)) - 1)[k] = t[m + k + 2]
    BY <1>8, FirstEnd
  <2>2. QED
    BY <2>1 DEF m
<1> HIDE DEF f, p, q
<1>10. p = q
  <2>1. Len(p) = Len(q)
    BY <1>1, <1>3, <1>4, <1>7, <1>9
  <2>2. ASSUME NEW k \in 1 .. Len(p) PROVE p[k] = q[k]
    <3>1. k \in 1 .. e - i - 3 /\ k \in 1 .. f - m - 3 /\ i + k + 2 \in 1 .. Len(s) /\ n + (i + k + 2) = m + k + 2
      BY <1>1, <1>3, <1>4, <1>7
    <3>2. t[n + (i + k + 2)] = s[i + k + 2]
      BY <1>1, <3>1
    <3>3. QED
      BY <1>3, <1>9, <3>1, <3>2
  <2>3. QED
    BY <1>3, <1>9, <2>1, <2>2, TextEqual
<1>11. QED
  BY <1>5, <1>7, <1>10 DEF e, f, p, q

\* and is the same marker or none.
LEMMA MarkersInside ==
  ASSUME NEW s \in Text, NEW t \in Text, NEW n \in Nat, Inside(s, t, n), NEW i \in Starts(s), Ends(s, i) # {}
  PROVE  /\ n + i \in Starts(t) /\ Ends(t, n + i) # {}
         /\ i \in Markers(s) <=> n + i \in Markers(t)
<1>1. i \in Int /\ i \in Nat /\ i >= 1 /\ i + 2 <= Len(s) /\ Len(s) \in Nat
  BY LengthOfText, StartsIs
<1>2. n + i \in Starts(t)
  BY <1>1, StartsInside
<1>3. /\ Ends(t, n + i) # {}
      /\ SubSeq(t, n + i + 3, Least(Ends(t, n + i)) - 1) = SubSeq(s, i + 3, Least(Ends(s, i)) - 1)
  <2>1. ASSUME NEW k \in Nat, k >= 1, Ends(s, k) # {}
        PROVE  /\ Ends(t, n + k) # {}
               /\ SubSeq(t, n + k + 3, Least(Ends(t, n + k)) - 1) = SubSeq(s, k + 3, Least(Ends(s, k)) - 1)
    BY <2>1, EndsInside, ZenonT(60)
  <2>2. QED
    BY <1>1, <2>1
<1>4. i \in Markers(s) <=> IsExitCode(SubSeq(s, i + 3, Least(Ends(s, i)) - 1))
  BY MarkersIs
<1>5. n + i \in Markers(t) <=> IsExitCode(SubSeq(t, n + i + 3, Least(Ends(t, n + i)) - 1))
  <2> DEFINE k == n + i
  <2>1. k \in Starts(t) /\ Ends(t, k) # {}
    BY <1>2, <1>3
  <2> HIDE DEF k
  <2>2. k \in Markers(t) <=> IsExitCode(SubSeq(t, k + 3, Least(Ends(t, k)) - 1))
    BY <2>1, MarkersIs
  <2>3. QED
    BY <2>2 DEF k
<1>6. QED
  BY <1>2, <1>3, <1>4, <1>5

\* The first n of two joined texts, when they are in the first,
LEMMA FirstJoined ==
  ASSUME NEW s \in Text, NEW c \in Text, NEW n \in 0 .. Len(s)
  PROVE  SubSeq(s \o c, 1, n) = SubSeq(s, 1, n) /\ SubSeq(s, 1, n) \in Text
<1> DEFINE t == s \o c
           p == SubSeq(t, 1, n)
           q == SubSeq(s, 1, n)
           one == 1
<1>1. Len(s) \in Nat /\ t \in Text /\ Len(t) = Len(s) + Len(c) /\ Len(c) \in Nat /\ \A i \in 1 .. Len(s) : t[i] = s[i]
  BY LengthOfText, TextJoined
<1>2. /\ one \in Int /\ n \in Int /\ 1 <= one /\ n <= Len(s) /\ n <= Len(t) /\ one <= n + 1
      /\ n - one + 1 = n /\ \A i \in 1 .. n : one + i - 1 = i /\ i \in 1 .. Len(s)
  BY <1>1
<1>3. p = SubSeq(t, one, n) /\ q = SubSeq(s, one, n)
  OBVIOUS
<1> HIDE DEF t, p, q, one
<1>4. p \in Text /\ Len(p) = n - one + 1 /\ \A i \in 1 .. n - one + 1 : p[i] = t[one + i - 1]
  BY <1>1, <1>2, <1>3, SliceText
<1>5. q \in Text /\ Len(q) = n - one + 1 /\ \A i \in 1 .. n - one + 1 : q[i] = s[one + i - 1]
  BY <1>1, <1>2, <1>3, SliceText
<1>6. Len(p) = Len(q) /\ \A i \in 1 .. Len(p) : p[i] = q[i]
  BY <1>1, <1>2, <1>4, <1>5
<1>7. p = q
  BY <1>4, <1>5, <1>6, TextEqual
<1>8. QED
  BY <1>5, <1>7 DEF p, q, t

\* and when they reach into the second.
LEMMA FirstBehind ==
  ASSUME NEW s \in Text, NEW c \in Text, NEW n \in 0 .. Len(c)
  PROVE  SubSeq(s \o c, 1, Len(s) + n) = s \o SubSeq(c, 1, n) /\ SubSeq(c, 1, n) \in Text
<1> DEFINE t == s \o c
           m == Len(s) + n
           p == SubSeq(t, 1, m)
           x == SubSeq(c, 1, n)
           q == s \o x
           one == 1
<1>1. /\ Len(s) \in Nat /\ Len(c) \in Nat /\ t \in Text /\ Len(t) = Len(s) + Len(c)
      /\ \A i \in 1 .. Len(s) : t[i] = s[i]
      /\ \A i \in 1 .. Len(c) : t[Len(s) + i] = c[i]
  BY LengthOfText, TextJoined
<1>2. /\ one \in Int /\ n \in Int /\ m \in Int /\ 1 <= one /\ n <= Len(c) /\ m <= Len(t) /\ one <= n + 1 /\ one <= m + 1
      /\ n - one + 1 = n /\ m - one + 1 = m /\ \A i \in 1 .. m : one + i - 1 = i
      /\ \A i \in 1 .. n : one + i - 1 = i /\ i \in 1 .. Len(c)
  BY <1>1
<1>3. p = SubSeq(t, one, m) /\ x = SubSeq(c, one, n) /\ m = Len(s) + n
  OBVIOUS
<1> HIDE DEF t, p, x, one, m
<1>4. p \in Text /\ Len(p) = m - one + 1 /\ \A i \in 1 .. m - one + 1 : p[i] = t[one + i - 1]
  BY <1>1, <1>2, <1>3, SliceText
<1>5. x \in Text /\ Len(x) = n - one + 1 /\ \A i \in 1 .. n - one + 1 : x[i] = c[one + i - 1]
  BY <1>1, <1>2, <1>3, SliceText
<1>6. /\ q \in Text /\ Len(q) = Len(s) + Len(x)
      /\ \A i \in 1 .. Len(s) : q[i] = s[i]
      /\ \A i \in 1 .. Len(x) : q[Len(s) + i] = x[i]
  BY <1>5, TextJoined
<1> HIDE DEF q
<1>7. Len(p) = m /\ Len(x) = n /\ Len(q) = m
  BY <1>2, <1>3, <1>4, <1>5, <1>6
<1>8. ASSUME NEW i \in 1 .. Len(p) PROVE p[i] = q[i]
  <2>1. p[i] = t[i]
    BY <1>2, <1>4, <1>7, SMTT(30)
  <2>2. CASE i <= Len(s)
    <3>1. i \in 1 .. Len(s)
      BY <1>1, <1>2, <1>7, <2>2
    <3>2. QED
      BY <1>1, <1>6, <2>1, <3>1
  <2>3. CASE ~(i <= Len(s))
    <3> DEFINE k == i - Len(s)
    <3>1. k \in 1 .. n /\ k \in 1 .. Len(c) /\ i = Len(s) + k
      BY <1>1, <1>2, <1>3, <1>7, <2>3
    <3> HIDE DEF k
    <3>2. x[k] = c[k]
      BY <1>2, <1>5, <3>1
    <3>3. QED
      BY <1>1, <1>6, <1>7, <2>1, <3>1, <3>2
  <2>4. QED
    BY <2>2, <2>3
<1>9. p = q
  BY <1>4, <1>6, <1>7, <1>8, TextEqual
<1>10. QED
  BY <1>5, <1>9 DEF p, q, t, x, m

\* A marker taken out of a text is taken out of it with more text behind it.
LEMMA WithoutLonger ==
  ASSUME NEW s \in Text, NEW c \in Text, NEW i \in Starts(s), Ends(s, i) # {}
  PROVE  Without(s \o c, i) = Without(s, i) \o c /\ Without(s, i) \in Text
<1> DEFINE t == s \o c
           e == Least(Ends(s, i))
           k == i - 1
           l == e + 1
           x == SubSeq(s, 1, k)
           y == From(s, l)
<1>1. i \in Nat /\ i >= 1 /\ i + 2 <= Len(s) /\ Len(s) \in Nat
  BY LengthOfText, StartsIs
<1>2. Inside(s, t, 0) /\ t \in Text
  BY InsideFirst, TextConcat
<1>3. e \in i + 3 .. Len(s)
  BY <1>1, FirstEnd
<1>4. Least(Ends(t, i)) = e
  <2> DEFINE n == 0
  <2>1. n \in Nat /\ Inside(s, t, n) /\ n + i = i /\ n + e = e
    BY <1>1, <1>2, <1>3
  <2> HIDE DEF n, t
  <2>2. Least(Ends(t, n + i)) = n + Least(Ends(s, i))
    BY <1>1, <1>2, <2>1, EndsInside
  <2>3. QED
    BY <2>1, <2>2
<1>5. k \in 0 .. Len(s) /\ l \in 1 .. Len(s) + 1
  BY <1>1, <1>3
<1>6. Without(t, i) = SubSeq(t, 1, k) \o From(t, l) /\ Without(s, i) = x \o y
  BY <1>4 DEF Without
<1> HIDE DEF e, k, l
<1>7. SubSeq(t, 1, k) = x /\ x \in Text
  BY <1>5, FirstJoined
<1>8. From(t, l) = y \o c
  BY <1>5, FromConcat DEF Text
<1>9. y \in Text
  BY <1>5, FromText
<1> HIDE DEF x, y
<1>10. x \in Text /\ y \in Text /\ c \in Text
  BY <1>7, <1>9
<1>11. x \o y \in Text
  BY <1>10, TextConcat
<1>12. (x \o y) \o c = x \o (y \o c)
  BY <1>10, TextAssociative
<1>13. QED
  BY <1>6, <1>7, <1>8, <1>11, <1>12

\* The same with more text before it.
LEMMA WithoutBehind ==
  ASSUME NEW v \in Text, NEW s \in Text, NEW i \in Starts(s), Ends(s, i) # {}
  PROVE  Without(v \o s, Len(v) + i) = v \o Without(s, i) /\ Without(s, i) \in Text
<1> DEFINE t == v \o s
           e == Least(Ends(s, i))
           k == i - 1
           l == e + 1
           x == SubSeq(s, 1, k)
           y == From(s, l)
           n == Len(v)
<1>1. i \in Nat /\ i >= 1 /\ i + 2 <= Len(s) /\ Len(s) \in Nat /\ n \in Nat
  BY LengthOfText, StartsIs
<1>2. Inside(s, t, n) /\ t \in Text
  BY InsideBehind, TextConcat
<1>3. e \in i + 3 .. Len(s)
  BY <1>1, FirstEnd
<1>4. Least(Ends(t, n + i)) = n + e
  <2> HIDE DEF n, t
  <2>2. QED
    BY <1>1, <1>2, EndsInside
<1>5. k \in 0 .. Len(s) /\ l \in 1 .. Len(s) + 1 /\ n + i - 1 = n + k /\ n + e + 1 = n + l
  BY <1>1, <1>3
<1>6. Without(t, n + i) = SubSeq(t, 1, n + k) \o From(t, n + l) /\ Without(s, i) = x \o y
  <2>1. Without(s, i) = x \o y
    BY DEF Without
  <2>2. Without(t, n + i) = SubSeq(t, 1, (n + i) - 1) \o From(t, Least(Ends(t, n + i)) + 1)
    <3> DEFINE j == n + i
    <3> HIDE DEF n, t, j
    <3>1. Without(t, j) = SubSeq(t, 1, j - 1) \o From(t, Least(Ends(t, j)) + 1)
      BY DEF Without
    <3>2. QED
      BY <3>1 DEF j
  <2>3. (n + i) - 1 = n + k /\ (n + e) + 1 = n + l
    BY <1>1, <1>3
  <2> HIDE DEF n, t, e, k, l
  <2>4. QED
    BY <2>3, <1>4, <1>5, <2>1, <2>2
<1>7. SubSeq(t, 1, n + k) = v \o x /\ x \in Text
  <2> HIDE DEF k
  <2>1. QED
    BY <1>5, FirstBehind
<1>8. From(t, n + l) = y
  <2> HIDE DEF l
  <2>1. QED
    BY <1>5, FromBehind DEF Text
<1>9. y \in Text
  <2> HIDE DEF l
  <2>1. QED
    BY <1>5, FromText
<1> HIDE DEF x, y
<1>10. v \o (x \o y) = (v \o x) \o y /\ x \o y \in Text
  BY <1>7, <1>9, TextAssociative, TextConcat, SMTT(30)
<1>11. QED
  BY <1>6, <1>7, <1>8, <1>10

\* As far as the sequence goes, a marker's prefix begins here.
Begins(s, i) ==
  s[i] = "R" /\ (i + 1 <= Len(s) => s[i + 1] = "P") /\ (i + 2 <= Len(s) => s[i + 2] = "K")

\* Where there is room for a prefix, to be one is to begin one.
LEMMA StartBegins ==
  ASSUME NEW s \in Text, NEW i \in 1 .. Len(s), i + 2 <= Len(s)
  PROVE  i \in Starts(s) <=> Begins(s, i)
<1>1. i + 1 <= Len(s) /\ Len(s) \in Nat
  BY LengthOfText
<1>2. QED
  BY <1>1, StartsIs DEF Begins

\* What begins a prefix in a longer text begins it here.
LEMMA BeginsInside ==
  ASSUME NEW s \in Text, NEW t \in Text, NEW n \in Nat, Inside(s, t, n), NEW i \in 1 .. Len(s), Begins(t, n + i)
  PROVE  Begins(s, i)
<1>1. Len(s) \in Nat /\ Len(t) \in Nat /\ n + Len(s) <= Len(t) /\ \A k \in 1 .. Len(s) : t[n + k] = s[k]
  BY LengthOfText DEF Inside
<1>2. t[n + i] = s[i] /\ n + i + 1 = n + (i + 1) /\ n + i + 2 = n + (i + 2)
  BY <1>1
<1>3. ASSUME i + 1 <= Len(s) PROVE n + i + 1 <= Len(t) /\ t[n + i + 1] = s[i + 1]
  <2>1. i + 1 \in 1 .. Len(s)
    BY <1>1, <1>3
  <2>2. t[n + (i + 1)] = s[i + 1]
    BY <1>1, <2>1
  <2>3. n + i + 1 <= Len(t)
    BY <1>1, <2>1
  <2>4. QED
    BY <1>2, <2>2, <2>3
<1>4. ASSUME i + 2 <= Len(s) PROVE n + i + 2 <= Len(t) /\ t[n + i + 2] = s[i + 2]
  <2>1. i + 2 \in 1 .. Len(s)
    BY <1>1, <1>4
  <2>2. t[n + (i + 2)] = s[i + 2]
    BY <1>1, <2>1
  <2>3. n + i + 2 <= Len(t)
    BY <1>1, <2>1
  <2>4. QED
    BY <1>2, <2>2, <2>3
<1>5. QED
  BY <1>2, <1>3, <1>4 DEF Begins

\* What is not held back at the end is no beginning of a prefix.
LEMMA PartialPrefixIs ==
  ASSUME NEW s \in Text
  PROVE  /\ PartialPrefix(s) \in 0 .. 2 /\ PartialPrefix(s) <= Len(s)
         /\ \A i \in 1 .. Len(s) - PartialPrefix(s) : i + 2 > Len(s) => ~Begins(s, i)
<1> DEFINE N == Smaller(Len(s), Len(Prefix) - 1)
           S == {0} \cup {n \in 1 .. N : LastChars(s, n) = SubSeq(Prefix, 1, n)}
           g == Greatest(S)
<1>1. Len(s) \in Nat /\ Len(Prefix) = 3
  BY LengthOfText DEF Prefix
<1>2. N \in Nat /\ N <= 2 /\ N <= Len(s) /\ (\A n \in 1 .. 2 : n <= Len(s) => n \in 1 .. N)
  BY <1>1 DEF Smaller
<1> HIDE DEF N
<1>3. S \subseteq 0 .. N /\ S # {}
  BY <1>2
<1>4. g \in S /\ \A n \in S : n <= g
  <2> HIDE DEF S
  <2>1. QED
    BY <1>2, <1>3, GreatestExists
<1>5. PartialPrefix(s) = g
  BY DEF PartialPrefix, N
<1> HIDE DEF g
<1>6. g \in 0 .. 2 /\ g <= Len(s) /\ g \in Nat
  BY <1>1, <1>2, <1>3, <1>4
<1>7. ASSUME NEW i \in 1 .. Len(s) - g, i + 2 > Len(s), Begins(s, i) PROVE FALSE
  <2> DEFINE n == Len(s) - i + 1
             p == LastChars(s, n)
             q == SubSeq(Prefix, 1, n)
  <2>1. n \in Nat /\ n \in 1 .. 2 /\ n <= Len(s) /\ n > g /\ Len(s) - n + 1 = i
    BY <1>1, <1>6, <1>7
  <2>2. n \in 1 .. N
    BY <1>2, <2>1
  <2> HIDE DEF n
  <2>3. p \in Text /\ Len(p) = n /\ \A k \in 1 .. n : p[k] = s[Len(s) - n + k]
    BY <2>1, LastCharsIs DEF Text
  <2>6. p[1] = s[i] /\ s[i] = "R" /\ (n = 2 => p[2] = s[i + 1] /\ s[i + 1] = "P")
    <3>1. 1 \in 1 .. n /\ (n = 2 => 2 \in 1 .. n) /\ Len(s) - n + 2 = i + 1 /\ (n = 2 => i + 1 <= Len(s))
      BY <1>1, <2>1
    <3>2. QED
      BY <1>7, <2>1, <2>3, <3>1 DEF Begins
  <2>7. q \in Text /\ Len(q) = n /\ q[1] = "R" /\ (n = 2 => q[2] = "P")
    <3> DEFINE one == 1
    <3>1. Prefix \in Text /\ Len(Prefix) = 3 /\ Prefix[1] = "R" /\ Prefix[2] = "P"
      <4>1. "R" \in Symbol /\ "P" \in Symbol /\ "K" \in Symbol
        BY Symbols
      <4>2. QED
        BY <4>1, ThreeSymbols DEF Prefix
    <3>2. /\ one \in Int /\ n \in Int /\ 1 <= one /\ n <= Len(Prefix) /\ one <= n + 1 /\ n - one + 1 = n
          /\ 1 \in 1 .. n /\ one + 1 - 1 = 1 /\ (n = 2 => 2 \in 1 .. n /\ one + 2 - 1 = 2)
      BY <2>1, <3>1
    <3>3. q = SubSeq(Prefix, one, n)
      OBVIOUS
    <3> HIDE DEF q, one
    <3>4. q \in Text /\ Len(q) = n - one + 1 /\ \A k \in 1 .. n - one + 1 : q[k] = Prefix[one + k - 1]
      BY <3>1, <3>2, <3>3, SliceText
    <3>5. QED
      BY <3>1, <3>2, <3>4
  <2> HIDE DEF p, q
  <2>8. \A k \in 1 .. n : k = 1 \/ (n = 2 /\ k = 2)
    BY <2>1
  <2>9. p = q
    <3>1. \A k \in 1 .. Len(p) : p[k] = q[k]
      BY <2>3, <2>6, <2>7, <2>8
    <3>2. QED
      BY <2>3, <2>7, <3>1, TextEqual
  <2>10. n \in S
    BY <2>2, <2>9 DEF p, q
  <2>11. n <= g
    BY <1>4, <2>10
  <2>12. QED
    BY <1>6, <2>1, <2>11
<1>8. QED
  BY <1>5, <1>6, <1>7

\* The first prefix.
LEMMA FirstStart ==
  ASSUME NEW s \in Text, Starts(s) # {}
  PROVE  /\ Least(Starts(s)) \in Starts(s)
         /\ \A i \in Starts(s) : Least(Starts(s)) <= i
<1>1. Starts(s) \subseteq Nat
  BY LengthOfText, StartsIs
<1>2. QED
  BY <1>1, LeastExists

\* A stripper that waits lets the first part through and keeps the rest.
LEMMA HeldIs ==
  ASSUME NEW s \in Text, NEW i \in 1 .. Len(s) + 1
  PROVE  /\ Held(s, i).visible = SubSeq(s, 1, i - 1) /\ Held(s, i).pending = From(s, i) /\ Held(s, i).completed = FALSE
         /\ SubSeq(s, 1, i - 1) \in Text /\ Len(SubSeq(s, 1, i - 1)) = i - 1
         /\ From(s, i) \in Text
         /\ SubSeq(s, 1, i - 1) \o From(s, i) = s
<1> DEFINE k == i - 1
           one == 1
<1>1. Len(s) \in Nat
  BY LengthOfText
<1>2. /\ k \in 0 .. Len(s) /\ k + 1 = i /\ one \in Int /\ k \in Int /\ 1 <= one /\ k <= Len(s) /\ one <= k + 1
      /\ k - one + 1 = k
  BY <1>1
<1>3. /\ Held(s, i).visible = SubSeq(s, 1, k) /\ Held(s, i).pending = From(s, i) /\ Held(s, i).completed = FALSE
  BY DEF Held
<1>4. SubSeq(s, 1, k) = SubSeq(s, one, k)
  OBVIOUS
<1> HIDE DEF k, one
<1>5. SubSeq(s, one, k) \in Text /\ Len(SubSeq(s, one, k)) = k - one + 1
  BY <1>2, SliceText
<1>6. SubSeq(s, 1, k) \o From(s, k + 1) = s
  BY <1>2, Split DEF Text
<1>7. From(s, i) \in Text
  BY FromText
<1>8. /\ Held(s, i).visible = SubSeq(s, 1, k) /\ Held(s, i).pending = From(s, i) /\ Held(s, i).completed = FALSE
      /\ SubSeq(s, 1, k) \in Text /\ Len(SubSeq(s, 1, k)) = k
      /\ From(s, i) \in Text
      /\ SubSeq(s, 1, k) \o From(s, i) = s
  BY <1>2, <1>3, <1>4, <1>5, <1>6, <1>7
<1>9. QED
  BY <1>8 DEF k

\* The stripper before its marker came: it waits for the end of what may be one,
\* takes one out, or keeps what may be the beginning of one.
LEMMA ConsumedIs ==
  ASSUME NEW m, ~m.completed, NEW c, m.pending \o c \in Text
  PROVE  LET all   == m.pending \o c
             start == Least(Starts(all))
             r     == Consumed(m, c)
         IN  \/ Starts(all) # {} /\ Ends(all, start) = {} /\ r = Held(all, start)
             \/ /\ Starts(all) # {} /\ start \in Markers(all)
                /\ r = [visible |-> Without(all, start), pending |-> <<>>, completed |-> TRUE]
             \/ /\ Starts(all) # {} => Ends(all, start) # {} /\ start \notin Markers(all)
                /\ r = Held(all, Len(all) - PartialPrefix(all) + 1)
<1> DEFINE all   == m.pending \o c
           start == Least(Starts(all))
           r     == Consumed(m, c)
           code  == SubSeq(all, start + 3, Least(Ends(all, start)) - 1)
<1>1. Len(Prefix) = 3
  BY DEF Prefix
<1>2. r = IF Starts(all) # {} /\ Ends(all, start) = {} THEN Held(all, start)
          ELSE IF Starts(all) # {} /\ IsExitCode(code)
               THEN [visible |-> SubSeq(all, 1, start - 1) \o From(all, Least(Ends(all, start)) + 1),
                     pending |-> <<>>, completed |-> TRUE]
          ELSE Held(all, Len(all) - PartialPrefix(all) + 1)
  BY <1>1 DEF Consumed
<1>3. Without(all, start) = SubSeq(all, 1, start - 1) \o From(all, Least(Ends(all, start)) + 1)
  BY DEF Without
<1>4. Starts(all) # {} => start \in Starts(all)
  <2> HIDE DEF all
  <2>1. all \in Text
    BY DEF all
  <2>2. QED
    BY <2>1, FirstStart
<1>5. Starts(all) # {} => (start \in Markers(all) <=> Ends(all, start) # {} /\ IsExitCode(code))
  <2> HIDE DEF all
  <2>1. all \in Text
    BY DEF all
  <2> HIDE DEF start
  <2>2. QED
    BY <1>4, <2>1, MarkersIs
<1> HIDE DEF all, start, r, code
<1>6. \/ Starts(all) # {} /\ Ends(all, start) = {} /\ r = Held(all, start)
      \/ /\ Starts(all) # {} /\ start \in Markers(all)
         /\ r = [visible |-> Without(all, start), pending |-> <<>>, completed |-> TRUE]
      \/ /\ Starts(all) # {} => Ends(all, start) # {} /\ start \notin Markers(all)
         /\ r = Held(all, Len(all) - PartialPrefix(all) + 1)
  <2>1. CASE Starts(all) # {} /\ Ends(all, start) = {}
    BY <1>2, <2>1
  <2>2. CASE Starts(all) # {} /\ Ends(all, start) # {} /\ IsExitCode(code)
    BY <1>2, <1>3, <1>5, <2>2
  <2>3. CASE Starts(all) # {} /\ Ends(all, start) # {} /\ ~IsExitCode(code)
    BY <1>2, <1>5, <2>3
  <2>4. CASE Starts(all) = {}
    BY <1>2, <2>4
  <2>5. QED
    BY <2>1, <2>2, <2>3, <2>4
<1>7. QED
  BY <1>6 DEF all, start, r

\* In a text with one prefix that is no marker's, the stripper may lose its way
\* (AlwaysStripped); the rest is about the others.
Clean(t) == \A i \in Starts(t) : Ends(t, i) # {} => i \in Markers(t)

\* The beginning of a clean text is clean.
LEMMA CleanBefore ==
  ASSUME NEW t \in Text, NEW c \in Text, Clean(t \o c)
  PROVE  Clean(t)
<1> SUFFICES ASSUME NEW i \in Starts(t), Ends(t, i) # {} PROVE i \in Markers(t)
  BY DEF Clean
<1> DEFINE u == t \o c
           n == 0
<1>1. u \in Text /\ Inside(t, u, n) /\ n \in Nat
  BY TextConcat, InsideFirst
<1>2. n + i = i
  BY StartsIs
<1> HIDE DEF u, n
<1>3. n + i \in Starts(u) /\ Ends(u, n + i) # {} /\ (i \in Markers(t) <=> n + i \in Markers(u))
  BY <1>1, MarkersInside
<1>4. i \in Markers(u)
  BY <1>2, <1>3 DEF Clean, u
<1>5. QED
  BY <1>2, <1>3, <1>4

\* A marker stays one, whatever follows.
LEMMA MarkersStay ==
  ASSUME NEW t \in Text, NEW c \in Text, NEW i \in Markers(t)
  PROVE  i \in Markers(t \o c) /\ Without(t \o c, i) = Without(t, i) \o c /\ Without(t, i) \in Text
<1> DEFINE u == t \o c
           n == 0
<1>1. u \in Text /\ Inside(t, u, n) /\ n \in Nat
  BY TextConcat, InsideFirst
<1>2. i \in Starts(t) /\ Ends(t, i) # {}
  BY MarkersIs
<1>3. n + i = i
  BY <1>2, StartsIs
<1>4. Without(u, i) = Without(t, i) \o c /\ Without(t, i) \in Text
  BY <1>2, WithoutLonger
<1> HIDE DEF u, n
<1>5. i \in Markers(t) <=> n + i \in Markers(u)
  BY <1>1, <1>2, MarkersInside
<1>6. QED
  BY <1>3, <1>4, <1>5 DEF u

\* No marker that comes later is before the first.
LEMMA FirstMarkerStays ==
  ASSUME NEW t \in Text, NEW c \in Text, Markers(t) # {}
  PROVE  /\ Least(Markers(t)) \in Markers(t)
         /\ Least(Markers(t \o c)) = Least(Markers(t))
<1> DEFINE u == t \o c
           l == Least(Markers(t))
           n == 0
<1>1. u \in Text /\ Inside(t, u, n) /\ n \in Nat /\ Len(t) \in Nat
  BY TextConcat, InsideFirst, LengthOfText
<1>2. \A i \in Markers(t) : i \in Nat
  BY <1>1, MarkersIs, StartsIs
<1>3. l \in Markers(t) /\ \A i \in Markers(t) : l <= i
  <2>1. Markers(t) \subseteq Nat
    BY <1>2
  <2>2. QED
    BY <2>1, LeastExists
<1> HIDE DEF l
<1>4. l \in Markers(u)
  BY <1>3, MarkersStay
<1> HIDE DEF u, n
<1>5. l \in Starts(t) /\ Ends(t, l) # {} /\ l \in Nat /\ l + 2 <= Len(t)
  BY <1>2, <1>3, MarkersIs, StartsIs
<1>6. ASSUME NEW i \in Markers(u) PROVE l <= i
  <2>1. SUFFICES ASSUME i < l PROVE FALSE
    <3>1. i \in Int
      BY <1>1, MarkersIs, StartsIs
    <3>2. QED
      BY <1>5, <3>1
  <2>2. i \in Starts(u) /\ i \in Int /\ i \in Nat /\ i >= 1 /\ i + 2 <= Len(t) /\ n + i = i
    <3>1. i \in Starts(u) /\ i \in 1 .. Len(u)
      BY <1>1, MarkersIs, StartsIs
    <3>2. QED
      BY <1>1, <1>5, <2>1, <3>1 DEF n
  <2>3. i \in Starts(t)
    BY <1>1, <2>2, StartsInside
  <2>4. Ends(t, i) # {}
    <3>1. PICK e \in Ends(t, l) : TRUE
      BY <1>5
    <3>2. e \in l + 3 .. Len(t) /\ t[e] = "U"
      BY <3>1, EndsIs
    <3>3. e \in i + 3 .. Len(t)
      BY <1>1, <1>5, <2>1, <2>2, <3>2
    <3>4. QED
      BY <3>2, <3>3, EndsIs
  <2>5. i \in Markers(t) <=> n + i \in Markers(u)
    BY <1>1, <2>3, <2>4, MarkersInside
  <2>6. i \in Markers(t)
    BY <2>2, <2>5
  <2>7. QED
    BY <1>3, <1>5, <2>1, <2>2, <2>6
<1>7. Least(Markers(u)) = l
  <2>1. Markers(u) \subseteq Int
    BY <1>1, MarkersIs, StartsIs
  <2>2. QED
    BY <1>4, <1>6, <2>1, LeastIs
<1>8. QED
  BY <1>3, <1>7 DEF l, u

Stripper(t, m, v) ==
  /\ t \in Text /\ v \in Text /\ m.pending \in Text /\ m.completed \in BOOLEAN
  /\ IF m.completed
     THEN /\ m.pending = <<>>
          /\ \E i \in Markers(t) : v = Without(t, i)
          /\ Clean(t) => v = Without(t, Least(Markers(t)))
     ELSE /\ v \o m.pending = t
          /\ \A i \in Starts(m.pending) : Ends(m.pending, i) = {}
          /\ Clean(t) => \A i \in 1 .. Len(v) : ~Begins(t, i)

\* After the marker: everything goes through.
LEMMA StripperPasses ==
  ASSUME NEW t, NEW m, NEW v, NEW c \in Text, Stripper(t, m, v), m.completed, NEW w, w = Consumed(m, c)
  PROVE  w.visible \in Text /\ Stripper(t \o c, w, v \o w.visible)
<1> DEFINE u == t \o c
<1>1. w.visible = c /\ w.pending = <<>> /\ w.completed = TRUE
  BY DEF Consumed
<1>2. t \in Text /\ v \in Text
  BY DEF Stripper
<1>3. PICK i \in Markers(t) : v = Without(t, i)
  BY DEF Stripper
<1>4. u \in Text /\ v \o c \in Text /\ <<>> \in Text
  BY <1>2, TextConcat, EmptySeq DEF Text
<1>5. i \in Markers(u) /\ v \o c = Without(u, i)
  BY <1>2, <1>3, MarkersStay
<1>6. ASSUME Clean(u) PROVE v \o c = Without(u, Least(Markers(u)))
  <2>1. Clean(t)
    BY <1>2, <1>6, CleanBefore
  <2>2. v = Without(t, Least(Markers(t)))
    BY <2>1 DEF Stripper
  <2>3. Least(Markers(t)) \in Markers(t) /\ Least(Markers(u)) = Least(Markers(t))
    BY <1>2, <1>3, FirstMarkerStays
  <2>4. Without(u, Least(Markers(t))) = Without(t, Least(Markers(t))) \o c
    BY <1>2, <2>3, MarkersStay
  <2>5. QED
    BY <2>2, <2>3, <2>4
<1> HIDE DEF u
<1>7. Stripper(u, w, v \o c)
  BY <1>1, <1>4, <1>5, <1>6 DEF Stripper
<1>8. QED
  BY <1>1, <1>7 DEF u

\* Before the marker.
LEMMA StripperWaits ==
  ASSUME NEW t, NEW m, NEW v, NEW c \in Text, Stripper(t, m, v), ~m.completed, NEW w, w = Consumed(m, c)
  PROVE  w.visible \in Text /\ Stripper(t \o c, w, v \o w.visible)
<1> DEFINE u == t \o c
           all == m.pending \o c
           start == Least(Starts(all))
           n == Len(v)
<1>1. /\ t \in Text /\ v \in Text /\ m.pending \in Text /\ v \o m.pending = t
      /\ \A i \in Starts(m.pending) : Ends(m.pending, i) = {}
      /\ Clean(t) => \A i \in 1 .. Len(v) : ~Begins(t, i)
  BY DEF Stripper
<1>2. all \in Text /\ u \in Text /\ <<>> \in Text
  BY <1>1, TextConcat, EmptySeq DEF Text
<1>3. u = v \o all
  BY <1>1, TextAssociative
<1>4. n \in Nat /\ Len(all) \in Nat /\ Inside(all, u, n)
  BY <1>1, <1>2, <1>3, LengthOfText, InsideBehind
<1>5. Starts(all) # {} => start \in Starts(all) /\ \A i \in Starts(all) : start <= i
  <2> HIDE DEF all
  <2>1. QED
    BY <1>2, FirstStart
\* Nothing begins in what was let through before.
<1>6. ASSUME Clean(u), NEW i \in 1 .. n PROVE ~Begins(u, i)
  <2> DEFINE zero == 0
  <2>1. Clean(t)
    BY <1>1, <1>6, CleanBefore
  <2>2. n <= Len(t) /\ Len(t) \in Nat
    <3>1. Len(m.pending) \in Nat /\ Len(t) \in Nat
      BY <1>1, LengthOfText
    <3>2. Len(v \o m.pending) = Len(v) + Len(m.pending)
      BY <1>1, TextJoined
    <3>3. QED
      BY <1>1, <1>4, <3>1, <3>2
  <2>3. i \in 1 .. Len(t) /\ ~Begins(t, i) /\ i \in Int /\ zero \in Nat /\ zero + i = i
    <3>1. i \in 1 .. Len(t) /\ i \in Int /\ zero \in Nat /\ zero + i = i
      BY <1>4, <2>2
    <3>2. ~Begins(t, i)
      <4>1. \A k \in 1 .. Len(v) : ~Begins(t, k)
        BY <1>1, <2>1
      <4>2. i \in 1 .. Len(v)
        OBVIOUS
      <4>3. QED
        BY <4>1, <4>2
    <3>3. QED
      BY <3>1, <3>2
  <2>4. Inside(t, u, zero)
    BY <1>1, InsideFirst
  <2> HIDE DEF u, zero
  <2>5. Begins(u, zero + i) => Begins(t, i)
    BY <1>1, <1>2, <2>3, <2>4, BeginsInside
  <2>6. QED
    BY <2>3, <2>5
\* A place of the whole text is one of what was let through, or of the rest.
<1>7. ASSUME Clean(u), NEW k \in 0 .. Len(all), \A i \in 1 .. k : ~Begins(all, i)
      PROVE  \A i \in 1 .. n + k : ~Begins(u, i)
  <2> SUFFICES ASSUME NEW i \in 1 .. n + k PROVE ~Begins(u, i)
    OBVIOUS
  <2>1. CASE i <= n
    <3>1. i \in 1 .. n
      BY <1>4, <2>1
    <3>2. QED
      BY <1>6, <1>7, <3>1
  <2>2. CASE ~(i <= n)
    <3> DEFINE j == i - n
    <3>1. j \in 1 .. k /\ j \in 1 .. Len(all) /\ n + j = i
      BY <1>4, <2>2
    <3> HIDE DEF j, u, all, n
    <3>2. Begins(u, n + j) => Begins(all, j)
      BY <1>2, <1>4, <3>1, BeginsInside
    <3>3. QED
      BY <1>7, <3>1, <3>2
  <2>3. QED
    BY <2>1, <2>2
<1> HIDE DEF u, all, start, n
\* What is held from a place on, when no prefix begins before it.
<1>8. ASSUME NEW i \in 1 .. Len(all) + 1, w = Held(all, i),
             \A j \in Starts(From(all, i)) : Ends(From(all, i), j) = {},
             Clean(u) => \A j \in 1 .. i - 1 : ~Begins(all, j)
      PROVE  w.visible \in Text /\ Stripper(u, w, v \o w.visible)
  <2> DEFINE x == SubSeq(all, 1, i - 1)
             y == From(all, i)
             k == i - 1
  <2>1. /\ w.visible = x /\ w.pending = y /\ w.completed = FALSE
        /\ x \in Text /\ Len(x) = i - 1 /\ y \in Text /\ x \o y = all
    <3>1. /\ Held(all, i).visible = x /\ Held(all, i).pending = y /\ Held(all, i).completed = FALSE
          /\ x \in Text /\ Len(x) = i - 1 /\ y \in Text /\ x \o y = all
      BY <1>2, HeldIs
    <3> HIDE DEF x, y
    <3>2. QED
      BY <1>8, <3>1
  <2>2. v \o x \in Text /\ (v \o x) \o y = u /\ Len(v \o x) = n + k
    <3> HIDE DEF x, y
    <3>1. v \o x \in Text
      BY <1>1, <2>1, TextConcat
    <3>2. (v \o x) \o y = v \o (x \o y)
      <4>1. v \in Text /\ x \in Text /\ y \in Text
        BY <1>1, <2>1
      <4>2. QED
        BY <4>1, TextAssociative
    <3>3. Len(v \o x) = Len(v) + Len(x)
      BY <1>1, <2>1, TextJoined
    <3>4. QED
      BY <1>3, <2>1, <3>1, <3>2, <3>3 DEF n
  <2>3. Clean(u) => \A j \in 1 .. n + k : ~Begins(u, j)
    <3>1. k \in 0 .. Len(all)
      BY <1>4
    <3>2. Clean(u) => \A j \in 1 .. k : ~Begins(all, j)
      BY <1>8
    <3> HIDE DEF k
    <3>3. QED
      BY <1>7, <3>1, <3>2
  <2>4. \A j \in Starts(y) : Ends(y, j) = {}
    BY <1>8
  <2> HIDE DEF x, y, k
  <2>5. QED
    BY <1>2, <2>1, <2>2, <2>3, <2>4 DEF Stripper
<1>9. \/ Starts(all) # {} /\ Ends(all, start) = {} /\ w = Held(all, start)
      \/ /\ Starts(all) # {} /\ start \in Markers(all)
         /\ w = [visible |-> Without(all, start), pending |-> <<>>, completed |-> TRUE]
      \/ /\ Starts(all) # {} => Ends(all, start) # {} /\ start \notin Markers(all)
         /\ w = Held(all, Len(all) - PartialPrefix(all) + 1)
  BY <1>2, ConsumedIs DEF all, start
\* The end of what may be a marker is not there yet.
<1>10. CASE Starts(all) # {} /\ Ends(all, start) = {} /\ w = Held(all, start)
  <2>1. start \in Starts(all) /\ \A i \in Starts(all) : start <= i
    BY <1>5, <1>10
  <2>2. start \in 1 .. Len(all) /\ start + 2 <= Len(all)
    BY <1>2, <2>1, StartsIs
  <2>3. start \in 1 .. Len(all) + 1
    BY <1>4, <2>2
  <2> DEFINE y == From(all, start)
  <2>4. y \in Text /\ Len(y) = Len(all) - start + 1 /\ \A i \in 1 .. Len(all) - start + 1 : y[i] = all[start + i - 1]
    BY <1>2, <2>3, FromText
  <2>5. ASSUME NEW j \in Starts(y), NEW e \in Ends(y, j) PROVE FALSE
    <3> HIDE DEF y
    <3>1. j \in 1 .. Len(y)
      BY <2>4, StartsIs
    <3>2. e \in j + 3 .. Len(y) /\ y[e] = "U"
      BY EndsIs
    <3> DEFINE f == start + e - 1
    <3>3. f \in start + 3 .. Len(all) /\ e \in 1 .. Len(all) - start + 1 /\ start + e - 1 = f
      BY <1>4, <2>2, <2>4, <3>1, <3>2
    <3>4. all[f] = "U"
      BY <2>4, <3>2, <3>3
    <3> HIDE DEF f
    <3>5. f \in Ends(all, start)
      BY <3>3, <3>4, EndsIs
    <3>6. QED
      BY <1>10, <3>5
  <2>6. \A j \in Starts(y) : Ends(y, j) = {}
    BY <2>5
  <2>7. ASSUME NEW j \in 1 .. start - 1 PROVE ~Begins(all, j)
    <3>1. j \in 1 .. Len(all) /\ j + 2 <= Len(all) /\ ~(start <= j)
      BY <1>4, <2>2
    <3>2. QED
      BY <1>2, <2>1, <3>1, StartBegins
  <2>8. QED
    BY <1>8, <1>10, <2>3, <2>6, <2>7 DEF u
\* The marker is there.
<1>11. CASE /\ Starts(all) # {} /\ start \in Markers(all)
            /\ w = [visible |-> Without(all, start), pending |-> <<>>, completed |-> TRUE]
  <2>1. start \in Starts(all) /\ (\A i \in Starts(all) : start <= i) /\ Ends(all, start) # {}
    BY <1>2, <1>5, <1>11, MarkersIs
  <2>2. start \in 1 .. Len(all) /\ start + 2 <= Len(all)
    BY <1>2, <2>1, StartsIs
  <2>3. w.visible = Without(all, start) /\ w.pending = <<>> /\ w.completed = TRUE
    BY <1>11
  <2>4. Without(u, n + start) = v \o Without(all, start) /\ Without(all, start) \in Text
    <3>1. Without(v \o all, Len(v) + start) = v \o Without(all, start) /\ Without(all, start) \in Text
      BY <1>1, <1>2, <2>1, WithoutBehind, SMTT(30)
    <3>2. QED
      BY <1>3, <3>1 DEF n
  <2>5. n + start \in Markers(u)
    BY <1>2, <1>4, <1>11, <2>1, MarkersInside
  <2> DEFINE l == n + start
  <2>6. l \in Markers(u) /\ v \o w.visible = Without(u, l) /\ l \in Int
    BY <1>4, <2>2, <2>3, <2>4, <2>5
  <2>7. ASSUME Clean(u) PROVE Least(Markers(u)) = l
    <3>1. Markers(u) \subseteq Int
      BY <1>2, MarkersIs, StartsIs
    <3>2. ASSUME NEW i \in Markers(u), ~(l <= i) PROVE FALSE
      <4>1. i \in Starts(u) /\ i \in 1 .. Len(u) /\ i + 2 <= Len(u)
        BY <1>2, <3>2, MarkersIs, StartsIs
      <4>2. Begins(u, i)
        BY <1>2, <4>1, StartBegins
      <4> DEFINE k == start - 1
      <4>3. k \in 0 .. Len(all) /\ i \in 1 .. n + k
        BY <1>4, <2>2, <3>2, <4>1
      <4>4. ASSUME NEW j \in 1 .. k PROVE ~Begins(all, j)
        <5>1. j \in 1 .. Len(all) /\ j + 2 <= Len(all) /\ ~(start <= j)
          BY <1>4, <2>2
        <5>2. QED
          BY <1>2, <2>1, <5>1, StartBegins
      <4> HIDE DEF k
      <4>5. ~Begins(u, i)
        BY <1>7, <2>7, <4>3, <4>4
      <4>6. QED
        BY <4>2, <4>5
    <3>3. \A i \in Markers(u) : l <= i
      BY <3>2
    <3> HIDE DEF l
    <3>4. QED
      BY <2>6, <3>1, <3>3, LeastIs
  <2> HIDE DEF l
  <2>8. v \o w.visible \in Text
    BY <1>1, <2>3, <2>4, TextConcat
  <2>9. Stripper(u, w, v \o w.visible)
    BY <1>2, <2>3, <2>6, <2>7, <2>8 DEF Stripper
  <2>10. QED
    BY <2>3, <2>4, <2>9 DEF u
\* There is none; the beginning of one may be at the end.
<1>12. CASE /\ Starts(all) # {} => Ends(all, start) # {} /\ start \notin Markers(all)
            /\ w = Held(all, Len(all) - PartialPrefix(all) + 1)
  <2> DEFINE p == PartialPrefix(all)
             i == Len(all) - p + 1
             y == From(all, i)
  <2>1. p \in 0 .. 2 /\ p <= Len(all) /\ \A j \in 1 .. Len(all) - p : j + 2 > Len(all) => ~Begins(all, j)
    BY <1>2, PartialPrefixIs
  <2>2. i \in 1 .. Len(all) + 1 /\ Len(all) - i + 1 = p /\ i - 1 = Len(all) - p
    BY <1>4, <2>1
  <2> HIDE DEF i, p
  <2>3. y \in Text /\ Len(y) = p
    BY <1>2, <2>2, FromText
  <2>4. ASSUME NEW j \in Starts(y) PROVE FALSE
    <3> HIDE DEF y
    <3>1. j \in 1 .. Len(y) /\ j + 2 <= Len(y)
      BY <2>3, StartsIs
    <3>2. QED
      BY <2>1, <2>3, <3>1
  <2>5. ASSUME Clean(u) PROVE Starts(all) = {}
    <3>1. SUFFICES ASSUME Starts(all) # {} PROVE FALSE
      OBVIOUS
    <3>2. start \in Starts(all) /\ Ends(all, start) # {} /\ start \notin Markers(all)
      BY <1>5, <1>12, <3>1
    <3>3. n + start \in Starts(u) /\ Ends(u, n + start) # {} /\ (start \in Markers(all) <=> n + start \in Markers(u))
      BY <1>2, <1>4, <3>2, MarkersInside
    <3>4. n + start \in Markers(u)
      BY <2>5, <3>3 DEF Clean
    <3>5. QED
      BY <3>2, <3>3, <3>4
  <2>6. ASSUME Clean(u), NEW j \in 1 .. i - 1 PROVE ~Begins(all, j)
    <3>1. CASE j + 2 > Len(all)
      BY <2>1, <2>2, <3>1
    <3>2. CASE ~(j + 2 > Len(all))
      <4>1. j \in 1 .. Len(all) /\ j + 2 <= Len(all)
        BY <1>4, <2>1, <2>2, <3>2
      <4>2. j \notin Starts(all)
        BY <2>5, <2>6
      <4>3. QED
        BY <1>2, <4>1, <4>2, StartBegins
    <3>3. QED
      BY <3>1, <3>2
  <2>7. w = Held(all, i)
    BY <1>12 DEF i, p
  <2>8. \A j \in Starts(y) : Ends(y, j) = {}
    BY <2>4
  <2>9. QED
    BY <1>8, <2>2, <2>6, <2>7, <2>8 DEF u
<1>13. QED
  BY <1>9, <1>10, <1>11, <1>12

\* What is promised of the stripper.
LEMMA StripperPromise ==
  ASSUME NEW t, NEW m, NEW v, Stripper(t, m, v)
  PROVE  /\ \/ ~m.completed /\ v \o m.pending = t
            \/ /\ m.completed /\ m.pending = <<>>
               /\ \E i \in Markers(t) : v = Without(t, i)
         /\ Clean(t) => /\ m.completed <=> Markers(t) # {}
                        /\ Markers(t) # {} => v = Without(t, Least(Markers(t)))
                        /\ ~m.completed => Starts(v) = {}
<1>1. t \in Text /\ v \in Text /\ m.pending \in Text /\ m.completed \in BOOLEAN
  BY DEF Stripper
<1>2. CASE m.completed
  BY <1>1, <1>2 DEF Stripper
<1>3. CASE ~m.completed
  <2>1. v \o m.pending = t
    BY <1>3 DEF Stripper
  <2>2. ASSUME Clean(t) PROVE Markers(t) = {} /\ Starts(v) = {}
    <3>1. \A i \in 1 .. Len(v) : ~Begins(t, i)
      BY <1>3, <2>2 DEF Stripper
    <3> DEFINE p == m.pending
               n == Len(v)
               zero == 0
    <3>2. /\ n \in Nat /\ Len(p) \in Nat /\ Len(t) = n + Len(p)
          /\ Inside(p, t, n) /\ Inside(v, t, zero) /\ zero \in Nat
      BY <1>1, <2>1, LengthOfText, TextJoined, InsideFirst, InsideBehind
    <3>3. p \in Text /\ \A i \in Starts(p) : Ends(p, i) = {}
      BY <1>1, <1>3 DEF Stripper
    <3>4. ASSUME NEW i \in Starts(t), Ends(t, i) # {} PROVE FALSE
      <4>1. i \in 1 .. Len(t) /\ i + 2 <= Len(t) /\ Begins(t, i)
        BY <1>1, StartsIs, StartBegins
      <4>2. ~(i <= n)
        BY <3>1, <3>2, <4>1
      <4> DEFINE j == i - n
      <4>3. j \in Int /\ j >= 1 /\ j + 2 <= Len(p) /\ n + j = i
        BY <3>2, <4>1, <4>2
      <4> HIDE DEF j, n, p, zero
      <4>4. j \in Starts(p)
        BY <1>1, <3>2, <3>3, <4>3, StartsInside
      <4>5. PICK e \in Ends(t, i) : TRUE
        BY <3>4
      <4>6. e \in i + 3 .. Len(t) /\ t[e] = "U"
        BY EndsIs
      <4> DEFINE f == e - n
      <4>7. f \in j + 3 .. Len(p) /\ f \in 1 .. Len(p) /\ n + f = e
        BY <3>2, <4>1, <4>3, <4>6
      <4> HIDE DEF f
      <4>8. p[f] = "U"
        BY <3>2, <4>6, <4>7 DEF Inside
      <4>9. f \in Ends(p, j)
        BY <4>7, <4>8, EndsIs
      <4>10. QED
        BY <3>3, <4>4, <4>9
    <3>5. Markers(t) = {}
      BY <1>1, <3>4, MarkersIs
    <3>6. ASSUME NEW i \in Starts(v) PROVE FALSE
      <4>1. i \in 1 .. Len(v) /\ i + 2 <= Len(v) /\ i \in Int /\ i >= 1 /\ zero + i = i
        BY <1>1, StartsIs
      <4> HIDE DEF zero, n, p
      <4>2. i \in Starts(t)
        BY <1>1, <3>2, <4>1, StartsInside
      <4>3. i \in 1 .. Len(t) /\ i + 2 <= Len(t)
        BY <1>1, <4>2, StartsIs
      <4>4. Begins(t, i)
        BY <1>1, <4>2, <4>3, StartBegins
      <4>5. QED
        BY <3>1, <4>1, <4>4
    <3>7. QED
      BY <3>5, <3>6
  <2>3. QED
    BY <1>3, <2>1, <2>2
<1>4. QED
  BY <1>1, <1>2, <1>3

-----------------------------------------------------------------------------
(* The tracker of the DEC private modes.                                     *)

\* ESC [ ?, and the beginnings of it, symbol by symbol.
LEMMA IntroIs ==
  ASSUME NEW s \in Text
  PROVE  /\ IsPrefix(Intro, s) <=> 3 <= Len(s) /\ s[1] = "E" /\ s[2] = "[" /\ s[3] = "?"
         /\ IsStrictPrefix(s, Intro) <=> Len(s) <= 2 /\ (1 <= Len(s) => s[1] = "E") /\ (2 <= Len(s) => s[2] = "[")
<1>1. Intro \in Text /\ Len(Intro) = 3 /\ Intro[1] = "E" /\ Intro[2] = "[" /\ Intro[3] = "?"
  <2>1. "E" \in Symbol /\ "[" \in Symbol /\ "?" \in Symbol
    BY Symbols
  <2>2. QED
    BY <2>1, ThreeSymbols DEF Intro
<1>2. Len(s) \in Nat
  BY LengthOfText
<1>3. \A k \in 1 .. 3 : k = 1 \/ k = 2 \/ k = 3
  OBVIOUS
<1>4. 1 \in 1 .. 3 /\ 2 \in 1 .. 3 /\ 3 \in 1 .. 3
  OBVIOUS
<1>5. IsPrefix(Intro, s) <=> Len(Intro) <= Len(s) /\ \A k \in 1 .. Len(Intro) : Intro[k] = s[k]
  BY <1>1, TextPrefix
<1>6. IsPrefix(Intro, s) <=> 3 <= Len(s) /\ s[1] = "E" /\ s[2] = "[" /\ s[3] = "?"
  BY <1>1, <1>3, <1>4, <1>5
<1>7. IsPrefix(s, Intro) <=> Len(s) <= 3 /\ \A k \in 1 .. Len(s) : s[k] = Intro[k]
  BY <1>1, TextPrefix
<1>8. \A k \in 1 .. Len(s) : Len(s) <= 3 => (k = 1 /\ 1 <= Len(s)) \/ (k = 2 /\ 2 <= Len(s)) \/ (k = 3 /\ 3 <= Len(s))
  BY <1>2
<1>9. /\ 1 <= Len(s) => 1 \in 1 .. Len(s)
      /\ 2 <= Len(s) => 2 \in 1 .. Len(s)
      /\ 3 <= Len(s) => 3 \in 1 .. Len(s)
  BY <1>2
<1>10. IsPrefix(s, Intro) <=> /\ Len(s) <= 3 /\ (1 <= Len(s) => s[1] = "E")
                              /\ (2 <= Len(s) => s[2] = "[") /\ (3 <= Len(s) => s[3] = "?")
  BY <1>1, <1>7, <1>8, <1>9
<1>11. s = Intro <=> Len(s) = 3 /\ s[1] = "E" /\ s[2] = "[" /\ s[3] = "?"
  <2>1. ASSUME Len(s) = 3 /\ s[1] = "E" /\ s[2] = "[" /\ s[3] = "?" PROVE s = Intro
    <3>1. Len(s) = Len(Intro) /\ \A k \in 1 .. Len(s) : s[k] = Intro[k]
      BY <1>1, <1>3, <2>1
    <3>2. QED
      BY <1>1, <3>1, TextEqual
  <2>2. QED
    BY <1>1, <2>1
<1>12. IsStrictPrefix(s, Intro) <=> Len(s) <= 2 /\ (1 <= Len(s) => s[1] = "E") /\ (2 <= Len(s) => s[2] = "[")
  <2>1. IsStrictPrefix(s, Intro) <=> IsPrefix(s, Intro) /\ s # Intro
    BY DEF IsStrictPrefix
  <2>2. CASE Len(s) <= 2
    <3>1. s # Intro /\ Len(s) <= 3 /\ ~(3 <= Len(s))
      BY <1>2, <1>11, <2>2
    <3>2. QED
      BY <1>10, <2>1, <2>2, <3>1
  <2>3. CASE ~(Len(s) <= 2)
    <3>1. 1 <= Len(s) /\ 2 <= Len(s) /\ 3 <= Len(s) /\ (Len(s) <= 3 => Len(s) = 3)
      <4> DEFINE n == Len(s)
      <4>1. n \in Nat /\ ~(n <= 2)
        BY <1>2, <2>3
      <4> HIDE DEF n
      <4>2. 1 <= n /\ 2 <= n /\ 3 <= n
        BY <4>1
      <4>3. n <= 3 => n = 3
        BY <4>1
      <4>4. QED
        BY <4>2, <4>3 DEF n
    <3>2. QED
      BY <1>10, <1>11, <2>1, <2>3, <3>1
  <2>4. QED
    BY <2>2, <2>3
<1>13. QED
  BY <1>6, <1>12

InBody(x) == x \in Digits \cup {";"}

\* Where the parameters end: the first place that none of them is in.
LEMMA ModeEndIs ==
  ASSUME NEW s \in Text, Len(s) >= 3
  PROVE  /\ ModeEnd(s) \in 4 .. Len(s) + 1
         /\ \A k \in 4 .. ModeEnd(s) - 1 : InBody(s[k])
         /\ ModeEnd(s) <= Len(s) => ~InBody(s[ModeEnd(s)])
<1> DEFINE S == {k \in 4 .. Len(s) : ~InBody(s[k])} \cup {Len(s) + 1}
           e == Least(S)
<1>1. Len(s) \in Nat /\ Len(Intro) + 1 = 4
  BY LengthOfText DEF Intro
<1>2. ModeEnd(s) = e
  BY <1>1 DEF ModeEnd, InBody
<1>3. S \subseteq Nat /\ S # {}
  BY <1>1
<1>4. e \in S /\ \A k \in S : e <= k
  <2> HIDE DEF S
  <2>1. QED
    BY <1>3, LeastExists
<1> HIDE DEF e
<1>5. e \in 4 .. Len(s) + 1 /\ (e <= Len(s) => ~InBody(s[e]))
  BY <1>1, <1>4
<1>6. ASSUME NEW k \in 4 .. e - 1 PROVE InBody(s[k])
  <2>1. k \in 4 .. Len(s) /\ ~(e <= k)
    BY <1>1, <1>5
  <2>2. k \notin S
    BY <1>4, <2>1
  <2>3. QED
    BY <2>1, <2>2
<1>7. QED
  BY <1>2, <1>5, <1>6

\* What ends the parameters, once it is found.
LEMMA ModeEndAt ==
  ASSUME NEW s \in Text, Len(s) >= 3, NEW e \in 4 .. Len(s), ~InBody(s[e]),
         \A k \in 4 .. e - 1 : InBody(s[k])
  PROVE  ModeEnd(s) = e
<1> DEFINE d == ModeEnd(s)
<1>1. d \in 4 .. Len(s) + 1 /\ (\A k \in 4 .. d - 1 : InBody(s[k])) /\ (d <= Len(s) => ~InBody(s[d]))
  BY ModeEndIs
<1>2. Len(s) \in Nat
  BY LengthOfText
<1> HIDE DEF d
<1>3. CASE d < e
  <2>1. d \in 4 .. e - 1 /\ d <= Len(s)
    BY <1>1, <1>2, <1>3
  <2>2. QED
    BY <1>1, <2>1
<1>4. CASE e < d
  <2>1. e \in 4 .. d - 1
    BY <1>1, <1>2, <1>4
  <2>2. QED
    BY <1>1, <2>1
<1>5. d = e
  BY <1>1, <1>2, <1>3, <1>4
<1>6. QED
  BY <1>5 DEF d

\* What a sequence is, of which the introducer, the end and the body are known.
LEMMA IsModeIs ==
  ASSUME NEW s \in Text
  PROVE  /\ IsMode(s) <=> /\ IsPrefix(Intro, s) /\ ModeEnd(s) <= Len(s) /\ ModeEnd(s) <= MaxSequence
                          /\ s[ModeEnd(s)] \in Finals
                          /\ NoneEmpty(Body(s)) /\ Len(Body(s)) \notin Cuts(Body(s))
         /\ MayBecomeMode(s) <=> \/ IsStrictPrefix(s, Intro)
                                 \/ /\ IsPrefix(Intro, s) /\ ModeEnd(s) = Len(s) + 1
                                    /\ Len(s) < MaxSequence /\ NoneEmpty(Body(s))
         /\ Body(s) = SubSeq(s, 4, ModeEnd(s) - 1)
<1>1. Len(s) \in Nat /\ MaxSequence \in Nat /\ Len(Intro) + 1 = 4
  BY LengthOfText, PipelineAssumption DEF Intro
<1>2. Body(s) = SubSeq(s, 4, ModeEnd(s) - 1)
  BY <1>1 DEF Body
<1>3. ASSUME IsPrefix(Intro, s)
      PROVE  ModeEnd(s) <= Smaller(Len(s), MaxSequence) <=> ModeEnd(s) <= Len(s) /\ ModeEnd(s) <= MaxSequence
  <2>1. Len(s) >= 3
    BY <1>1, <1>3, IntroIs
  <2>2. ModeEnd(s) \in Int
    BY <1>1, <2>1, ModeEndIs
  <2>3. QED
    BY <1>1, <2>2 DEF Smaller
<1>4. IsMode(s) <=> /\ IsPrefix(Intro, s) /\ ModeEnd(s) <= Len(s) /\ ModeEnd(s) <= MaxSequence
                    /\ s[ModeEnd(s)] \in Finals
                    /\ NoneEmpty(Body(s)) /\ Len(Body(s)) \notin Cuts(Body(s))
  BY <1>3 DEF IsMode
<1>5. MayBecomeMode(s) <=> \/ IsStrictPrefix(s, Intro)
                           \/ /\ IsPrefix(Intro, s) /\ ModeEnd(s) = Len(s) + 1
                              /\ Len(s) < MaxSequence /\ NoneEmpty(Body(s))
  BY DEF MayBecomeMode
<1>6. QED
  BY <1>2, <1>4, <1>5

\* What may become a mode is none yet, is short, and holds no second escape.
LEMMA WaitingMode ==
  ASSUME NEW s \in Text, MayBecomeMode(s)
  PROVE  /\ ~IsMode(s) /\ Len(s) < MaxSequence
         /\ \A k \in 2 .. Len(s) : s[k] # "E"
<1>1. Len(s) \in Nat /\ MaxSequence \in Nat /\ MaxSequence > 2
  BY LengthOfText, PipelineAssumption
<1>2. CASE IsStrictPrefix(s, Intro)
  <2>1. Len(s) <= 2 /\ (2 <= Len(s) => s[2] = "[")
    BY <1>2, IntroIs
  <2>2. ~IsMode(s)
    BY <1>1, <2>1, IntroIs, IsModeIs
  <2>3. \A k \in 2 .. Len(s) : k = 2 /\ 2 <= Len(s)
    BY <1>1, <2>1
  <2>4. QED
    BY <1>1, <2>1, <2>2, <2>3
<1>3. CASE IsPrefix(Intro, s) /\ ModeEnd(s) = Len(s) + 1 /\ Len(s) < MaxSequence
  <2>1. 3 <= Len(s) /\ s[2] = "[" /\ s[3] = "?"
    BY <1>3, IntroIs
  <2>2. \A k \in 4 .. Len(s) : InBody(s[k])
    <3>1. \A k \in 4 .. ModeEnd(s) - 1 : InBody(s[k])
      BY <2>1, ModeEndIs
    <3>2. ModeEnd(s) - 1 = Len(s)
      BY <1>1, <1>3
    <3>3. QED
      BY <3>1, <3>2
  <2>3. ~IsMode(s)
    <3>1. ~(ModeEnd(s) <= Len(s))
      BY <1>1, <1>3
    <3>2. QED
      BY <3>1, IsModeIs
  <2>4. \A k \in 2 .. Len(s) : k = 2 \/ k = 3 \/ k \in 4 .. Len(s)
    BY <1>1
  <2>5. \A k \in 2 .. Len(s) : s[k] # "E"
    BY <2>1, <2>2, <2>4 DEF InBody, Digits
  <2>6. QED
    BY <1>3, <2>3, <2>5
<1>4. QED
  BY <1>2, <1>3, IsModeIs

\* A mode waits for nothing and holds no second escape either.
LEMMA WholeMode ==
  ASSUME NEW s \in Text, IsMode(s)
  PROVE  /\ ~MayBecomeMode(s) /\ ModeEnd(s) \in 4 .. Len(s)
         /\ \A k \in 2 .. ModeEnd(s) : s[k] # "E"
<1>1. Len(s) \in Nat
  BY LengthOfText
<1>2. IsPrefix(Intro, s) /\ ModeEnd(s) <= Len(s) /\ s[ModeEnd(s)] \in Finals
  BY IsModeIs
<1>3. 3 <= Len(s) /\ s[2] = "[" /\ s[3] = "?"
  BY <1>2, IntroIs
<1> DEFINE e == ModeEnd(s)
<1>4. e \in 4 .. Len(s) /\ (\A k \in 4 .. e - 1 : InBody(s[k])) /\ s[e] \in Finals
  <2>1. e \in 4 .. Len(s) + 1 /\ (\A k \in 4 .. e - 1 : InBody(s[k]))
    BY <1>3, ModeEndIs
  <2>2. QED
    BY <1>1, <1>2, <2>1
<1>5. ~MayBecomeMode(s)
  <2>1. ~IsStrictPrefix(s, Intro)
    BY <1>1, <1>3, IntroIs
  <2>2. ModeEnd(s) # Len(s) + 1
    BY <1>1, <1>2
  <2>3. QED
    BY <2>1, <2>2, IsModeIs
<1> HIDE DEF e
<1>6. \A k \in 2 .. e : k = 2 \/ k = 3 \/ k \in 4 .. e - 1 \/ k = e
  BY <1>1, <1>4
<1>7. \A k \in 2 .. e : s[k] # "E"
  BY <1>3, <1>4, <1>6 DEF InBody, Digits, Finals
<1>8. QED
  BY <1>4, <1>5, <1>7 DEF e

\* An empty parameter stays one.
LEMMA NoneEmptyBefore ==
  ASSUME NEW s \in Text, NEW t \in Text, Len(s) <= Len(t), \A k \in 1 .. Len(s) : s[k] = t[k], NoneEmpty(t)
  PROVE  NoneEmpty(s)
<1>1. Len(s) \in Nat /\ Len(t) \in Nat /\ DOMAIN s = 1 .. Len(s) /\ DOMAIN t = 1 .. Len(t)
  BY EmptyText DEF Text
<1>2. \A k \in Cuts(s) : k \in Cuts(t)
  <2>1. /\ Cuts(s) = {0} \cup {k \in 1 .. Len(s) : s[k] = ";"}
        /\ Cuts(t) = {0} \cup {k \in 1 .. Len(t) : t[k] = ";"}
    BY <1>1 DEF Cuts
  <2>2. \A k \in 1 .. Len(s) : k \in 1 .. Len(t)
    BY <1>1
  <2>3. QED
    BY <2>1, <2>2
<1>3. QED
  BY <1>2 DEF NoneEmpty

\* What is decided stays so when more comes.
LEMMA ModeStays ==
  ASSUME NEW a \in Text, NEW x \in Text, a # <<>>, a[1] = "E", ~MayBecomeMode(a)
  PROVE  /\ ~MayBecomeMode(a \o x) /\ (IsMode(a \o x) <=> IsMode(a))
         /\ IsMode(a) => /\ ModeEnd(a \o x) = ModeEnd(a) /\ Body(a \o x) = Body(a)
                         /\ (a \o x)[ModeEnd(a)] = a[ModeEnd(a)]
<1> DEFINE b == a \o x
<1>1. /\ Len(a) \in Nat /\ Len(x) \in Nat /\ b \in Text /\ Len(b) = Len(a) + Len(x) /\ Len(a) >= 1
      /\ \A k \in 1 .. Len(a) : b[k] = a[k]
  <2>1. Len(a) \in Nat /\ Len(x) \in Nat /\ Len(a) # 0
    BY LengthOfText
  <2>2. QED
    BY <2>1, TextJoined
<1> HIDE DEF b
<1>2. /\ b[1] = a[1]
      /\ 2 <= Len(a) => b[2] = a[2]
      /\ 3 <= Len(a) => b[3] = a[3]
  <2>1. /\ 1 \in 1 .. Len(a)
        /\ 2 <= Len(a) => 2 \in 1 .. Len(a)
        /\ 3 <= Len(a) => 3 \in 1 .. Len(a)
    BY <1>1
  <2>2. QED
    BY <1>1, <2>1
<1>3. /\ IsPrefix(Intro, a) <=> 3 <= Len(a) /\ a[1] = "E" /\ a[2] = "[" /\ a[3] = "?"
      /\ IsStrictPrefix(a, Intro) <=> Len(a) <= 2 /\ (1 <= Len(a) => a[1] = "E") /\ (2 <= Len(a) => a[2] = "[")
  BY IntroIs
<1>4. /\ IsPrefix(Intro, b) <=> 3 <= Len(b) /\ b[1] = "E" /\ b[2] = "[" /\ b[3] = "?"
      /\ IsStrictPrefix(b, Intro) <=> Len(b) <= 2 /\ (1 <= Len(b) => b[1] = "E") /\ (2 <= Len(b) => b[2] = "[")
  BY <1>1, IntroIs
<1>5. ~IsStrictPrefix(a, Intro)
  BY IsModeIs
<1>6. CASE ~IsPrefix(Intro, a)
  <2>1. ~IsPrefix(Intro, b) /\ ~IsStrictPrefix(b, Intro)
    BY <1>1, <1>2, <1>3, <1>4, <1>5, <1>6
  <2>2. ~IsMode(a) /\ ~IsMode(b) /\ ~MayBecomeMode(b)
    BY <1>1, <1>6, <2>1, IsModeIs
  <2>3. QED
    BY <2>2 DEF b
<1>7. CASE IsPrefix(Intro, a)
  <2>1. IsPrefix(Intro, b) /\ ~IsStrictPrefix(b, Intro) /\ Len(a) >= 3 /\ Len(b) >= 3
    BY <1>1, <1>2, <1>3, <1>4, <1>7
  <2> DEFINE e == ModeEnd(a)
             f == ModeEnd(b)
  <2>2. e \in 4 .. Len(a) + 1 /\ (\A k \in 4 .. e - 1 : InBody(a[k])) /\ (e <= Len(a) => ~InBody(a[e]))
    BY <2>1, ModeEndIs
  <2>3. f \in 4 .. Len(b) + 1 /\ (\A k \in 4 .. f - 1 : InBody(b[k])) /\ (f <= Len(b) => ~InBody(b[f]))
    BY <1>1, <2>1, ModeEndIs
  <2>4. /\ IsMode(a) <=> /\ e <= Len(a) /\ e <= MaxSequence /\ a[e] \in Finals
                         /\ NoneEmpty(Body(a)) /\ Len(Body(a)) \notin Cuts(Body(a))
        /\ ~(e = Len(a) + 1 /\ Len(a) < MaxSequence /\ NoneEmpty(Body(a)))
        /\ Body(a) = SubSeq(a, 4, e - 1)
    BY <1>7, IsModeIs
  <2>5. /\ IsMode(b) <=> /\ f <= Len(b) /\ f <= MaxSequence /\ b[f] \in Finals
                         /\ NoneEmpty(Body(b)) /\ Len(Body(b)) \notin Cuts(Body(b))
        /\ MayBecomeMode(b) <=> f = Len(b) + 1 /\ Len(b) < MaxSequence /\ NoneEmpty(Body(b))
        /\ Body(b) = SubSeq(b, 4, f - 1)
    BY <1>1, <2>1, IsModeIs
  <2>6. MaxSequence \in Nat
    BY PipelineAssumption
  <2> DEFINE four == 4
             p == Body(a)
             q == Body(b)
             k1 == e - 1
             k2 == f - 1
  <2>7. /\ four \in Int /\ k1 \in Int /\ k2 \in Int /\ 1 <= four /\ k1 <= Len(a) /\ k2 <= Len(b)
        /\ four <= k1 + 1 /\ four <= k2 + 1 /\ k1 - four + 1 = e - 4 /\ k2 - four + 1 = f - 4
    BY <1>1, <2>2, <2>3, SMTT(30)
  <2>8. p = SubSeq(a, four, k1) /\ q = SubSeq(b, four, k2)
    BY <2>4, <2>5
  <2> HIDE DEF e, f, four, p, q, k1, k2
  <2>9. p \in Text /\ Len(p) = k1 - four + 1 /\ \A i \in 1 .. k1 - four + 1 : p[i] = a[four + i - 1]
    BY <2>7, <2>8, SliceText
  <2>10. q \in Text /\ Len(q) = k2 - four + 1 /\ \A i \in 1 .. k2 - four + 1 : q[i] = b[four + i - 1]
    BY <1>1, <2>7, <2>8, SliceText
  <2>11. Len(p) = e - 4 /\ Len(q) = f - 4
    BY <2>7, <2>9, <2>10
  <2>12. ASSUME e <= f PROVE Len(p) <= Len(q) /\ \A i \in 1 .. Len(p) : p[i] = q[i]
    <3>1. Len(p) <= Len(q)
      BY <2>2, <2>3, <2>11, <2>12
    <3>2. ASSUME NEW i \in 1 .. Len(p) PROVE p[i] = q[i]
      <4>1. /\ i \in 1 .. k1 - four + 1 /\ i \in 1 .. k2 - four + 1 /\ four + i - 1 \in 1 .. Len(a)
        BY <1>1, <2>2, <2>3, <2>7, <2>11, <2>12 DEF four
      <4>2. b[four + i - 1] = a[four + i - 1]
        BY <1>1, <4>1
      <4>3. QED
        BY <2>9, <2>10, <4>1, <4>2
    <3>3. QED
      BY <3>1, <3>2
  <2>13. CASE e <= Len(a)
    <3>1. e \in 4 .. Len(b) /\ e \in 1 .. Len(a) /\ \A k \in 4 .. e - 1 : k \in 1 .. Len(a)
      BY <1>1, <2>2, <2>13
    <3>2. b[e] = a[e] /\ \A k \in 4 .. e - 1 : InBody(b[k])
      BY <1>1, <2>2, <3>1
    <3>3. ~InBody(b[e])
      BY <2>2, <2>13, <3>2
    <3>4. f = e
      BY <1>1, <2>1, <3>1, <3>2, <3>3, ModeEndAt DEF f
    <3>5. p = q
      <4>1. e <= f /\ Len(p) = Len(q)
        BY <2>2, <2>11, <3>4
      <4>2. \A i \in 1 .. Len(p) : p[i] = q[i]
        BY <2>12, <4>1
      <4>3. QED
        BY <2>9, <2>10, <4>1, <4>2, TextEqual
    <3>6. ~MayBecomeMode(b)
      BY <1>1, <2>5, <3>1, <3>4
    <3>7. f <= Len(b) /\ e <= Len(a)
      BY <1>1, <2>13, <3>1, <3>4
    <3>8. IsMode(b) <=> IsMode(a)
      BY <2>4, <2>5, <3>2, <3>4, <3>5, <3>7 DEF p, q
    <3>9. QED
      BY <3>2, <3>4, <3>5, <3>6, <3>8 DEF b, e, f, p, q
  <2>14. CASE ~(e <= Len(a))
    <3>1. e = Len(a) + 1
      BY <1>1, <2>2, <2>14
    <3>2. e <= f
      <4>1. SUFFICES ASSUME f <= Len(a) PROVE FALSE
        BY <1>1, <2>3, <3>1
      <4>2. f \in 4 .. e - 1 /\ f \in 1 .. Len(a) /\ f <= Len(b)
        BY <1>1, <2>3, <3>1, <4>1
      <4>3. InBody(a[f]) /\ ~InBody(b[f]) /\ a[f] = b[f]
        BY <1>1, <2>2, <2>3, <4>2
      <4>4. QED
        BY <4>3
    <3>3. ~IsMode(a)
      BY <2>4, <2>14
    <3>4. ~(Len(a) < MaxSequence) \/ ~NoneEmpty(p)
      BY <2>4, <3>1 DEF p
    <3>5. CASE ~(Len(a) < MaxSequence)
      <4>1. ~(f <= MaxSequence) /\ ~(Len(b) < MaxSequence)
        BY <1>1, <2>3, <2>6, <3>1, <3>2, <3>5
      <4>2. ~IsMode(b) /\ ~MayBecomeMode(b)
        BY <2>5, <4>1
      <4>3. QED
        BY <3>3, <4>2 DEF b
    <3>6. CASE ~NoneEmpty(p)
      <4>1. ~NoneEmpty(q)
        BY <2>9, <2>10, <2>12, <3>2, <3>6, NoneEmptyBefore
      <4>2. ~IsMode(b) /\ ~MayBecomeMode(b)
        BY <2>5, <4>1 DEF q
      <4>3. QED
        BY <3>3, <4>2 DEF b
    <3>7. QED
      BY <3>4, <3>5, <3>6
  <2>15. QED
    BY <2>13, <2>14
<1>8. QED
  BY <1>6, <1>7

\* Where a mode sequence with a 7 is.
LEMMA SevensIs ==
  ASSUME NEW s \in Text, NEW i
  PROVE  i \in Sevens(s) <=> i \in 1 .. Len(s) /\ s[i] = "E" /\ IsMode(From(s, i)) /\ HasSeven(From(s, i))
<1>1. DOMAIN s = 1 .. Len(s)
  BY EmptyText DEF Text
<1>2. QED
  BY <1>1 DEF Sevens, WholeModes

\* Up to n, each escape is known to begin a mode or none.
Decided(s, n) == \A i \in 1 .. n : s[i] = "E" => ~MayBecomeMode(From(s, i))
\* The mode at i sets autowrap, or takes it away.
Letter(s, i) == From(s, i)[ModeEnd(From(s, i))] = "h"
\* Autowrap is what the last mode with a 7 up to n says, or as it was before.
Latest(s, n, before, now) ==
  \/ now = before /\ \A i \in Sevens(s) : i > n
  \/ \E i \in Sevens(s) : i <= n /\ now = Letter(s, i) /\ \A j \in Sevens(s) : j <= n => j <= i

\* Where no such sequence is, the newest stays the newest.
LEMMA LatestSkip ==
  ASSUME NEW s \in Text, NEW n \in Nat, NEW m \in Nat, n <= m, NEW a, NEW b, Latest(s, n, a, b),
         \A i \in Sevens(s) : ~(n < i /\ i <= m)
  PROVE  Latest(s, m, a, b)
<1>1. \A i \in Sevens(s) : i \in Nat
  BY SevensIs, LengthOfText
<1>2. \A i \in Sevens(s) : i <= m <=> i <= n
  BY <1>1
<1>3. \A i \in Sevens(s) : i > m <=> i > n
  BY <1>1
<1>4. QED
  BY <1>2, <1>3 DEF Latest

\* One found is the newest.
LEMMA LatestFound ==
  ASSUME NEW s \in Text, NEW n \in Sevens(s), NEW m \in Nat, n <= m, NEW a,
         \A i \in Sevens(s) : ~(n < i /\ i <= m)
  PROVE  Latest(s, m, a, Letter(s, n))
<1>1. \A i \in Sevens(s) : i \in Nat
  BY SevensIs, LengthOfText
<1>2. \A i \in Sevens(s) : i <= m => i <= n
  BY <1>1
<1>3. QED
  BY <1>2 DEF Latest

Over(s, n) ==
  From(s, n) = <<>> \/ (Head(From(s, n)) = "E" /\ MayBecomeMode(From(s, n)))

Scanning(s, a) ==
  {at \in [autowrap : BOOLEAN, index : 1 .. Len(s) + 1] :
     Decided(s, at.index - 1) /\ Latest(s, at.index - 1, a, at.autowrap)}

\* A turn of the tracker's loop goes on to the next such place, unless it has ended.
LEMMA ScanTurnIs ==
  ASSUME NEW s \in Text, NEW a \in BOOLEAN, NEW at \in Scanning(s, a)
  PROVE  /\ ScanTurn(s, at) \in Scanning(s, a)
         /\ IF Over(s, at.index) THEN ScanTurn(s, at) = at ELSE ScanTurn(s, at).index > at.index
<1> DEFINE n == at.index
           b == at.autowrap
           k == n - 1
           ahead == From(s, n)
           to == ScanTurn(s, at)
<1>1. Len(s) \in Nat
  BY LengthOfText
<1>2. n \in 1 .. Len(s) + 1 /\ b \in BOOLEAN /\ Decided(s, k) /\ Latest(s, k, a, b)
      /\ at = [autowrap |-> b, index |-> n]
  BY DEF Scanning
<1>3. ahead \in Text /\ Len(ahead) = Len(s) - n + 1 /\ \A i \in 1 .. Len(s) - n + 1 : ahead[i] = s[n + i - 1]
  BY <1>2, FromText
<1>4. Over(s, n) <=> ahead = <<>> \/ (Head(ahead) = "E" /\ MayBecomeMode(ahead))
  BY DEF Over
<1>5. CASE Over(s, n)
  <2>1. to = at
    BY <1>4, <1>5 DEF ScanTurn
  <2>2. QED
    BY <1>5, <2>1
<1>6. ASSUME ~Over(s, n), NEW l \in Nat, NEW c \in BOOLEAN, l > n, l <= Len(s) + 1,
             to = [autowrap |-> c, index |-> l], Decided(s, l - 1), Latest(s, l - 1, a, c)
      PROVE  to \in Scanning(s, a) /\ to.index > n
  <2>1. to.index = l /\ to.autowrap = c /\ l \in 1 .. Len(s) + 1
    BY <1>1, <1>2, <1>6
  <2>2. to \in [autowrap : BOOLEAN, index : 1 .. Len(s) + 1]
    BY <1>6, <2>1
  <2>3. Decided(s, to.index - 1) /\ Latest(s, to.index - 1, a, to.autowrap)
    BY <1>6, <2>1
  <2> HIDE DEF to
  <2>4. QED
    BY <1>6, <2>1, <2>2, <2>3 DEF Scanning
<1>7. ASSUME ~Over(s, n)
      PROVE  /\ ahead # <<>> /\ Head(ahead) = s[n] /\ n \in 1 .. Len(s) /\ Len(ahead) >= 1 /\ ahead[1] = s[n]
             /\ s[n] = "E" => ~MayBecomeMode(ahead)
  <2>1. ahead # <<>>
    BY <1>4, <1>7
  <2> HIDE DEF ahead
  <2>2. Head(ahead) = ahead[1] /\ Len(ahead) >= 1
    BY <1>3, <2>1, HeadIs DEF Text
  <2>3. n \in 1 .. Len(s) /\ 1 \in 1 .. Len(s) - n + 1 /\ n + 1 - 1 = n
    BY <1>1, <1>2, <1>3, <2>2
  <2>4. ahead[1] = s[n]
    BY <1>3, <2>3
  <2>5. QED
    BY <1>4, <1>7, <2>1, <2>2, <2>3, <2>4
\* One symbol is passed.
<1>8. ASSUME ~Over(s, n), n \notin Sevens(s), to = [autowrap |-> b, index |-> n + 1]
      PROVE  to \in Scanning(s, a) /\ to.index > n
  <2> DEFINE l == n + 1
  <2>1. n \in 1 .. Len(s) /\ (s[n] = "E" => ~MayBecomeMode(ahead))
    BY <1>7, <1>8
  <2>2. l \in Nat /\ l > n /\ l <= Len(s) + 1 /\ l - 1 = n /\ k \in Nat /\ n \in Nat /\ k <= n
    BY <1>1, <2>1
  <2>3. Decided(s, n)
    <3>1. \A i \in 1 .. n : i \in 1 .. k \/ i = n
      BY <2>1
    <3>2. QED
      BY <1>2, <2>1, <3>1 DEF Decided
  <2>4. Latest(s, n, a, b)
    <3>1. \A i \in Sevens(s) : ~(k < i /\ i <= n)
      <4>1. \A i \in Sevens(s) : i \in Nat
        BY SevensIs, LengthOfText
      <4>2. \A i \in Nat : k < i /\ i <= n => i = n
        BY <2>1
      <4>3. QED
        BY <1>8, <4>1, <4>2
    <3> HIDE DEF k, n, b
    <3>2. QED
      BY <1>2, <2>2, <3>1, LatestSkip
  <2>5. to = [autowrap |-> b, index |-> l] /\ Decided(s, l - 1) /\ Latest(s, l - 1, a, b)
    BY <1>8, <2>2, <2>3, <2>4
  <2> HIDE DEF l, n, b, to
  <2>6. QED
    BY <1>2, <1>6, <1>8, <2>2, <2>5
<1>9. CASE ~Over(s, n) /\ Head(ahead) # "E"
  <2>1. n \notin Sevens(s)
    BY <1>7, <1>9, SevensIs
  <2>2. to = [autowrap |-> b, index |-> n + 1]
    BY <1>2, <1>4, <1>9 DEF ScanTurn
  <2>3. QED
    BY <1>8, <1>9, <2>1, <2>2
<1>10. CASE ~Over(s, n) /\ Head(ahead) = "E" /\ ~IsMode(ahead)
  <2>1. n \notin Sevens(s)
    BY <1>10, SevensIs
  <2>2. to = [autowrap |-> b, index |-> n + 1]
    BY <1>2, <1>4, <1>10 DEF ScanTurn
  <2>3. QED
    BY <1>8, <1>10, <2>1, <2>2
\* A whole mode is passed.
<1>11. CASE ~Over(s, n) /\ Head(ahead) = "E" /\ IsMode(ahead)
  <2> DEFINE e == ModeEnd(ahead)
             l == n + e
             c == IF HasSeven(ahead) THEN ahead[e] = "h" ELSE b
  <2>1. n \in 1 .. Len(s) /\ s[n] = "E" /\ ~MayBecomeMode(ahead)
    BY <1>7, <1>11
  <2>2. e \in 4 .. Len(ahead) /\ \A i \in 2 .. e : ahead[i] # "E"
    BY <1>3, <1>11, WholeMode
  <2>3. to = [autowrap |-> c, index |-> l]
    BY <1>2, <1>4, <1>11, <2>1 DEF ScanTurn
  <2>4. c \in BOOLEAN
    BY <1>2
  <2> HIDE DEF e
  <2>5. l \in Nat /\ l > n /\ l <= Len(s) + 1 /\ l - 1 \in Nat /\ n <= l - 1
    <3>1. n \in Nat /\ e \in Nat /\ 4 <= e /\ e <= Len(ahead) /\ Len(ahead) = Len(s) - n + 1 /\ n >= 1
      <4> HIDE DEF n, ahead
      <4>1. QED
        BY <1>1, <1>3, <2>1, <2>2
    <3> HIDE DEF n, ahead
    <3>2. QED
      BY <1>1, <3>1
  <2>6. ASSUME NEW i \in Nat, n < i, i <= l - 1 PROVE s[i] # "E"
    <3> DEFINE j == i - n + 1
    <3>1. j \in 2 .. e /\ j \in 1 .. Len(s) - n + 1 /\ n + j - 1 = i
      <4>1. n \in Nat /\ e \in Nat /\ l = n + e /\ l <= Len(s) + 1
        <5> HIDE DEF n
        <5>1. QED
          BY <1>1, <1>3, <2>1, <2>2, <2>5
      <4> HIDE DEF n, ahead, l
      <4>2. QED
        BY <1>1, <2>6, <4>1
    <3> HIDE DEF j, ahead
    <3>2. QED
      BY <1>3, <2>2, <3>1
  <2>7. Decided(s, l - 1)
    <3>1. \A i \in 1 .. l - 1 : i \in 1 .. k \/ i = n \/ (i \in Nat /\ n < i /\ i <= l - 1)
      BY <2>1, <2>5
    <3> HIDE DEF l
    <3>2. \A i \in 1 .. l - 1 : s[i] = "E" => ~MayBecomeMode(From(s, i))
      BY <1>2, <2>1, <2>6, <3>1 DEF Decided
    <3>3. QED
      BY <3>2 DEF Decided
  <2>8. \A i \in Sevens(s) : ~(n < i /\ i <= l - 1)
    <3>1. \A i \in Sevens(s) : i \in Nat /\ s[i] = "E"
      BY SevensIs, LengthOfText
    <3> HIDE DEF l
    <3>2. QED
      BY <2>6, <3>1
  <2>9. Latest(s, l - 1, a, c)
    <3> DEFINE m == l - 1
    <3>1. m \in Nat /\ n <= m /\ k \in Nat /\ n \in Nat /\ k <= m /\ \A i \in Sevens(s) : ~(n < i /\ i <= m)
      BY <2>1, <2>5, <2>8
    <3>2. CASE HasSeven(ahead)
      <4>1. n \in Sevens(s)
        BY <1>11, <2>1, <3>2, SevensIs
      <4>2. c = Letter(s, n)
        BY <3>2 DEF Letter, e
      <4> HIDE DEF m, c, n
      <4>3. Latest(s, m, a, Letter(s, n))
        BY <3>1, <4>1, LatestFound
      <4>4. QED
        BY <4>2, <4>3 DEF m
    <3>3. CASE ~HasSeven(ahead)
      <4>1. n \notin Sevens(s)
        BY <3>3, SevensIs
      <4>2. \A i \in Sevens(s) : ~(k < i /\ i <= m)
        <5>1. \A i \in Sevens(s) : i \in Nat
          BY SevensIs, LengthOfText
        <5>2. \A i \in Nat : k < i => i = n \/ n < i
          BY <2>1
        <5> HIDE DEF m, k, n
        <5>3. QED
          BY <3>1, <4>1, <5>1, <5>2
      <4>3. c = b
        BY <3>3
      <4> HIDE DEF m, c, k, b, n
      <4>4. Latest(s, m, a, b)
        BY <1>2, <3>1, <4>2, LatestSkip
      <4>5. QED
        BY <4>3, <4>4 DEF m
    <3>4. QED
      BY <3>2, <3>3
  <2> HIDE DEF l, c, to, n
  <2>10. to \in Scanning(s, a) /\ to.index > n
    BY <1>6, <1>11, <2>3, <2>4, <2>5, <2>7, <2>9
  <2>11. QED
    BY <1>11, <2>10 DEF n, to
<1>12. QED
  BY <1>5, <1>9, <1>10, <1>11

\* The whole loop ends at the end, or at what may become a mode.
LEMMA ScannedIs ==
  ASSUME NEW s \in Text, NEW a \in BOOLEAN
  PROVE  \E n \in 1 .. Len(s) + 1 :
           /\ Scanned(a, s).tail = From(s, n) /\ Over(s, n) /\ Scanned(a, s).autowrap \in BOOLEAN
           /\ Decided(s, n - 1) /\ Latest(s, n - 1, a, Scanned(a, s).autowrap)
<1> DEFINE N == Len(s)
           x0 == [autowrap |-> a, index |-> 1]
           Loops(f) == f = [k \in 0 .. N |-> IF k = 0 THEN x0 ELSE ScanTurn(s, f[k - 1])]
           turn == CHOOSE f : Loops(f)
           X == Scanning(s, a)
           step == [x \in X |-> ScanTurn(s, x)]
<1>1. N \in Nat
  BY LengthOfText
<1>2. x0 \in X
  <2>1. Decided(s, 1 - 1)
    BY DEF Decided
  <2>2. \A i \in Sevens(s) : i > 1 - 1
    BY <1>1, SevensIs
  <2>3. Latest(s, 1 - 1, a, a)
    BY <2>2 DEF Latest
  <2>4. x0 \in [autowrap : BOOLEAN, index : 1 .. Len(s) + 1] /\ x0.index = 1 /\ x0.autowrap = a
    BY <1>1
  <2> HIDE DEF x0
  <2>5. QED
    BY <2>1, <2>3, <2>4 DEF Scanning
<1>3. step \in [X -> X]
  BY ScanTurnIs
<1>4. Scanned(a, s) = [autowrap |-> turn[N].autowrap, tail |-> From(s, turn[N].index)]
  BY DEF Scanned
<1>5. Loops(turn)
  <2>1. \A x \in X : step[x] = ScanTurn(s, x)
    OBVIOUS
  <2> HIDE DEF N, x0, X, step
  <2>2. PICK f \in [0 .. N -> X] : f = [k \in 0 .. N |-> IF k = 0 THEN x0 ELSE step[f[k - 1]]]
    <3>1. step \in [X -> X]
      BY <1>3 DEF step, X
    <3>2. PICK g : Turned(X, x0, N, step, g)
      BY <1>1, <1>2, <3>1, Turns
    <3>3. QED
      BY <3>2 DEF Turned
  <2>3. ASSUME NEW k \in 0 .. N, k # 0 PROVE step[f[k - 1]] = ScanTurn(s, f[k - 1])
    <3>1. k - 1 \in 0 .. N
      BY <1>1, <2>3
    <3>2. f[k - 1] \in X
      BY <3>1
    <3>3. QED
      BY <2>1, <3>2
  <2>4. Loops(f)
    <3>1. [k \in 0 .. N |-> IF k = 0 THEN x0 ELSE step[f[k - 1]]]
            = [k \in 0 .. N |-> IF k = 0 THEN x0 ELSE ScanTurn(s, f[k - 1])]
      BY <2>3
    <3>2. QED
      BY <2>2, <3>1
  <2> HIDE DEF Loops
  <2>5. QED
    BY <2>4
<1> HIDE DEF x0, turn, X, N
<1>6. /\ turn[0] = x0
      /\ \A k \in 0 .. N : k # 0 => turn[k] = ScanTurn(s, turn[k - 1])
  <2>1. turn = [k \in 0 .. N |-> IF k = 0 THEN x0 ELSE ScanTurn(s, turn[k - 1])]
    BY <1>5
  <2>2. 0 \in 0 .. N
    BY <1>1
  <2>3. QED
    BY <2>1, <2>2
<1> HIDE DEF Loops
<1> DEFINE S == {k \in 0 .. N : turn[k] \in X /\ (Over(s, turn[k].index) \/ turn[k].index > k)}
<1>7. 0 \in S
  BY <1>1, <1>2, <1>6 DEF x0
<1>8. ASSUME NEW k \in 0 .. N - 1, k \in S PROVE k + 1 \in S
  <2>1. k + 1 \in 0 .. N /\ k + 1 # 0 /\ (k + 1) - 1 = k
    BY <1>1
  <2>2. turn[k + 1] = ScanTurn(s, turn[k])
    BY <1>6, <2>1
  <2>3. turn[k] \in Scanning(s, a) /\ (Over(s, turn[k].index) \/ turn[k].index > k)
    BY <1>8 DEF X
  <2> DEFINE at == turn[k]
             to == turn[k + 1]
  <2>4. at \in Scanning(s, a) /\ to = ScanTurn(s, at) /\ (Over(s, at.index) \/ at.index > k)
    BY <2>2, <2>3
  <2> HIDE DEF at, to
  <2>5. to \in Scanning(s, a) /\ IF Over(s, at.index) THEN to = at ELSE to.index > at.index
    BY <2>4, ScanTurnIs
  <2>6. at.index \in Nat /\ to.index \in Nat
    BY <1>1, <2>4, <2>5 DEF Scanning, N
  <2>7. Over(s, to.index) \/ to.index > k + 1
    BY <2>4, <2>5, <2>6
  <2>8. QED
    BY <2>1, <2>5, <2>7 DEF to, X
<1> DEFINE last == turn[N]
<1>9. last \in Scanning(s, a) /\ (Over(s, last.index) \/ last.index > N)
  <2>1. \A k \in 0 .. N : k \in S
    <3> HIDE DEF S
    <3>1. QED
      BY <1>1, <1>7, <1>8, UpTo
  <2>2. N \in 0 .. N
    BY <1>1
  <2>3. QED
    BY <2>1, <2>2 DEF X
<1>10. Scanned(a, s).autowrap = last.autowrap /\ Scanned(a, s).tail = From(s, last.index)
  BY <1>4
<1> HIDE DEF last, S
<1> DEFINE n == last.index
<1>11. /\ n \in 1 .. Len(s) + 1 /\ last.autowrap \in BOOLEAN
       /\ Decided(s, n - 1) /\ Latest(s, n - 1, a, last.autowrap)
  BY <1>9 DEF Scanning
<1>12. Over(s, n)
  <2>1. CASE n > N
    <3>0. Len(s) - n + 1 = 0
      BY <1>1, <1>11, <2>1 DEF N
    <3>1. From(s, n) \in Text /\ Len(From(s, n)) = Len(s) - n + 1
      BY <1>11, FromText
    <3>2. From(s, n) = <<>>
      BY <3>0, <3>1, LengthOfText
    <3>3. QED
      BY <3>2 DEF Over
  <2>2. QED
    BY <1>9, <2>1
<1>13. QED
  BY <1>10, <1>11, <1>12

\* What is decided stays so, whatever follows,
LEMMA DecidedStays ==
  ASSUME NEW s \in Text, NEW x \in Text, NEW n \in 0 .. Len(s), Decided(s, n)
  PROVE  /\ Decided(s \o x, n)
         /\ \A i \in 1 .. n : (i \in Sevens(s \o x) <=> i \in Sevens(s))
                              /\ (i \in Sevens(s) => Letter(s \o x, i) = Letter(s, i))
<1> DEFINE t == s \o x
<1>1. /\ Len(s) \in Nat /\ Len(x) \in Nat /\ t \in Text /\ Len(t) = Len(s) + Len(x)
      /\ \A k \in 1 .. Len(s) : t[k] = s[k]
  BY LengthOfText, TextJoined
<1> SUFFICES ASSUME NEW i \in 1 .. n
             PROVE  /\ t[i] = "E" => ~MayBecomeMode(From(t, i))
                    /\ i \in Sevens(t) <=> i \in Sevens(s)
                    /\ i \in Sevens(s) => Letter(t, i) = Letter(s, i)
  BY DEF Decided
<1> DEFINE a == From(s, i)
           b == From(t, i)
<1>2. i \in 1 .. Len(s) /\ i \in 1 .. Len(t) /\ i \in 1 .. Len(s) + 1 /\ t[i] = s[i]
  BY <1>1
<1>3. a \in Text /\ a # <<>> /\ a[1] = s[i]
  <2>1. a \in Text /\ Len(a) = Len(s) - i + 1 /\ \A k \in 1 .. Len(s) - i + 1 : a[k] = s[i + k - 1]
    BY <1>2, FromText
  <2>2. 1 \in 1 .. Len(s) - i + 1 /\ i + 1 - 1 = i /\ Len(s) - i + 1 # 0
    BY <1>1, <1>2
  <2> HIDE DEF a
  <2>3. QED
    BY <2>1, <2>2, LengthOfText
<1>4. b = a \o x
  BY <1>2, FromConcat DEF Text
<1>5. CASE s[i] # "E"
  <2>1. i \notin Sevens(s) /\ i \notin Sevens(t)
    BY <1>1, <1>2, <1>5, SevensIs
  <2>2. QED
    BY <1>2, <1>5, <2>1
<1>6. CASE s[i] = "E"
  <2>1. ~MayBecomeMode(a)
    BY <1>6 DEF Decided
  <2>2. /\ i \in Sevens(s) <=> IsMode(a) /\ HasSeven(a)
        /\ i \in Sevens(t) <=> IsMode(b) /\ HasSeven(b)
    BY <1>1, <1>2, <1>6, SevensIs
  <2>3. Letter(s, i) = (a[ModeEnd(a)] = "h") /\ Letter(t, i) = (b[ModeEnd(b)] = "h")
    BY DEF Letter
  <2> HIDE DEF a, b, t
  <2>4. /\ ~MayBecomeMode(b) /\ (IsMode(b) <=> IsMode(a))
        /\ IsMode(a) => /\ ModeEnd(b) = ModeEnd(a) /\ Body(b) = Body(a)
                        /\ b[ModeEnd(a)] = a[ModeEnd(a)]
    BY <1>3, <1>4, <1>6, <2>1, ModeStays
  <2>5. IsMode(a) => (HasSeven(b) <=> HasSeven(a))
    BY <2>4 DEF HasSeven
  <2>6. IsMode(a) => Letter(t, i) = Letter(s, i)
    BY <2>3, <2>4
  <2>7. QED
    BY <2>2, <2>4, <2>5, <2>6 DEF b
<1>7. QED
  BY <1>5, <1>6

\* and the newest stays the newest.
LEMMA LatestStays ==
  ASSUME NEW s \in Text, NEW x \in Text, NEW n \in 0 .. Len(s), Decided(s, n), NEW a, NEW b, Latest(s, n, a, b)
  PROVE  Latest(s \o x, n, a, b)
<1> DEFINE t == s \o x
<1>1. Len(s) \in Nat /\ t \in Text
  BY LengthOfText, TextConcat
<1>2. \A i \in 1 .. n : (i \in Sevens(t) <=> i \in Sevens(s)) /\ (i \in Sevens(s) => Letter(t, i) = Letter(s, i))
  BY DecidedStays
<1> HIDE DEF t
<1>3. (\A i \in Sevens(s) : i \in Nat /\ i >= 1) /\ (\A i \in Sevens(t) : i \in Nat /\ i >= 1)
  <2>1. Len(t) \in Nat
    BY <1>1, LengthOfText
  <2>2. QED
    BY <1>1, <2>1, SevensIs
<1>4. \A i \in Nat : i >= 1 /\ i <= n => i \in 1 .. n
  OBVIOUS
<1>5. \A i \in Nat : ~(i > n) => i <= n
  OBVIOUS
<1>6. CASE b = a /\ \A i \in Sevens(s) : i > n
  <2>1. \A i \in Sevens(t) : i > n
    <3>1. SUFFICES ASSUME NEW i \in Sevens(t), ~(i > n) PROVE FALSE
      OBVIOUS
    <3>2. i \in 1 .. n
      BY <1>3, <1>4, <1>5, <3>1
    <3>3. i \in Sevens(s)
      BY <1>2, <3>2
    <3>4. QED
      BY <1>6, <3>1, <3>3
  <2>2. Latest(t, n, a, b)
    BY <1>6, <2>1 DEF Latest
  <2>3. QED
    BY <2>2 DEF t
<1>7. ASSUME NEW i \in Sevens(s), i <= n, b = Letter(s, i), \A j \in Sevens(s) : j <= n => j <= i
      PROVE  Latest(s \o x, n, a, b)
  <2>1. i \in 1 .. n
    BY <1>3, <1>4, <1>7
  <2>2. i \in Sevens(t) /\ b = Letter(t, i)
    BY <1>2, <1>7, <2>1
  <2>3. ASSUME NEW j \in Sevens(t), j <= n PROVE j <= i
    <3>1. j \in 1 .. n
      BY <1>3, <1>4, <2>3
    <3>2. j \in Sevens(s)
      BY <1>2, <3>1
    <3>3. QED
      BY <1>7, <2>3, <3>2
  <2>4. Latest(t, n, a, b)
    BY <1>7, <2>2, <2>3 DEF Latest
  <2>5. QED
    BY <2>4 DEF t
<1>8. QED
  BY <1>6, <1>7 DEF Latest

\* What is known of the rest is known of the whole.
LEMMA SevensShift ==
  ASSUME NEW s \in Text, NEW n \in 1 .. Len(s) + 1, NEW k \in 1 .. Len(s) - n + 1
  PROVE  /\ From(s, n)[k] = s[n + k - 1] /\ From(From(s, n), k) = From(s, n + k - 1)
         /\ k \in Sevens(From(s, n)) <=> n + k - 1 \in Sevens(s)
         /\ Letter(From(s, n), k) = Letter(s, n + k - 1)
<1> DEFINE u == From(s, n)
           i == n + k - 1
<1>1. Len(s) \in Nat
  BY LengthOfText
<1>2. u \in Text /\ Len(u) = Len(s) - n + 1 /\ \A j \in 1 .. Len(s) - n + 1 : u[j] = s[n + j - 1]
  BY FromText
<1>3. u[k] = s[i]
  BY <1>2
<1>4. k \in 1 .. Len(s) - n + 2 /\ k \in 1 .. Len(u) /\ i \in 1 .. Len(s)
  BY <1>1, <1>2
<1>5. From(u, k) = From(s, i)
  BY <1>4, FromFrom
<1> HIDE DEF u, i
<1>6. k \in Sevens(u) <=> i \in Sevens(s)
  BY <1>2, <1>3, <1>4, <1>5, SevensIs
<1>7. Letter(u, k) = Letter(s, i)
  BY <1>5 DEF Letter
<1>8. QED
  BY <1>3, <1>5, <1>6, <1>7 DEF u, i

\* The newest of the rest is the newest of all, and else the one before.
LEMMA LatestShift ==
  ASSUME NEW s \in Text, NEW n \in 1 .. Len(s) + 1, NEW k \in 0 .. Len(s) - n + 1, NEW a, NEW b, NEW c,
         Latest(s, n - 1, a, b), Latest(From(s, n), k, b, c)
  PROVE  Latest(s, n - 1 + k, a, c)
<1> DEFINE u == From(s, n)
           m == n - 1
           l == m + k
<1>1. Len(s) \in Nat /\ u \in Text /\ Len(u) = Len(s) - n + 1
  BY LengthOfText, FromText
<1>2. m \in Nat /\ n = m + 1 /\ l \in Nat /\ k \in Nat /\ l = m + k
  BY <1>1
<1>3. ASSUME NEW i \in 1 .. Len(u) PROVE (i \in Sevens(u) <=> m + i \in Sevens(s)) /\ Letter(u, i) = Letter(s, m + i)
  <2>1. i \in 1 .. Len(s) - n + 1 /\ n + i - 1 = m + i
    BY <1>1
  <2>2. /\ i \in Sevens(From(s, n)) <=> n + i - 1 \in Sevens(s)
        /\ Letter(From(s, n), i) = Letter(s, n + i - 1)
    BY <2>1, SevensShift
  <2>3. QED
    BY <2>1, <2>2
<1>4. Latest(s, m, a, b) /\ Latest(u, k, b, c)
  OBVIOUS
<1>5. Len(u) = Len(s) - m
  BY <1>1, <1>2
<1> HIDE DEF u, l, m
<1>6. (\A i \in Sevens(u) : i \in 1 .. Len(u)) /\ (\A i \in Sevens(s) : i \in 1 .. Len(s))
  BY <1>1, SevensIs
<1>7. ASSUME NEW i \in Sevens(s), i > m PROVE i - m \in 1 .. Len(u) /\ i - m \in Sevens(u) /\ m + (i - m) = i /\ i \in Nat
  <2>1. i - m \in 1 .. Len(u) /\ m + (i - m) = i /\ i \in Nat
    BY <1>1, <1>2, <1>5, <1>6, <1>7
  <2> DEFINE j == i - m
  <2>2. j \in 1 .. Len(u) /\ m + j = i
    BY <2>1
  <2> HIDE DEF j
  <2>3. j \in Sevens(u)
    BY <1>3, <1>7, <2>2
  <2>4. QED
    BY <2>1, <2>3 DEF j
<1>8. CASE c = b /\ \A i \in Sevens(u) : i > k
  <2>1. ASSUME NEW i \in Sevens(s) PROVE ~(m < i /\ i <= l)
    <3>1. SUFFICES ASSUME i > m, i <= l PROVE FALSE
      BY <1>1, <1>2, <1>6
    <3>2. i - m \in Sevens(u) /\ i \in Nat
      BY <1>7, <3>1
    <3>3. i - m > k
      BY <1>8, <3>2
    <3>4. QED
      BY <1>2, <3>1, <3>2, <3>3
  <2>2. m <= l
    BY <1>2
  <2>3. Latest(s, l, a, b)
    BY <1>2, <1>4, <2>1, <2>2, LatestSkip
  <2>4. QED
    BY <1>8, <2>3 DEF l, m
<1>9. ASSUME NEW i \in Sevens(u), i <= k, c = Letter(u, i), \A j \in Sevens(u) : j <= k => j <= i
      PROVE  Latest(s, l, a, c)
  <2> DEFINE h == m + i
  <2>1. h \in Sevens(s) /\ c = Letter(s, h) /\ i \in Nat /\ i >= 1
    BY <1>1, <1>2, <1>3, <1>5, <1>6, <1>9
  <2>2. h <= l /\ h \in Nat /\ l \in Nat
    BY <1>2, <1>9, <2>1
  <2>3. ASSUME NEW j \in Sevens(s), h < j, j <= l PROVE FALSE
    <3>1. j > m /\ j \in Nat
      BY <1>1, <1>2, <1>6, <2>1, <2>3
    <3>2. j - m \in Sevens(u)
      BY <1>7, <3>1
    <3>3. j - m <= k
      BY <1>2, <2>3, <3>1
    <3>4. j - m <= i
      BY <1>9, <3>2, <3>3
    <3>5. QED
      BY <1>2, <2>1, <2>3, <3>1, <3>4
  <2> HIDE DEF h
  <2>4. \A j \in Sevens(s) : ~(h < j /\ j <= l)
    BY <2>3
  <2>5. Latest(s, l, a, Letter(s, h))
    BY <2>1, <2>2, <2>4, LatestFound
  <2>6. QED
    BY <2>1, <2>5
<1>10. Latest(s, l, a, c)
  <2>1. CASE c = b /\ \A i \in Sevens(u) : i > k
    BY <1>8, <2>1 DEF l, m
  <2>2. QED
    BY <1>4, <1>9, <2>1 DEF Latest
<1>11. QED
  BY <1>10 DEF l, m

\* The tracker between two chunks.
Tracked(s, m) ==
  \E n \in 1 .. Len(s) + 1 :
    /\ m.tail = From(s, n) /\ Over(s, n) /\ Decided(s, n - 1)
    /\ m.autowrap \in BOOLEAN /\ Latest(s, n - 1, TRUE, m.autowrap)

\* A scan keeps the tracker where one over all of the text would be.
LEMMA TrackedNext ==
  ASSUME NEW s \in Text, NEW x \in Text, NEW m, Tracked(s, m)
  PROVE  Tracked(s \o x, Scanned(m.autowrap, m.tail \o x))
<1> DEFINE t == s \o x
           u == m.tail \o x
           a == m.autowrap
           r == Scanned(a, u)
<1>1. PICK n \in 1 .. Len(s) + 1 :
        /\ m.tail = From(s, n) /\ Over(s, n) /\ Decided(s, n - 1)
        /\ a \in BOOLEAN /\ Latest(s, n - 1, TRUE, a)
  BY DEF Tracked
<1>2. /\ Len(s) \in Nat /\ Len(x) \in Nat /\ t \in Text /\ Len(t) = Len(s) + Len(x)
  BY LengthOfText, TextJoined
<1>3. u = From(t, n)
  BY <1>1, FromConcat DEF Text
<1> DEFINE k == n - 1
<1>4. n \in 1 .. Len(t) + 1 /\ k \in 0 .. Len(s) /\ k \in 0 .. Len(t)
  BY <1>2
<1>5. Decided(t, k) /\ Latest(t, k, TRUE, a)
  <2>1. Decided(s, k) /\ Latest(s, k, TRUE, a)
    BY <1>1
  <2> HIDE DEF k
  <2>2. QED
    BY <1>4, <2>1, DecidedStays, LatestStays
<1> HIDE DEF t, u, a, r
<1>6. u \in Text /\ Len(u) = Len(t) - n + 1
  BY <1>2, <1>3, <1>4, FromText
<1>7. PICK j \in 1 .. Len(u) + 1 :
        /\ r.tail = From(u, j) /\ Over(u, j) /\ r.autowrap \in BOOLEAN
        /\ Decided(u, j - 1) /\ Latest(u, j - 1, a, r.autowrap)
  BY <1>1, <1>6, ScannedIs DEF r
<1> DEFINE l == n + j - 1
           h == j - 1
<1>8. l \in 1 .. Len(t) + 1 /\ j \in 1 .. Len(t) - n + 2 /\ h \in 0 .. Len(t) - n + 1 /\ l - 1 = n - 1 + h
      /\ l = n + j - 1
  BY <1>2, <1>4, <1>6, <1>7
<1>9. From(u, j) = From(t, l)
  BY <1>2, <1>3, <1>4, <1>8, FromFrom
<1>10. r.tail = From(t, l) /\ Over(t, l)
  <2> HIDE DEF l
  <2>1. QED
    BY <1>7, <1>9 DEF Over
<1>11. Latest(t, l - 1, TRUE, r.autowrap)
  <2>1. Latest(t, n - 1, TRUE, a)
    BY <1>5
  <2>2. Latest(From(t, n), h, a, r.autowrap)
    BY <1>3, <1>7
  <2> HIDE DEF h, l, k
  <2>3. Latest(t, n - 1 + h, TRUE, r.autowrap)
    BY <1>2, <1>4, <1>8, <2>1, <2>2, LatestShift
  <2>4. QED
    BY <1>8, <2>3
<1>12. ASSUME NEW i \in 1 .. l - 1, t[i] = "E" PROVE ~MayBecomeMode(From(t, i))
  <2>1. CASE i <= k
    <3>1. i \in 1 .. k
      BY <1>4, <2>1
    <3>2. QED
      BY <1>5, <1>12, <3>1 DEF Decided
  <2>2. CASE ~(i <= k)
    <3> DEFINE g == i - n + 1
    <3>1. g \in 1 .. j - 1 /\ g \in 1 .. Len(t) - n + 1 /\ n + g - 1 = i
      BY <1>2, <1>4, <1>6, <1>7, <1>8, <2>2
    <3> HIDE DEF g, l, h, k
    <3>2. u[g] = t[n + g - 1] /\ From(u, g) = From(t, n + g - 1)
      BY <1>2, <1>3, <1>4, <3>1, SevensShift
    <3>3. u[g] = "E" /\ From(u, g) = From(t, i)
      BY <1>12, <3>1, <3>2
    <3>4. QED
      BY <1>7, <3>1, <3>3 DEF Decided
  <2>3. QED
    BY <2>1, <2>2
<1>13. Decided(t, l - 1)
  <2> HIDE DEF l
  <2>1. QED
    BY <1>12 DEF Decided
<1> HIDE DEF l
<1>14. Tracked(t, r)
  BY <1>7, <1>8, <1>10, <1>11, <1>13 DEF Tracked
<1>15. QED
  BY <1>14 DEF t, r, u, a

\* What is promised of the tracker.
LEMMA TrackedPromise ==
  ASSUME NEW s \in Text, NEW m, Tracked(s, m)
  PROVE  /\ m.tail \in Text /\ m.autowrap \in BOOLEAN /\ Len(m.tail) < MaxSequence
         /\ m.autowrap <=> Sevens(s) = {} \/ Letter(s, Greatest(Sevens(s)))
<1>1. PICK n \in 1 .. Len(s) + 1 :
        /\ m.tail = From(s, n) /\ Over(s, n) /\ Decided(s, n - 1)
        /\ m.autowrap \in BOOLEAN /\ Latest(s, n - 1, TRUE, m.autowrap)
  BY DEF Tracked
<1> DEFINE u == From(s, n)
<1>2. Len(s) \in Nat /\ u \in Text /\ Len(u) = Len(s) - n + 1 /\ \A k \in 1 .. Len(s) - n + 1 : u[k] = s[n + k - 1]
  BY LengthOfText, FromText
<1>3. u = <<>> \/ MayBecomeMode(u)
  BY <1>1 DEF Over
<1>4. MaxSequence \in Nat /\ MaxSequence > 2
  BY PipelineAssumption
<1>5. Len(u) < MaxSequence
  <2>1. CASE u = <<>>
    <3>1. Len(u) = 0
      BY <1>2, <2>1, LengthOfText
    <3>2. QED
      BY <1>4, <3>1
  <2>2. CASE MayBecomeMode(u)
    <3> HIDE DEF u
    <3>1. QED
      BY <1>2, <2>2, WaitingMode
  <2>3. QED
    BY <1>3, <2>1, <2>2
<1>6. \A i \in Sevens(s) : i \in 1 .. Len(s)
  BY SevensIs
<1>7. ASSUME NEW i \in Sevens(s), i > n - 1 PROVE FALSE
  <2>1. i \in 1 .. Len(s) /\ s[i] = "E" /\ IsMode(From(s, i))
    BY SevensIs
  <2> DEFINE k == i - n + 1
  <2>2. k \in 1 .. Len(s) - n + 1 /\ n + k - 1 = i /\ k \in 1 .. Len(u)
    BY <1>2, <1>7, <2>1
  <2>3. u # <<>>
    <3>1. Len(u) # 0
      BY <1>2, <2>2
    <3> HIDE DEF u
    <3>2. QED
      BY <1>2, <3>1, LengthOfText
  <2>4. MayBecomeMode(u)
    BY <1>3, <2>3
  <2>5. ~IsMode(u) /\ \A j \in 2 .. Len(u) : u[j] # "E"
    <3> HIDE DEF u
    <3>1. QED
      BY <1>2, <2>4, WaitingMode
  <2>6. CASE i = n
    BY <2>1, <2>5, <2>6
  <2>7. CASE i # n
    <3>1. k \in 2 .. Len(u)
      BY <1>2, <2>2, <2>7
    <3> HIDE DEF k, u
    <3>2. u[k] = s[i]
      BY <1>2, <2>2
    <3>3. QED
      BY <2>1, <2>5, <3>1, <3>2
  <2>8. QED
    BY <2>6, <2>7
<1>8. m.autowrap <=> Sevens(s) = {} \/ Letter(s, Greatest(Sevens(s)))
  <2>1. CASE m.autowrap = TRUE /\ \A i \in Sevens(s) : i > n - 1
    <3>1. Sevens(s) = {}
      BY <1>7, <2>1
    <3>2. QED
      BY <2>1, <3>1
  <2>2. ASSUME NEW i \in Sevens(s), i <= n - 1, m.autowrap = Letter(s, i),
               \A j \in Sevens(s) : j <= n - 1 => j <= i
        PROVE  m.autowrap <=> Sevens(s) = {} \/ Letter(s, Greatest(Sevens(s)))
    <3>1. \A j \in Sevens(s) : j <= i
      <4>1. \A j \in Sevens(s) : j > n - 1 \/ j <= n - 1
        BY <1>2, <1>6
      <4>2. QED
        BY <1>7, <2>2, <4>1
    <3>2. Sevens(s) \subseteq Int
      BY <1>2, <1>6
    <3>3. Greatest(Sevens(s)) = i
      BY <3>1, <3>2, GreatestIs
    <3>4. QED
      BY <2>2, <3>3
  <2>3. QED
    BY <1>1, <2>1, <2>2 DEF Latest
<1>9. QED
  BY <1>1, <1>2, <1>5, <1>8
-----------------------------------------------------------------------------
(* The specification.                                                        *)

\* What has been read.
Bytes == SubSeq(script, 1, taken)

TypeOK ==
  /\ script \in Text /\ taken \in 0 .. Len(script)
  /\ undecoded \in Text /\ text \in Text /\ visible \in Text /\ seq \in Nat
  /\ marker \in [pending : Text, completed : BOOLEAN]
  /\ output \in [chars : Nat, segments : Seq(Text)]
  /\ chunks \in [chars : Nat, entries : Entries]
  /\ modes \in [autowrap : BOOLEAN, tail : Text]

\* Each stage is where one pass over the whole of its input would have it.
IInv ==
  /\ TypeOK
  /\ Settled(Bytes, text, undecoded)
  /\ Stripper(text, marker, visible)
  /\ Windowed(output, visible)
  /\ Chunked(chunks, text, seq)
  /\ Tracked(visible, modes)

\* What has been read is a text.
LEMMA BytesType == TypeOK => Bytes \in Text
<1>1. SUFFICES ASSUME TypeOK PROVE SubSeq(script, 1, taken) \in Text
  BY DEF Bytes
<1>2. script \in Seq(Symbol) /\ taken \in Int /\ 1 <= taken + 1 /\ taken <= Len(script)
  BY <1>1 DEF TypeOK, Text
<1> DEFINE one == 1
<1>3. one \in Int /\ 1 <= one /\ one <= taken + 1
  BY <1>2
<1> HIDE DEF one
<1>4. SubSeq(script, one, taken) \in Seq(Symbol)
  BY <1>2, <1>3, Slice
<1>5. QED
  BY <1>4 DEF one, Text

\* The memories of the stages, each in its own record.
LEMMA PushTypes ==
  ASSUME NEW w \in [chars : Nat, segments : Seq(Text)], NEW all, NEW chunk, Windowed(TextPush(w, chunk), all)
  PROVE  TextPush(w, chunk) \in [chars : Nat, segments : Seq(Text)]
<1> DEFINE p == TextPush(w, chunk)
<1>1. p = w \/ p = [chars |-> p.chars, segments |-> p.segments]
  BY DEF TextPush
<1> HIDE DEF p
<1>2. p.segments \in Seq(Text) /\ p.chars = Len(FlattenSeq(p.segments))
  BY DEF Windowed, Chars, p
<1>3. FlattenSeq(p.segments) \in Text
  <2> DEFINE s == p.segments
  <2>1. s \in Seq(Seq(Symbol))
    BY <1>2 DEF Text
  <2> HIDE DEF s
  <2>2. FlattenSeq(s) \in Seq(Symbol)
    BY <2>1, FlattenType
  <2>3. QED
    BY <2>2 DEF s, Text
<1>4. p.chars \in Nat
  BY <1>2, <1>3, LengthOfText
<1>5. p \in [chars : Nat, segments : Seq(Text)]
  BY <1>1, <1>2, <1>4
<1>6. QED
  BY <1>5 DEF p

\* For the window of chunks,
LEMMA ChunkTypes ==
  ASSUME NEW w, NEW n, NEW chunk, NEW all, NEW m, Chunked(ChunkPush(w, n, chunk), all, m)
  PROVE  ChunkPush(w, n, chunk) \in [chars : Nat, entries : Entries]
<1> DEFINE p == ChunkPush(w, n, chunk)
<1>1. p = [chars |-> p.chars, entries |-> p.entries]
  BY DEF ChunkPush
<1> HIDE DEF p
<1>2. p.entries \in Entries /\ p.chars = Len(FlattenSeq(Texts(p.entries)))
  BY DEF Chunked, Chars, p
<1>3. FlattenSeq(Texts(p.entries)) \in Text
  <2> DEFINE s == Texts(p.entries)
  <2>1. s \in Seq(Seq(Symbol))
    BY <1>2, TextsIs DEF Text
  <2> HIDE DEF s
  <2>2. FlattenSeq(s) \in Seq(Symbol)
    BY <2>1, FlattenType
  <2>3. QED
    BY <2>2 DEF s, Text
<1>4. p.chars \in Nat
  BY <1>2, <1>3, LengthOfText
<1>5. p \in [chars : Nat, entries : Entries]
  BY <1>1, <1>2, <1>4
<1>6. QED
  BY <1>5 DEF p

\* and for the mode tracker.
LEMMA ScannedTypes ==
  ASSUME NEW a, NEW s, NEW v \in Text, Tracked(v, Scanned(a, s))
  PROVE  Scanned(a, s) \in [autowrap : BOOLEAN, tail : Text]
<1> DEFINE p == Scanned(a, s)
<1>1. p = [autowrap |-> p.autowrap, tail |-> p.tail]
  BY DEF Scanned
<1> HIDE DEF p
<1>2. p.tail \in Text /\ p.autowrap \in BOOLEAN
  BY TrackedPromise DEF p
<1>3. p \in [autowrap : BOOLEAN, tail : Text]
  BY <1>1, <1>2
<1>4. QED
  BY <1>3 DEF p

\* Before anything was read there is nothing.
LEMMA Nothing ==
  /\ <<>> \in Text /\ Len(<<>>) = 0 /\ <<>> \o <<>> = <<>>
  /\ <<>> \in Seq(Text) /\ <<>> \in Entries /\ Texts(<<>>) = <<>>
  /\ Starts(<<>>) = {} /\ Sevens(<<>>) = {} /\ From(<<>>, 1) = <<>>
<1>1. <<>> \in Text /\ Len(<<>>) = 0 /\ <<>> \in Seq(Text) /\ <<>> \in Entries
  BY EmptySeq DEF Text, Entries
<1>2. <<>> \o <<>> = <<>>
  BY <1>1, ConcatEmptySeq
<1>3. Texts(<<>>) = <<>>
  BY DEF Texts
<1>4. DOMAIN <<>> = {}
  OBVIOUS
<1>5. Starts(<<>>) = {} /\ Sevens(<<>>) = {}
  BY <1>4 DEF Starts, Sevens, WholeModes
<1>6. SubSeq(<<>>, 1, 0) = <<>>
  BY SubSeqEmpty
<1>7. QED
  BY <1>1, <1>2, <1>3, <1>5, <1>6 DEF From

\* The invariant holds at first.
LEMMA InitIInv == Init => IInv
<1> SUFFICES ASSUME Init PROVE IInv
  OBVIOUS
<1> USE Nothing
<1>1. /\ script \in Scripts /\ taken = 0 /\ undecoded = <<>> /\ text = <<>> /\ visible = <<>> /\ seq = 0
      /\ marker = [pending |-> <<>>, completed |-> FALSE]
      /\ output = [chars |-> 0, segments |-> <<>>] /\ chunks = [chars |-> 0, entries |-> <<>>]
      /\ modes = [autowrap |-> TRUE, tail |-> <<>>]
  BY DEF Init
<1>2. TypeOK
  <2>1. script \in Seq(STRING)
    BY <1>1, PipelineAssumption
  <2>2. script \in Text
    BY <2>1 DEF Text, Symbol
  <2>3. Len(script) \in Nat
    BY <2>2, LengthOfText
  <2>4. QED
    BY <1>1, <2>2, <2>3 DEF TypeOK
<1>3. Settled(Bytes, text, undecoded)
  <2>1. Bytes = <<>>
    BY <1>1, SubSeqEmpty DEF Bytes
  <2>2. Ended(<<>>, 1)
    BY DEF Ended
  <2>3. Out(<<>>, 1 - 1) = <<>>
    BY OutZero
  <2>4. 1 \in 1 .. Len(<<>>) + 1 /\ 1 .. 1 - 1 = {}
    OBVIOUS
  <2>5. QED
    BY <1>1, <2>1, <2>2, <2>3, <2>4 DEF Settled
<1>4. Stripper(text, marker, visible)
  <2>1. 1 .. Len(<<>>) = {}
    OBVIOUS
  <2>2. QED
    BY <1>1, <2>1 DEF Stripper
<1>5. Windowed(output, visible)
  <2>1. LastChars(<<>>, WindowChars) = <<>>
    <3>1. WindowChars \in Nat /\ Len(<<>>) <= WindowChars /\ <<>> \in Seq(Symbol)
      BY PipelineAssumption DEF Text
    <3>2. QED
      BY <3>1, LastAll
  <2>2. QED
    BY <1>1, <2>1, FlattenEmpty DEF Windowed, Chars
<1>6. Chunked(chunks, text, seq)
  <2>1. EndsWith(<<>>, <<>>)
    BY DEF EndsWith
  <2>2. WindowChars \in Nat
    BY PipelineAssumption
  <2>3. QED
    BY <1>1, <2>1, <2>2, FlattenEmpty DEF Chunked, Chars
<1>7. Tracked(visible, modes)
  <2>1. Over(<<>>, 1)
    BY DEF Over
  <2>2. 1 \in 1 .. Len(<<>>) + 1 /\ 1 .. 1 - 1 = {}
    OBVIOUS
  <2>3. Decided(<<>>, 1 - 1) /\ Latest(<<>>, 1 - 1, TRUE, TRUE)
    BY <2>2 DEF Decided, Latest
  <2>4. QED
    BY <1>1, <2>1, <2>2, <2>3 DEF Tracked
<1>8. QED
  BY <1>2, <1>3, <1>4, <1>5, <1>6, <1>7 DEF IInv

\* What a read adds to the bytes.
LEMMA BytesNext ==
  ASSUME TypeOK, NEW n \in Nat, taken + n <= Len(script), taken' = taken + n, script' = script
  PROVE  LET more == SubSeq(script, taken + 1, taken + n)
         IN  more \in Text /\ Bytes' = Bytes \o more /\ taken' \in 0 .. Len(script')
<1> DEFINE more == SubSeq(script, taken + 1, taken + n)
           one == 1
           to == taken + n
<1>1. script \in Seq(Symbol) /\ taken \in Nat /\ taken <= Len(script) /\ Len(script) \in Nat
  BY LengthOfText DEF TypeOK, Text
<1>2. /\ one \in 1 .. Len(script) + 1 /\ taken \in one - 1 .. Len(script) /\ to \in taken .. Len(script)
      /\ taken + 1 \in Int /\ to \in Int /\ 1 <= taken + 1 /\ taken + 1 <= to + 1 /\ to <= Len(script)
      /\ to \in 0 .. Len(script)
  BY <1>1
<1> HIDE DEF one, to
<1>3. SubSeq(script, one, taken) \o SubSeq(script, taken + 1, to) = SubSeq(script, one, to)
  BY <1>1, <1>2, ConcatAdjacentSubSeq
<1>4. SubSeq(script, taken + 1, to) \in Seq(Symbol)
  BY <1>1, <1>2, Slice
<1>5. taken' = to
  BY DEF to
<1>6. QED
  BY <1>2, <1>3, <1>4, <1>5 DEF Bytes, one, to, Text

\* One chunk of text moves every stage behind the decoder.
LEMMA AppendTextIs ==
  ASSUME IInv, NEW data \in Text, AppendText(data)
  PROVE  /\ Stripper(text', marker', visible') /\ Windowed(output', visible') /\ Chunked(chunks', text', seq')
         /\ Tracked(visible', modes')
         /\ text' = text \o data /\ text' \in Text /\ visible' \in Text /\ seq' \in Nat
         /\ marker' \in [pending : Text, completed : BOOLEAN]
         /\ output' \in [chars : Nat, segments : Seq(Text)]
         /\ chunks' \in [chars : Nat, entries : Entries]
         /\ modes' \in [autowrap : BOOLEAN, tail : Text]
<1> DEFINE w == Consumed(marker, data)
           c == w.visible
<1>1. /\ text \in Text /\ visible \in Text /\ seq \in Nat /\ marker.completed \in BOOLEAN
      /\ output \in [chars : Nat, segments : Seq(Text)]
      /\ Stripper(text, marker, visible) /\ Windowed(output, visible) /\ Chunked(chunks, text, seq)
      /\ Tracked(visible, modes)
  BY DEF IInv, TypeOK
<1>2. /\ text' = text \o data /\ seq' = seq + 1 /\ chunks' = ChunkPush(chunks, seq + 1, data)
      /\ marker' = [pending |-> w.pending, completed |-> w.completed]
      /\ visible' = visible \o c /\ output' = TextPush(output, c)
      /\ modes' = Scanned(modes.autowrap, modes.tail \o c)
  BY DEF AppendText
<1> HIDE DEF w
<1>3. c \in Text /\ Stripper(text \o data, w, visible \o c)
  <2>1. w = Consumed(marker, data)
    BY DEF w
  <2>2. CASE marker.completed
    BY <1>1, <2>1, <2>2, StripperPasses
  <2>3. CASE ~marker.completed
    BY <1>1, <2>1, <2>3, StripperWaits
  <2>4. QED
    BY <2>2, <2>3
<1> HIDE DEF c
<1>4. text' \in Text /\ visible' \in Text /\ seq + 1 \in Nat
  BY <1>1, <1>2, <1>3, TextJoined
<1>5. marker'.pending = w.pending /\ marker'.completed = w.completed
  BY <1>2
<1>6. Stripper(text', w, visible')
  BY <1>2, <1>3
<1>7. Stripper(text', marker', visible') /\ marker' \in [pending : Text, completed : BOOLEAN]
  <2>1. Stripper(text', marker', visible')
    BY <1>5, <1>6 DEF Stripper
  <2>2. w.pending \in Text /\ w.completed \in BOOLEAN
    BY <1>6 DEF Stripper
  <2>3. QED
    BY <1>2, <2>1, <2>2
<1>8. Windowed(TextPush(output, c), visible \o c)
  BY <1>1, <1>3, TextPushIs
<1>9. Chunked(ChunkPush(chunks, seq + 1, data), text \o data, seq + 1)
  BY <1>1, <1>4, ChunkPushIs
<1>10. Tracked(visible \o c, Scanned(modes.autowrap, modes.tail \o c))
  BY <1>1, <1>3, TrackedNext
<1>11. /\ TextPush(output, c) \in [chars : Nat, segments : Seq(Text)]
       /\ ChunkPush(chunks, seq + 1, data) \in [chars : Nat, entries : Entries]
       /\ Scanned(modes.autowrap, modes.tail \o c) \in [autowrap : BOOLEAN, tail : Text]
  <2>1. visible \o c \in Text
    BY <1>2, <1>4
  <2>2. QED
    BY <1>1, <1>8, <1>9, <1>10, <2>1, PushTypes, ChunkTypes, ScannedTypes
<1>12. QED
  BY <1>2, <1>4, <1>7, <1>8, <1>9, <1>10, <1>11

\* Every step preserves the invariant.
LEMMA NextIInv == IInv /\ [Next]_vars => IInv'
<1> SUFFICES ASSUME IInv, [Next]_vars PROVE IInv'
  OBVIOUS
<1>1. ASSUME NEW n \in 1 .. Len(script), Read(n) PROVE IInv'
  <2> DEFINE more == SubSeq(script, taken + 1, taken + n)
             d == Decoded(undecoded \o more)
  <2>1. TypeOK /\ Settled(Bytes, text, undecoded) /\ script \in Text /\ text \in Text
    BY DEF IInv, TypeOK
  <2>2. n \in Nat /\ taken + n <= Len(script) /\ taken' = taken + n /\ script' = script
    BY <1>1, <2>1, LengthOfText DEF Read
  <2>3. more \in Text /\ Bytes' = Bytes \o more /\ taken' \in 0 .. Len(script')
    BY <2>1, <2>2, BytesNext
  <2>4. /\ undecoded' = d.rest
        /\ \/ d.text # <<>> /\ AppendText(d.text)
           \/ d.text = <<>> /\ UNCHANGED <<text, seq, marker, visible, output, chunks, modes>>
    BY <1>1 DEF Read
  <2> HIDE DEF more
  <2>5. d.text \in Text /\ d.rest \in Text /\ Settled(Bytes \o more, text \o d.text, d.rest)
    BY <2>1, <2>3, BytesType, SettledNext
  <2> HIDE DEF d
  <2>6. CASE d.text # <<>> /\ AppendText(d.text)
    <3>1. /\ Stripper(text', marker', visible') /\ Windowed(output', visible') /\ Chunked(chunks', text', seq')
          /\ Tracked(visible', modes')
          /\ text' = text \o d.text /\ text' \in Text /\ visible' \in Text /\ seq' \in Nat
          /\ marker' \in [pending : Text, completed : BOOLEAN]
          /\ output' \in [chars : Nat, segments : Seq(Text)]
          /\ chunks' \in [chars : Nat, entries : Entries]
          /\ modes' \in [autowrap : BOOLEAN, tail : Text]
      BY <2>5, <2>6, AppendTextIs
    <3>2. Settled(Bytes', text', undecoded')
      BY <2>3, <2>4, <2>5, <3>1
    <3>3. TypeOK'
      BY <2>1, <2>2, <2>3, <2>4, <2>5, <3>1 DEF TypeOK
    <3>4. QED
      BY <3>1, <3>2, <3>3 DEF IInv
  <2>7. CASE d.text = <<>> /\ UNCHANGED <<text, seq, marker, visible, output, chunks, modes>>
    <3>1. /\ text' = text /\ seq' = seq /\ marker' = marker /\ visible' = visible /\ output' = output
          /\ chunks' = chunks /\ modes' = modes
      BY <2>7
    <3>2. text \o d.text = text
      BY <2>1, <2>7, ConcatEmptySeq DEF Text
    <3>3. Settled(Bytes', text', undecoded')
      BY <2>3, <2>4, <2>5, <3>1, <3>2
    <3>4. TypeOK'
      BY <2>1, <2>2, <2>3, <2>4, <2>5, <3>1 DEF TypeOK
    <3>5. QED
      BY <3>1, <3>3, <3>4 DEF IInv
  <2>8. QED
    BY <2>4, <2>6, <2>7
<1>2. CASE UNCHANGED vars
  BY <1>2 DEF vars, IInv, TypeOK, Bytes
<1>3. QED
  BY <1>1, <1>2 DEF Next

\* However the terminal cuts its output, every stage is where one pass over the
\* whole of it would be (read_loop and append of session.rs).
THEOREM Invariance == Spec => []IInv
BY InitIInv, NextIInv, PTL DEF Spec

\* The stages' memories keep their shape.
THEOREM TypeCorrect == Spec => []TypeOK
<1>1. IInv => TypeOK
  BY DEF IInv
<1>2. QED
  BY <1>1, Invariance, PTL

\* The decoder yields the characters of the bytes, whatever the cuts: none is lost,
\* none is made of broken bytes, and no more than a beginning waits (utf8.rs).
THEOREM DecodesWhole == Spec => []DecodedWhole
<1>1. IInv => DecodedWhole
  <2> SUFFICES ASSUME IInv PROVE DecodedWhole
    OBVIOUS
  <2>1. Bytes \in Text /\ Settled(Bytes, text, undecoded)
    BY BytesType DEF IInv
  <2>2. text = Characters(Bytes) /\ Unfinished(undecoded) = (undecoded # <<>>) /\ IsSuffix(undecoded, Bytes)
    BY <2>1, SettledDecoded
  <2>3. QED
    BY <2>2 DEF DecodedWhole, Bytes
<1>2. QED
  BY <1>1, Invariance, PTL

\* Nothing but one whole marker is taken out of the text, and where every prefix is
\* a marker's, the first goes wherever it is cut (marker.rs).
THEOREM StripsMarker == Spec => []MarkerStripped
<1>1. IInv => MarkerStripped
  <2> SUFFICES ASSUME IInv PROVE MarkerStripped
    OBVIOUS
  <2>1. Stripper(text, marker, visible)
    BY DEF IInv
  <2>2. /\ \/ ~marker.completed /\ visible \o marker.pending = text
           \/ /\ marker.completed /\ marker.pending = <<>>
              /\ \E i \in Markers(text) : visible = Without(text, i)
        /\ Clean(text) => /\ marker.completed <=> Markers(text) # {}
                          /\ Markers(text) # {} => visible = Without(text, Least(Markers(text)))
                          /\ ~marker.completed => Starts(visible) = {}
    BY <2>1, StripperPromise
  <2>3. Clean(text) <=> NoFalseStart
    BY DEF Clean, NoFalseStart
  <2>4. QED
    BY <2>2, <2>3 DEF MarkerStripped, NothingLost, NoMarkerLeaks
<1>2. QED
  BY <1>1, Invariance, PTL

\* Both windows hold the newest characters, no more than the limit, and know how
\* many; the newest chunk is always there under its number (bounds.rs).
THEOREM WindowsHold == Spec => []WindowsHoldTheEnd
<1>1. IInv => WindowsHoldTheEnd
  <2> SUFFICES ASSUME IInv PROVE WindowsHoldTheEnd
    OBVIOUS
  <2>1. Windowed(output, visible) /\ Chunked(chunks, text, seq)
    BY DEF IInv
  <2> DEFINE s == FlattenSeq(Texts(chunks.entries))
  <2>2. s \in Text
    <3>1. Texts(chunks.entries) \in Seq(Seq(Symbol))
      BY <2>1, TextsIs DEF Chunked, Text
    <3>2. QED
      BY <3>1, FlattenType DEF Text
  <2>3. EndsWith(text, s)
    BY <2>1 DEF Chunked
  <2> HIDE DEF s
  <2>4. PICK u \in Text : text = u \o s
    BY <2>3 DEF EndsWith
  <2>5. IsSuffix(s, text)
    BY <2>2, <2>4, SuffixIs DEF Text
  <2>6. QED
    BY <2>1, <2>5 DEF WindowsHoldTheEnd, Windowed, Chunked, s
<1>2. QED
  BY <1>1, Invariance, PTL

\* Autowrap is what the last whole sequence with a 7 says, however the sequences
\* are cut, and what waits for its end is shorter than the longest (snapshot.rs).
THEOREM TracksAutowrap == Spec => []AutowrapTracked
<1>1. IInv => AutowrapTracked
  <2> SUFFICES ASSUME IInv PROVE AutowrapTracked
    OBVIOUS
  <2>1. visible \in Text /\ Tracked(visible, modes)
    BY DEF IInv, TypeOK
  <2>2. /\ Len(modes.tail) < MaxSequence
        /\ modes.autowrap <=> Sevens(visible) = {} \/ Letter(visible, Greatest(Sevens(visible)))
    BY <2>1, TrackedPromise
  <2>3. QED
    BY <2>2 DEF AutowrapTracked, Letter
<1>2. QED
  BY <1>1, Invariance, PTL

=============================================================================
