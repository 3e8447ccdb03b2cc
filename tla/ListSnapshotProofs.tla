-------------------------- MODULE ListSnapshotProofs --------------------------
(* What TLAPS proves about ListSnapshot, for every value of its constants. *)
EXTENDS ListSnapshot, TextPipelineProofs

-----------------------------------------------------------------------------
(* Sizes.                                                                    *)

Encoded(d) == [i \in DOMAIN d |-> Json(d[i])]

\* What a symbol becomes is a text.
LEMMA JsonType == \A c \in Symbol : Json(c) \in Text
<1> TAKE c \in Symbol
<1>1. CASE c \in {"E", "R", "U", "B"}
  <2>1. EscWidth \in Nat
    BY ListAssumption
  <2>2. [k \in 1 .. EscWidth |-> c] \in Seq(Symbol)
    BY <2>1
  <2>3. QED
    BY <1>1, <2>2 DEF Json, Text
<1>2. CASE c \notin {"E", "R", "U", "B"}
  BY <1>2, OneSymbol, TwoSymbols DEF Json
<1>3. QED
  BY <1>1, <1>2

\* What a text becomes, symbol by symbol.
LEMMA EncodedIs ==
  ASSUME NEW d \in Text
  PROVE  /\ Encoded(d) \in Seq(Text) /\ Len(Encoded(d)) = Len(d)
         /\ \A i \in 1 .. Len(d) : Encoded(d)[i] = Json(d[i])
<1>1. Len(d) \in Nat /\ \A i \in 1 .. Len(d) : d[i] \in Symbol
  BY LengthOfText
<1>2. DOMAIN d = 1 .. Len(d)
  BY LenProperties DEF Text
<1>3. Encoded(d) = [i \in 1 .. Len(d) |-> Json(d[i])]
  BY <1>2 DEF Encoded
<1>4. \A i \in 1 .. Len(d) : Json(d[i]) \in Text
  BY <1>1, JsonType
<1>5. QED
  BY <1>1, <1>3, <1>4

\* Two texts become what each of them becomes.
LEMMA EncodedConcat ==
  ASSUME NEW a \in Text, NEW b \in Text
  PROVE  Encoded(a \o b) = Encoded(a) \o Encoded(b)
<1> DEFINE c == a \o b
           x == Encoded(a)
           y == Encoded(b)
           z == Encoded(c)
           m == Len(a)
           n == Len(b)
<1>1. /\ c \in Text /\ Len(c) = m + n /\ m \in Nat /\ n \in Nat
      /\ \A i \in 1 .. m : c[i] = a[i]
      /\ \A i \in 1 .. n : c[m + i] = b[i]
  BY LengthOfText, TextJoined
<1>2. /\ x \in Seq(Text) /\ Len(x) = m /\ \A i \in 1 .. m : x[i] = Json(a[i])
      /\ y \in Seq(Text) /\ Len(y) = n /\ \A i \in 1 .. n : y[i] = Json(b[i])
  BY EncodedIs
<1> HIDE DEF c
<1>3. z \in Seq(Text) /\ Len(z) = m + n /\ \A i \in 1 .. m + n : z[i] = Json(c[i])
  BY <1>1, EncodedIs
<1> HIDE DEF x, y, z, m, n
<1> DEFINE w == x \o y
<1>4. /\ w \in Seq(Text) /\ Len(w) = m + n
      /\ \A i \in 1 .. m : w[i] = x[i]
      /\ \A i \in 1 .. n : w[m + i] = y[i]
  <2>1. x \in Seq(Text) /\ y \in Seq(Text)
    BY <1>2
  <2>2. /\ x \o y \in Seq(Text) /\ Len(x \o y) = Len(x) + Len(y)
        /\ \A i \in 1 .. Len(x) : (x \o y)[i] = x[i]
        /\ \A i \in 1 .. Len(y) : (x \o y)[Len(x) + i] = y[i]
    BY <2>1, ConcatIs
  <2>3. QED
    BY <1>2, <2>2
<1> HIDE DEF w
<1>5. ASSUME NEW i \in 1 .. m + n PROVE z[i] = w[i]
  <2>1. CASE i \in 1 .. m
    BY <1>1, <1>2, <1>3, <1>4, <2>1
  <2>2. CASE i \notin 1 .. m
    <3>1. PICK j \in 1 .. n : i = m + j
      <4>1. i - m \in 1 .. n /\ i = m + (i - m)
        BY <1>1, <2>2
      <4>2. QED
        BY <4>1
    <3>2. z[i] = Json(c[m + j]) /\ w[i] = y[j]
      BY <1>3, <1>4, <3>1
    <3>3. QED
      BY <1>1, <1>2, <3>2
  <2>3. QED
    BY <2>1, <2>2
<1>6. z = w
  BY <1>3, <1>4, <1>5, SeqEqual
<1>7. QED
  BY <1>6 DEF z, w, x, y, c

\* The size of two texts is that of both.
LEMMA WidthConcat ==
  ASSUME NEW a \in Text, NEW b \in Text
  PROVE  Width(a \o b) = Width(a) + Width(b) /\ Width(a) \in Nat /\ Width(b) \in Nat
<1>1. \A d : Width(d) = Len(FlattenSeq(Encoded(d)))
  BY DEF Width, Chars, Encoded
<1> DEFINE x == Encoded(a)
           y == Encoded(b)
<1>2. x \in Seq(Seq(Symbol)) /\ y \in Seq(Seq(Symbol)) /\ Encoded(a \o b) = x \o y
  BY EncodedIs, EncodedConcat DEF Text
<1> HIDE DEF x, y
<1> DEFINE u == FlattenSeq(x)
           v == FlattenSeq(y)
<1>3. u \in Text /\ v \in Text
  BY <1>2, FlattenType DEF Text
<1>4. FlattenSeq(x \o y) = u \o v
  BY <1>2, FlattenConcat
<1> HIDE DEF u, v
<1>5. Len(u \o v) = Len(u) + Len(v) /\ Len(u) \in Nat /\ Len(v) \in Nat
  BY <1>3, TextJoined, LengthOfText
<1>6. Width(a) = Len(u) /\ Width(b) = Len(v) /\ Width(a \o b) = Len(u \o v)
  BY <1>1, <1>2, <1>4 DEF u, v, x, y
<1>7. QED
  BY <1>5, <1>6

-----------------------------------------------------------------------------
(* Prefixes.                                                                 *)

\* A prefix, symbol by symbol.
LEMMA UptoIs ==
  \A d \in Text : \A n \in 0 .. Len(d) :
    Upto(d, n) \in Text /\ Len(Upto(d, n)) = n /\ \A i \in 1 .. n : Upto(d, n)[i] = d[i]
<1> TAKE d \in Text
<1> TAKE n \in 0 .. Len(d)
<1> DEFINE one == 1
<1>1. d \in Seq(Symbol) /\ one \in Int /\ n \in Int /\ 1 <= one /\ n <= Len(d) /\ one <= n + 1
  BY LengthOfText DEF Text
<1>2. n - one + 1 = n /\ \A i \in 1 .. n : one + i - 1 = i
  BY <1>1
<1> HIDE DEF one
<1>3. /\ SubSeq(d, one, n) \in Seq(Symbol) /\ Len(SubSeq(d, one, n)) = n - one + 1
      /\ \A i \in 1 .. n - one + 1 : SubSeq(d, one, n)[i] = d[one + i - 1]
  BY <1>1, Slice
<1>4. /\ SubSeq(d, one, n) \in Seq(Symbol) /\ Len(SubSeq(d, one, n)) = n
      /\ \A i \in 1 .. n : SubSeq(d, one, n)[i] = d[i]
  BY <1>2, <1>3
<1>5. QED
  BY <1>4 DEF one, Upto, Text

\* A shorter prefix is a prefix of a longer one.
LEMMA UptoUpto ==
  ASSUME NEW d \in Text, NEW n \in 0 .. Len(d), NEW m \in 0 .. n
  PROVE  Upto(Upto(d, n), m) = Upto(d, m)
<1> DEFINE p == Upto(d, n)
<1>1. Len(d) \in Nat /\ m \in 0 .. Len(d)
  BY LengthOfText
<1>2. p \in Text /\ Len(p) = n /\ \A i \in 1 .. n : p[i] = d[i]
  BY UptoIs
<1> HIDE DEF p
<1>3. Upto(p, m) \in Text /\ Len(Upto(p, m)) = m /\ \A i \in 1 .. m : Upto(p, m)[i] = p[i]
  BY <1>2, UptoIs
<1>4. Upto(d, m) \in Text /\ Len(Upto(d, m)) = m /\ \A i \in 1 .. m : Upto(d, m)[i] = d[i]
  BY <1>1, UptoIs
<1>5. \A i \in 1 .. m : i \in 1 .. n
  BY <1>1
<1>6. Upto(p, m) = Upto(d, m)
  BY <1>2, <1>3, <1>4, <1>5, TextEqual
<1>7. QED
  BY <1>6 DEF p

\* All of a text.
LEMMA UptoAll ==
  ASSUME NEW d \in Text
  PROVE  Upto(d, Len(d)) = d
BY SubSeqFull DEF Upto, Text

\* A longer prefix is no smaller.
LEMMA UptoWidth ==
  ASSUME NEW d \in Text, NEW n \in 0 .. Len(d), NEW m \in 0 .. n
  PROVE  Width(Upto(d, m)) \in Nat /\ Width(Upto(d, n)) \in Nat /\ Width(Upto(d, m)) <= Width(Upto(d, n))
<1> DEFINE p == Upto(d, n)
           q == Upto(d, m)
           r == From(p, m + 1)
<1>1. Len(d) \in Nat /\ m \in 0 .. Len(d) /\ n \in Nat
  BY LengthOfText
<1>2. p \in Text /\ Len(p) = n /\ q \in Text
  BY <1>1, UptoIs
<1>3. Upto(p, m) = q
  BY UptoUpto
<1> HIDE DEF p, q
<1>4. m \in 0 .. Len(p)
  BY <1>2
<1>5. SubSeq(p, 1, m) \o From(p, m + 1) = p
  BY <1>2, <1>4, Split DEF Text
<1>6. r \in Text
  <2>1. m + 1 \in 1 .. Len(p) + 1
    BY <1>1, <1>2
  <2>2. QED
    BY <1>2, <2>1, FromText
<1>7. p = q \o r
  BY <1>3, <1>5 DEF Upto
<1> HIDE DEF r
<1>8. Width(p) = Width(q) + Width(r) /\ Width(q) \in Nat /\ Width(r) \in Nat
  BY <1>2, <1>6, <1>7, WidthConcat
<1>9. QED
  BY <1>8 DEF p, q

LEMMA ResetType == Reset \in Text
<1>1. "E" \in Symbol /\ "[" \in Symbol /\ "0" \in Symbol /\ "m" \in Symbol
  BY Symbols
<1>2. QED
  BY <1>1 DEF Reset, Text

\* What a snapshot weighs.
LEMMA SizeOfSnapshot ==
  ASSUME NEW d \in Text, NEW p \in Text
  PROVE  /\ SerializedLen(Snapshot(d, p)) = Meta + Width(d) + Width(p) /\ Meta \in Nat
         /\ Width(d) \in Nat /\ Width(p) \in Nat
         /\ Snapshot(d, p).data = d /\ Snapshot(d, p).pending = p /\ Snapshot(d, p) # NoSnapshot
<1>1. Snapshot(d, p).data = d /\ Snapshot(d, p).pending = p
  BY DEF Snapshot
<1>2. DOMAIN Snapshot(d, p) = {"data", "pending"} /\ DOMAIN <<>> = {}
  BY DEF Snapshot
<1>3. Width(d) \in Nat /\ Width(p) \in Nat
  BY WidthConcat
<1>4. QED
  BY <1>1, <1>2, <1>3, ListAssumption DEF SerializedLen, NoSnapshot

\* What fits still fits when it is shorter, or without the reset.
LEMMA FitsShorter ==
  ASSUME NEW d \in Text, NEW n \in 0 .. Len(d), NEW m \in 0 .. n, NEW max \in Int, PrefixFits(d, n, max)
  PROVE  PrefixFits(d, m, max) /\ SerializedLen(Snapshot(Upto(d, m), <<>>)) <= max
<1> DEFINE p == Upto(d, n)
           q == Upto(d, m)
           e == <<>>
<1>1. m \in 0 .. Len(d)
  BY LengthOfText
<1>2. p \in Text /\ q \in Text /\ e \in Text
  BY <1>1, UptoIs, Nothing
<1>3. Width(p) \in Nat /\ Width(q) \in Nat /\ Width(q) <= Width(p)
  BY UptoWidth
<1>4. PrefixFits(d, n, max) <=> SerializedLen(Snapshot(p \o Reset, e)) <= max
  BY DEF PrefixFits
<1>5. PrefixFits(d, m, max) <=> SerializedLen(Snapshot(q \o Reset, e)) <= max
  BY DEF PrefixFits
<1> HIDE DEF p, q, e
<1>6. p \o Reset \in Text /\ q \o Reset \in Text
  BY <1>2, ResetType, TextConcat
<1>7. /\ Width(p \o Reset) = Width(p) + Width(Reset) /\ Width(q \o Reset) = Width(q) + Width(Reset)
      /\ Width(Reset) \in Nat
  BY <1>2, ResetType, WidthConcat
<1>8. /\ SerializedLen(Snapshot(p \o Reset, e)) = Meta + Width(p \o Reset) + Width(e)
      /\ SerializedLen(Snapshot(q \o Reset, e)) = Meta + Width(q \o Reset) + Width(e)
      /\ SerializedLen(Snapshot(q, e)) = Meta + Width(q) + Width(e)
      /\ Meta \in Nat /\ Width(e) \in Nat
  BY <1>2, <1>6, SizeOfSnapshot
<1>9. SerializedLen(Snapshot(q \o Reset, e)) <= max /\ SerializedLen(Snapshot(q, e)) <= max
  <2>1. Meta + (Width(p) + Width(Reset)) + Width(e) <= max
    BY <1>4, <1>7, <1>8
  <2>2. Meta + (Width(q) + Width(Reset)) + Width(e) <= max /\ Meta + Width(q) + Width(e) <= max
    BY <1>3, <1>7, <1>8, <2>1
  <2>3. QED
    BY <1>7, <1>8, <2>2
<1>10. QED
  BY <1>5, <1>9 DEF q, e

-----------------------------------------------------------------------------
(* The binary search.                                                        *)

\* What the loop of the search passes through.
Searching(d, max) ==
  {at \in [low : 0 .. Len(d), high : 0 .. Len(d)] :
     /\ at.low <= at.high
     /\ at.low = 0 \/ PrefixFits(d, at.low, max)
     /\ ~PrefixFits(d, at.high, max)}

\* A turn goes on to a narrower such place, unless the search has ended.
LEMMA SearchTurnIs ==
  ASSUME NEW d \in Text, NEW max \in Int, NEW at \in Searching(d, max)
  PROVE  /\ SearchTurn(d, max, at) \in Searching(d, max)
         /\ IF at.high - at.low <= 1 THEN SearchTurn(d, max, at) = at
            ELSE SearchTurn(d, max, at).high - SearchTurn(d, max, at).low < at.high - at.low
<1> DEFINE l == at.low
           h == at.high
           mid == l + (h - l) \div 2
           to == SearchTurn(d, max, at)
<1>1. /\ Len(d) \in Nat /\ l \in 0 .. Len(d) /\ h \in 0 .. Len(d) /\ l <= h
      /\ l = 0 \/ PrefixFits(d, l, max)
      /\ ~PrefixFits(d, h, max)
  BY LengthOfText DEF Searching
<1>2. to = IF h - l <= 1 THEN at
           ELSE IF PrefixFits(d, mid, max) THEN [low |-> mid, high |-> h]
           ELSE [low |-> l, high |-> mid]
  BY DEF SearchTurn
<1>3. CASE h - l <= 1
  BY <1>2, <1>3
<1>4. CASE ~(h - l <= 1)
  <2>1. l < mid /\ mid < h /\ mid \in 0 .. Len(d)
    <3>1. \A n \in Nat : n > 1 => n \div 2 \in Nat /\ n \div 2 > 0 /\ n \div 2 < n
      OBVIOUS
    <3> DEFINE half == (h - l) \div 2
    <3>2. h - l \in Nat /\ h - l > 1
      BY <1>1, <1>4
    <3>3. half \in Nat /\ half > 0 /\ half < h - l
      BY <3>1, <3>2
    <3> HIDE DEF half, l, h
    <3>4. l < l + half /\ l + half < h /\ l + half \in 0 .. Len(d)
      BY <1>1, <3>3
    <3>5. QED
      BY <3>4 DEF half
  <2> HIDE DEF l, h, mid, to
  <2>2. CASE PrefixFits(d, mid, max)
    <3>1. to = [low |-> mid, high |-> h]
      BY <1>2, <1>4, <2>2
    <3>2. to \in [low : 0 .. Len(d), high : 0 .. Len(d)] /\ to.low = mid /\ to.high = h
      BY <1>1, <2>1, <3>1
    <3>3. to.low <= to.high /\ to.high - to.low < h - l
      BY <1>1, <2>1, <3>2
    <3>4. to \in Searching(d, max)
      BY <1>1, <2>2, <3>2, <3>3 DEF Searching
    <3>5. QED
      BY <1>4, <3>3, <3>4 DEF to, l, h
  <2>3. CASE ~PrefixFits(d, mid, max)
    <3>1. to = [low |-> l, high |-> mid]
      BY <1>2, <1>4, <2>3
    <3>2. to \in [low : 0 .. Len(d), high : 0 .. Len(d)] /\ to.low = l /\ to.high = mid
      BY <1>1, <2>1, <3>1
    <3>3. to.low <= to.high /\ to.high - to.low < h - l
      BY <1>1, <2>1, <3>2
    <3>4. to \in Searching(d, max)
      BY <1>1, <2>3, <3>2, <3>3 DEF Searching
    <3>5. QED
      BY <1>4, <3>3, <3>4 DEF to, l, h
  <2>4. QED
    BY <2>2, <2>3
<1>5. QED
  BY <1>3, <1>4

\* The search finds the longest prefix that fits, or nothing.
LEMMA SearchIs ==
  ASSUME NEW d \in Text, NEW max \in Int, ~PrefixFits(d, Len(d), max)
  PROVE  /\ Search(d, max) \in 0 .. Len(d)
         /\ Search(d, max) = 0 \/ PrefixFits(d, Search(d, max), max)
         /\ \A m \in Search(d, max) + 1 .. Len(d) : ~PrefixFits(d, m, max)
<1> DEFINE N == Len(d)
           x0 == [low |-> 0, high |-> N]
           Loops(f) == f = [k \in 0 .. N |-> IF k = 0 THEN x0 ELSE SearchTurn(d, max, f[k - 1])]
           turn == CHOOSE f : Loops(f)
           X == Searching(d, max)
           step == [x \in X |-> SearchTurn(d, max, x)]
<1>1. N \in Nat
  BY LengthOfText
<1>2. x0 \in X
  <2>1. x0 \in [low : 0 .. N, high : 0 .. N] /\ x0.low = 0 /\ x0.high = N
    BY <1>1
  <2> HIDE DEF x0
  <2>2. QED
    BY <1>1, <2>1 DEF Searching
<1>3. step \in [X -> X]
  BY SearchTurnIs
<1>4. Search(d, max) = turn[N].low
  BY DEF Search
<1>5. Loops(turn)
  <2>1. \A x \in X : step[x] = SearchTurn(d, max, x)
    OBVIOUS
  <2> HIDE DEF N, x0, X, step
  <2>2. PICK f \in [0 .. N -> X] : f = [k \in 0 .. N |-> IF k = 0 THEN x0 ELSE step[f[k - 1]]]
    <3>1. step \in [X -> X]
      BY <1>3 DEF step, X
    <3>2. PICK g : Turned(X, x0, N, step, g)
      BY <1>1, <1>2, <3>1, Turns
    <3>3. QED
      BY <3>2 DEF Turned
  <2>3. ASSUME NEW k \in 0 .. N, k # 0 PROVE step[f[k - 1]] = SearchTurn(d, max, f[k - 1])
    <3>1. k - 1 \in 0 .. N
      BY <1>1, <2>3
    <3>2. f[k - 1] \in X
      BY <3>1
    <3>3. QED
      BY <2>1, <3>2
  <2>4. Loops(f)
    <3>1. [k \in 0 .. N |-> IF k = 0 THEN x0 ELSE step[f[k - 1]]]
            = [k \in 0 .. N |-> IF k = 0 THEN x0 ELSE SearchTurn(d, max, f[k - 1])]
      BY <2>3
    <3>2. QED
      BY <2>2, <3>1
  <2> HIDE DEF Loops
  <2>5. QED
    BY <2>4
<1> HIDE DEF x0, turn, X, N
<1>6. /\ turn[0] = x0
      /\ \A k \in 0 .. N : k # 0 => turn[k] = SearchTurn(d, max, turn[k - 1])
  <2>1. turn = [k \in 0 .. N |-> IF k = 0 THEN x0 ELSE SearchTurn(d, max, turn[k - 1])]
    BY <1>5
  <2>2. 0 \in 0 .. N
    BY <1>1
  <2>3. QED
    BY <2>1, <2>2
<1> HIDE DEF Loops
<1> DEFINE S == {k \in 0 .. N : turn[k] \in X /\ (turn[k].high - turn[k].low <= 1 \/ turn[k].high - turn[k].low <= N - k)}
<1>7. 0 \in S
  <2>1. x0.low = 0 /\ x0.high = N
    BY DEF x0
  <2>2. QED
    BY <1>1, <1>2, <1>6, <2>1
<1>8. ASSUME NEW k \in 0 .. N - 1, k \in S PROVE k + 1 \in S
  <2>1. k + 1 \in 0 .. N /\ k + 1 # 0 /\ (k + 1) - 1 = k
    BY <1>1
  <2>2. turn[k + 1] = SearchTurn(d, max, turn[k])
    BY <1>6, <2>1
  <2> DEFINE at == turn[k]
             to == turn[k + 1]
  <2>3. /\ at \in Searching(d, max) /\ to = SearchTurn(d, max, at)
        /\ at.high - at.low <= 1 \/ at.high - at.low <= N - k
    BY <1>8, <2>2 DEF X
  <2> HIDE DEF at, to
  <2>4. to \in Searching(d, max) /\ IF at.high - at.low <= 1 THEN to = at ELSE to.high - to.low < at.high - at.low
    BY <2>3, SearchTurnIs
  <2>5. at.low \in Int /\ at.high \in Int /\ to.low \in Int /\ to.high \in Int
    BY <2>3, <2>4 DEF Searching
  <2>6. to.high - to.low <= 1 \/ to.high - to.low <= N - (k + 1)
    BY <1>1, <2>3, <2>4, <2>5
  <2>7. QED
    BY <2>1, <2>4, <2>6 DEF to, X
<1> DEFINE last == turn[N]
<1>9. last \in Searching(d, max) /\ (last.high - last.low <= 1 \/ last.high - last.low <= N - N)
  <2>1. \A k \in 0 .. N : k \in S
    <3> HIDE DEF S
    <3>1. QED
      BY <1>1, <1>7, <1>8, UpTo
  <2>2. N \in 0 .. N
    BY <1>1
  <2>3. QED
    BY <2>1, <2>2 DEF X
<1> DEFINE low == last.low
           high == last.high
<1>10. Search(d, max) = low
  BY <1>4
<1> HIDE DEF last, S
<1>11. /\ low \in 0 .. N /\ high \in 0 .. N /\ high <= low + 1
       /\ low = 0 \/ PrefixFits(d, low, max)
       /\ ~PrefixFits(d, high, max)
  <2>1. /\ low \in 0 .. N /\ high \in 0 .. N
        /\ low = 0 \/ PrefixFits(d, low, max)
        /\ ~PrefixFits(d, high, max)
    BY <1>9 DEF Searching, N
  <2>2. high - low <= 1 \/ high - low <= N - N
    BY <1>9
  <2> HIDE DEF low, high
  <2>3. QED
    BY <1>1, <2>1, <2>2
<1> HIDE DEF low, high
<1>12. ASSUME NEW m \in low + 1 .. Len(d), PrefixFits(d, m, max) PROVE FALSE
  <2>1. m \in 0 .. Len(d) /\ high \in 0 .. m
    BY <1>1, <1>11 DEF N
  <2>2. QED
    BY <1>11, <1>12, <2>1, FitsShorter
<1>13. QED
  BY <1>10, <1>11, <1>12 DEF N

-----------------------------------------------------------------------------
(* The terminal.                                                             *)

Somewhere == {"ground", "esc", "string esc", "csi", "string"}
IsCourse(d, n, f) == f = [k \in 0 .. n |-> IF k = 0 THEN "ground" ELSE TerminalStep(f[k - 1], d[k])]

\* Where a terminal is after each symbol exists,
LEMMA CourseExists ==
  ASSUME NEW d, NEW N \in Nat
  PROVE  \E f : IsCourse(d, N, f)
<1> DEFINE Good == {k \in 0 .. N : \E f \in [0 .. k -> Somewhere] : IsCourse(d, k, f)}
<1>1. 0 \in Good
  <2> DEFINE e == [i \in 0 .. 0 |-> "ground"]
  <2>1. e \in [0 .. 0 -> Somewhere]
    BY DEF Somewhere
  <2>2. e = [k \in 0 .. 0 |-> IF k = 0 THEN "ground" ELSE TerminalStep(e[k - 1], d[k])]
    OBVIOUS
  <2> HIDE DEF e
  <2>3. IsCourse(d, 0, e)
    BY <2>2 DEF IsCourse
  <2>4. 0 \in 0 .. N
    OBVIOUS
  <2>5. QED
    BY <2>1, <2>3, <2>4
<1>2. ASSUME NEW k \in 0 .. N - 1, k \in Good PROVE k + 1 \in Good
  <2>1. PICK f \in [0 .. k -> Somewhere] : IsCourse(d, k, f)
    BY <1>2
  <2>2. k \in Nat /\ k + 1 \in 0 .. N /\ k \in 0 .. k /\ k + 1 # 0 /\ (k + 1) - 1 = k
    OBVIOUS
  <2> DEFINE new == TerminalStep(f[k], d[k + 1])
             g == [i \in 0 .. k + 1 |-> IF i = k + 1 THEN new ELSE f[i]]
  <2>3. new \in Somewhere
    BY DEF TerminalStep, Somewhere
  <2>4. \A i \in 0 .. k : f[i] = IF i = 0 THEN "ground" ELSE TerminalStep(f[i - 1], d[i])
    BY <2>1 DEF IsCourse
  <2> HIDE DEF new
  <2>5. \A i \in 0 .. k + 1 : i # k + 1 => i \in 0 .. k
    BY <2>2
  <2>6. g \in [0 .. k + 1 -> Somewhere]
    BY <2>3, <2>5
  <2>7. g[k] = f[k] /\ g[k + 1] = new
    BY <2>2
  <2>8. ASSUME NEW i \in 0 .. k + 1 PROVE g[i] = IF i = 0 THEN "ground" ELSE TerminalStep(g[i - 1], d[i])
    <3>1. CASE i = k + 1
      BY <2>2, <2>7, <3>1 DEF new
    <3>2. CASE i # k + 1
      <4>1. i \in 0 .. k /\ (i # 0 => i - 1 \in 0 .. k /\ i - 1 # k + 1 /\ i - 1 \in 0 .. k + 1)
        BY <2>2, <3>2
      <4>2. g[i] = f[i] /\ (i # 0 => g[i - 1] = f[i - 1])
        BY <3>2, <4>1
      <4> HIDE DEF g
      <4>3. QED
        BY <2>4, <4>1, <4>2
    <3>3. QED
      BY <3>1, <3>2
  <2>9. IsCourse(d, k + 1, g)
    <3>1. g = [i \in 0 .. k + 1 |-> g[i]]
      BY <2>6
    <3> HIDE DEF g
    <3>2. [i \in 0 .. k + 1 |-> g[i]] = [i \in 0 .. k + 1 |-> IF i = 0 THEN "ground" ELSE TerminalStep(g[i - 1], d[i])]
      BY <2>8
    <3>3. QED
      BY <3>1, <3>2 DEF IsCourse
  <2> HIDE DEF g
  <2>10. QED
    BY <2>2, <2>6, <2>9
<1>3. N \in Good
  <2>1. \A k \in 0 .. N : k \in Good
    <3> HIDE DEF Good
    <3>1. QED
      BY <1>1, <1>2, UpTo
  <2>2. N \in 0 .. N
    OBVIOUS
  <2> HIDE DEF Good
  <2>3. QED
    BY <2>1, <2>2
<1>4. QED
  BY <1>3

\* step by step,
LEMMA CourseIs ==
  ASSUME NEW d, NEW N \in Nat, NEW f, IsCourse(d, N, f)
  PROVE  f[0] = "ground" /\ \A k \in 1 .. N : f[k] = TerminalStep(f[k - 1], d[k])
<1>1. \A k \in 0 .. N : f[k] = IF k = 0 THEN "ground" ELSE TerminalStep(f[k - 1], d[k])
  BY DEF IsCourse
<1>2. 0 \in 0 .. N /\ \A k \in 1 .. N : k \in 0 .. N /\ k # 0
  OBVIOUS
<1>3. QED
  BY <1>1, <1>2

\* and does not depend on what follows.
LEMMA CourseAgrees ==
  ASSUME NEW d, NEW e, NEW n \in Nat, NEW m \in Nat, n <= m, \A i \in 1 .. n : d[i] = e[i],
         NEW f, IsCourse(d, n, f), NEW g, IsCourse(e, m, g)
  PROVE  \A i \in 0 .. n : f[i] = g[i]
<1> DEFINE Same == {k \in 0 .. n : f[k] = g[k]}
<1>1. f[0] = "ground" /\ \A k \in 1 .. n : f[k] = TerminalStep(f[k - 1], d[k])
  BY CourseIs
<1>2. g[0] = "ground" /\ \A k \in 1 .. m : g[k] = TerminalStep(g[k - 1], e[k])
  BY CourseIs
<1>3. 0 \in Same
  BY <1>1, <1>2
<1>4. ASSUME NEW k \in 0 .. n - 1, k \in Same PROVE k + 1 \in Same
  <2>1. k + 1 \in 1 .. n /\ k + 1 \in 1 .. m /\ k + 1 \in 0 .. n /\ (k + 1) - 1 = k
    OBVIOUS
  <2>2. f[k + 1] = TerminalStep(f[k], d[k + 1]) /\ g[k + 1] = TerminalStep(g[k], e[k + 1])
    BY <1>1, <1>2, <2>1
  <2>3. f[k] = g[k] /\ d[k + 1] = e[k + 1]
    BY <1>4, <2>1
  <2>4. QED
    BY <2>1, <2>2, <2>3
<1>5. \A k \in 0 .. n : k \in Same
  <2> HIDE DEF Same
  <2>1. QED
    BY <1>3, <1>4, UpTo
<1>6. QED
  BY <1>5

\* A prefix ends outside of a sequence where the terminal is on the ground.
LEMMA GroundedIs ==
  ASSUME NEW d \in Text, NEW f, IsCourse(d, Len(d), f), NEW m \in 0 .. Len(d)
  PROVE  Grounded(Upto(d, m)) <=> f[m] = "ground"
<1> DEFINE p == Upto(d, m)
           h == CHOOSE g : g = [n \in 0 .. Len(p) |-> IF n = 0 THEN "ground" ELSE TerminalStep(g[n - 1], p[n])]
<1>1. Len(d) \in Nat /\ m \in Nat /\ m <= Len(d) /\ m \in 0 .. m
  BY LengthOfText
<1>2. p \in Text /\ Len(p) = m /\ \A i \in 1 .. m : p[i] = d[i]
  BY UptoIs
<1>3. Grounded(p) <=> h[Len(p)] = "ground"
  BY DEF Grounded
<1> HIDE DEF p
<1>4. PICK g : IsCourse(p, Len(p), g)
  BY <1>1, <1>2, CourseExists
<1>5. IsCourse(p, Len(p), h)
  BY <1>4 DEF IsCourse
<1> HIDE DEF h
<1>6. IsCourse(p, m, h)
  BY <1>2, <1>5
<1>7. \A i \in 0 .. m : h[i] = f[i]
  <2> DEFINE len == Len(d)
  <2>1. /\ len \in Nat /\ m \in Nat /\ m <= len /\ IsCourse(d, len, f)
        /\ \A i \in 1 .. m : p[i] = d[i]
    BY <1>1, <1>2
  <2> HIDE DEF len
  <2>2. QED
    BY <1>6, <2>1, CourseAgrees, SMTT(60)
<1>8. h[m] = f[m]
  BY <1>1, <1>7
<1>9. QED
  BY <1>2, <1>3, <1>8 DEF p

\* As long as a place is not left, the terminal stays there.
LEMMA CourseStays ==
  ASSUME NEW d \in Text, NEW f, IsCourse(d, Len(d), f)
  PROVE  \A n \in 0 .. Len(d) : \A j \in n .. Len(d) : \A s \in Somewhere :
           f[n] = s /\ (\A k \in n + 1 .. j : TerminalStep(s, d[k]) = s) => f[j] = s
<1> SUFFICES ASSUME NEW n \in 0 .. Len(d), NEW j \in n .. Len(d), NEW s \in Somewhere, f[n] = s,
                    \A k \in n + 1 .. j : TerminalStep(s, d[k]) = s
             PROVE  f[j] = s
  OBVIOUS
<1> DEFINE N == Len(d)
           len == j - n
           Same == {k \in 0 .. len : f[n + k] = s}
<1>0. N \in Nat /\ IsCourse(d, N, f) /\ n \in 0 .. N /\ j \in n .. N
  BY LengthOfText
<1> HIDE DEF N
<1>1. f[0] = "ground" /\ \A k \in 1 .. N : f[k] = TerminalStep(f[k - 1], d[k])
  BY <1>0, CourseIs
<1>2. len \in Nat /\ n + len = j /\ n + 0 = n
  BY <1>0
<1>3. 0 \in Same
  BY <1>2
<1>4. ASSUME NEW k \in 0 .. len - 1, k \in Same PROVE k + 1 \in Same
  <2>1. /\ k + 1 \in 0 .. len /\ n + (k + 1) \in 1 .. N /\ n + (k + 1) \in n + 1 .. j
        /\ (n + (k + 1)) - 1 = n + k
    BY <1>0
  <2>2. f[n + (k + 1)] = TerminalStep(f[n + k], d[n + (k + 1)]) /\ f[n + k] = s
    BY <1>1, <1>4, <2>1
  <2>3. TerminalStep(s, d[n + (k + 1)]) = s
    BY <2>1
  <2>4. QED
    BY <2>1, <2>2, <2>3
<1>5. \A k \in 0 .. len : k \in Same
  <2> HIDE DEF Same, len
  <2>1. QED
    BY <1>2, <1>3, <1>4, UpTo
<1>6. len \in 0 .. len
  BY <1>2
<1>7. f[n + len] = s
  BY <1>5, <1>6
<1>8. QED
  BY <1>2, <1>7


-----------------------------------------------------------------------------
(* Sequences that are closed, and open ones.                                 *)

\* Closed, of what begins at e.
ClosedAt(d, e) ==
  /\ e < Len(d)
  /\ d[e + 1] = "[" => \E k \in e + 2 .. Len(d) : d[k] \in CsiFinal /\ \A j \in e + 2 .. k - 1 : d[j] \in CsiInner
  /\ d[e + 1] = "]" => \E k \in e + 2 .. Len(d) : d[k] = "B" \/ (d[k] = "E" /\ k < Len(d) /\ d[k + 1] = "S")

LEMMA ClosedIs ==
  ASSUME NEW d \in Text, NEW e \in 1 .. Len(d)
  PROVE  Closed(From(d, e)) <=> ClosedAt(d, e)
<1> DEFINE s == From(d, e)
           m == e - 1
           n == Len(d)
           l == Len(s)
           Csi(k) == s[k] \in CsiFinal /\ \A j \in 3 .. k - 1 : s[j] \in CsiInner
           CsiAt(k) == d[k] \in CsiFinal /\ \A j \in e + 2 .. k - 1 : d[j] \in CsiInner
           Osc(k) == s[k] = "B" \/ (s[k] = "E" /\ k < l /\ s[k + 1] = "S")
           OscAt(k) == d[k] = "B" \/ (d[k] = "E" /\ k < n /\ d[k + 1] = "S")
<1>1. n \in Nat /\ m \in Nat /\ e = m + 1 /\ l = n - m /\ \A i \in 1 .. l : s[i] = d[m + i]
  <2>1. n \in Nat /\ d \in Seq(Symbol) /\ e \in 1 .. Len(d) + 1
    BY LengthOfText DEF Text
  <2>2. Len(From(d, e)) = Len(d) - e + 1 /\ \A i \in 1 .. Len(d) - e + 1 : From(d, e)[i] = d[e + i - 1]
    BY <2>1, FromIs
  <2>3. m \in Nat /\ e = m + 1 /\ n - e + 1 = n - m /\ \A i \in 1 .. n - m : e + i - 1 = m + i
    BY <2>1
  <2>4. QED
    BY <2>1, <2>2, <2>3
<1>2. Closed(s) <=> l > 1 /\ (s[2] = "[" => \E k \in 3 .. l : Csi(k)) /\ (s[2] = "]" => \E k \in 3 .. l : Osc(k))
  BY DEF Closed
<1>3. ClosedAt(d, e) <=> /\ e < n
                         /\ d[e + 1] = "[" => \E k \in e + 2 .. n : CsiAt(k)
                         /\ d[e + 1] = "]" => \E k \in e + 2 .. n : OscAt(k)
  BY DEF ClosedAt
<1> HIDE DEF s, l, m, n
<1>4. (l > 1 <=> e < n) /\ (l > 1 => s[2] = d[e + 1])
  <2>1. l > 1 => 2 \in 1 .. l /\ m + 2 = e + 1
    BY <1>1
  <2>2. QED
    BY <1>1, <2>1
<1>5. ASSUME NEW k \in 3 .. l
      PROVE  m + k \in e + 2 .. n /\ (Csi(k) <=> CsiAt(m + k)) /\ (Osc(k) <=> OscAt(m + k))
  <2>1. /\ m + k \in e + 2 .. n /\ k \in 1 .. l /\ (k < l <=> m + k < n)
        /\ k < l => k + 1 \in 1 .. l /\ m + (k + 1) = (m + k) + 1
    BY <1>1
  <2>2. s[k] = d[m + k] /\ (k < l => s[k + 1] = d[(m + k) + 1])
    BY <1>1, <2>1
  <2>3. \A j \in 3 .. k - 1 : j \in 1 .. l /\ m + j \in e + 2 .. (m + k) - 1
    BY <1>1
  <2>4. \A j \in e + 2 .. (m + k) - 1 : j - m \in 3 .. k - 1 /\ j - m \in 1 .. l /\ m + (j - m) = j
    BY <1>1
  <2>5. (\A j \in 3 .. k - 1 : s[j] \in CsiInner) => \A j \in e + 2 .. (m + k) - 1 : d[j] \in CsiInner
    <3>1. ASSUME \A j \in 3 .. k - 1 : s[j] \in CsiInner, NEW j \in e + 2 .. (m + k) - 1 PROVE d[j] \in CsiInner
      BY <1>1, <2>4, <3>1
    <3>2. QED
      BY <3>1
  <2>6. (\A j \in e + 2 .. (m + k) - 1 : d[j] \in CsiInner) => \A j \in 3 .. k - 1 : s[j] \in CsiInner
    <3>1. ASSUME \A j \in e + 2 .. (m + k) - 1 : d[j] \in CsiInner, NEW j \in 3 .. k - 1 PROVE s[j] \in CsiInner
      BY <1>1, <2>3, <3>1
    <3>2. QED
      BY <3>1
  <2>7. QED
    BY <2>1, <2>2, <2>5, <2>6
<1>6. ASSUME NEW k \in e + 2 .. n PROVE \E i \in 3 .. l : k = m + i
  <2>1. k - m \in 3 .. l /\ k = m + (k - m)
    BY <1>1
  <2>2. QED
    BY <2>1
<1> HIDE DEF Csi, CsiAt, Osc, OscAt
<1>7. (\E k \in 3 .. l : Csi(k)) <=> \E k \in e + 2 .. n : CsiAt(k)
  BY <1>5, <1>6
<1>8. (\E k \in 3 .. l : Osc(k)) <=> \E k \in e + 2 .. n : OscAt(k)
  BY <1>5, <1>6
<1>9. Closed(s) <=> ClosedAt(d, e)
  BY <1>2, <1>3, <1>4, <1>7, <1>8
<1>10. QED
  BY <1>9 DEF s

\* The first of a range that is something.
LEMMA FirstOf ==
  ASSUME NEW m \in Nat, NEW n \in Nat, NEW S, NEW k \in m .. n, k \in S
  PROVE  \E i \in m .. n : i \in S /\ \A j \in m .. i - 1 : j \notin S
<1> DEFINE R == {i \in m .. n : i \in S}
           i == Least(R)
<1>1. R \subseteq Nat /\ R # {}
  OBVIOUS
<1>2. i \in R /\ \A j \in R : i <= j
  <2> HIDE DEF R
  <2>1. QED
    BY <1>1, LeastExists
<1> HIDE DEF i
<1>3. ASSUME NEW j \in m .. i - 1, j \in S PROVE FALSE
  <2>1. j \in R /\ ~(i <= j)
    BY <1>2, <1>3
  <2>2. QED
    BY <1>2, <2>1
<1>4. QED
  BY <1>2, <1>3

\* Behind an ESC the terminal has begun a sequence,
LEMMA AfterEscape ==
  ASSUME NEW d \in Text, NEW f, IsCourse(d, Len(d), f)
  PROVE  \A e \in 1 .. Len(d) : d[e] = "E" =>
           /\ f[e] \in {"esc", "string esc"}
           /\ e + 1 <= Len(d) /\ d[e + 1] = "[" => f[e + 1] = "csi"
           /\ e + 1 <= Len(d) /\ d[e + 1] = "]" => f[e + 1] = "string"
           /\ e + 1 <= Len(d) /\ d[e + 1] \notin {"E", "[", "]"} => f[e + 1] = "ground"
<1> SUFFICES ASSUME NEW e \in 1 .. Len(d), d[e] = "E"
             PROVE  /\ f[e] \in {"esc", "string esc"}
                    /\ e + 1 <= Len(d) /\ d[e + 1] = "[" => f[e + 1] = "csi"
                    /\ e + 1 <= Len(d) /\ d[e + 1] = "]" => f[e + 1] = "string"
                    /\ e + 1 <= Len(d) /\ d[e + 1] \notin {"E", "[", "]"} => f[e + 1] = "ground"
  OBVIOUS
<1>1. \A k \in 1 .. Len(d) : f[k] = TerminalStep(f[k - 1], d[k])
  BY LengthOfText, CourseIs
<1>2. f[e] \in {"esc", "string esc"}
  BY <1>1 DEF TerminalStep
<1>3. e + 1 <= Len(d) => e + 1 \in 1 .. Len(d) /\ (e + 1) - 1 = e
  BY LengthOfText
<1>4. e + 1 <= Len(d) => f[e + 1] = TerminalStep(f[e], d[e + 1])
  BY <1>1, <1>3
<1>5. QED
  BY <1>2, <1>4 DEF TerminalStep

\* and is in it to the next one, when it is not closed,
LEMMA OpenIs ==
  ASSUME NEW d \in Text, Orderly(d), NEW f, IsCourse(d, Len(d), f),
         NEW e \in Escapes(d), ~Closed(From(d, e)),
         NEW j \in e .. Len(d), \A i \in e + 1 .. j : d[i] # "E"
  PROVE  f[j] # "ground"
<1> DEFINE N == Len(d)
<1>1. N \in Nat /\ e \in 1 .. N /\ d[e] = "E" /\ DOMAIN d = 1 .. N
  BY LengthOfText, LenProperties DEF Escapes, Text
<1>2. ~ClosedAt(d, e)
  BY <1>1, ClosedIs
<1>3. IsCourse(d, N, f)
  OBVIOUS
<1>4. /\ e < N => /\ d[e + 1] # "E"
                  /\ d[e + 1] = "[" =>
                       \A k \in e + 2 .. N :
                         (\A i \in e + 2 .. k - 1 : d[i] \in CsiInner) => d[k] \in CsiInner \cup CsiFinal \cup {"E"}
  BY DEF Orderly
<1>5. e >= N \/ (d[e + 1] = "[" /\ ~\E k \in e + 2 .. N : d[k] \in CsiFinal /\ \A i \in e + 2 .. k - 1 : d[i] \in CsiInner)
             \/ (d[e + 1] = "]" /\ ~\E k \in e + 2 .. N : d[k] = "B")
  BY <1>1, <1>2 DEF ClosedAt
<1>6. /\ f[e] \in {"esc", "string esc"}
      /\ e + 1 <= N /\ d[e + 1] = "[" => f[e + 1] = "csi"
      /\ e + 1 <= N /\ d[e + 1] = "]" => f[e + 1] = "string"
  BY <1>1, AfterEscape
<1> HIDE DEF N
<1>7. j \in e .. N /\ N = Len(d)
  BY DEF N
<1>8. CASE j = e
  BY <1>6, <1>8
<1>9. CASE j # e
  <2>1. e < N /\ e + 1 <= N /\ e + 1 \in 0 .. N /\ j \in e + 1 .. N
    BY <1>1, <1>7, <1>9
  <2>2. CASE d[e + 1] = "["
    <3>1. f[e + 1] = "csi"
      BY <1>6, <2>1, <2>2
    <3>2. \A k \in e + 2 .. N : ~(d[k] \in CsiFinal /\ \A i \in e + 2 .. k - 1 : d[i] \in CsiInner)
      BY <1>1, <1>5, <2>1, <2>2
    <3>3. \A k \in e + 2 .. j : d[k] \in CsiInner
      <4> DEFINE Other == {i \in e + 2 .. j : d[i] \notin CsiInner}
      <4>1. ASSUME NEW k \in e + 2 .. j, k \in Other PROVE FALSE
        <5> HIDE DEF Other
        <5>1. PICK i \in e + 2 .. j : i \in Other /\ \A h \in e + 2 .. i - 1 : h \notin Other
          <6>1. e + 2 \in Nat /\ j \in Nat
            BY <1>1, <2>1
          <6>2. QED
            BY <4>1, <6>1, FirstOf
        <5>2. d[i] \notin CsiInner /\ i \in e + 2 .. N /\ i \in e + 1 .. j
          BY <1>1, <2>1, <5>1 DEF Other
        <5>3. \A h \in e + 2 .. i - 1 : d[h] \in CsiInner
          <6>1. \A h \in e + 2 .. i - 1 : h \in e + 2 .. j
            BY <1>1, <2>1
          <6>2. QED
            BY <5>1, <6>1 DEF Other
        <5>4. d[i] \in CsiInner \cup CsiFinal \cup {"E"}
          BY <1>4, <2>1, <2>2, <5>2, <5>3
        <5>5. d[i] \in CsiFinal
          BY <5>2, <5>4
        <5>6. QED
          BY <3>2, <5>2, <5>3, <5>5
      <4>2. QED
        BY <4>1
    <3>4. \A k \in (e + 1) + 1 .. j : TerminalStep("csi", d[k]) = "csi"
      <4>1. \A k \in (e + 1) + 1 .. j : k \in e + 2 .. j
        BY <1>1, <2>1
      <4>2. QED
        BY <3>3, <4>1 DEF TerminalStep, CsiInner
    <3>5. f[j] = "csi"
      BY <1>1, <1>7, <2>1, <3>1, <3>4, CourseStays DEF Somewhere
    <3>6. QED
      BY <3>5
  <2>3. CASE d[e + 1] = "]"
    <3>1. f[e + 1] = "string"
      BY <1>6, <2>1, <2>3
    <3>2. \A k \in e + 2 .. N : d[k] # "B"
      BY <1>1, <1>5, <2>1, <2>3
    <3>3. \A k \in (e + 1) + 1 .. j : TerminalStep("string", d[k]) = "string"
      <4>1. \A k \in (e + 1) + 1 .. j : k \in e + 2 .. N /\ k \in e + 1 .. j
        BY <1>1, <2>1
      <4>2. QED
        BY <3>2, <4>1 DEF TerminalStep
    <3>4. f[j] = "string"
      BY <1>1, <1>7, <2>1, <3>1, <3>3, CourseStays DEF Somewhere
    <3>5. QED
      BY <3>4
  <2>4. QED
    BY <1>1, <1>5, <2>1, <2>2, <2>3
<1>10. QED
  BY <1>8, <1>9

\* On the ground the terminal stays until the next ESC.
LEMMA StaysGround ==
  ASSUME NEW d \in Text, NEW f, IsCourse(d, Len(d), f)
  PROVE  \A n \in 0 .. Len(d) : \A j \in n .. Len(d) :
           f[n] = "ground" /\ (\A k \in n + 1 .. j : d[k] # "E") => f[j] = "ground"
<1> SUFFICES ASSUME NEW n \in 0 .. Len(d), NEW j \in n .. Len(d), f[n] = "ground", \A k \in n + 1 .. j : d[k] # "E"
             PROVE  f[j] = "ground"
  OBVIOUS
<1>1. \A k \in n + 1 .. j : TerminalStep("ground", d[k]) = "ground"
  BY DEF TerminalStep
<1>2. QED
  BY <1>1, CourseStays DEF Somewhere

\* Behind a sequence that is closed it is on the ground, at the latest when the
\* ESC that follows, and what follows that, has ended a string.
LEMMA ClosedThen ==
  ASSUME NEW d \in Text, Orderly(d), NEW f, IsCourse(d, Len(d), f),
         NEW e \in Escapes(d), Closed(From(d, e)),
         NEW j \in e + 1 .. Len(d), \A i \in e + 1 .. j : d[i] # "E", j = Len(d) \/ d[j + 1] = "E"
  PROVE  f[j] = "ground" \/ (j + 2 <= Len(d) /\ d[j + 1] = "E" /\ d[j + 2] = "S")
<1> DEFINE N == Len(d)
<1>1. N \in Nat /\ e \in 1 .. N /\ d[e] = "E" /\ DOMAIN d = 1 .. N
  BY LengthOfText, LenProperties DEF Escapes, Text
<1>2. ClosedAt(d, e)
  BY <1>1, ClosedIs
<1>3. IsCourse(d, N, f)
  OBVIOUS
<1>4. d[e + 1] = "]" =>
        \A k \in e + 2 .. N - 1 :
          d[k] = "E" /\ (\A i \in e + 2 .. k - 1 : d[i] \notin {"B", "E"}) => d[k + 1] = "S"
  BY <1>2 DEF Orderly, ClosedAt
<1>5. /\ d[e + 1] = "[" => \E k \in e + 2 .. N : d[k] \in CsiFinal /\ \A i \in e + 2 .. k - 1 : d[i] \in CsiInner
      /\ d[e + 1] = "]" => \E k \in e + 2 .. N : d[k] = "B" \/ (d[k] = "E" /\ k < N /\ d[k + 1] = "S")
  BY <1>2 DEF ClosedAt
<1>0. N = Len(d)
  OBVIOUS
<1> HIDE DEF N
<1>6. j \in e + 1 .. N /\ e + 1 <= N /\ e + 1 \in 0 .. N /\ (j = N \/ d[j + 1] = "E") /\ d[e + 1] # "E" /\ j \in Nat
  <2>1. j \in e + 1 .. N /\ (j = N \/ d[j + 1] = "E")
    BY DEF N
  <2>2. e + 1 <= N /\ e + 1 \in 0 .. N /\ e + 1 \in e + 1 .. j /\ j \in Nat
    BY <1>1, <2>1
  <2>3. QED
    BY <2>1, <2>2
<1>7. /\ d[e + 1] = "[" => f[e + 1] = "csi"
      /\ d[e + 1] = "]" => f[e + 1] = "string"
      /\ d[e + 1] \notin {"[", "]"} => f[e + 1] = "ground"
  <2>1. e \in 1 .. Len(d) /\ d[e] = "E"
    BY <1>0, <1>1
  <2>2. /\ e + 1 <= Len(d) /\ d[e + 1] = "[" => f[e + 1] = "csi"
        /\ e + 1 <= Len(d) /\ d[e + 1] = "]" => f[e + 1] = "string"
        /\ e + 1 <= Len(d) /\ d[e + 1] \notin {"E", "[", "]"} => f[e + 1] = "ground"
    BY <2>1, AfterEscape
  <2>3. QED
    BY <1>0, <1>6, <2>2
<1>8. \A k \in 1 .. N : f[k] = TerminalStep(f[k - 1], d[k])
  BY <1>1, <1>3, CourseIs
<1>9. ASSUME NEW n \in e + 1 .. j, f[n] = "ground" PROVE f[j] = "ground"
  <2>1. n \in 0 .. N /\ j \in n .. N /\ \A k \in n + 1 .. j : d[k] # "E"
    BY <1>1, <1>6, <1>9
  <2>2. QED
    BY <1>0, <1>9, <2>1, StaysGround
<1>10. CASE d[e + 1] \notin {"[", "]"}
  BY <1>1, <1>6, <1>7, <1>9, <1>10
<1>11. CASE d[e + 1] = "["
  <2>1. PICK k \in e + 2 .. N : d[k] \in CsiFinal /\ \A i \in e + 2 .. k - 1 : d[i] \in CsiInner
    BY <1>5, <1>11
  <2>2. k <= j
    <3>1. ASSUME j < k PROVE FALSE
      <4>1. d[j + 1] = "E" /\ j + 1 \in e + 2 .. k
        BY <1>1, <1>6, <2>1, <3>1
      <4>2. d[j + 1] \in CsiFinal \/ d[j + 1] \in CsiInner
        <5>1. j + 1 = k \/ j + 1 \in e + 2 .. k - 1
          BY <1>1, <2>1, <4>1
        <5>2. QED
          BY <2>1, <5>1
      <4>3. QED
        BY <4>1, <4>2 DEF CsiFinal, CsiInner
    <3>2. QED
      BY <1>1, <1>6, <2>1, <3>1
  <2>3. /\ k - 1 \in e + 1 .. N /\ k \in 1 .. N /\ k \in e + 1 .. j
        /\ \A i \in (e + 1) + 1 .. k - 1 : i \in e + 2 .. k - 1
    BY <1>1, <1>6, <2>1, <2>2
  <2>4. \A i \in (e + 1) + 1 .. k - 1 : TerminalStep("csi", d[i]) = "csi"
    BY <2>1, <2>3 DEF TerminalStep, CsiInner
  <2>5. f[k - 1] = "csi"
    <3>1. e + 1 \in 0 .. N /\ k - 1 \in e + 1 .. N /\ f[e + 1] = "csi"
      BY <1>6, <1>7, <1>11, <2>3
    <3> DEFINE from == e + 1
               to == k - 1
    <3>2. /\ from \in 0 .. Len(d) /\ to \in from .. Len(d) /\ f[from] = "csi"
          /\ \A i \in from + 1 .. to : TerminalStep("csi", d[i]) = "csi"
      BY <1>0, <1>1, <2>4, <3>1
    <3> HIDE DEF from, to
    <3>3. f[to] = "csi"
      BY <3>2, CourseStays DEF Somewhere
    <3>4. QED
      BY <3>3 DEF to
  <2>6. f[k] = "ground"
    BY <1>8, <2>1, <2>3, <2>5 DEF TerminalStep, CsiFinal, CsiInner
  <2>7. QED
    BY <1>9, <2>3, <2>6
<1>12. CASE d[e + 1] = "]"
  <2>1. \A k \in e + 2 .. j : d[k] # "E"
    BY <1>1, <1>6
  <2>2. ASSUME NEW h \in e + 1 .. j, \A k \in e + 2 .. h : d[k] # "B" PROVE f[h] = "string"
    <3>1. e + 1 \in 0 .. N /\ h \in e + 1 .. N /\ f[e + 1] = "string"
      BY <1>1, <1>6, <1>7, <1>12
    <3>2. \A k \in (e + 1) + 1 .. h : k \in e + 2 .. h /\ k \in e + 2 .. j
      BY <1>1, <1>6
    <3>3. \A k \in (e + 1) + 1 .. h : TerminalStep("string", d[k]) = "string"
      BY <2>1, <2>2, <3>2 DEF TerminalStep
    <3> DEFINE from == e + 1
    <3>4. /\ from \in 0 .. Len(d) /\ h \in from .. Len(d) /\ f[from] = "string"
          /\ \A i \in from + 1 .. h : TerminalStep("string", d[i]) = "string"
      BY <1>0, <1>1, <3>1, <3>3
    <3> HIDE DEF from
    <3>5. QED
      BY <3>4, CourseStays DEF Somewhere
  <2>3. CASE \E k \in e + 2 .. j : d[k] = "B"
    <3> DEFINE Bells == {k \in e + 2 .. j : d[k] = "B"}
    <3>1. PICK k \in e + 2 .. j : k \in Bells /\ \A i \in e + 2 .. k - 1 : i \notin Bells
      <4>1. PICK k \in e + 2 .. j : k \in Bells
        BY <2>3
      <4>2. e + 2 \in Nat /\ j \in Nat
        BY <1>1, <1>6
      <4> HIDE DEF Bells
      <4>3. QED
        BY <4>1, <4>2, FirstOf
    <3>2. /\ d[k] = "B" /\ k - 1 \in e + 1 .. j /\ k \in 1 .. N /\ k \in e + 1 .. j
          /\ \A i \in e + 2 .. k - 1 : i \in e + 2 .. j
      BY <1>1, <1>6, <3>1
    <3>3. \A i \in e + 2 .. k - 1 : d[i] # "B"
      BY <3>1, <3>2
    <3>4. f[k - 1] = "string"
      BY <2>2, <3>2, <3>3
    <3>5. f[k] = "ground"
      BY <1>8, <3>2, <3>4 DEF TerminalStep
    <3>6. QED
      BY <1>9, <3>2, <3>5
  <2>4. CASE \A k \in e + 2 .. j : d[k] # "B"
    <3>1. PICK k \in e + 2 .. N : d[k] = "B" \/ (d[k] = "E" /\ k < N /\ d[k + 1] = "S")
      BY <1>5, <1>12
    <3>2. j < k
      BY <1>1, <1>6, <2>1, <2>4, <3>1
    <3>3. d[j + 1] = "E" /\ j + 1 \in e + 2 .. N /\ j + 2 = (j + 1) + 1
      BY <1>1, <1>6, <3>1, <3>2
    <3>4. j + 1 \in e + 2 .. N - 1
      <4>1. CASE k = j + 1
        BY <1>1, <1>6, <3>1, <3>3, <4>1
      <4>2. CASE k # j + 1
        BY <1>1, <1>6, <3>1, <3>2, <3>3, <4>2
      <4>3. QED
        BY <4>1, <4>2
    <3>5. \A i \in e + 2 .. (j + 1) - 1 : d[i] \notin {"B", "E"}
      <4>1. \A i \in e + 2 .. (j + 1) - 1 : i \in e + 2 .. j
        BY <1>1, <1>6
      <4>2. QED
        BY <2>1, <2>4, <4>1
    <3>6. d[(j + 1) + 1] = "S"
      BY <1>4, <1>12, <3>3, <3>4, <3>5
    <3>7. j + 2 <= N
      BY <1>1, <1>6, <3>4
    <3>8. QED
      BY <3>3, <3>6, <3>7 DEF N
  <2>5. QED
    BY <2>3, <2>4
<1>13. QED
  BY <1>10, <1>11, <1>12

-----------------------------------------------------------------------------
(* Trimming.                                                                 *)

\* The last ESC of a prefix, if there is one.
LEMMA LastEscape ==
  ASSUME NEW d \in Text, NEW m \in 0 .. Len(d)
  PROVE  \/ \A i \in 1 .. m : d[i] # "E"
         \/ \E e \in Escapes(d) : e \in 1 .. m /\ \A i \in e + 1 .. m : d[i] # "E"
<1> DEFINE S == {k \in 0 .. Len(d) : k \in 1 .. m /\ d[k] = "E"}
           e == Greatest(S)
<1>1. Len(d) \in Nat /\ DOMAIN d = 1 .. Len(d)
  BY LengthOfText, LenProperties DEF Text
<1>2. CASE S = {}
  <2>1. ASSUME NEW i \in 1 .. m, d[i] = "E" PROVE FALSE
    <3>1. i \in 0 .. Len(d)
      BY <1>1
    <3>2. QED
      BY <1>2, <2>1, <3>1
  <2>2. QED
    BY <2>1
<1>3. CASE S # {}
  <2>1. e \in S /\ \A k \in S : k <= e
    <3>1. S \subseteq 0 .. Len(d)
      OBVIOUS
    <3> HIDE DEF S
    <3>2. QED
      BY <1>1, <1>3, <3>1, GreatestExists
  <2> HIDE DEF e
  <2>2. e \in Escapes(d) /\ e \in 1 .. m
    BY <1>1, <2>1 DEF Escapes
  <2>3. ASSUME NEW i \in e + 1 .. m, d[i] = "E" PROVE FALSE
    <3>1. i \in 0 .. Len(d) /\ i \in 1 .. m /\ ~(i <= e)
      BY <1>1, <2>2
    <3>2. QED
      BY <2>1, <2>3, <3>1
  <2>4. QED
    BY <2>2, <2>3
<1>4. QED
  BY <1>2, <1>3

\* Trimming leaves the longest prefix after which the terminal is on the ground.
LEMMA TrimIs ==
  ASSUME NEW d \in Text, Orderly(d), NEW f, IsCourse(d, Len(d), f)
  PROVE  \E n \in 0 .. Len(d) :
           /\ Trim(d) = Upto(d, n) /\ f[n] = "ground"
           /\ \A m \in n + 1 .. Len(d) : f[m] # "ground"
<1> DEFINE N == Len(d)
           n == IF Dangling(d) = {} THEN N ELSE Least(Dangling(d)) - 1
<1>1. N \in Nat /\ DOMAIN d = 1 .. N
  BY LengthOfText, LenProperties DEF Text
<1>2. Escapes(d) \subseteq 1 .. N /\ \A k \in 1 .. N : k \in Escapes(d) <=> d[k] = "E"
  BY <1>1 DEF Escapes
<1>3. \A k \in Dangling(d) : k \in Escapes(d) /\ \A j \in Escapes(d) : k <= j => ~Closed(From(d, j))
  BY DEF Dangling
<1>4. \A k \in Escapes(d) : (\A j \in Escapes(d) : k <= j => ~Closed(From(d, j))) => k \in Dangling(d)
  BY DEF Dangling
<1>5. n \in 0 .. N /\ Trim(d) = Upto(d, n)
  <2>1. CASE Dangling(d) = {}
    <3>1. Trim(d) = d /\ n = N /\ n \in 0 .. N
      BY <1>1, <2>1 DEF Trim
    <3>2. QED
      BY <3>1, UptoAll
  <2>2. CASE Dangling(d) # {}
    <3>1. Dangling(d) \subseteq Nat
      BY <1>1, <1>2, <1>3
    <3>2. Least(Dangling(d)) \in Dangling(d)
      BY <2>2, <3>1, LeastExists
    <3>3. Least(Dangling(d)) \in 1 .. N
      BY <1>2, <1>3, <3>2
    <3>4. n = Least(Dangling(d)) - 1 /\ Trim(d) = Upto(d, n)
      BY <2>2 DEF Trim
    <3> HIDE DEF n
    <3>5. QED
      BY <1>1, <3>3, <3>4
  <2>3. QED
    BY <2>1, <2>2
<1>6. n = N \/ (n + 1 \in Dangling(d) /\ n + 1 \in Escapes(d) /\ d[n + 1] = "E")
  <2>1. CASE Dangling(d) # {}
    <3>1. Dangling(d) \subseteq Nat
      BY <1>1, <1>2, <1>3
    <3>2. Least(Dangling(d)) \in Dangling(d) /\ Least(Dangling(d)) \in Nat
      BY <2>1, <3>1, LeastExists
    <3>3. n = Least(Dangling(d)) - 1
      BY <2>1
    <3> HIDE DEF n
    <3>4. n + 1 = Least(Dangling(d))
      BY <3>2, <3>3
    <3>5. QED
      BY <1>2, <1>3, <3>2, <3>4
  <2>2. QED
    BY <2>1
<1>7. \A k \in Dangling(d) : n + 1 <= k
  <2>1. ASSUME NEW k \in Dangling(d) PROVE n + 1 <= k
    <3>1. Dangling(d) # {} /\ Dangling(d) \subseteq Nat
      BY <1>1, <1>2, <1>3
    <3>2. Least(Dangling(d)) \in Nat /\ Least(Dangling(d)) <= k /\ k \in Nat
      BY <3>1, LeastExists
    <3>3. n = Least(Dangling(d)) - 1
      BY <3>1
    <3> HIDE DEF n
    <3>4. QED
      BY <3>2, <3>3
  <2>2. QED
    BY <2>1
<1> HIDE DEF n
<1>8. \A k \in Escapes(d) : n + 1 <= k => ~Closed(From(d, k))
  <2>1. ASSUME NEW k \in Escapes(d), n + 1 <= k PROVE ~Closed(From(d, k))
    <3>1. k \in 1 .. N
      BY <1>2
    <3> HIDE DEF N
    <3>2. n # N
      BY <1>1, <1>5, <2>1, <3>1
    <3>3. QED
      BY <1>3, <1>6, <2>1, <3>2
  <2>2. QED
    BY <2>1
<1>9. IsCourse(d, N, f)
  OBVIOUS
<1>10. f[n] = "ground"
  <2>1. n \in 0 .. Len(d)
    BY <1>5
  <2>2. CASE \A i \in 1 .. n : d[i] # "E"
    <3> DEFINE zero == 0
    <3>1. f[zero] = "ground"
      BY <1>1, <1>9, CourseIs
    <3>2. zero \in 0 .. N /\ n \in zero .. N /\ \A k \in zero + 1 .. n : d[k] # "E"
      BY <1>1, <1>5, <2>2
    <3> HIDE DEF zero
    <3>3. QED
      BY <3>1, <3>2, StaysGround
  <2>3. CASE \E e \in Escapes(d) : e \in 1 .. n /\ \A i \in e + 1 .. n : d[i] # "E"
    <3>1. PICK e \in Escapes(d) : e \in 1 .. n /\ \A i \in e + 1 .. n : d[i] # "E"
      BY <2>3
    <3>2. e \in 1 .. N /\ d[e] = "E" /\ e \in 1 .. n
      BY <1>2, <3>1
    <3>3. Closed(From(d, e))
      <4>1. ~(n + 1 <= e)
        BY <1>1, <1>5, <3>2
      <4>2. e \notin Dangling(d)
        BY <1>7, <4>1
      <4>3. PICK j \in Escapes(d) : e <= j /\ Closed(From(d, j))
        BY <1>4, <4>2
      <4>4. ~(n + 1 <= j) /\ j \in 1 .. N /\ d[j] = "E"
        BY <1>2, <1>8, <4>3
      <4>5. j = e
        <5>1. CASE j # e
          <6>1. j \in e + 1 .. n
            BY <1>1, <1>5, <3>2, <4>3, <4>4, <5>1
          <6>2. QED
            BY <3>1, <4>4, <6>1
        <5>2. QED
          BY <5>1
      <4>6. QED
        BY <4>3, <4>5
    <3>4. ClosedAt(d, e)
      BY <3>2, <3>3, ClosedIs
    <3>5. e < N /\ d[e + 1] # "E"
      BY <3>1, <3>4 DEF ClosedAt, Orderly
    <3>6. n # e
      BY <1>6, <3>5
    <3>7. n \in e + 1 .. N
      BY <1>1, <1>5, <3>2, <3>6
    <3>8. f[n] = "ground" \/ (n + 2 <= N /\ d[n + 1] = "E" /\ d[n + 2] = "S")
      <4>1. n \in e + 1 .. Len(d) /\ (n = Len(d) \/ d[n + 1] = "E") /\ \A i \in e + 1 .. n : d[i] # "E"
        BY <1>6, <3>1, <3>7
      <4>2. QED
        BY <3>3, <4>1, ClosedThen
    <3>9. CASE n + 2 <= N /\ d[n + 1] = "E" /\ d[n + 2] = "S"
      <4>1. n + 1 \in 1 .. N /\ n + 1 < N /\ (n + 1) + 1 = n + 2
        BY <1>1, <1>5, <3>9
      <4>2. ClosedAt(d, n + 1)
        BY <3>9, <4>1 DEF ClosedAt
      <4> DEFINE e2 == n + 1
      <4>3. e2 \in 1 .. Len(d) /\ ClosedAt(d, e2)
        BY <4>1, <4>2
      <4> HIDE DEF e2
      <4>4. Closed(From(d, e2))
        BY <4>3, ClosedIs
      <4>5. e2 \in Escapes(d) /\ n + 1 <= e2
        BY <1>2, <1>5, <3>9, <4>1 DEF e2
      <4>6. QED
        BY <1>8, <4>4, <4>5
    <3>10. QED
      BY <3>8, <3>9
  <2>4. QED
    BY <2>1, <2>2, <2>3, LastEscape
<1>11. ASSUME NEW m \in n + 1 .. N PROVE f[m] # "ground"
  <2>1. m \in 0 .. N /\ n + 1 \in 1 .. m /\ n # N /\ n \in Nat /\ m \in Nat
    <3> HIDE DEF N
    <3>1. QED
      BY <1>1, <1>5
  <2>2. d[n + 1] = "E"
    BY <1>6, <2>1
  <2>3. PICK e \in Escapes(d) : e \in 1 .. m /\ \A i \in e + 1 .. m : d[i] # "E"
    BY <2>1, <2>2, LastEscape
  <2>4. n + 1 <= e /\ m \in e .. N
    <3>1. ~(n + 1 \in e + 1 .. m)
      BY <2>2, <2>3
    <3>2. e \in 1 .. m
      BY <2>3
    <3> HIDE DEF N
    <3>3. QED
      BY <1>1, <2>1, <3>1, <3>2
  <2>5. ~Closed(From(d, e))
    BY <1>8, <2>4
  <2>6. QED
    BY <2>3, <2>4, <2>5, OpenIs
<1>12. QED
  BY <1>5, <1>10, <1>11

\* A prefix of what is orderly is orderly.
LEMMA OrderlyUpto ==
  ASSUME NEW d \in Text, Orderly(d), NEW n \in 0 .. Len(d)
  PROVE  Orderly(Upto(d, n))
<1> DEFINE p == Upto(d, n)
           N == Len(d)
<1>1. N \in Nat /\ DOMAIN d = 1 .. N /\ n \in Nat /\ n <= N
  BY LengthOfText, LenProperties DEF Text
<1>2. p \in Text /\ Len(p) = n /\ \A i \in 1 .. n : p[i] = d[i]
  BY UptoIs
<1>3. DOMAIN p = 1 .. n
  <2> HIDE DEF p
  <2>1. QED
    BY <1>2, LenProperties DEF Text
<1> HIDE DEF p
<1>4. ASSUME NEW i \in Escapes(p), i < Len(p)
      PROVE  /\ p[i + 1] # "E"
             /\ p[i + 1] = "[" =>
                  \A k \in i + 2 .. Len(p) :
                    (\A j \in i + 2 .. k - 1 : p[j] \in CsiInner) => p[k] \in CsiInner \cup CsiFinal \cup {"E"}
             /\ p[i + 1] = "]" =>
                  \A k \in i + 2 .. Len(p) - 1 :
                    p[k] = "E" /\ (\A j \in i + 2 .. k - 1 : p[j] \notin {"B", "E"}) => p[k + 1] = "S"
  <2>1. i \in 1 .. n /\ i < n /\ p[i] = "E"
    BY <1>2, <1>3, <1>4 DEF Escapes
  <2>2. i \in 1 .. N /\ i < N /\ i + 1 \in 1 .. n /\ i \in Nat
    <3> HIDE DEF N
    <3>1. QED
      BY <1>1, <2>1
  <2>3. d[i] = "E" /\ d[i + 1] = p[i + 1] /\ i \in Escapes(d)
    BY <1>1, <1>2, <2>1, <2>2 DEF Escapes
  <2>4. /\ d[i + 1] # "E"
        /\ d[i + 1] = "[" =>
             \A k \in i + 2 .. N :
               (\A j \in i + 2 .. k - 1 : d[j] \in CsiInner) => d[k] \in CsiInner \cup CsiFinal \cup {"E"}
        /\ d[i + 1] = "]" =>
             \A k \in i + 2 .. N - 1 :
               d[k] = "E" /\ (\A j \in i + 2 .. k - 1 : d[j] \notin {"B", "E"}) => d[k + 1] = "S"
    BY <2>2, <2>3 DEF Orderly
  <2> HIDE DEF N
  <2>5. ASSUME NEW k \in i + 2 .. n
        PROVE  k \in i + 2 .. N /\ p[k] = d[k] /\ \A j \in i + 2 .. k - 1 : p[j] = d[j]
    <3>1. k \in i + 2 .. N /\ k \in 1 .. n /\ \A j \in i + 2 .. k - 1 : j \in 1 .. n
      BY <1>1, <2>2
    <3>2. QED
      BY <1>2, <3>1
  <2>6. ASSUME p[i + 1] = "[", NEW k \in i + 2 .. n, \A j \in i + 2 .. k - 1 : p[j] \in CsiInner
        PROVE  p[k] \in CsiInner \cup CsiFinal \cup {"E"}
    <3>1. k \in i + 2 .. N /\ \A j \in i + 2 .. k - 1 : d[j] \in CsiInner
      BY <2>5, <2>6
    <3>2. d[k] \in CsiInner \cup CsiFinal \cup {"E"}
      BY <2>3, <2>4, <2>6, <3>1
    <3>3. QED
      BY <2>5, <3>2
  <2>7. ASSUME p[i + 1] = "]", NEW k \in i + 2 .. n - 1,
               p[k] = "E", \A j \in i + 2 .. k - 1 : p[j] \notin {"B", "E"}
        PROVE  p[k + 1] = "S"
    <3>1. k \in i + 2 .. n /\ k + 1 \in i + 2 .. n /\ k \in i + 2 .. N - 1
      BY <1>1, <2>2
    <3>2. d[k] = "E" /\ \A j \in i + 2 .. k - 1 : d[j] \notin {"B", "E"}
      BY <2>5, <2>7, <3>1
    <3>3. d[k + 1] = "S"
      BY <2>3, <2>4, <2>7, <3>1, <3>2
    <3>4. p[k + 1] = d[k + 1]
      BY <2>5, <3>1
    <3>5. QED
      BY <3>3, <3>4
  <2>8. QED
    BY <1>2, <2>3, <2>4, <2>6, <2>7
<1>5. Orderly(p)
  BY <1>4 DEF Orderly
<1>6. QED
  BY <1>5 DEF p

-----------------------------------------------------------------------------
(* The bound.                                                                *)

\* Searched and trimmed, an orderly text is the longest prefix that leaves the
\* terminal outside of a sequence and fits with the reset.
LEMMA KeptIs ==
  ASSUME NEW d \in Text, Orderly(d), NEW max \in Int, ~PrefixFits(d, Len(d), max)
  PROVE  \E n \in 0 .. Len(d) :
           /\ Trim(Upto(d, Search(d, max))) = Upto(d, n) /\ Grounded(Upto(d, n))
           /\ PrefixFits(d, n, max) \/ ~PrefixFits(d, 0, max)
           /\ \A m \in n + 1 .. Len(d) : ~Usable(d, m, max)
<1> DEFINE N == Len(d)
           s == Search(d, max)
           p == Upto(d, s)
<1>1. /\ N \in Nat /\ s \in 0 .. N /\ s \in Nat
      /\ s = 0 \/ PrefixFits(d, s, max)
      /\ \A m \in s + 1 .. N : ~PrefixFits(d, m, max)
  BY LengthOfText, SearchIs
<1> HIDE DEF s
<1>2. p \in Text /\ Len(p) = s /\ Orderly(p)
  BY <1>1, UptoIs, OrderlyUpto
<1>3. \A m \in 0 .. s : Upto(p, m) = Upto(d, m)
  BY <1>1, UptoUpto
<1> HIDE DEF p
<1>4. PICK g : IsCourse(p, Len(p), g)
  BY <1>1, <1>2, CourseExists
<1>5. PICK n \in 0 .. Len(p) : /\ Trim(p) = Upto(p, n) /\ g[n] = "ground"
                               /\ \A m \in n + 1 .. Len(p) : g[m] # "ground"
  BY <1>2, <1>4, TrimIs
<1>6. \A m \in 0 .. s : Grounded(Upto(d, m)) <=> g[m] = "ground"
  <2>1. \A m \in 0 .. Len(p) : Grounded(Upto(p, m)) <=> g[m] = "ground"
    BY <1>2, <1>4, GroundedIs
  <2>2. QED
    BY <1>2, <1>3, <2>1
<1>7. n \in 0 .. s /\ n \in 0 .. N /\ n \in Nat
  <2>1. n \in 0 .. s
    BY <1>2
  <2> HIDE DEF N
  <2>2. QED
    BY <1>1, <2>1
<1>8. Trim(p) = Upto(d, n) /\ Grounded(Upto(d, n))
  BY <1>3, <1>5, <1>6, <1>7
<1>9. PrefixFits(d, n, max) \/ ~PrefixFits(d, 0, max)
  <2>1. CASE s = 0
    <3>1. n = 0
      BY <1>7, <2>1
    <3>2. QED
      BY <3>1
  <2>2. CASE PrefixFits(d, s, max)
    <3>1. s \in 0 .. Len(d) /\ n \in 0 .. s
      BY <1>1, <1>7
    <3>2. QED
      BY <2>2, <3>1, FitsShorter
  <2>3. QED
    BY <1>1, <2>1, <2>2
<1>10. ASSUME NEW m \in n + 1 .. N PROVE ~Usable(d, m, max)
  <2>1. m \in 0 .. s \/ m \in s + 1 .. N
    <3> HIDE DEF N
    <3>1. QED
      BY <1>1, <1>7
  <2>2. CASE m \in 0 .. s
    <3>1. m \in n + 1 .. s
      <4> HIDE DEF N
      <4>1. QED
        BY <1>1, <1>7, <2>2
    <3>2. g[m] # "ground"
      BY <1>2, <1>5, <3>1
    <3>3. QED
      BY <1>6, <2>2, <3>2 DEF Usable
  <2>3. CASE m \in s + 1 .. N
    BY <1>1, <2>3 DEF Usable
  <2>4. QED
    BY <2>1, <2>2, <2>3
<1>11. QED
  BY <1>7, <1>8, <1>9, <1>10 DEF p, s

\* docs/render-protocol.md, 9.1.1, of every snapshot of orderly data and any limit:
\* the limit holds, the terminal is left outside of a sequence, and no more is
\* dropped than has to be (snapshot.rs, bound_for_list).
THEOREM ListBounded ==
  ASSUME NEW d \in Text, NEW pending \in Text, NEW max \in Int, Orderly(d)
  PROVE  BoundedWell(Snapshot(d, pending), max)
<1> DEFINE e == <<>>
           full == Snapshot(d, pending)
           bare == Snapshot(d, e)
           cut == Trim(Upto(d, Search(d, max)))
           kept == Snapshot(cut \o Reset, e)
           got == BoundForList(full, max)
<1>1. e \in Text /\ full.data = d
  BY Nothing, SizeOfSnapshot
<1>2. full # NoSnapshot /\ bare # NoSnapshot
  BY <1>1, SizeOfSnapshot
<1>3. got = IF SerializedLen(full) <= max THEN full
            ELSE IF SerializedLen(bare) <= max THEN bare
            ELSE IF SerializedLen(kept) <= max THEN kept
            ELSE NoSnapshot
  BY <1>1 DEF BoundForList, Snapshot
<1> DEFINE sizeOfFull == SerializedLen(full)
           sizeOfBare == SerializedLen(bare)
           Longest == \E n \in 0 .. Len(d) :
                        /\ got = Snapshot(Upto(d, n) \o Reset, e) /\ Grounded(Upto(d, n))
                        /\ \A m \in n + 1 .. Len(d) : ~Usable(d, m, max)
           NothingFits == ~PrefixFits(d, 0, max)
           Enough == IF got = NoSnapshot THEN NothingFits /\ sizeOfBare > max
                     ELSE /\ SerializedLen(got) <= max
                          /\ \/ got = full
                             \/ got = bare /\ sizeOfFull > max
                             \/ sizeOfBare > max /\ Longest
<1>4. Enough => BoundedWell(full, max)
  BY <1>1 DEF BoundedWell
<1>5. SerializedLen(full) \in Int /\ SerializedLen(bare) \in Int
  BY <1>1, SizeOfSnapshot, ListAssumption
<1> SUFFICES BoundedWell(full, max)
  OBVIOUS
<1> HIDE DEF got, full, Longest, NothingFits
<1>6. CASE SerializedLen(full) <= max
  <2>1. got = full
    BY <1>3, <1>6
  <2>2. QED
    BY <1>2, <1>4, <1>6, <2>1
<1>7. CASE ~(SerializedLen(full) <= max) /\ SerializedLen(bare) <= max
  <2> HIDE DEF bare
  <2>1. got = bare
    BY <1>3, <1>7
  <2>2. SerializedLen(full) > max
    BY <1>5, <1>7
  <2>3. QED
    BY <1>2, <1>4, <1>7, <2>1, <2>2
<1>8. CASE ~(SerializedLen(full) <= max) /\ ~(SerializedLen(bare) <= max)
  <2>1. ~PrefixFits(d, Len(d), max)
    <3>1. Len(d) \in 0 .. Len(d) /\ Upto(d, Len(d)) = d
      BY LengthOfText, UptoAll
    <3>2. CASE PrefixFits(d, Len(d), max)
      <4>1. SerializedLen(Snapshot(Upto(d, Len(d)), <<>>)) <= max
        BY <3>1, <3>2, FitsShorter
      <4>2. QED
        BY <1>8, <3>1, <4>1
    <3>3. QED
      BY <3>2
  <2>2. PICK n \in 0 .. Len(d) : /\ cut = Upto(d, n) /\ Grounded(Upto(d, n))
                                 /\ PrefixFits(d, n, max) \/ ~PrefixFits(d, 0, max)
                                 /\ \A m \in n + 1 .. Len(d) : ~Usable(d, m, max)
    BY <2>1, KeptIs
  <2>3. kept = Snapshot(Upto(d, n) \o Reset, e) /\ (SerializedLen(kept) <= max <=> PrefixFits(d, n, max))
    BY <2>2 DEF PrefixFits
  <2>4. kept # NoSnapshot
    <3>1. Upto(d, n) \in Text
      BY UptoIs
    <3> HIDE DEF e
    <3>2. Upto(d, n) \o Reset \in Text
      BY <3>1, ResetType, TextConcat
    <3>3. QED
      BY <1>1, <2>3, <3>2, SizeOfSnapshot
  <2> HIDE DEF kept, bare, e
  <2>5. SerializedLen(bare) > max
    BY <1>5, <1>8
  <2>6. CASE SerializedLen(kept) <= max
    <3>1. got = kept
      BY <1>3, <1>8, <2>6
    <3>2. Longest
      BY <2>2, <2>3, <3>1 DEF Longest
    <3>3. QED
      BY <1>4, <2>4, <2>5, <2>6, <3>1, <3>2
  <2>7. CASE ~(SerializedLen(kept) <= max)
    <3>1. got = NoSnapshot
      BY <1>3, <1>8, <2>7
    <3>2. NothingFits
      BY <2>2, <2>3, <2>7 DEF NothingFits
    <3>3. QED
      BY <1>4, <2>5, <3>1, <3>2
  <2>8. QED
    BY <2>6, <2>7
<1>9. QED
  BY <1>6, <1>7, <1>8

\* The same of every screen that was drawn in one go and looked at.
THEOREM ListStaysBounded == Spec => []ListIsBounded
<1>1. IInv => ListIsBounded
  <2> SUFFICES ASSUME IInv PROVE ListIsBounded
    OBVIOUS
  <2>1. visible \in Text
    BY DEF IInv, TypeOK
  <2>2. <<>> \in Text /\ <<"a", "a">> \in Text
    BY Nothing, Symbols, TwoSymbols
  <2>3. \A max \in 0 .. Meta + Width(visible) + 2 : max \in Int
    OBVIOUS
  <2>4. QED
    BY <2>1, <2>2, <2>3, ListBounded DEF ListIsBounded
<1>2. QED
  BY <1>1, Invariance, PTL
=============================================================================
