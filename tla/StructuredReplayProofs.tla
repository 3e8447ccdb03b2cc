------------------------ MODULE StructuredReplayProofs ------------------------
(* What TLAPS proves about StructuredReplay, for every value of its constants. *)
EXTENDS StructuredReplay, SequenceTheorems, FiniteSetTheorems, WellFoundedInduction, TLAPS

-----------------------------------------------------------------------------
(* The invariant. *)

\* Who is connected how, and where a page may be.
IsEvent(q, s, j) == q[j].event = "stream" /\ q[j].stream = s
IsPage(q, j) == q[j].event = "page"
LinkInv ==
  /\ conn # "authed" => queue = <<>> /\ answer = NoAnswer
  /\ conn = "open" => client = "ask" /\ early = [s \in Streams |-> {}]
  /\ client = "off" => conn = "closed" /\ early = [s \in Streams |-> {}] /\ ~exitSeen
  /\ \A j \in DOMAIN queue : IsPage(queue, j) => client = "wait" /\ answer = NoAnswer
  /\ \A i, j \in DOMAIN queue : IsPage(queue, i) /\ IsPage(queue, j) => i = j
  /\ answer # NoAnswer => client = "wait"

\* A page on its way continues what the client has, or starts over.
Fits(page, s) ==
  /\ Len(page.chunks) <= page.next /\ page.next <= log[s].seq
  /\ \A k \in 1 .. Len(page.chunks) : page.chunks[k].seq = page.next - Len(page.chunks) + k
  /\ ~page.reset => page.next - Len(page.chunks) = cursor[s]
OnTheirWay == {answer[k] : k \in DOMAIN answer} \cup {queue[j].page : j \in {i \in DOMAIN queue : IsPage(queue, i)}}
PageInv == \A page \in OnTheirWay, s \in Streams : Fits(page[s], s)

\* The events of a stream in a queue: each number after the first up to the last, in order.
Carries(q, s, e, last) ==
  /\ \A j \in DOMAIN q : IsEvent(q, s, j) => q[j].seq \in e + 1 .. last
  /\ \A n \in e + 1 .. last : \E j \in DOMAIN q : IsEvent(q, s, j) /\ q[j].seq = n
  /\ \A i, j \in DOMAIN q : i < j /\ IsEvent(q, s, i) /\ IsEvent(q, s, j) => q[i].seq < q[j].seq

\* What an authenticated client was sent of a stream: from the first number after lo
\* up to e it has it, after that up to the last announced it is in the queue.  A
\* complete page reaches to lo or beyond.
Announced(s) == IF reader[s] = "publish" THEN log[s].seq - 1 ELSE log[s].seq
Sent(s, lo, e) ==
  /\ lo <= e /\ e <= Announced(s)
  /\ IF client = "live" THEN early[s] = {} /\ e <= cursor[s] ELSE early[s] = lo + 1 .. e
  /\ Carries(queue, s, e, Announced(s))
  /\ \A page \in OnTheirWay : page[s].complete => page[s].next >= lo
SentInv == conn = "authed" => \A s \in Streams : \E lo, e \in 0 .. log[s].seq : Sent(s, lo, e)

CursorInv(s) == base[s] <= cursor[s] /\ cursor[s] <= log[s].seq

\* Nothing of the run comes after its exit.
ExitInv ==
  /\ status # "running" => \A s \in Streams : reader[s] = "done"
  /\ \A s \in Streams : reader[s] = "publish" => log[s].seq > 0
  /\ exitSeen => status = "published"
  /\ exitSeen /\ conn = "authed" => \A s \in Streams, j \in DOMAIN queue : ~IsEvent(queue, s, j)
  /\ \A i \in DOMAIN queue : queue[i].event = "exit" =>
       /\ status = "published"
       /\ \A s \in Streams, j \in DOMAIN queue : i < j => ~IsEvent(queue, s, j)

IInv ==
  /\ TypeOK /\ LinkInv /\ PageInv /\ SentInv /\ ExitInv
  /\ \A s \in Streams : CursorInv(s)
  /\ NoGap /\ ExitIsLast /\ AnswersMoveOn

-----------------------------------------------------------------------------
(* Least and greatest numbers of a set: induction by the least counterexample. *)

LEMMA Least ==
  ASSUME NEW S, S \subseteq Nat, S # {}
  PROVE  \E n \in S : \A m \in S : n <= m
<1>1. PICK x \in S : \A y \in S : ~(<<y, x>> \in OpToRel(<, Nat))
  BY NatLessThanWellFounded, WFMin
<1>2. \A y \in S : ~(y < x)
  BY <1>1 DEF OpToRel
<1>3. QED
  BY <1>2

LEMMA GreatestUpTo ==
  ASSUME NEW N \in Nat, NEW S, S \subseteq 0 .. N, S # {}
  PROVE  \E n \in S : \A m \in S : m <= n
<1> DEFINE T == {N - m : m \in S}
<1>1. T \subseteq Nat /\ T # {}
  <2>1. \A m \in 0 .. N : N - m \in Nat
    OBVIOUS
  <2>2. PICK m \in S : TRUE
    OBVIOUS
  <2>3. N - m \in T
    OBVIOUS
  <2>4. QED
    BY <2>1, <2>3
<1>2. PICK t \in T : \A u \in T : t <= u
  BY <1>1, Least
<1>3. PICK n \in S : t = N - n
  OBVIOUS
<1>4. ASSUME NEW m \in S PROVE m <= n
  <2>1. t <= N - m
    BY <1>2
  <2>2. QED
    BY <1>3, <2>1
<1>5. QED
  BY <1>4

-----------------------------------------------------------------------------
(* Bytes: its recursion has a solution, and one only. *)

IsSum(chunks, N, f) == f = [n \in 0 .. N |-> IF n = 0 THEN 0 ELSE f[n - 1] + chunks[n].len]

LEMMA ChunkTypes ==
  ASSUME NEW chunks \in Seq(Chunks)
  PROVE  /\ Len(chunks) \in Nat /\ DOMAIN chunks = 1 .. Len(chunks)
         /\ \A k \in 1 .. Len(chunks) :
              chunks[k] \in Chunks /\ chunks[k].seq \in Nat /\ chunks[k].len \in Nat /\ chunks[k].len <= PageMin
<1>1. Len(chunks) \in Nat /\ DOMAIN chunks = 1 .. Len(chunks)
  BY LenProperties
<1>2. \A k \in 1 .. Len(chunks) : chunks[k] \in Chunks
  BY ElementOfSeq
<1>3. \A x \in Lengths : x \in Nat /\ x <= PageMin
  BY ReplayAssumption
<1>4. QED
  BY <1>1, <1>2, <1>3 DEF Chunks

LEMMA SumExists ==
  ASSUME NEW chunks \in Seq(Chunks), NEW M \in 0 .. Len(chunks)
  PROVE  \E f \in [0 .. M -> Nat] : IsSum(chunks, M, f)
<1> DEFINE Bad == {N \in Nat : N <= Len(chunks) /\ ~ \E f \in [0 .. N -> Nat] : IsSum(chunks, N, f)}
<1>1. Len(chunks) \in Nat
  BY ChunkTypes
<1>2. SUFFICES ASSUME Bad # {} PROVE FALSE
  BY <1>1
<1>3. PICK N \in Bad : \A m \in Bad : N <= m
  BY <1>2, Least
<1>4. CASE N = 0
  <2>1. [n \in 0 .. 0 |-> 0] \in [0 .. 0 -> Nat] /\ IsSum(chunks, 0, [n \in 0 .. 0 |-> 0])
    BY DEF IsSum
  <2>2. QED
    BY <1>4, <2>1
<1>5. CASE N # 0
  <2>1. N - 1 \in Nat /\ N - 1 <= Len(chunks) /\ N - 1 \notin Bad /\ N \in 1 .. Len(chunks)
    <3>1. N \in Nat /\ N <= Len(chunks)
      OBVIOUS
    <3>2. ~(N <= N - 1)
      BY <3>1
    <3>3. N - 1 \notin Bad
      <4> HIDE DEF Bad
      <4> QED
        BY <1>3, <3>2
    <3>4. QED
      BY <1>1, <1>5, <3>1, <3>3
  <2>2. PICK f \in [0 .. N - 1 -> Nat] : IsSum(chunks, N - 1, f)
    BY <2>1
  <2>3. chunks[N].len \in Nat /\ f[N - 1] \in Nat
    BY <2>1, <2>2, ChunkTypes
  <2> DEFINE g == [n \in 0 .. N |-> IF n = N THEN f[N - 1] + chunks[N].len ELSE f[n]]
  <2>4. g \in [0 .. N -> Nat]
    BY <2>3
  <2>5. ASSUME NEW n \in 0 .. N PROVE g[n] = IF n = 0 THEN 0 ELSE g[n - 1] + chunks[n].len
    <3>1. CASE n = N
      BY <1>5, <2>1, <3>1
    <3>2. CASE n # N
      <4>1. n \in 0 .. N - 1 /\ g[n] = f[n]
        BY <3>2
      <4>2. f[n] = IF n = 0 THEN 0 ELSE f[n - 1] + chunks[n].len
        BY <2>2, <4>1 DEF IsSum
      <4>3. n # 0 => g[n - 1] = f[n - 1]
        BY <4>1
      <4>4. QED
        BY <4>1, <4>2, <4>3
    <3>3. QED
      BY <3>1, <3>2
  <2>6. IsSum(chunks, N, g)
    <3>1. g = [n \in 0 .. N |-> g[n]]
      OBVIOUS
    <3> HIDE DEF g
    <3>2. QED
      BY <2>5, <3>1 DEF IsSum
  <2>7. QED
    BY <2>4, <2>6
<1>6. QED
  BY <1>4, <1>5

LEMMA SumUnique ==
  ASSUME NEW chunks, NEW N \in Nat, NEW f, NEW g, IsSum(chunks, N, f), IsSum(chunks, N, g)
  PROVE  f = g
<1> DEFINE Bad == {n \in 0 .. N : f[n] # g[n]}
<1>1. \A n \in 0 .. N : /\ f[n] = IF n = 0 THEN 0 ELSE f[n - 1] + chunks[n].len
                        /\ g[n] = IF n = 0 THEN 0 ELSE g[n - 1] + chunks[n].len
  BY DEF IsSum
<1>2. f = [n \in 0 .. N |-> f[n]] /\ g = [n \in 0 .. N |-> g[n]]
  BY DEF IsSum
<1>3. Bad = {}
  <2>1. SUFFICES ASSUME Bad # {} PROVE FALSE
    OBVIOUS
  <2>2. PICK n \in Bad : \A m \in Bad : n <= m
    <3>1. Bad \subseteq Nat
      OBVIOUS
    <3> HIDE DEF Bad
    <3>2. QED
      BY <2>1, <3>1, Least
  <2>3. CASE n = 0
    BY <1>1, <2>2, <2>3
  <2>4. CASE n # 0
    <3>1. n - 1 \in 0 .. N /\ n - 1 \notin Bad
      BY <2>2, <2>4
    <3>2. f[n - 1] = g[n - 1]
      BY <3>1
    <3>3. QED
      BY <1>1, <2>2, <2>4, <3>2
  <2>5. QED
    BY <2>3, <2>4
<1>4. \A n \in 0 .. N : f[n] = g[n]
  BY <1>3
<1>5. QED
  BY <1>2, <1>4

\* What Bytes computes, for no chunk, for one, and that it is a number.
LEMMA BytesIs ==
  ASSUME NEW chunks \in Seq(Chunks)
  PROVE  /\ Bytes(chunks) \in Nat
         /\ Len(chunks) = 0 => Bytes(chunks) = 0
         /\ Len(chunks) = 1 => Bytes(chunks) = chunks[1].len
<1>1. Len(chunks) \in Nat /\ (Len(chunks) = 1 => chunks[1].len \in Nat)
  BY ChunkTypes
<1>2. PICK f \in [0 .. Len(chunks) -> Nat] : IsSum(chunks, Len(chunks), f)
  BY <1>1, SumExists
<1>3. \A g : IsSum(chunks, Len(chunks), g) => g = f
  BY <1>1, <1>2, SumUnique
<1>4. Bytes(chunks) = f[Len(chunks)]
  BY <1>2, <1>3 DEF Bytes, IsSum
<1>5. \A n \in 0 .. Len(chunks) : f[n] = IF n = 0 THEN 0 ELSE f[n - 1] + chunks[n].len
  BY <1>2 DEF IsSum
<1>6. Bytes(chunks) \in Nat
  BY <1>1, <1>2, <1>4
<1>7. Len(chunks) = 0 => Bytes(chunks) = 0
  BY <1>1, <1>4, <1>5
<1>8. ASSUME Len(chunks) = 1 PROVE Bytes(chunks) = chunks[1].len
  <2>1. f[1] = f[0] + chunks[1].len /\ f[0] = 0
    BY <1>5, <1>8
  <2>2. QED
    BY <1>1, <1>4, <1>8, <2>1
<1>9. QED
  BY <1>6, <1>7, <1>8

-----------------------------------------------------------------------------
(* The log. *)

LEMMA EndOf ==
  ASSUME NEW chunks \in Seq(Chunks), NEW d \in 0 .. Len(chunks)
  PROVE  /\ SubSeq(chunks, d + 1, Len(chunks)) \in Seq(Chunks)
         /\ Len(SubSeq(chunks, d + 1, Len(chunks))) = Len(chunks) - d
         /\ \A k \in 1 .. Len(chunks) - d : SubSeq(chunks, d + 1, Len(chunks))[k] = chunks[d + k]
<1>1. Len(chunks) \in Nat /\ \A k \in d + 1 .. Len(chunks) : chunks[k] \in Chunks
  BY ChunkTypes
<1> DEFINE e == SubSeq(chunks, d + 1, Len(chunks))
<1>2. /\ e \in Seq(Chunks)
      /\ Len(e) = IF d + 1 <= Len(chunks) THEN Len(chunks) - (d + 1) + 1 ELSE 0
      /\ \A k \in 1 .. Len(chunks) - (d + 1) + 1 : e[k] = chunks[d + 1 + k - 1]
  <2>1. d + 1 \in Int /\ Len(chunks) \in Int
    BY <1>1
  <2>2. QED
    BY <1>1, <2>1, SubSeqProperties
<1> HIDE DEF e
<1>3. Len(e) = Len(chunks) - d
  BY <1>1, <1>2
<1>4. \A k \in 1 .. Len(chunks) - d : e[k] = chunks[d + k]
  <2>1. \A k \in 1 .. Len(chunks) - d : k \in 1 .. Len(chunks) - (d + 1) + 1 /\ d + 1 + k - 1 = d + k
    BY <1>1
  <2>2. QED
    BY <1>2, <2>1
<1>5. QED
  BY <1>2, <1>3, <1>4 DEF e

LEMMA StartOf ==
  ASSUME NEW chunks \in Seq(Chunks), NEW n \in 0 .. Len(chunks)
  PROVE  /\ SubSeq(chunks, 1, n) \in Seq(Chunks)
         /\ Len(SubSeq(chunks, 1, n)) = n
         /\ \A k \in 1 .. n : SubSeq(chunks, 1, n)[k] = chunks[k]
<1>1. Len(chunks) \in Nat /\ \A k \in 1 .. n : chunks[k] \in Chunks
  BY ChunkTypes
<1> DEFINE e == SubSeq(chunks, 1, n)
<1>2. /\ e \in Seq(Chunks)
      /\ Len(e) = IF 1 <= n THEN n - 1 + 1 ELSE 0
      /\ \A k \in 1 .. n - 1 + 1 : e[k] = chunks[1 + k - 1]
  BY <1>1, SubSeqProperties
<1> HIDE DEF e
<1>3. Len(e) = n
  BY <1>1, <1>2
<1>4. \A k \in 1 .. n : e[k] = chunks[k]
  BY <1>1, <1>2
<1>5. QED
  BY <1>2, <1>3, <1>4 DEF e

LEMMA RetainedEnd ==
  ASSUME NEW chunks \in Seq(Chunks)
  PROVE  /\ \E d \in 0 .. Len(chunks) : Retained(chunks) = SubSeq(chunks, d + 1, Len(chunks))
         /\ Bytes(Retained(chunks)) <= LogMax
<1> DEFINE fits == {n \in 0 .. Len(chunks) : Bytes(SubSeq(chunks, n + 1, Len(chunks))) <= LogMax}
           drop == CHOOSE n \in fits : \A m \in fits : n <= m
<1>1. Len(chunks) \in Nat
  BY ChunkTypes
<1>2. Len(chunks) \in fits
  <2>1. /\ SubSeq(chunks, Len(chunks) + 1, Len(chunks)) \in Seq(Chunks)
        /\ Len(SubSeq(chunks, Len(chunks) + 1, Len(chunks))) = 0
    BY <1>1, EndOf
  <2>2. Bytes(SubSeq(chunks, Len(chunks) + 1, Len(chunks))) = 0
    BY <2>1, BytesIs
  <2>3. QED
    BY <1>1, <2>2, ReplayAssumption
<1>3. \E n \in fits : \A m \in fits : n <= m
  <2>1. fits \subseteq Nat /\ fits # {}
    BY <1>2
  <2> HIDE DEF fits
  <2>2. QED
    BY <2>1, Least
<1>4. drop \in fits
  <2> HIDE DEF fits
  <2> QED
    BY <1>3
<1>5. Retained(chunks) = SubSeq(chunks, drop + 1, Len(chunks))
  BY DEF Retained
<1>6. QED
  BY <1>4, <1>5

\* append keeps the log what its fields say, and numbers the chunk.
LEMMA LogAppendOK ==
  ASSUME NEW l, LogOK(l), NEW len \in Lengths
  PROVE  LogOK(LogAppend(l, len)) /\ LogAppend(l, len).seq = l.seq + 1
<1> DEFINE c    == [seq |-> l.seq + 1, len |-> len]
           all  == Append(l.chunks, c)
           kept == Retained(all)
           new  == LogAppend(l, len)
<1>1. /\ l.chunks \in Seq(Chunks) /\ l.seq \in Nat /\ Len(l.chunks) \in Nat /\ Len(l.chunks) <= l.seq
      /\ \A k \in 1 .. Len(l.chunks) : l.chunks[k].seq = l.seq - Len(l.chunks) + k
      /\ l.truncated \in BOOLEAN /\ (l.truncated <=> Len(l.chunks) < l.seq)
  BY ChunkTypes DEF LogOK
<1>2. c \in Chunks /\ c.seq = l.seq + 1
  BY <1>1 DEF Chunks
<1>3. /\ all \in Seq(Chunks) /\ Len(all) = Len(l.chunks) + 1
      /\ \A k \in 1 .. Len(l.chunks) : all[k] = l.chunks[k]
      /\ all[Len(l.chunks) + 1] = c
  BY <1>1, <1>2, AppendProperties
<1>4. new = [chunks |-> kept, size |-> Bytes(kept), seq |-> l.seq + 1,
             truncated |-> l.truncated \/ kept # all]
  BY DEF LogAppend
<1> HIDE DEF c, all, new
<1>5. \A k \in 1 .. Len(all) : all[k].seq = l.seq + 1 - Len(all) + k
  <2>1. SUFFICES ASSUME NEW k \in 1 .. Len(all) PROVE all[k].seq = l.seq + 1 - Len(all) + k
    OBVIOUS
  <2>2. CASE k \in 1 .. Len(l.chunks)
    <3>1. all[k].seq = l.seq - Len(l.chunks) + k
      BY <1>1, <1>3, <2>2
    <3>2. QED
      BY <1>1, <1>3, <2>2, <3>1
  <2>3. CASE k = Len(l.chunks) + 1
    BY <1>1, <1>2, <1>3, <2>3
  <2>4. QED
    BY <1>1, <1>3, <2>2, <2>3
<1>6. PICK d \in 0 .. Len(all) : kept = SubSeq(all, d + 1, Len(all))
  BY <1>3, RetainedEnd
<1>7. /\ kept \in Seq(Chunks) /\ Len(kept) = Len(all) - d
      /\ \A k \in 1 .. Len(kept) : kept[k] = all[d + k]
  <2>1. /\ kept \in Seq(Chunks) /\ Len(kept) = Len(all) - d
        /\ \A k \in 1 .. Len(all) - d : kept[k] = all[d + k]
    <3> HIDE DEF kept
    <3>1. all \in Seq(Chunks)
      BY <1>3
    <3>2. QED
      BY <1>6, <3>1, EndOf
  <2>2. QED
    BY <2>1
<1>8. Bytes(kept) <= LogMax
  BY <1>3, RetainedEnd
<1>8a. Len(all) \in Nat /\ Len(kept) \in Nat
  BY <1>3, <1>7, ChunkTypes
<1> HIDE DEF kept
<1>9. \A k \in 1 .. Len(kept) : kept[k].seq = l.seq + 1 - Len(kept) + k
  <2>1. ASSUME NEW k \in 1 .. Len(kept) PROVE kept[k].seq = l.seq + 1 - Len(kept) + k
    <3>1. d + k \in 1 .. Len(all) /\ Len(all) \in Nat /\ k \in Int
      BY <1>1, <1>3, <1>7
    <3>2. kept[k].seq = l.seq + 1 - Len(all) + (d + k)
      BY <1>5, <1>7, <3>1
    <3>3. l.seq + 1 - Len(all) + (d + k) = l.seq + 1 - Len(kept) + k
      <4>1. Len(kept) = Len(all) - d /\ d \in Int
        BY <1>7
      <4>2. \A a, b, x, y \in Int : a + 1 - b + (x + y) = a + 1 - (b - x) + y
        OBVIOUS
      <4>3. l.seq \in Int /\ Len(all) \in Int /\ k \in Int
        BY <1>1, <1>8a, <3>1
      <4>4. QED
        BY <4>1, <4>2, <4>3
    <3>4. QED
      BY <3>2, <3>3
  <2>2. QED
    BY <2>1
<1>10. kept # all <=> Len(kept) < Len(all)
  <2>1. ASSUME d = 0 PROVE kept = all
    BY <1>3, <1>6, <2>1, SubSeqFull
  <2>2. QED
    BY <1>1, <1>3, <1>7, <2>1
<1>11. new.truncated <=> Len(kept) < l.seq + 1
  <2>1. Len(kept) <= Len(all) /\ Len(all) <= l.seq + 1
    BY <1>1, <1>3, <1>7, <1>8a
  <2>2. new.truncated = (l.truncated \/ kept # all)
    BY <1>4
  <2>3. l.truncated <=> Len(all) < l.seq + 1
    BY <1>1, <1>3
  <2>4. Len(kept) < l.seq + 1 <=> Len(kept) < Len(all) \/ Len(all) < l.seq + 1
    BY <1>1, <1>8a, <2>1
  <2>5. QED
    BY <1>10, <2>2, <2>3, <2>4
<1>12. Len(kept) <= l.seq + 1
  BY <1>1, <1>3, <1>7
<1>13. LogOK(new) /\ new.seq = l.seq + 1
  <2>1. new.chunks = kept /\ new.size = Bytes(kept) /\ new.seq = l.seq + 1 /\ new.truncated \in BOOLEAN
    BY <1>1, <1>4
  <2>2. l.seq + 1 \in Nat
    BY <1>1
  <2>3. \A k \in 1 .. Len(new.chunks) : new.chunks[k].seq = new.seq - Len(new.chunks) + k
    <3>1. SUFFICES ASSUME NEW k \in 1 .. Len(new.chunks)
                   PROVE  new.chunks[k].seq = new.seq - Len(new.chunks) + k
      OBVIOUS
    <3>2. new.chunks = kept /\ new.seq = l.seq + 1
      BY <2>1
    <3>3. k \in 1 .. Len(kept)
      BY <3>2
    <3>4. kept[k].seq = l.seq + 1 - Len(kept) + k
      BY <1>9, <3>3
    <3>5. \A a, b, c1 \in Int : a + 1 - b + c1 = (a + 1) - b + c1
      OBVIOUS
    <3>6. kept[k].seq = (l.seq + 1) - Len(kept) + k
      <4>1. l.seq \in Int /\ Len(kept) \in Int /\ k \in Int
        BY <1>1, <1>8a, <3>3
      <4>2. QED
        BY <3>4, <3>5, <4>1
    <3>7. QED
      BY <3>2, <3>6
  <2>4. new.chunks \in Seq(Chunks) /\ Len(new.chunks) <= new.seq /\ new.seq \in Nat
    BY <1>7, <1>12, <2>1, <2>2
  <2>5. new.size = Bytes(new.chunks) /\ new.size <= LogMax
    BY <1>8, <2>1
  <2>6. new.truncated <=> Len(new.chunks) < new.seq
    BY <1>11, <2>1
  <2>7. QED
    BY <2>1, <2>3, <2>4, <2>5, <2>6 DEF LogOK
<1>14. QED
  BY <1>13 DEF new

-----------------------------------------------------------------------------
(* Pages. *)

LEMMA FirstIs ==
  ASSUME NEW l, LogOK(l)
  PROVE  /\ First(l) - 1 = l.seq - Len(l.chunks)
         /\ First(l) - 1 \in Nat /\ First(l) \in Int /\ First(l) - 1 <= l.seq
<1>1. /\ l.chunks \in Seq(Chunks) /\ Len(l.chunks) \in Nat
      /\ l.seq \in Nat /\ Len(l.chunks) <= l.seq
      /\ \A k \in 1 .. Len(l.chunks) : l.chunks[k].seq = l.seq - Len(l.chunks) + k
  BY ChunkTypes DEF LogOK
<1>2. First(l) = l.seq - Len(l.chunks) + 1
  <2>1. CASE l.chunks = <<>>
    BY <1>1, <2>1 DEF First
  <2>2. CASE l.chunks # <<>>
    <3>1. Len(l.chunks) # 0
      BY <1>1, <2>2, EmptySeq
    <3>2. Head(l.chunks) = l.chunks[1] /\ 1 \in 1 .. Len(l.chunks)
      BY <1>1, <2>2, <3>1, HeadTailProperties
    <3>3. QED
      BY <1>1, <2>2, <3>2 DEF First
  <2>3. QED
    BY <2>1, <2>2
<1>3. QED
  BY <1>1, <1>2

\* In a log in order, the chunks up to a cursor are as many as its numbers say.
LEMMA SkipIs ==
  ASSUME NEW l, LogOK(l), NEW from \in First(l) - 1 .. l.seq
  PROVE  Cardinality({k \in DOMAIN l.chunks : l.chunks[k].seq <= from}) = from - (l.seq - Len(l.chunks))
<1> DEFINE gone == l.seq - Len(l.chunks)
<1>1. /\ Len(l.chunks) \in Nat /\ DOMAIN l.chunks = 1 .. Len(l.chunks)
      /\ l.seq \in Nat /\ Len(l.chunks) <= l.seq
      /\ \A k \in 1 .. Len(l.chunks) : l.chunks[k].seq = gone + k
      /\ First(l) - 1 = gone
  BY ChunkTypes, FirstIs DEF LogOK
<1>2. {k \in DOMAIN l.chunks : l.chunks[k].seq <= from} = 1 .. from - gone
  BY <1>1
<1>3. from - gone \in Nat
  BY <1>1
<1>4. Cardinality(1 .. from - gone) = from - gone
  BY <1>3, FS_Interval
<1>5. QED
  BY <1>2, <1>4

From(l, after) == IF Resets(l, after) THEN First(l) - 1 ELSE after

\* What a page is: as many chunks after its start as the budget pays for, and at least
\* one, if there is one, when the budget is a page's least.
LEMMA PageIs ==
  ASSUME NEW l, LogOK(l), NEW after \in Nat, NEW budget \in Nat
  PROVE  LET p == Page(l, after, budget)
         IN  /\ p \in Pages
             /\ p.reset = Resets(l, after)
             /\ p.next = From(l, after) + Len(p.chunks) /\ p.next <= l.seq
             /\ \A k \in 1 .. Len(p.chunks) : p.chunks[k].seq = From(l, after) + k
             /\ p.complete <=> p.next = l.seq
             /\ Bytes(p.chunks) <= budget
             /\ budget >= PageMin => p.chunks # <<>> \/ p.complete
<1> DEFINE from == From(l, after)
           gone == l.seq - Len(l.chunks)
           skip == Cardinality({k \in DOMAIN l.chunks : l.chunks[k].seq <= from})
           todo == SubSeq(l.chunks, skip + 1, Len(l.chunks))
           fits == {n \in 0 .. Len(todo) : Bytes(SubSeq(todo, 1, n)) <= budget}
           best == CHOOSE n \in fits : \A m \in fits : m <= n
           sent == SubSeq(todo, 1, best)
           next == IF sent = <<>> THEN from ELSE sent[Len(sent)].seq
           p == Page(l, after, budget)
<1>1. /\ l.chunks \in Seq(Chunks) /\ Len(l.chunks) \in Nat /\ l.seq \in Nat /\ Len(l.chunks) <= l.seq
      /\ \A k \in 1 .. Len(l.chunks) : l.chunks[k].seq = gone + k
      /\ First(l) - 1 = gone /\ First(l) \in Int
  BY ChunkTypes, FirstIs DEF LogOK
<1>2. from \in First(l) - 1 .. l.seq /\ from \in Nat
  BY <1>1 DEF From, Resets
<1>3. skip = from - gone
  BY <1>2, SkipIs
<1>4. p = [chunks |-> sent, next |-> next, complete |-> next = l.seq, reset |-> Resets(l, after)]
  BY DEF Page, From
<1> HIDE DEF p
<1>5. skip \in 0 .. Len(l.chunks)
  BY <1>1, <1>2, <1>3
<1>6. /\ todo \in Seq(Chunks) /\ Len(todo) = l.seq - from
      /\ \A k \in 1 .. Len(todo) : todo[k].seq = from + k
  <2> HIDE DEF skip
  <2>1. /\ todo \in Seq(Chunks) /\ Len(todo) = Len(l.chunks) - skip
        /\ \A k \in 1 .. Len(l.chunks) - skip : todo[k] = l.chunks[skip + k]
    BY <1>1, <1>5, EndOf
  <2> HIDE DEF todo
  <2>2. Len(todo) = l.seq - from
    BY <1>1, <1>2, <1>3, <2>1
  <2>3. ASSUME NEW k \in 1 .. Len(todo) PROVE todo[k].seq = from + k
    <3>1. skip + k \in 1 .. Len(l.chunks) /\ todo[k] = l.chunks[skip + k]
      BY <1>1, <1>5, <2>1, <2>3
    <3>2. todo[k].seq = gone + (skip + k)
      BY <1>1, <3>1
    <3>3. QED
      BY <1>1, <1>2, <1>3, <2>3, <3>2
  <2>4. QED
    BY <2>1, <2>2, <2>3
<1> HIDE DEF skip, todo
<1>7. Len(todo) \in Nat
  BY <1>1, <1>2, <1>6
<1>8. 0 \in fits
  <2>1. SubSeq(todo, 1, 0) \in Seq(Chunks) /\ Len(SubSeq(todo, 1, 0)) = 0
    BY <1>6, <1>7, StartOf
  <2>2. Bytes(SubSeq(todo, 1, 0)) = 0
    BY <2>1, BytesIs
  <2>3. QED
    BY <1>7, <2>2
<1>9. best \in fits /\ \A m \in fits : m <= best
  <2>1. fits \subseteq 0 .. Len(todo) /\ fits # {}
    BY <1>8
  <2> HIDE DEF fits
  <2>2. \E n \in fits : \A m \in fits : m <= n
    BY <1>7, <2>1, GreatestUpTo
  <2>3. QED
    BY <2>2
<1> HIDE DEF best
<1>10. best \in 0 .. Len(todo) /\ Bytes(sent) <= budget
  BY <1>9
<1>11. /\ sent \in Seq(Chunks) /\ Len(sent) = best
       /\ \A k \in 1 .. best : sent[k] = todo[k]
  BY <1>6, <1>10, StartOf
<1> HIDE DEF sent
<1>12. \A k \in 1 .. Len(sent) : sent[k].seq = from + k
  BY <1>6, <1>7, <1>10, <1>11
<1>13. next = from + Len(sent) /\ next <= l.seq /\ next \in Nat
  <2>1. CASE sent = <<>>
    <3>1. Len(sent) = 0
      BY <2>1
    <3>2. QED
      BY <1>1, <1>2, <2>1, <3>1
  <2>2. CASE sent # <<>>
    <3>1. Len(sent) # 0
      BY <1>11, <2>2, EmptySeq
    <3>2. Len(sent) \in 1 .. Len(sent) /\ Len(sent) \in Nat
      BY <1>7, <1>10, <1>11, <3>1
    <3>3. next = from + Len(sent)
      BY <1>12, <2>2, <3>2
    <3>4. QED
      BY <1>1, <1>2, <1>6, <1>7, <1>10, <1>11, <3>2, <3>3
  <2>3. QED
    BY <2>1, <2>2
<1> HIDE DEF next
<1>14. budget >= PageMin => sent # <<>> \/ next = l.seq
  <2>1. SUFFICES ASSUME budget >= PageMin, next # l.seq PROVE sent # <<>>
    OBVIOUS
  <2>2. Len(todo) # 0
    <3>1. CASE Len(todo) = 0
      BY <1>1, <1>2, <1>6, <1>10, <1>11, <1>13, <2>1, <3>1
    <3>2. QED
      BY <3>1
  <2>3. 1 \in 0 .. Len(todo) /\ 1 \in 1 .. Len(todo)
    BY <1>7, <2>2
  <2>4. /\ SubSeq(todo, 1, 1) \in Seq(Chunks) /\ Len(SubSeq(todo, 1, 1)) = 1
        /\ SubSeq(todo, 1, 1)[1] = todo[1]
    BY <1>6, <2>3, StartOf
  <2>5. Bytes(SubSeq(todo, 1, 1)) = todo[1].len
    BY <2>4, BytesIs
  <2>6. todo[1].len \in Nat /\ todo[1].len <= PageMin /\ PageMin \in Nat
    BY <1>6, <2>3, ChunkTypes, ReplayAssumption
  <2>7. 1 \in fits
    BY <2>1, <2>3, <2>5, <2>6
  <2>8. 1 <= best
    BY <1>9, <2>7
  <2>9. Len(sent) # 0
    BY <1>10, <1>11, <2>8
  <2>10. QED
    BY <2>9
<1>15. /\ p.chunks = sent /\ p.next = next /\ p.complete = (next = l.seq) /\ p.reset = Resets(l, after)
  BY <1>4
<1>16. p \in Pages
  BY <1>4, <1>11, <1>13 DEF Pages, Resets
<1>17. /\ p.next = from + Len(p.chunks) /\ p.next <= l.seq
       /\ \A k \in 1 .. Len(p.chunks) : p.chunks[k].seq = from + k
       /\ p.complete <=> p.next = l.seq
       /\ Bytes(p.chunks) <= budget
       /\ budget >= PageMin => p.chunks # <<>> \/ p.complete
  <2> HIDE DEF from
  <2> QED
    BY <1>10, <1>12, <1>13, <1>14, <1>15
<1>18. QED
  BY <1>15, <1>16, <1>17 DEF p

\* structured-protocol-v2.md, attach: a page is what the client lacks, for every log,
\* cursor and budget.
LEMMA PageIsHonest ==
  ASSUME NEW l, LogOK(l), NEW after \in Nat, NEW budget \in Nat
  PROVE  Honest(l, after, Page(l, after, budget)) /\ Bytes(Page(l, after, budget).chunks) <= budget
<1> DEFINE p == Page(l, after, budget)
<1>1. /\ p.reset = Resets(l, after)
      /\ p.next = From(l, after) + Len(p.chunks) /\ p.next <= l.seq
      /\ \A k \in 1 .. Len(p.chunks) : p.chunks[k].seq = From(l, after) + k
      /\ p.complete <=> p.next = l.seq
      /\ Bytes(p.chunks) <= budget
  BY PageIs
<1> HIDE DEF p
<1>2. First(l) - 1 \in Nat /\ First(l) \in Int /\ First(l) - 1 <= l.seq /\ l.seq \in Nat
  BY FirstIs DEF LogOK
<1>3. Resets(l, after) <=> (Lacks(l, after) # {} \/ after > l.seq)
  <2>1. ASSUME after < First(l) - 1 PROVE Lacks(l, after) # {}
    <3>1. First(l) - 1 \in Lacks(l, after)
      BY <1>2, <2>1 DEF Lacks
    <3>2. QED
      BY <3>1
  <2>2. ASSUME NEW n \in Lacks(l, after) PROVE after < First(l) - 1
    BY <1>2, <2>2 DEF Lacks
  <2>3. QED
    BY <2>1, <2>2 DEF Resets
<1>4. From(l, after) = IF p.reset THEN First(l) - 1 ELSE after
  BY <1>1 DEF From
<1>5. Honest(l, after, p)
  BY <1>1, <1>3, <1>4 DEF Honest
<1>6. QED
  BY <1>1, <1>5 DEF p

LEMMA HonestPages == ASSUME TypeOK PROVE PagesAreHonest
<1> SUFFICES ASSUME NEW s \in Streams, NEW after \in 0 .. log[s].seq + 1, NEW budget \in 0 .. PageMax
             PROVE  LET page == Page(log[s], after, budget)
                    IN  Honest(log[s], after, page) /\ Bytes(page.chunks) <= budget
  BY DEF PagesAreHonest
<1>1. LogOK(log[s]) /\ after \in Nat /\ budget \in Nat
  BY DEF TypeOK
<1>2. QED
  BY <1>1, PageIsHonest

MovesOn(page) ==
  /\ \/ \E s \in Streams : page[s].chunks # <<>>
     \/ \A s \in Streams : page[s].complete
  /\ Bytes(page["stdout"].chunks) + Bytes(page["stderr"].chunks) <= PageMax

\* An answer to attach: a page of each stream, which brings something or has nothing to.
LEMMA AnswerIs ==
  ASSUME TypeOK, NEW asked \in Asks
  PROVE  LET page == AttachResult(asked, cursor)
         IN  /\ page \in Answers
             /\ \A s \in Streams : Fits(page[s], s) /\ (page[s].complete => page[s].next = log[s].seq)
             /\ MovesOn(page)
<1> DEFINE size == Clamp(asked)
           out  == Page(log["stdout"], cursor["stdout"], size)
           err  == Page(log["stderr"], cursor["stderr"], size - Bytes(out.chunks))
           page == AttachResult(asked, cursor)
<1>1. /\ "stdout" \in Streams /\ "stderr" \in Streams /\ \A s \in Streams : s = "stdout" \/ s = "stderr"
      /\ \A s \in Streams : LogOK(log[s]) /\ cursor[s] \in Nat
  BY DEF TypeOK, Streams
<1>2. size \in Nat /\ PageMin <= size /\ size <= PageMax /\ PageMin \in Nat /\ PageMax \in Nat
  BY ReplayAssumption DEF Clamp, Asks
<1> HIDE DEF size
<1>3. ASSUME NEW s \in Streams, NEW budget \in Nat
      PROVE  LET p == Page(log[s], cursor[s], budget)
             IN  /\ p \in Pages /\ Fits(p, s)
                 /\ (p.complete => p.next = log[s].seq)
                 /\ Bytes(p.chunks) \in Nat /\ Bytes(p.chunks) <= budget
                 /\ p.chunks = <<>> => Bytes(p.chunks) = 0
                 /\ budget >= PageMin => p.chunks # <<>> \/ p.complete
  <2> DEFINE p == Page(log[s], cursor[s], budget)
  <2>1. /\ p \in Pages
        /\ p.reset = Resets(log[s], cursor[s])
        /\ p.next = From(log[s], cursor[s]) + Len(p.chunks) /\ p.next <= log[s].seq
        /\ \A k \in 1 .. Len(p.chunks) : p.chunks[k].seq = From(log[s], cursor[s]) + k
        /\ p.complete <=> p.next = log[s].seq
        /\ Bytes(p.chunks) <= budget
        /\ budget >= PageMin => p.chunks # <<>> \/ p.complete
    BY <1>1, PageIs
  <2>2. p.chunks \in Seq(Chunks)
    BY <2>1 DEF Pages
  <2>3. Bytes(p.chunks) \in Nat /\ (p.chunks = <<>> => Bytes(p.chunks) = 0) /\ Len(p.chunks) \in Nat
    BY <2>2, BytesIs, ChunkTypes
  <2>4. From(log[s], cursor[s]) \in Nat
    BY <1>1, FirstIs DEF From
  <2> HIDE DEF p
  <2>5. p.next - Len(p.chunks) = From(log[s], cursor[s]) /\ Len(p.chunks) <= p.next
    BY <2>1, <2>3, <2>4
  <2>6. Fits(p, s)
    BY <2>1, <2>5 DEF Fits, From
  <2>7. QED
    BY <2>1, <2>3, <2>6 DEF p
<1>4. /\ out \in Pages /\ Fits(out, "stdout") /\ (out.complete => out.next = log["stdout"].seq)
      /\ Bytes(out.chunks) \in Nat /\ Bytes(out.chunks) <= size
      /\ out.chunks = <<>> => Bytes(out.chunks) = 0
      /\ out.chunks # <<>> \/ out.complete
  BY <1>1, <1>2, <1>3
<1> HIDE DEF out
<1>5. size - Bytes(out.chunks) \in Nat
  BY <1>2, <1>4
<1>6. /\ err \in Pages /\ Fits(err, "stderr") /\ (err.complete => err.next = log["stderr"].seq)
      /\ Bytes(err.chunks) \in Nat /\ Bytes(err.chunks) <= size - Bytes(out.chunks)
      /\ size - Bytes(out.chunks) >= PageMin => err.chunks # <<>> \/ err.complete
  BY <1>1, <1>3, <1>5
<1> HIDE DEF err
<1>7. page = [s \in Streams |-> IF s = "stdout" THEN out ELSE err]
  BY DEF AttachResult, out, err, size
<1>8. page["stdout"] = out /\ page["stderr"] = err
  BY <1>1, <1>7
<1>9. page \in Answers
  BY <1>4, <1>6, <1>7 DEF Answers
<1> HIDE DEF page
<1>10. MovesOn(page)
  <2>1. Bytes(out.chunks) + Bytes(err.chunks) <= PageMax
    BY <1>2, <1>4, <1>6
  <2>2. out.chunks = <<>> => err.chunks # <<>> \/ err.complete
    BY <1>2, <1>4, <1>6
  <2>3. (\E s \in Streams : page[s].chunks # <<>>) \/ \A s \in Streams : page[s].complete
    BY <1>1, <1>4, <1>8, <2>2
  <2>4. QED
    BY <1>8, <2>1, <2>3 DEF MovesOn
<1>11. ASSUME NEW s \in Streams PROVE Fits(page[s], s) /\ (page[s].complete => page[s].next = log[s].seq)
  BY <1>1, <1>4, <1>6, <1>8
<1>12. QED
  BY <1>9, <1>10, <1>11 DEF page

-----------------------------------------------------------------------------
(* The events in a queue. *)

LEMMA FrameTypes ==
  /\ \A s \in Streams, n \in Nat : /\ StreamEvent(s, n) \in Frames
                                   /\ StreamEvent(s, n).event = "stream"
                                   /\ StreamEvent(s, n).stream = s /\ StreamEvent(s, n).seq = n
  /\ ExitEvent \in Frames /\ ExitEvent.event = "exit"
  /\ \A page \in Answers : PageFrame(page) \in Frames /\ PageFrame(page).event = "page" /\ PageFrame(page).page = page
  /\ \A f \in Frames : /\ f.event = "stream" => f.stream \in Streams /\ f.seq \in Nat
                       /\ f.event = "page" => f.page \in Answers
                       /\ f.event \in {"stream", "page", "exit"}
BY DEF Frames, StreamEvent, ExitEvent, PageFrame

LEMMA AppendIs ==
  ASSUME NEW q \in Seq(Frames), NEW f \in Frames
  PROVE  /\ Append(q, f) \in Seq(Frames) /\ Len(q) \in Nat /\ Len(Append(q, f)) = Len(q) + 1
         /\ DOMAIN q = 1 .. Len(q) /\ DOMAIN Append(q, f) = 1 .. Len(q) + 1
         /\ \A j \in 1 .. Len(q) : Append(q, f)[j] = q[j] /\ q[j] \in Frames
         /\ Append(q, f)[Len(q) + 1] = f
<1>1. /\ Append(q, f) \in Seq(Frames) /\ Len(Append(q, f)) = Len(q) + 1
      /\ \A j \in 1 .. Len(q) : Append(q, f)[j] = q[j]
      /\ Append(q, f)[Len(q) + 1] = f
  BY AppendProperties
<1>2. Len(q) \in Nat /\ DOMAIN q = 1 .. Len(q) /\ \A j \in 1 .. Len(q) : q[j] \in Frames
  BY LenProperties, ElementOfSeq
<1>3. DOMAIN Append(q, f) = 1 .. Len(q) + 1
  BY <1>1, LenProperties
<1>4. QED
  BY <1>1, <1>2, <1>3

LEMMA TailIs ==
  ASSUME NEW q \in Seq(Frames), q # <<>>
  PROVE  /\ Tail(q) \in Seq(Frames) /\ Len(q) \in Nat /\ Len(q) >= 1 /\ Len(Tail(q)) = Len(q) - 1
         /\ DOMAIN q = 1 .. Len(q) /\ DOMAIN Tail(q) = 1 .. Len(q) - 1
         /\ \A j \in 1 .. Len(q) : q[j] \in Frames
         /\ \A j \in 1 .. Len(q) - 1 : Tail(q)[j] = q[j + 1]
         /\ Head(q) = q[1]
<1>1. Tail(q) \in Seq(Frames) /\ Len(Tail(q)) = Len(q) - 1 /\ \A j \in 1 .. Len(Tail(q)) : Tail(q)[j] = q[j + 1]
  BY HeadTailProperties
<1>2. Len(q) \in Nat /\ DOMAIN q = 1 .. Len(q) /\ Len(q) # 0 /\ \A j \in 1 .. Len(q) : q[j] \in Frames
  BY EmptySeq, LenProperties, ElementOfSeq
<1>3. DOMAIN Tail(q) = 1 .. Len(q) - 1
  BY <1>1, LenProperties
<1>4. Head(q) = q[1]
  OBVIOUS
<1>5. QED
  BY <1>1, <1>2, <1>3, <1>4

LEMMA CarriesNothing ==
  ASSUME NEW s, NEW e \in Nat
  PROVE  Carries(<<>>, s, e, e)
<1>1. DOMAIN <<>> = {} /\ e + 1 .. e = {}
  OBVIOUS
<1>2. QED
  BY <1>1 DEF Carries

LEMMA CarriesNext ==
  ASSUME NEW s \in Streams, NEW q \in Seq(Frames), NEW e \in Nat, NEW last \in Nat, e <= last,
         Carries(q, s, e, last)
  PROVE  Carries(Append(q, StreamEvent(s, last + 1)), s, e, last + 1)
<1> DEFINE f == StreamEvent(s, last + 1)
           h == Append(q, f)
<1>1. f \in Frames /\ f.event = "stream" /\ f.stream = s /\ f.seq = last + 1
  BY FrameTypes
<1>2. /\ Len(q) \in Nat /\ DOMAIN q = 1 .. Len(q) /\ DOMAIN h = 1 .. Len(q) + 1
      /\ \A j \in 1 .. Len(q) : h[j] = q[j]
      /\ h[Len(q) + 1] = f
  BY <1>1, AppendIs
<1> HIDE DEF f, h
<1>3. \A j \in 1 .. Len(q) : (IsEvent(h, s, j) <=> IsEvent(q, s, j)) /\ h[j].seq = q[j].seq
  BY <1>2 DEF IsEvent
<1>4. IsEvent(h, s, Len(q) + 1) /\ h[Len(q) + 1].seq = last + 1
  BY <1>1, <1>2 DEF IsEvent
<1>5. \A j \in DOMAIN q : IsEvent(q, s, j) => q[j].seq \in e + 1 .. last
  BY DEF Carries
<1>6. ASSUME NEW j \in DOMAIN h, IsEvent(h, s, j) PROVE h[j].seq \in e + 1 .. last + 1
  <2>1. CASE j \in 1 .. Len(q)
    <3>1. h[j].seq \in e + 1 .. last
      BY <1>2, <1>3, <1>5, <1>6, <2>1
    <3>2. QED
      BY <3>1
  <2>2. CASE j = Len(q) + 1
    BY <1>4, <2>2
  <2>3. QED
    BY <1>2, <2>1, <2>2
<1>7. ASSUME NEW n \in e + 1 .. last + 1 PROVE \E j \in DOMAIN h : IsEvent(h, s, j) /\ h[j].seq = n
  <2>1. CASE n = last + 1
    BY <1>2, <1>4, <2>1
  <2>2. CASE n \in e + 1 .. last
    <3>1. PICK j \in DOMAIN q : IsEvent(q, s, j) /\ q[j].seq = n
      BY <2>2 DEF Carries
    <3>2. j \in DOMAIN h /\ IsEvent(h, s, j) /\ h[j].seq = n
      BY <1>2, <1>3, <3>1
    <3>3. QED
      BY <3>2
  <2>3. QED
    BY <2>1, <2>2
<1>8. ASSUME NEW i \in DOMAIN h, NEW j \in DOMAIN h, i < j, IsEvent(h, s, i), IsEvent(h, s, j)
      PROVE  h[i].seq < h[j].seq
  <2>1. i \in 1 .. Len(q) /\ IsEvent(q, s, i) /\ h[i].seq = q[i].seq
    BY <1>2, <1>3, <1>8
  <2>2. CASE j \in 1 .. Len(q)
    <3>1. IsEvent(q, s, j) /\ h[j].seq = q[j].seq
      BY <1>3, <1>8, <2>2
    <3>2. QED
      BY <1>2, <1>8, <2>1, <2>2, <3>1 DEF Carries
  <2>3. CASE j = Len(q) + 1
    <3>1. q[i].seq \in e + 1 .. last
      BY <1>2, <1>5, <2>1
    <3>2. QED
      BY <1>4, <2>1, <2>3, <3>1
  <2>4. QED
    BY <1>2, <2>2, <2>3
<1>9. QED
  BY <1>6, <1>7, <1>8 DEF Carries, h, f

LEMMA CarriesMore ==
  ASSUME NEW s \in Streams, NEW q \in Seq(Frames), NEW e, NEW last, NEW f \in Frames,
         ~(f.event = "stream" /\ f.stream = s),
         Carries(q, s, e, last)
  PROVE  Carries(Append(q, f), s, e, last)
<1> DEFINE h == Append(q, f)
<1>1. /\ Len(q) \in Nat /\ DOMAIN q = 1 .. Len(q) /\ DOMAIN h = 1 .. Len(q) + 1
      /\ \A j \in 1 .. Len(q) : h[j] = q[j]
      /\ h[Len(q) + 1] = f
  BY AppendIs
<1> HIDE DEF h
<1>2. \A j \in DOMAIN h : IsEvent(h, s, j) => j \in DOMAIN q
  BY <1>1 DEF IsEvent
<1>3. \A j \in DOMAIN q : j \in DOMAIN h /\ (IsEvent(h, s, j) <=> IsEvent(q, s, j)) /\ h[j] = q[j]
  BY <1>1 DEF IsEvent
<1>4. QED
  BY <1>2, <1>3 DEF Carries, h

LEMMA CarriesRest ==
  ASSUME NEW s \in Streams, NEW q \in Seq(Frames), NEW e, NEW last, q # <<>>,
         ~IsEvent(q, s, 1), Carries(q, s, e, last)
  PROVE  Carries(Tail(q), s, e, last)
<1> DEFINE h == Tail(q)
<1>1. /\ Len(q) \in Nat /\ DOMAIN q = 1 .. Len(q) /\ DOMAIN h = 1 .. Len(q) - 1
      /\ \A j \in 1 .. Len(q) - 1 : h[j] = q[j + 1]
  BY TailIs
<1> HIDE DEF h
<1>2. \A j \in DOMAIN h : j + 1 \in DOMAIN q /\ h[j] = q[j + 1] /\ (IsEvent(h, s, j) <=> IsEvent(q, s, j + 1))
  BY <1>1 DEF IsEvent
<1>3. \A j \in DOMAIN q : IsEvent(q, s, j) => j - 1 \in DOMAIN h /\ IsEvent(h, s, j - 1) /\ h[j - 1] = q[j]
  BY <1>1 DEF IsEvent
<1>4. \A j \in DOMAIN h : IsEvent(h, s, j) => h[j].seq \in e + 1 .. last
  BY <1>2 DEF Carries
<1>5. ASSUME NEW n \in e + 1 .. last PROVE \E j \in DOMAIN h : IsEvent(h, s, j) /\ h[j].seq = n
  <2>1. PICK j \in DOMAIN q : IsEvent(q, s, j) /\ q[j].seq = n
    BY DEF Carries
  <2>2. j - 1 \in DOMAIN h /\ IsEvent(h, s, j - 1) /\ h[j - 1].seq = n
    BY <1>3, <2>1
  <2>3. QED
    BY <2>2
<1>6. ASSUME NEW i \in DOMAIN h, NEW j \in DOMAIN h, i < j, IsEvent(h, s, i), IsEvent(h, s, j)
      PROVE  h[i].seq < h[j].seq
  <2>1. i + 1 < j + 1
    BY <1>1, <1>6
  <2>2. QED
    BY <1>2, <1>6, <2>1 DEF Carries
<1>7. QED
  BY <1>4, <1>5, <1>6 DEF Carries, h

\* The first event of a stream in a queue is the next one.
LEMMA CarriesHead ==
  ASSUME NEW s \in Streams, NEW q \in Seq(Frames), NEW e \in Nat, NEW last \in Nat, q # <<>>,
         IsEvent(q, s, 1), Carries(q, s, e, last)
  PROVE  q[1].seq = e + 1 /\ e + 1 <= last /\ Carries(Tail(q), s, e + 1, last)
<1> DEFINE h == Tail(q)
<1>1. /\ Len(q) \in Nat /\ Len(q) >= 1 /\ DOMAIN q = 1 .. Len(q) /\ DOMAIN h = 1 .. Len(q) - 1
      /\ \A j \in 1 .. Len(q) - 1 : h[j] = q[j + 1]
  BY TailIs
<1> HIDE DEF h
<1>2. 1 \in DOMAIN q /\ q[1].seq \in e + 1 .. last
  BY <1>1 DEF Carries
<1>3. q[1].seq = e + 1
  <2>1. e + 1 \in e + 1 .. last
    BY <1>2
  <2>2. PICK j \in DOMAIN q : IsEvent(q, s, j) /\ q[j].seq = e + 1
    BY <2>1 DEF Carries
  <2>3. CASE j = 1
    BY <2>2, <2>3
  <2>4. CASE 1 < j
    <3>1. q[1].seq < q[j].seq
      BY <1>2, <2>2, <2>4 DEF Carries
    <3>2. QED
      BY <1>2, <2>2, <3>1
  <2>5. QED
    BY <1>1, <2>3, <2>4
<1>4. \A j \in DOMAIN h : j + 1 \in DOMAIN q /\ 1 < j + 1 /\ h[j] = q[j + 1] /\ (IsEvent(h, s, j) <=> IsEvent(q, s, j + 1))
  BY <1>1 DEF IsEvent
<1>5. ASSUME NEW j \in DOMAIN h, IsEvent(h, s, j) PROVE h[j].seq \in (e + 1) + 1 .. last
  <2>1. q[1].seq < h[j].seq /\ h[j].seq \in e + 1 .. last
    BY <1>2, <1>4, <1>5 DEF Carries
  <2>2. QED
    BY <1>3, <2>1
<1>6. ASSUME NEW n \in (e + 1) + 1 .. last PROVE \E j \in DOMAIN h : IsEvent(h, s, j) /\ h[j].seq = n
  <2>1. n \in e + 1 .. last /\ n # e + 1
    BY <1>6
  <2>2. PICK j \in DOMAIN q : IsEvent(q, s, j) /\ q[j].seq = n
    BY <2>1 DEF Carries
  <2>3. j # 1
    BY <1>3, <2>1, <2>2
  <2>4. j - 1 \in DOMAIN h /\ h[j - 1] = q[j] /\ (j - 1) + 1 = j
    BY <1>1, <2>3
  <2>5. IsEvent(h, s, j - 1) /\ h[j - 1].seq = n
    BY <2>2, <2>4 DEF IsEvent
  <2>6. QED
    BY <2>4, <2>5
<1>7. ASSUME NEW i \in DOMAIN h, NEW j \in DOMAIN h, i < j, IsEvent(h, s, i), IsEvent(h, s, j)
      PROVE  h[i].seq < h[j].seq
  <2>1. i + 1 < j + 1
    BY <1>1, <1>7
  <2>2. QED
    BY <1>4, <1>7, <2>1 DEF Carries
<1>8. QED
  BY <1>2, <1>3, <1>5, <1>6, <1>7 DEF Carries, h

LEMMA CarriesNoEvent ==
  ASSUME NEW s \in Streams, NEW q, NEW e \in Nat, NEW last \in Nat, Carries(q, s, e, last),
         \A j \in DOMAIN q : ~IsEvent(q, s, j)
  PROVE  last <= e
<1>1. SUFFICES ASSUME e < last PROVE FALSE
  OBVIOUS
<1>2. e + 1 \in e + 1 .. last
  BY <1>1
<1>3. QED
  BY <1>2 DEF Carries

-----------------------------------------------------------------------------
(* What the steps do. *)

\* Publishing goes to an authenticated client, whose connection it may close.
LEMMA PublishIs ==
  ASSUME NEW f, Publish(f)
  PROVE  \/ conn # "authed" /\ UNCHANGED linkVars
         \/ conn = "authed" /\ Len(queue) < Depth /\ queue' = Append(queue, f) /\ conn' = conn /\ answer' = answer
         \/ conn' = "closed" /\ queue' = <<>> /\ answer' = <<>>
BY DEF Publish, Close, NoAnswer

LEMMA AnnouncedIs ==
  ASSUME TypeOK, ExitInv, NEW s \in Streams
  PROVE  log[s].seq \in Nat /\ Announced(s) \in Nat /\ Announced(s) <= log[s].seq
<1>1. log[s].seq \in Nat
  BY DEF TypeOK, LogOK
<1>2. QED
  BY <1>1 DEF Announced, ExitInv

\* Nothing is on its way to a client that does not wait for it.
LEMMA WayEmpty ==
  ASSUME TypeOK, LinkInv, client # "wait"
  PROVE  OnTheirWay = {} /\ answer = <<>>
<1>1. answer = <<>>
  BY DEF LinkInv, NoAnswer
<1>2. DOMAIN <<>> = {}
  OBVIOUS
<1>3. \A j \in DOMAIN queue : ~IsPage(queue, j)
  BY DEF LinkInv
<1>4. QED
  BY <1>1, <1>2, <1>3 DEF OnTheirWay

LEMMA QueueIs ==
  ASSUME TypeOK
  PROVE  /\ Len(queue) \in Nat /\ DOMAIN queue = 1 .. Len(queue)
         /\ \A j \in DOMAIN queue : queue[j] \in Frames
         /\ Len(answer) \in Nat /\ DOMAIN answer = 1 .. Len(answer)
         /\ \A k \in DOMAIN answer : answer[k] \in Answers
         /\ answer # <<>> => answer = <<answer[1]>> /\ Len(answer) = 1
<1>1. /\ Len(queue) \in Nat /\ DOMAIN queue = 1 .. Len(queue)
      /\ \A j \in DOMAIN queue : queue[j] \in Frames
  BY LenProperties, ElementOfSeq DEF TypeOK
<1>2. /\ Len(answer) \in Nat /\ DOMAIN answer = 1 .. Len(answer)
      /\ \A k \in DOMAIN answer : answer[k] \in Answers
  BY LenProperties, ElementOfSeq DEF TypeOK
<1>3. ASSUME answer # <<>> PROVE answer = <<answer[1]>> /\ Len(answer) = 1
  <2>1. Len(answer) # 0
    BY <1>3, EmptySeq DEF TypeOK
  <2>2. Len(answer) = 1
    BY <1>2, <2>1 DEF TypeOK
  <2>3. QED
    BY <2>2 DEF TypeOK
<1>4. QED
  BY <1>1, <1>2, <1>3

LEMMA WayTypes ==
  ASSUME TypeOK
  PROVE  OnTheirWay \subseteq Answers
<1>1. \A j \in DOMAIN queue : IsPage(queue, j) => queue[j].page \in Answers
  BY QueueIs, FrameTypes DEF IsPage
<1>2. QED
  BY <1>1, QueueIs DEF OnTheirWay

\* Appending to the queue, and taking its head.
LEMMA WayAppend ==
  ASSUME TypeOK, NEW f \in Frames, queue' = Append(queue, f), answer' = answer, f.event # "page"
  PROVE  OnTheirWay' = OnTheirWay
<1>1. /\ DOMAIN queue = 1 .. Len(queue) /\ DOMAIN queue' = 1 .. Len(queue) + 1 /\ Len(queue) \in Nat
      /\ \A j \in 1 .. Len(queue) : queue'[j] = queue[j]
      /\ queue'[Len(queue) + 1] = f
  BY AppendIs DEF TypeOK
<1>2. {i \in DOMAIN queue' : IsPage(queue', i)} = {i \in DOMAIN queue : IsPage(queue, i)}
  BY <1>1 DEF IsPage
<1>3. \A i \in {i \in DOMAIN queue : IsPage(queue, i)} : queue'[i] = queue[i]
  BY <1>1
<1>4. QED
  BY <1>2, <1>3 DEF OnTheirWay

LEMMA WayTail ==
  ASSUME TypeOK, queue # <<>>, queue' = Tail(queue), answer' = answer
  PROVE  OnTheirWay' \subseteq OnTheirWay
<1>1. /\ DOMAIN queue = 1 .. Len(queue) /\ DOMAIN queue' = 1 .. Len(queue) - 1 /\ Len(queue) \in Nat
      /\ \A j \in 1 .. Len(queue) - 1 : queue'[j] = queue[j + 1]
  BY TailIs DEF TypeOK
<1>2. \A j \in DOMAIN queue' : IsPage(queue', j) => /\ j + 1 \in DOMAIN queue /\ IsPage(queue, j + 1)
                                                    /\ queue'[j].page = queue[j + 1].page
  BY <1>1 DEF IsPage
<1>3. QED
  BY <1>2 DEF OnTheirWay

LEMMA WayRespond ==
  ASSUME TypeOK, Respond
  PROVE  OnTheirWay' \subseteq OnTheirWay
<1>1. /\ answer # <<>> /\ answer' = <<>> /\ queue' = Append(queue, PageFrame(answer[1]))
      /\ 1 \in DOMAIN answer /\ answer[1] \in Answers
  BY QueueIs DEF Respond, NoAnswer
<1>2. PageFrame(answer[1]) \in Frames /\ PageFrame(answer[1]).page = answer[1]
  BY <1>1, FrameTypes
<1>3. /\ DOMAIN queue = 1 .. Len(queue) /\ DOMAIN queue' = 1 .. Len(queue) + 1 /\ Len(queue) \in Nat
      /\ \A j \in 1 .. Len(queue) : queue'[j] = queue[j]
      /\ queue'[Len(queue) + 1] = PageFrame(answer[1])
  BY <1>1, <1>2, AppendIs DEF TypeOK
<1>4. \A j \in DOMAIN queue' : \/ j \in DOMAIN queue /\ queue'[j] = queue[j]
                               \/ queue'[j].page = answer[1]
  BY <1>2, <1>3
<1>5. DOMAIN answer' = {}
  BY <1>1
<1>6. QED
  BY <1>1, <1>4, <1>5 DEF OnTheirWay, IsPage

LEMMA WayStep ==
  ASSUME TypeOK, LinkInv, [Next]_vars
  PROVE  \/ OnTheirWay' \subseteq OnTheirWay
         \/ \E asked \in Asks : Attach(asked) /\ OnTheirWay' = {AttachResult(asked, cursor)}
<1> USE DEF daemonVars, linkVars, clientVars
<1>1. ASSUME UNCHANGED linkVars PROVE OnTheirWay' \subseteq OnTheirWay
  BY <1>1 DEF OnTheirWay, IsPage
<1>2. ASSUME queue' = <<>>, answer' = <<>> PROVE OnTheirWay' \subseteq OnTheirWay
  <2>1. DOMAIN <<>> = {}
    OBVIOUS
  <2>2. QED
    BY <1>2, <2>1 DEF OnTheirWay
<1>3. ASSUME NEW f \in Frames, f.event # "page", Publish(f) PROVE OnTheirWay' \subseteq OnTheirWay
  BY <1>1, <1>2, <1>3, PublishIs, WayAppend
<1>4. ASSUME NEW s \in Streams, Reader(s) PROVE OnTheirWay' \subseteq OnTheirWay
  <2>1. CASE PublishChunk(s)
    <3>1. /\ StreamEvent(s, log[s].seq) \in Frames /\ StreamEvent(s, log[s].seq).event = "stream"
          /\ Publish(StreamEvent(s, log[s].seq))
      BY <2>1, FrameTypes DEF PublishChunk, TypeOK, LogOK
    <3>2. QED
      BY <1>3, <3>1
  <2>2. CASE ~PublishChunk(s)
    BY <1>1, <1>4, <2>2 DEF Reader, ReadChunk, PipeEnds
  <2>3. QED
    BY <2>1, <2>2
<1>5. ASSUME Reaper PROVE OnTheirWay' \subseteq OnTheirWay
  <2>1. CASE PublishExit
    BY <1>3, <2>1, FrameTypes DEF PublishExit
  <2>2. CASE MarkExited
    BY <1>1, <2>2 DEF MarkExited
  <2>3. QED
    BY <1>5, <2>1, <2>2 DEF Reaper
<1>6. ASSUME NEW asked \in Asks, Attach(asked) PROVE OnTheirWay' = {AttachResult(asked, cursor)}
  <2>1. client # "wait" /\ queue' = queue /\ answer' = <<AttachResult(asked, cursor)>>
    BY <1>6 DEF Attach
  <2>2. \A j \in DOMAIN queue' : ~IsPage(queue', j)
    BY <2>1 DEF LinkInv
  <2>3. DOMAIN answer' = {1} /\ answer'[1] = AttachResult(asked, cursor)
    BY <2>1
  <2>4. QED
    BY <2>2, <2>3 DEF OnTheirWay
<1>7. CASE Deliver
  BY <1>7, WayTail DEF Deliver
<1>8. CASE Respond
  BY <1>8, WayRespond
<1>9. CASE Connect
  BY <1>9 DEF Connect, OnTheirWay, IsPage
<1>10. CASE Leave
  BY <1>2, <1>10 DEF Leave, Close, NoAnswer
<1>11. CASE UNCHANGED vars
  BY <1>1, <1>11 DEF vars
<1>12. QED
  BY <1>4, <1>5, <1>6, <1>7, <1>8, <1>9, <1>10, <1>11 DEF Next, Ask

\* A page as the client takes it: what it has of the stream afterwards.
LEMMA PageTaken ==
  ASSUME IInv, queue # <<>>, IsPage(queue, 1), TakePage(queue[1].page),
         NEW s \in Streams, NEW lo \in 0 .. log[s].seq, NEW e \in 0 .. log[s].seq, Sent(s, lo, e)
  PROVE  /\ cursor'[s] \in Nat /\ base'[s] \in Nat
         /\ base'[s] <= cursor'[s] /\ cursor'[s] <= log[s].seq
         /\ held'[s] = base'[s] + 1 .. cursor'[s]
         /\ client' \in {"ask", "live"}
         /\ client' = "live" => early'[s] = {} /\ e <= cursor'[s]
         /\ client' = "ask" => early'[s] = early[s]
<1> DEFINE page == queue[1].page
           sent(u) == {page[u].chunks[k].seq : k \in 1 .. Len(page[u].chunks)}
           last == \A u \in Streams : page[u].complete
           later(u) == IF last THEN {n \in early[u] : n > page[u].next} ELSE {}
           next == page[s].next
           from == next - Len(page[s].chunks)
<1>1. /\ TypeOK /\ client = "wait" /\ page \in OnTheirWay /\ page \in Answers
      /\ base[s] \in Nat /\ cursor[s] \in Nat /\ base[s] <= cursor[s] /\ cursor[s] <= log[s].seq
      /\ held[s] = base[s] + 1 .. cursor[s] /\ log[s].seq \in Nat
  <2>1. 1 \in DOMAIN queue
    BY TailIs DEF IInv, TypeOK
  <2>2. client = "wait" /\ page \in OnTheirWay
    BY <2>1 DEF IInv, LinkInv, OnTheirWay
  <2>3. page \in Answers
    BY <2>2, WayTypes DEF IInv
  <2>4. QED
    BY <2>2, <2>3 DEF IInv, TypeOK, LogOK, CursorInv, NoGap
<1>2. Fits(page[s], s) /\ (page[s].complete => next >= lo)
  BY <1>1 DEF IInv, PageInv, Sent
<1>3. early[s] = lo + 1 .. e /\ lo <= e
  BY <1>1 DEF Sent
<1>4. /\ base' = [u \in Streams |-> IF page[u].reset THEN page[u].next - Len(page[u].chunks) ELSE base[u]]
      /\ held' = [u \in Streams |-> (IF page[u].reset THEN {} ELSE held[u]) \cup sent(u) \cup later(u)]
      /\ cursor' = [u \in Streams |-> Greatest(later(u), page[u].next)]
      /\ early' = IF last THEN [u \in Streams |-> {}] ELSE early
      /\ client' = IF last THEN "live" ELSE "ask"
  BY DEF TakePage
<1> HIDE DEF page
<1>5. /\ page[s].next \in Nat /\ page[s].reset \in BOOLEAN
      /\ Len(page[s].chunks) \in Nat /\ from \in Nat /\ next <= log[s].seq
      /\ Len(page[s].chunks) = next - from
      /\ \A k \in 1 .. Len(page[s].chunks) : page[s].chunks[k].seq = from + k
      /\ ~page[s].reset => from = cursor[s]
  <2>1. page[s].next \in Nat /\ page[s].reset \in BOOLEAN /\ page[s].chunks \in Seq(Chunks)
    BY <1>1 DEF Answers, Pages
  <2>2. Len(page[s].chunks) \in Nat
    BY <2>1, ChunkTypes
  <2>3. /\ Len(page[s].chunks) <= next /\ next <= log[s].seq
        /\ \A k \in 1 .. Len(page[s].chunks) : page[s].chunks[k].seq = from + k
        /\ ~page[s].reset => from = cursor[s]
    BY <1>2 DEF Fits
  <2>4. from \in Nat /\ Len(page[s].chunks) = next - from
    BY <2>1, <2>2, <2>3
  <2>5. QED
    BY <2>1, <2>2, <2>3, <2>4
<1>6. sent(s) = from + 1 .. next
  <2>1. ASSUME NEW n \in from + 1 .. next PROVE n \in sent(s)
    <3>1. n - from \in 1 .. Len(page[s].chunks) /\ from + (n - from) = n
      <4>1. \A a, b \in Nat : \A m \in a + 1 .. b : m - a \in 1 .. b - a /\ a + (m - a) = m
        OBVIOUS
      <4>2. from \in Nat /\ next \in Nat /\ Len(page[s].chunks) = next - from
        BY <1>5
      <4> HIDE DEF from, next
      <4>3. QED
        BY <2>1, <4>1, <4>2
    <3>2. page[s].chunks[n - from].seq = n
      BY <1>5, <3>1
    <3>3. QED
      BY <3>1, <3>2
  <2>2. ASSUME NEW k \in 1 .. Len(page[s].chunks) PROVE page[s].chunks[k].seq \in from + 1 .. next
    <3>1. page[s].chunks[k].seq = from + k
      BY <1>5
    <3>2. from + k \in from + 1 .. next
      BY <1>5
    <3>3. QED
      BY <3>1, <3>2
  <2>3. QED
    BY <2>1, <2>2
<1>7. later(s) = IF last THEN next + 1 .. e ELSE {}
  <2>1. last => next >= lo
    BY <1>2
  <2>2. next >= lo => {n \in lo + 1 .. e : n > next} = next + 1 .. e
    BY <1>5
  <2>3. QED
    BY <1>3, <2>1, <2>2
<1>8. cursor'[s] = IF last /\ next < e THEN e ELSE next
  <2>1. cursor'[s] = Greatest(later(s), next)
    BY <1>4
  <2>2. CASE last /\ next < e
    <3>1. e \in next + 1 .. e /\ \A m \in next + 1 .. e : m <= e
      BY <1>5, <2>2
    <3>2. \A n \in next + 1 .. e : (\A m \in next + 1 .. e : m <= n) => n = e
      BY <1>5, <3>1
    <3>3. Greatest(next + 1 .. e, next) = e
      BY <3>1, <3>2 DEF Greatest
    <3>4. QED
      BY <1>7, <2>1, <2>2, <3>3
  <2>3. CASE ~(last /\ next < e)
    <3>1. later(s) = {}
      <4>1. ~(next < e) => next + 1 .. e = {}
        BY <1>5
      <4>2. QED
        BY <1>7, <2>3, <4>1
    <3>2. QED
      BY <2>1, <2>3, <3>1 DEF Greatest
  <2>4. QED
    BY <2>2, <2>3
<1>9. base'[s] = (IF page[s].reset THEN from ELSE base[s])
      /\ held'[s] = (IF page[s].reset THEN {} ELSE held[s]) \cup sent(s) \cup later(s)
  BY <1>4
<1> HIDE DEF sent, later, last
<1>10. held'[s] = base'[s] + 1 .. cursor'[s] /\ base'[s] <= cursor'[s] /\ base'[s] \in Nat
  <2> DEFINE start == base'[s]
  <2>1. start \in Nat /\ start <= from
    BY <1>1, <1>5, <1>9
  <2>2. (IF page[s].reset THEN {} ELSE held[s]) = start + 1 .. from
    BY <1>1, <1>5, <1>9
  <2>3. from <= next
    BY <1>5
  <2> HIDE DEF start, from, next
  <2>4. (start + 1 .. from) \cup (from + 1 .. next) = start + 1 .. next
    BY <1>5, <2>1, <2>3 DEF next
  <2>5. next < e => (start + 1 .. next) \cup (next + 1 .. e) = start + 1 .. e
    BY <1>5, <2>1, <2>3 DEF next
  <2>6. ~(next < e) => next + 1 .. e = {}
    BY <1>5 DEF next
  <2>7. held'[s] = (start + 1 .. next) \cup later(s)
    BY <1>6, <1>9, <2>2, <2>4
  <2>8. held'[s] = start + 1 .. cursor'[s]
    BY <1>7, <1>8, <2>5, <2>6, <2>7
  <2>9. start <= cursor'[s]
    BY <1>5, <1>8, <2>1, <2>3 DEF next
  <2>10. QED
    BY <2>1, <2>8, <2>9 DEF start
<1>11. cursor'[s] \in Nat /\ cursor'[s] <= log[s].seq
  BY <1>1, <1>5, <1>8
<1>12. client' \in {"ask", "live"} /\ (client' = "live" => last) /\ (client' = "ask" => ~last)
  BY <1>4
<1>13. last => early'[s] = {} /\ e <= cursor'[s]
  BY <1>4, <1>5, <1>8
<1>14. ~last => early'[s] = early[s]
  BY <1>4
<1>15. QED
  BY <1>10, <1>11, <1>12, <1>13, <1>14

\* The client's next event: at the head of the queue it is the next of its stream.
LEMMA HeadIs ==
  ASSUME IInv, queue # <<>>
  PROVE  /\ conn = "authed" /\ 1 \in DOMAIN queue /\ Head(queue) = queue[1] /\ queue[1] \in Frames
         /\ Tail(queue) \in Seq(Frames) /\ Len(Tail(queue)) <= Depth
         /\ IsPage(queue, 1) => client = "wait" /\ queue[1].page \in Answers
         /\ queue[1].event = "stream" => queue[1].stream \in Streams /\ queue[1].seq \in Nat
<1>1. /\ Tail(queue) \in Seq(Frames) /\ Len(Tail(queue)) = Len(queue) - 1 /\ Len(queue) \in Nat
      /\ Head(queue) = queue[1] /\ 1 \in DOMAIN queue /\ queue[1] \in Frames
      /\ Len(queue) <= Depth
  BY TailIs DEF IInv, TypeOK
<1>2. conn = "authed" /\ (IsPage(queue, 1) => client = "wait")
  BY <1>1 DEF IInv, LinkInv
<1>3. Depth \in Nat
  BY ReplayAssumption
<1>4. QED
  BY <1>1, <1>2, <1>3, FrameTypes DEF IsPage

LEMMA SentExists ==
  ASSUME IInv, conn = "authed", NEW s \in Streams
  PROVE  \E lo, e \in 0 .. log[s].seq : Sent(s, lo, e)
BY DEF IInv, SentInv

LEMMA EventTaken ==
  ASSUME IInv, queue # <<>>, NEW t \in Streams, IsEvent(queue, t, 1), TakeEvent(t, queue[1].seq),
         NEW lo \in 0 .. log[t].seq, NEW e \in 0 .. log[t].seq, Sent(t, lo, e)
  PROVE  /\ queue[1].seq = e + 1 /\ e + 1 <= Announced(t) /\ e + 1 <= log[t].seq
         /\ Carries(Tail(queue), t, e + 1, Announced(t))
         /\ client' = client /\ base' = base /\ exitSeen' = exitSeen
         /\ \/ /\ client # "live" /\ cursor' = cursor /\ held' = held
               /\ early' = [early EXCEPT ![t] = @ \cup {e + 1}]
            \/ /\ client = "live" /\ cursor[t] = e /\ early' = early
               /\ held' = [held EXCEPT ![t] = @ \cup {e + 1}]
               /\ cursor' = [cursor EXCEPT ![t] = e + 1]
            \/ /\ client = "live" /\ e + 1 <= cursor[t] /\ early' = early
               /\ cursor' = cursor /\ held' = held
<1>1. TypeOK /\ ExitInv /\ Announced(t) \in Nat /\ Announced(t) <= log[t].seq /\ log[t].seq \in Nat /\ cursor[t] \in Nat
  BY AnnouncedIs DEF IInv, TypeOK
<1>2. Carries(queue, t, e, Announced(t)) /\ queue \in Seq(Frames)
  BY <1>1 DEF Sent, TypeOK
<1>3. queue[1].seq = e + 1 /\ e + 1 <= Announced(t) /\ Carries(Tail(queue), t, e + 1, Announced(t))
  BY <1>1, <1>2, CarriesHead
<1>4. client = "live" => e <= cursor[t]
  BY DEF Sent
<1>5. e + 1 <= log[t].seq
  BY <1>1, <1>3
<1>6. (e + 1 > cursor[t] /\ e <= cursor[t]) => cursor[t] = e
  BY <1>1
<1>7. QED
  BY <1>3, <1>4, <1>5, <1>6, <1>1 DEF TakeEvent, clientVars

-----------------------------------------------------------------------------
(* The invariant, step by step. *)

LEMMA LogStep ==
  ASSUME TypeOK, [Next]_vars, NEW s \in Streams
  PROVE  /\ LogOK(log'[s]) /\ log[s].seq <= log'[s].seq
         /\ log'[s] = log[s] \/ (reader[s] = "read" /\ reader'[s] = "publish" /\ log'[s].seq = log[s].seq + 1)
<1> USE DEF daemonVars, linkVars, clientVars
<1>1. LogOK(log[s]) /\ log[s].seq \in Nat
  BY DEF TypeOK, LogOK
<1>2. ASSUME log' = log PROVE log'[s] = log[s]
  BY <1>2
<1>3. ASSUME NEW t \in Streams, NEW len \in Lengths, ReadChunk(t, len)
      PROVE  \/ log'[s] = log[s]
             \/ /\ LogOK(log'[s]) /\ reader[s] = "read" /\ reader'[s] = "publish"
                /\ log'[s].seq = log[s].seq + 1
  <2>1. log' = [log EXCEPT ![t] = LogAppend(log[t], len)]
    BY <1>3 DEF ReadChunk
  <2>2. CASE t = s
    <3>1. log'[s] = LogAppend(log[s], len) \/ log'[s] = log[s]
      BY <2>1, <2>2
    <3>2. LogOK(LogAppend(log[s], len)) /\ LogAppend(log[s], len).seq = log[s].seq + 1
      BY <1>1, LogAppendOK
    <3>3. reader[s] = "read" /\ reader'[s] = "publish"
      BY <1>3, <2>2 DEF ReadChunk, TypeOK
    <3>4. QED
      BY <3>1, <3>2, <3>3
  <2>3. CASE t # s
    BY <2>1, <2>3
  <2>4. QED
    BY <2>2, <2>3
<1>4. log' = log \/ \E t \in Streams, len \in Lengths : ReadChunk(t, len)
  BY DEF Next, vars, Reader, Reaper, Ask, PublishChunk, PipeEnds, MarkExited, PublishExit, Attach, Respond,
         Deliver, Connect, Leave
<1>5. log'[s] = log[s] \/ (/\ LogOK(log'[s]) /\ reader[s] = "read" /\ reader'[s] = "publish"
                           /\ log'[s].seq = log[s].seq + 1)
  BY <1>2, <1>3, <1>4
<1>6. QED
  BY <1>1, <1>5

LEMMA TypeStep ==
  ASSUME IInv, [Next]_vars
  PROVE  TypeOK'
<1> USE DEF daemonVars, linkVars, clientVars
<1> DEFINE Rest ==
      /\ reader \in [Streams -> {"read", "publish", "done"}]
      /\ status \in {"running", "exited", "published"}
      /\ conn \in {"closed", "open", "authed"}
      /\ client \in {"off", "ask", "wait", "live"}
      /\ connects \in 0 .. MaxConnects
      /\ exitSeen \in BOOLEAN
           Link ==
      /\ queue \in Seq(Frames) /\ Len(queue) <= Depth
      /\ answer \in Seq(Answers) /\ Len(answer) <= 1
           Client ==
      /\ cursor \in [Streams -> Nat]
      /\ base \in [Streams -> Nat]
      /\ held \in [Streams -> SUBSET Nat]
      /\ early \in [Streams -> SUBSET Nat]
<1>1. TypeOK /\ LinkInv /\ Rest /\ Link /\ Client
  BY DEF IInv, TypeOK
<1>2. Depth \in Nat /\ MaxConnects \in Nat /\ <<>> \in Seq(Frames) /\ <<>> \in Seq(Answers) /\ Len(<<>>) = 0
  BY ReplayAssumption
<1>3. ASSUME NEW f \in Frames, Publish(f) PROVE Link' /\ conn' \in {"closed", "open", "authed"}
  <2>1. CASE conn # "authed" /\ UNCHANGED linkVars
    BY <1>1, <2>1
  <2>2. CASE Len(queue) < Depth /\ queue' = Append(queue, f) /\ conn' = conn /\ answer' = answer
    <3>1. Append(queue, f) \in Seq(Frames) /\ Len(Append(queue, f)) = Len(queue) + 1 /\ Len(queue) \in Nat
      BY <1>1, AppendIs
    <3>2. QED
      BY <1>1, <1>2, <2>2, <3>1
  <2>3. CASE conn' = "closed" /\ queue' = <<>> /\ answer' = <<>>
    BY <1>2, <2>3
  <2>4. QED
    BY <1>3, <2>1, <2>2, <2>3, PublishIs
<1>4. ASSUME NEW s \in Streams, PublishChunk(s) PROVE Rest' /\ Link' /\ Client'
  <2>1. Link' /\ conn' \in {"closed", "open", "authed"}
    <3>1. StreamEvent(s, log[s].seq) \in Frames
      BY <1>1, FrameTypes DEF TypeOK, LogOK
    <3>2. QED
      BY <1>3, <1>4, <3>1 DEF PublishChunk
  <2>2. QED
    BY <1>1, <1>4, <2>1 DEF PublishChunk
<1>5. ASSUME PublishExit PROVE Rest' /\ Link' /\ Client'
  <2>1. Link' /\ conn' \in {"closed", "open", "authed"}
    BY <1>3, <1>5, FrameTypes DEF PublishExit
  <2>2. QED
    BY <1>1, <1>5, <2>1 DEF PublishExit
<1>6. ASSUME NEW s \in Streams, PipeEnds(s) \/ \E len \in Lengths : ReadChunk(s, len)
      PROVE Rest' /\ Link' /\ Client'
  BY <1>1, <1>6 DEF PipeEnds, ReadChunk
<1>7. ASSUME MarkExited PROVE Rest' /\ Link' /\ Client'
  BY <1>1, <1>7 DEF MarkExited
<1>8. ASSUME NEW asked \in Asks, Attach(asked) PROVE Rest' /\ Link' /\ Client'
  <2>1. AttachResult(asked, cursor) \in Answers
    BY <1>1, AnswerIs
  <2>2. <<AttachResult(asked, cursor)>> \in Seq(Answers) /\ Len(<<AttachResult(asked, cursor)>>) = 1
    BY <2>1
  <2>3. QED
    BY <1>1, <1>8, <2>2 DEF Attach
<1>9. ASSUME Respond PROVE Rest' /\ Link' /\ Client'
  <2>1. PageFrame(answer[1]) \in Frames
    <3>1. answer[1] \in Answers
      BY <1>1, <1>9, QueueIs DEF Respond, NoAnswer
    <3>2. QED
      BY <3>1, FrameTypes
  <2>2. /\ Append(queue, PageFrame(answer[1])) \in Seq(Frames) /\ Len(queue) \in Nat
        /\ Len(Append(queue, PageFrame(answer[1]))) = Len(queue) + 1
    BY <1>1, <2>1, AppendIs
  <2>3. Link'
    BY <1>2, <1>9, <2>2 DEF Respond, NoAnswer
  <2>4. QED
    BY <1>1, <1>9, <2>3 DEF Respond
<1>10. ASSUME Connect PROVE Rest' /\ Link' /\ Client'
  BY <1>1, <1>2, <1>10 DEF Connect
<1>11. ASSUME Leave PROVE Rest' /\ Link' /\ Client'
  <2>1. /\ conn' = "closed" /\ queue' = <<>> /\ answer' = <<>> /\ client' = "off" /\ exitSeen' = FALSE
        /\ early' = [s \in Streams |-> {}]
        /\ UNCHANGED <<daemonVars, cursor, base, held, connects>>
    BY <1>11 DEF Leave, Close, NoAnswer
  <2>2. early' \in [Streams -> SUBSET Nat]
    BY <2>1
  <2>3. Link'
    BY <1>2, <2>1
  <2>4. Client'
    BY <1>1, <2>1, <2>2
  <2>5. QED
    BY <1>1, <2>1, <2>3, <2>4
<1>12. ASSUME Deliver PROVE Rest' /\ Link' /\ Client'
  <2>1. /\ queue # <<>> /\ queue' = Tail(queue)
        /\ UNCHANGED <<daemonVars, conn, answer, connects>>
        /\ conn = "authed" /\ Head(queue) = queue[1]
        /\ Tail(queue) \in Seq(Frames) /\ Len(Tail(queue)) <= Depth
        /\ queue[1].event = "stream" => queue[1].stream \in Streams /\ queue[1].seq \in Nat
    BY <1>12, HeadIs DEF Deliver
  <2>2. Link'
    BY <1>1, <2>1
  <2>3. CASE queue[1].event = "page" /\ TakePage(queue[1].page)
    <3>1. ASSUME NEW s \in Streams
          PROVE  /\ cursor'[s] \in Nat /\ base'[s] \in Nat /\ held'[s] = base'[s] + 1 .. cursor'[s]
                 /\ client' \in {"ask", "live"}
      <4>1. PICK lo, e \in 0 .. log[s].seq : Sent(s, lo, e)
        BY <2>1, SentExists
      <4>2. QED
        BY <2>1, <2>3, <4>1, PageTaken DEF IsPage
    <3>2. /\ cursor' = [s \in Streams |-> cursor'[s]] /\ base' = [s \in Streams |-> base'[s]]
          /\ held' = [s \in Streams |-> held'[s]]
          /\ early' = early \/ early' = [s \in Streams |-> {}]
          /\ client' \in {"ask", "live"} /\ exitSeen' = exitSeen
      BY <2>3 DEF TakePage
    <3>3. \A s \in Streams : held'[s] \subseteq Nat
      BY <3>1
    <3>4. Client'
      <4>1. cursor' \in [Streams -> Nat] /\ base' \in [Streams -> Nat] /\ held' \in [Streams -> SUBSET Nat]
        BY <3>1, <3>2, <3>3
      <4>2. early' \in [Streams -> SUBSET Nat]
        BY <1>1, <3>2
      <4>3. QED
        BY <4>1, <4>2
    <3>5. QED
      BY <1>1, <2>1, <2>2, <3>2, <3>4
  <2>4. CASE queue[1].event = "stream" /\ TakeEvent(queue[1].stream, queue[1].seq)
    <3> DEFINE t == queue[1].stream
               n == queue[1].seq
    <3>1. t \in Streams /\ n \in Nat /\ TakeEvent(t, n)
      BY <2>1, <2>4
    <3> HIDE DEF t, n
    <3>2. Client' /\ client' = client /\ exitSeen' = exitSeen
      <4>1. CASE early' = [early EXCEPT ![t] = @ \cup {n}] /\ UNCHANGED <<client, cursor, base, held, exitSeen>>
        <5>1. early[t] \cup {n} \in SUBSET Nat
          BY <1>1, <3>1
        <5>2. early' \in [Streams -> SUBSET Nat]
          BY <1>1, <4>1, <5>1
        <5>3. QED
          BY <1>1, <4>1, <5>2
      <4>2. CASE /\ held' = [held EXCEPT ![t] = @ \cup {n}] /\ cursor' = [cursor EXCEPT ![t] = n]
                 /\ UNCHANGED <<client, base, early, exitSeen>>
        <5>1. held[t] \cup {n} \in SUBSET Nat
          BY <1>1, <3>1
        <5>2. held' \in [Streams -> SUBSET Nat] /\ cursor' \in [Streams -> Nat]
          BY <1>1, <3>1, <4>2, <5>1
        <5>3. QED
          BY <1>1, <4>2, <5>2
      <4>3. CASE UNCHANGED clientVars
        BY <1>1, <4>3
      <4>4. QED
        BY <3>1, <4>1, <4>2, <4>3 DEF TakeEvent
    <3>3. QED
      BY <1>1, <2>1, <2>2, <3>2
  <2>5. CASE exitSeen' = TRUE /\ UNCHANGED <<client, cursor, base, held, early>>
    BY <1>1, <2>1, <2>2, <2>5
  <2>6. QED
    BY <1>12, <2>1, <2>3, <2>4, <2>5 DEF Deliver
<1>13. ASSUME UNCHANGED vars PROVE Rest' /\ Link' /\ Client'
  BY <1>1, <1>13 DEF vars
<1>14. Rest' /\ Link' /\ Client'
  <2> HIDE DEF Rest, Link, Client
  <2> QED
    BY <1>4, <1>5, <1>6, <1>7, <1>8, <1>9, <1>10, <1>11, <1>12, <1>13 DEF Next, Reader, Reaper, Ask
<1>15. \A s \in Streams : LogOK(log[s])'
  <2>1. \A s \in Streams : LogOK(log'[s])
    BY <1>1, LogStep
  <2>2. \A s \in Streams : LogOK(log'[s]) => LogOK(log[s])'
    BY DEF LogOK, Bytes, Chunks
  <2>3. QED
    BY <2>1, <2>2
<1>16. DOMAIN log' = Streams
  <2>1. log' = log \/ \E t \in Streams, len \in Lengths : ReadChunk(t, len)
    BY DEF Next, vars, Reader, Reaper, Ask, PublishChunk, PipeEnds, MarkExited, PublishExit, Attach, Respond,
           Deliver, Connect, Leave
  <2>2. DOMAIN log' = DOMAIN log
    BY <2>1 DEF ReadChunk
  <2>3. QED
    BY <2>2 DEF IInv, TypeOK
<1>17. QED
  BY <1>14, <1>15, <1>16 DEF TypeOK

LEMMA LinkStep ==
  ASSUME IInv, [Next]_vars
  PROVE  LinkInv'
<1> USE DEF daemonVars, linkVars, clientVars
<1>1. TypeOK /\ LinkInv
  BY DEF IInv
<1>2. \A j \in DOMAIN <<>> : FALSE
  OBVIOUS
<1>3. ASSUME NEW f \in Frames, f.event # "page", Publish(f), UNCHANGED clientVars
      PROVE  LinkInv'
  <2>1. CASE conn # "authed" /\ UNCHANGED linkVars
    BY <1>1, <1>3, <2>1 DEF LinkInv, IsPage
  <2>2. CASE conn = "authed" /\ queue' = Append(queue, f) /\ conn' = conn /\ answer' = answer
    <3>1. /\ DOMAIN queue = 1 .. Len(queue) /\ DOMAIN queue' = 1 .. Len(queue) + 1 /\ Len(queue) \in Nat
          /\ \A j \in 1 .. Len(queue) : queue'[j] = queue[j]
          /\ queue'[Len(queue) + 1] = f
      BY <1>1, <2>2, AppendIs DEF TypeOK
    <3>2. \A j \in DOMAIN queue' : IsPage(queue', j) => j \in DOMAIN queue /\ IsPage(queue, j)
      BY <1>3, <3>1 DEF IsPage
    <3>3. QED
      BY <1>1, <1>3, <2>2, <3>2 DEF LinkInv
  <2>3. CASE conn' = "closed" /\ queue' = <<>> /\ answer' = <<>>
    <3>1. client = "off" => early = [s \in Streams |-> {}] /\ ~exitSeen
      BY <1>1 DEF LinkInv
    <3>2. QED
      BY <1>2, <1>3, <2>3, <3>1 DEF LinkInv, NoAnswer
  <2>4. QED
    BY <1>3, <2>1, <2>2, <2>3, PublishIs
<1>4. ASSUME NEW s \in Streams, Reader(s) PROVE LinkInv'
  <2>1. CASE PublishChunk(s)
    <3>1. StreamEvent(s, log[s].seq) \in Frames /\ StreamEvent(s, log[s].seq).event = "stream"
      BY <1>1, FrameTypes DEF TypeOK, LogOK
    <3>2. QED
      BY <1>3, <2>1, <3>1 DEF PublishChunk
  <2>2. CASE ~PublishChunk(s)
    BY <1>1, <1>4, <2>2 DEF Reader, ReadChunk, PipeEnds, LinkInv, IsPage
  <2>3. QED
    BY <2>1, <2>2
<1>5. ASSUME Reaper PROVE LinkInv'
  <2>1. CASE PublishExit
    BY <1>3, <2>1, FrameTypes DEF PublishExit
  <2>2. CASE MarkExited
    BY <1>1, <2>2 DEF MarkExited, LinkInv, IsPage
  <2>3. QED
    BY <1>5, <2>1, <2>2 DEF Reaper
<1>6. ASSUME NEW asked \in Asks, Attach(asked) PROVE LinkInv'
  <2>1. conn' = "authed" /\ client' = "wait" /\ client # "wait" /\ queue' = queue
    BY <1>6 DEF Attach
  <2>2. \A j \in DOMAIN queue' : ~IsPage(queue', j)
    BY <1>1, <2>1 DEF LinkInv
  <2>3. QED
    BY <2>1, <2>2 DEF LinkInv
<1>7. ASSUME Respond PROVE LinkInv'
  <2>1. /\ answer # NoAnswer /\ answer' = NoAnswer /\ conn' = "authed" /\ UNCHANGED clientVars
        /\ client = "wait" /\ queue' = Append(queue, PageFrame(answer[1]))
        /\ \A j \in DOMAIN queue : ~IsPage(queue, j)
    BY <1>1, <1>7 DEF Respond, LinkInv
  <2>2. /\ DOMAIN queue = 1 .. Len(queue) /\ DOMAIN queue' = 1 .. Len(queue) + 1 /\ Len(queue) \in Nat
        /\ \A j \in 1 .. Len(queue) : queue'[j] = queue[j]
    <3>1. PageFrame(answer[1]) \in Frames
      BY <1>1, <2>1, QueueIs, FrameTypes DEF NoAnswer
    <3>2. QED
      BY <1>1, <2>1, <3>1, AppendIs DEF TypeOK
  <2>3. \A j \in DOMAIN queue' : IsPage(queue', j) => j = Len(queue) + 1
    BY <2>1, <2>2 DEF IsPage
  <2>4. QED
    BY <2>1, <2>3 DEF LinkInv
<1>8. ASSUME Deliver PROVE LinkInv'
  <2>1. /\ queue # <<>> /\ queue' = Tail(queue) /\ conn' = conn /\ answer' = answer
        /\ conn = "authed" /\ Head(queue) = queue[1] /\ 1 \in DOMAIN queue
    BY <1>8, HeadIs DEF Deliver
  <2>2. /\ DOMAIN queue = 1 .. Len(queue) /\ DOMAIN queue' = 1 .. Len(queue) - 1 /\ Len(queue) \in Nat
        /\ \A j \in 1 .. Len(queue) - 1 : queue'[j] = queue[j + 1]
    BY <1>1, <2>1, TailIs DEF TypeOK
  <2>3. \A j \in DOMAIN queue' : IsPage(queue', j) => j + 1 \in DOMAIN queue /\ IsPage(queue, j + 1) /\ j + 1 # 1
    BY <2>2 DEF IsPage
  <2>4. client # "off"
    BY <1>1, <2>1 DEF LinkInv
  <2>5. CASE queue[1].event = "page" /\ TakePage(queue[1].page)
    <3>1. IsPage(queue, 1) /\ answer = NoAnswer
      BY <1>1, <2>1, <2>5 DEF LinkInv, IsPage
    <3>2. \A j \in DOMAIN queue' : ~IsPage(queue', j)
      BY <1>1, <2>1, <2>3, <3>1 DEF LinkInv
    <3>3. client' \in {"ask", "live"}
      BY <2>5 DEF TakePage
    <3>4. QED
      BY <2>1, <3>1, <3>2, <3>3 DEF LinkInv
  <2>6. ASSUME client' = client PROVE LinkInv'
    <3>1. \A i, j \in DOMAIN queue' : IsPage(queue', i) /\ IsPage(queue', j) => i = j
      <4>1. \A i, j \in DOMAIN queue' : i + 1 = j + 1 => i = j
        BY <2>2
      <4>2. QED
        BY <1>1, <2>3, <4>1 DEF LinkInv
    <3>2. \A j \in DOMAIN queue' : IsPage(queue', j) => client = "wait" /\ answer = NoAnswer
      BY <1>1, <2>3 DEF LinkInv
    <3>3. answer # NoAnswer => client = "wait"
      BY <1>1 DEF LinkInv
    <3>4. QED
      BY <2>1, <2>4, <2>6, <3>1, <3>2, <3>3 DEF LinkInv
  <2>7. CASE TakeEvent(queue[1].stream, queue[1].seq)
    BY <2>6, <2>7 DEF TakeEvent
  <2>8. QED
    BY <1>8, <2>1, <2>5, <2>6, <2>7 DEF Deliver
<1>9. ASSUME Connect PROVE LinkInv'
  <2>1. /\ conn' = "open" /\ client' = "ask" /\ queue' = queue /\ answer' = answer
        /\ early' = early /\ early = [s \in Streams |-> {}] /\ queue = <<>> /\ answer = NoAnswer
    BY <1>1, <1>9 DEF Connect, LinkInv
  <2>2. QED
    BY <1>2, <2>1 DEF LinkInv
<1>10. ASSUME Leave PROVE LinkInv'
  BY <1>2, <1>10 DEF Leave, Close, LinkInv
<1>11. ASSUME UNCHANGED vars PROVE LinkInv'
  BY <1>1, <1>11 DEF vars, LinkInv, IsPage
<1>12. QED
  BY <1>4, <1>5, <1>6, <1>7, <1>8, <1>9, <1>10, <1>11 DEF Next, Ask
LEMMA WayEmptyNext ==
  ASSUME LinkInv', client' # "wait"
  PROVE  OnTheirWay' = {}
<1>1. answer' = <<>>
  BY DEF LinkInv, NoAnswer
<1>2. DOMAIN <<>> = {}
  OBVIOUS
<1>3. \A j \in DOMAIN queue' : ~IsPage(queue', j)
  BY DEF LinkInv
<1>4. QED
  BY <1>1, <1>2, <1>3 DEF OnTheirWay

\* The cursor moves when a page or, live, an event is delivered.
LEMMA ClientStep ==
  ASSUME IInv, [Next]_vars, NEW s \in Streams
  PROVE  /\ base'[s] <= cursor'[s] /\ cursor'[s] <= log'[s].seq
         /\ held'[s] = base'[s] + 1 .. cursor'[s]
         /\ cursor'[s] = cursor[s] \/ client = "live" \/ client' \in {"ask", "live"}
<1> USE DEF daemonVars, linkVars, clientVars
<1>1. /\ TypeOK /\ base[s] <= cursor[s] /\ cursor[s] <= log[s].seq /\ held[s] = base[s] + 1 .. cursor[s]
      /\ base[s] \in Nat /\ cursor[s] \in Nat /\ log[s].seq \in Nat
  BY DEF IInv, CursorInv, NoGap, TypeOK, LogOK
<1>2. log[s].seq <= log'[s].seq /\ log'[s].seq \in Nat
  BY <1>1, LogStep DEF LogOK
<1>3. ASSUME UNCHANGED <<cursor, base, held>> PROVE base'[s] <= cursor'[s] /\ cursor'[s] <= log'[s].seq /\ held'[s] = base'[s] + 1 .. cursor'[s] /\ cursor'[s] = cursor[s]
  BY <1>1, <1>2, <1>3
<1>4. CASE Deliver
  <2>1. /\ queue # <<>> /\ conn = "authed" /\ Head(queue) = queue[1] /\ log' = log
        /\ queue[1].event = "stream" => queue[1].stream \in Streams /\ queue[1].seq \in Nat
    BY <1>4, HeadIs DEF Deliver
  <2>2. CASE queue[1].event = "page" /\ TakePage(queue[1].page)
    <3>1. PICK lo, e \in 0 .. log[s].seq : Sent(s, lo, e)
      BY <2>1, SentExists
    <3>2. QED
      BY <2>1, <2>2, <3>1, PageTaken DEF IsPage
  <2>3. CASE queue[1].event = "stream" /\ TakeEvent(queue[1].stream, queue[1].seq)
    <3> DEFINE t == queue[1].stream
    <3>1. t \in Streams /\ IsEvent(queue, t, 1) /\ TakeEvent(t, queue[1].seq)
      BY <2>1, <2>3 DEF IsEvent
    <3> HIDE DEF t
    <3>2. PICK lo, e \in 0 .. log[t].seq : Sent(t, lo, e)
      BY <2>1, <3>1, SentExists
    <3>3. /\ base' = base /\ e + 1 <= log[t].seq
          /\ \/ cursor' = cursor /\ held' = held
             \/ /\ client = "live" /\ cursor[t] = e
                /\ held' = [held EXCEPT ![t] = @ \cup {e + 1}]
                /\ cursor' = [cursor EXCEPT ![t] = e + 1]
      BY <2>1, <3>1, <3>2, EventTaken
    <3>4. CASE cursor' = cursor /\ held' = held
      BY <1>3, <3>3, <3>4
    <3>5. CASE /\ client = "live" /\ cursor[t] = e /\ t = s
               /\ held' = [held EXCEPT ![t] = @ \cup {e + 1}]
               /\ cursor' = [cursor EXCEPT ![t] = e + 1]
      <4>1. cursor'[s] = cursor[s] + 1 /\ held'[s] = held[s] \cup {cursor[s] + 1}
        BY <3>5 DEF IInv, TypeOK
      <4>2. (base[s] + 1 .. cursor[s]) \cup {cursor[s] + 1} = base[s] + 1 .. cursor[s] + 1
        BY <1>1
      <4>3. base'[s] = base[s] /\ cursor[s] + 1 <= log'[s].seq
        BY <2>1, <3>3, <3>5
      <4>4. held'[s] = base'[s] + 1 .. cursor'[s]
        BY <1>1, <4>1, <4>2, <4>3
      <4>5. base'[s] <= cursor'[s]
        BY <1>1, <4>1, <4>3
      <4>6. QED
        BY <3>5, <4>1, <4>3, <4>4, <4>5
    <3>6. CASE /\ t # s
               /\ held' = [held EXCEPT ![t] = @ \cup {e + 1}]
               /\ cursor' = [cursor EXCEPT ![t] = e + 1]
      <4>1. cursor'[s] = cursor[s] /\ held'[s] = held[s]
        BY <3>6 DEF IInv, TypeOK
      <4>2. QED
        BY <1>1, <2>1, <3>3, <4>1
    <3>7. QED
      BY <3>3, <3>4, <3>5, <3>6
  <2>4. CASE UNCHANGED <<client, cursor, base, held, early>>
    BY <1>3, <2>4
  <2>5. QED
    BY <1>4, <2>1, <2>2, <2>3, <2>4 DEF Deliver
<1>5. CASE ~Deliver
  <2>1. UNCHANGED <<cursor, base, held>>
    BY <1>5 DEF Next, vars, Reader, Reaper, Ask, ReadChunk, PublishChunk, PipeEnds, MarkExited, PublishExit, Attach,
                Respond, Connect, Leave
  <2>2. QED
    BY <1>3, <2>1
<1>6. QED
  BY <1>4, <1>5

LEMMA PageStep ==
  ASSUME IInv, [Next]_vars, LinkInv'
  PROVE  PageInv'
<1> SUFFICES ASSUME NEW page \in OnTheirWay', NEW s \in Streams
             PROVE  Fits(page[s], s)'
  BY DEF PageInv
<1>1. TypeOK /\ LinkInv /\ PageInv /\ log[s].seq \in Nat
  BY DEF IInv, TypeOK, LogOK
<1>2. CASE OnTheirWay' \subseteq OnTheirWay
  <2>1. page \in OnTheirWay /\ page \in Answers
    BY <1>1, <1>2, WayTypes
  <2>2. Fits(page[s], s) /\ client = "wait"
    BY <1>1, <2>1, WayEmpty DEF PageInv
  <2>3. client' = "wait"
    BY WayEmptyNext
  <2>4. cursor'[s] = cursor[s]
    BY <2>2, <2>3, ClientStep
  <2>5. page[s].next \in Nat /\ log[s].seq <= log'[s].seq /\ log'[s].seq \in Nat
    BY <1>1, <2>1, LogStep DEF Answers, Pages, LogOK
  <2>6. page[s].next <= log'[s].seq
    BY <1>1, <2>2, <2>5 DEF Fits
  <2>7. QED
    BY <2>2, <2>4, <2>6 DEF Fits
<1>3. ASSUME NEW asked \in Asks, Attach(asked), OnTheirWay' = {AttachResult(asked, cursor)}
      PROVE  Fits(page[s], s)'
  <2>1. Fits(page[s], s)
    BY <1>1, <1>3, AnswerIs
  <2>2. log' = log /\ cursor' = cursor
    BY <1>3 DEF Attach, daemonVars
  <2>3. QED
    BY <2>1, <2>2 DEF Fits
<1>4. QED
  BY <1>1, <1>2, <1>3, WayStep
LEMMA AnnouncedStep ==
  ASSUME IInv, [Next]_vars, NEW s \in Streams
  PROVE  \/ Announced(s)' = Announced(s)
         \/ PublishChunk(s) /\ Announced(s) = log[s].seq - 1 /\ Announced(s)' = log[s].seq
<1> USE DEF daemonVars, linkVars, clientVars
<1>1. log[s].seq \in Nat /\ reader \in [Streams -> {"read", "publish", "done"}]
  BY DEF IInv, TypeOK, LogOK
<1>2. ASSUME log'[s] = log[s], reader'[s] = reader[s] PROVE Announced(s)' = Announced(s)
  BY <1>2 DEF Announced
<1>3. ASSUME NEW t \in Streams, NEW len \in Lengths, ReadChunk(t, len) PROVE Announced(s)' = Announced(s)
  <2>1. /\ reader[t] = "read" /\ log' = [log EXCEPT ![t] = LogAppend(log[t], len)]
        /\ reader' = [reader EXCEPT ![t] = "publish"]
    BY <1>3 DEF ReadChunk
  <2>2. CASE t = s
    <3>1. log'[s].seq = log[s].seq + 1 /\ reader'[s] = "publish" /\ reader[s] = "read"
      BY <1>1, <2>1, <2>2 DEF LogAppend, IInv, TypeOK
    <3>2. QED
      BY <1>1, <3>1 DEF Announced
  <2>3. CASE t # s
    BY <1>1, <1>2, <2>1, <2>3
  <2>4. QED
    BY <2>2, <2>3
<1>4. ASSUME NEW t \in Streams, PipeEnds(t) PROVE Announced(s)' = Announced(s)
  BY <1>1, <1>4 DEF PipeEnds, Announced
<1>5. ASSUME NEW t \in Streams, PublishChunk(t)
      PROVE \/ Announced(s)' = Announced(s)
            \/ t = s /\ Announced(s) = log[s].seq - 1 /\ Announced(s)' = log[s].seq
  <2>1. reader[t] = "publish" /\ reader' = [reader EXCEPT ![t] = "read"] /\ log' = log
    BY <1>5 DEF PublishChunk
  <2>2. QED
    BY <1>1, <1>2, <2>1 DEF Announced
<1>6. CASE ~\E t \in Streams : Reader(t)
  <2>1. log' = log /\ reader' = reader
    BY <1>6 DEF Next, vars, Reaper, Ask, MarkExited, PublishExit, Attach, Respond, Deliver, Connect, Leave
  <2>2. QED
    BY <1>2, <2>1
<1>7. QED
  BY <1>3, <1>4, <1>5, <1>6 DEF Reader
LEMMA SentStep ==
  ASSUME IInv, [Next]_vars
  PROVE  SentInv'
<1> USE DEF daemonVars, linkVars, clientVars
<1> SUFFICES ASSUME conn' = "authed", NEW s \in Streams
             PROVE  (\E lo, e \in 0 .. log[s].seq : Sent(s, lo, e))'
  BY DEF SentInv
<1>1. /\ TypeOK /\ LinkInv /\ ExitInv /\ log[s].seq \in Nat /\ log'[s].seq \in Nat /\ log[s].seq <= log'[s].seq
      /\ Announced(s) \in Nat /\ Announced(s) <= log[s].seq
  BY AnnouncedIs, LogStep DEF IInv, TypeOK, LogOK
<1>2. Announced(s)' \in Nat /\ Announced(s) <= Announced(s)' /\ Announced(s)' <= log'[s].seq
  BY <1>1, AnnouncedStep
<1>3. ASSUME NEW lo \in 0 .. log'[s].seq, NEW e \in 0 .. log'[s].seq,
             lo <= e, e <= Announced(s)',
             IF client' = "live" THEN early'[s] = {} /\ e <= cursor'[s] ELSE early'[s] = lo + 1 .. e,
             Carries(queue', s, e, Announced(s)'),
             \A page \in OnTheirWay' : page[s].complete => page[s].next >= lo
      PROVE  (\E n, m \in 0 .. log[s].seq : Sent(s, n, m))'
  BY <1>3 DEF Sent
<1>4. ASSUME conn # "authed" PROVE (\E lo, e \in 0 .. log[s].seq : Sent(s, lo, e))'
  <2>1. PICK asked \in Asks : Attach(asked)
    BY <1>1, <1>4 DEF Next, vars, Reader, Reaper, Ask, ReadChunk, PublishChunk, PipeEnds, MarkExited, PublishExit,
                      Publish, Close, Respond, Deliver, Connect, Leave, LinkInv
  <2>2. /\ conn = "open" /\ queue' = <<>> /\ early'[s] = {} /\ client' = "wait" /\ client # "wait"
        /\ log' = log /\ reader' = reader
    BY <1>1, <1>4, <2>1 DEF Attach, LinkInv, TypeOK
  <2>3. Announced(s)' = Announced(s)
    BY <2>2 DEF Announced
  <2>4. \A page \in OnTheirWay' : page[s].complete => page[s].next >= Announced(s)
    <3>1. \A other \in Asks : LET page == AttachResult(other, cursor) IN page[s].complete => page[s].next = log[s].seq
      BY <1>1, AnswerIs
    <3>2. OnTheirWay = {}
      BY <1>1, <2>2, WayEmpty
    <3>3. OnTheirWay' = {} \/ \E other \in Asks : OnTheirWay' = {AttachResult(other, cursor)}
      BY <1>1, <3>2, WayStep
    <3>4. QED
      BY <1>1, <3>1, <3>3
  <2>5. Carries(queue', s, Announced(s), Announced(s)')
    BY <1>1, <2>2, <2>3, CarriesNothing
  <2>6. Announced(s) \in 0 .. log'[s].seq /\ Announced(s) + 1 .. Announced(s) = {}
    BY <1>1, <2>2
  <2>7. QED
    BY <1>1, <1>3, <2>2, <2>3, <2>4, <2>5, <2>6
<1>5. ASSUME conn = "authed" PROVE (\E lo, e \in 0 .. log[s].seq : Sent(s, lo, e))'
  <2>1. PICK lo, e \in 0 .. log[s].seq : Sent(s, lo, e)
    BY <1>5, SentExists
  <2>2. /\ lo <= e /\ e <= Announced(s) /\ Carries(queue, s, e, Announced(s))
        /\ client = "live" => early[s] = {} /\ e <= cursor[s]
        /\ client # "live" => early[s] = lo + 1 .. e
        /\ \A page \in OnTheirWay : page[s].complete => page[s].next >= lo
    BY <2>1 DEF Sent
  <2>3. lo \in 0 .. log'[s].seq /\ e \in 0 .. log'[s].seq /\ e <= Announced(s)' /\ lo \in Nat /\ e \in Nat
    BY <1>1, <1>2, <2>2
  <2>4. \A page \in OnTheirWay' : page[s].complete => page[s].next >= lo
    <3>1. \A other \in Asks : LET page == AttachResult(other, cursor) IN page[s].complete => page[s].next = log[s].seq
      BY <1>1, AnswerIs
    <3>2. OnTheirWay' \subseteq OnTheirWay \/ \E other \in Asks : OnTheirWay' = {AttachResult(other, cursor)}
      BY <1>1, WayStep
    <3>3. lo <= log[s].seq
      BY <1>1
    <3>4. QED
      BY <2>2, <3>1, <3>2, <3>3
  <2>5. ASSUME Carries(queue', s, e, Announced(s)'), early' = early, cursor' = cursor, client' = client
        PROVE  (\E n, m \in 0 .. log[s].seq : Sent(s, n, m))'
    BY <1>3, <2>2, <2>3, <2>4, <2>5
  <2>6. ASSUME NEW f \in Frames, ~(f.event = "stream" /\ f.stream = s), Publish(f),
               UNCHANGED clientVars, Announced(s)' = Announced(s)
        PROVE  (\E n, m \in 0 .. log[s].seq : Sent(s, n, m))'
    <3>1. queue' = Append(queue, f)
      BY <1>5, <2>6, PublishIs
    <3>2. Carries(queue', s, e, Announced(s)')
      BY <1>1, <2>2, <2>6, <3>1, CarriesMore DEF TypeOK
    <3>3. QED
      BY <2>5, <2>6, <3>2
  <2>7. ASSUME NEW t \in Streams, PublishChunk(t)
        PROVE  (\E n, m \in 0 .. log[s].seq : Sent(s, n, m))'
    <3>1. /\ Publish(StreamEvent(t, log[t].seq)) /\ UNCHANGED clientVars /\ reader[t] = "publish"
          /\ reader' = [reader EXCEPT ![t] = "read"] /\ log' = log
      BY <2>7 DEF PublishChunk
    <3>2. log[t].seq \in Nat
      BY <1>1 DEF TypeOK, LogOK
    <3>3. CASE t = s
      <4>1. Announced(s) = log[s].seq - 1 /\ Announced(s)' = Announced(s) + 1
        BY <1>1, <3>1, <3>3 DEF Announced, TypeOK
      <4>2. queue' = Append(queue, StreamEvent(s, Announced(s) + 1))
        <5>1. queue' = Append(queue, StreamEvent(s, log[s].seq))
          BY <1>5, <3>1, <3>3, PublishIs
        <5>2. Announced(s) + 1 = log[s].seq
          BY <1>1, <4>1
        <5>3. QED
          BY <5>1, <5>2
      <4>3. Carries(queue', s, e, Announced(s)')
        BY <1>1, <2>2, <2>3, <4>1, <4>2, CarriesNext DEF TypeOK
      <4>4. QED
        BY <2>5, <3>1, <4>3
    <3>4. CASE t # s
      <4>1. /\ StreamEvent(t, log[t].seq) \in Frames
            /\ ~(StreamEvent(t, log[t].seq).event = "stream" /\ StreamEvent(t, log[t].seq).stream = s)
        BY <3>2, <3>4, FrameTypes
      <4>2. Announced(s)' = Announced(s)
        BY <1>1, <3>1, <3>4 DEF Announced, TypeOK
      <4>3. QED
        BY <2>6, <3>1, <4>1, <4>2
    <3>5. QED
      BY <3>3, <3>4
  <2>8. ASSUME PublishExit PROVE (\E n, m \in 0 .. log[s].seq : Sent(s, n, m))'
    <3>1. Announced(s)' = Announced(s) /\ Publish(ExitEvent) /\ UNCHANGED clientVars
      BY <2>8 DEF PublishExit, Announced
    <3>2. QED
      BY <2>6, <3>1, FrameTypes
  <2>9. ASSUME ~\E t \in Streams : PublishChunk(t) PROVE Announced(s)' = Announced(s)
    BY <2>9, AnnouncedStep
  <2>10. ASSUME UNCHANGED <<linkVars, clientVars>>, ~\E t \in Streams : PublishChunk(t)
         PROVE  (\E n, m \in 0 .. log[s].seq : Sent(s, n, m))'
    BY <2>2, <2>5, <2>9, <2>10
  <2>11. ASSUME NEW asked \in Asks, Attach(asked) PROVE (\E n, m \in 0 .. log[s].seq : Sent(s, n, m))'
    <3>1. /\ client = "ask" /\ client' = "wait" /\ queue' = queue /\ early' = early
          /\ log' = log /\ reader' = reader
      BY <2>11 DEF Attach
    <3>2. Announced(s)' = Announced(s)
      BY <3>1 DEF Announced
    <3>3. QED
      BY <1>3, <2>2, <2>3, <2>4, <3>1, <3>2
  <2>12. ASSUME Respond PROVE (\E n, m \in 0 .. log[s].seq : Sent(s, n, m))'
    <3>1. queue' = Append(queue, PageFrame(answer[1])) /\ UNCHANGED clientVars /\ answer # <<>>
          /\ log' = log /\ reader' = reader
      BY <2>12 DEF Respond, NoAnswer
    <3>2. PageFrame(answer[1]) \in Frames /\ PageFrame(answer[1]).event = "page"
      <4>1. answer[1] \in Answers
        BY <1>1, <3>1, QueueIs
      <4>2. QED
        BY <4>1, FrameTypes
    <3>3. Announced(s)' = Announced(s)
      BY <3>1 DEF Announced
    <3>4. Carries(queue', s, e, Announced(s)')
      BY <1>1, <2>2, <3>1, <3>2, <3>3, CarriesMore DEF TypeOK
    <3>5. QED
      BY <2>5, <3>1, <3>4
  <2>13. ASSUME Deliver PROVE (\E n, m \in 0 .. log[s].seq : Sent(s, n, m))'
    <3>1. /\ queue # <<>> /\ queue' = Tail(queue) /\ Head(queue) = queue[1] /\ log' = log /\ reader' = reader
          /\ queue[1].event = "stream" => queue[1].stream \in Streams /\ queue[1].seq \in Nat
      BY <2>13, HeadIs DEF Deliver
    <3>2. Announced(s)' = Announced(s) /\ queue \in Seq(Frames)
      BY <1>1, <3>1 DEF Announced, TypeOK
    <3>3. ASSUME ~IsEvent(queue, s, 1) PROVE Carries(queue', s, e, Announced(s)')
      BY <2>2, <3>1, <3>2, <3>3, CarriesRest
    <3>4. CASE queue[1].event = "page" /\ TakePage(queue[1].page)
      <4>1. /\ client' \in {"ask", "live"} /\ client # "live"
            /\ client' = "live" => early'[s] = {} /\ e <= cursor'[s]
            /\ client' = "ask" => early'[s] = early[s]
        <5>1. client = "wait"
          BY <3>1, <3>4, HeadIs DEF IsPage
        <5>2. QED
          BY <2>1, <3>1, <3>4, <5>1, PageTaken DEF IsPage
      <4>2. Carries(queue', s, e, Announced(s)')
        BY <3>3, <3>4 DEF IsEvent
      <4>3. QED
        BY <1>3, <2>2, <2>3, <2>4, <4>1, <4>2
    <3>5. CASE queue[1].event = "stream" /\ TakeEvent(queue[1].stream, queue[1].seq)
      <4> DEFINE t == queue[1].stream
      <4>1. t \in Streams /\ IsEvent(queue, t, 1) /\ TakeEvent(t, queue[1].seq)
        BY <3>1, <3>5 DEF IsEvent
      <4>2. t # s => ~IsEvent(queue, s, 1)
        BY DEF IsEvent
      <4> HIDE DEF t
      <4>3. PICK a, b \in 0 .. log[t].seq : Sent(t, a, b) /\ (t = s => a = lo /\ b = e)
        BY <1>5, <2>1, <4>1, SentExists
      <4>4. /\ b + 1 <= Announced(t) /\ b + 1 <= log[t].seq
            /\ Carries(Tail(queue), t, b + 1, Announced(t))
            /\ client' = client
            /\ \/ /\ client # "live" /\ cursor' = cursor
                  /\ early' = [early EXCEPT ![t] = @ \cup {b + 1}]
               \/ /\ client = "live" /\ cursor[t] = b /\ early' = early
                  /\ cursor' = [cursor EXCEPT ![t] = b + 1]
               \/ /\ client = "live" /\ b + 1 <= cursor[t] /\ early' = early /\ cursor' = cursor
        BY <3>1, <4>1, <4>3, EventTaken
      <4>5. CASE t = s
        <5>1. a = lo /\ b = e
          BY <4>3, <4>5
        <5>2. (lo + 1 .. e) \cup {e + 1} = lo + 1 .. e + 1
          BY <2>2, <2>3
        <5>3. IF client' = "live" THEN early'[s] = {} /\ e + 1 <= cursor'[s] ELSE early'[s] = lo + 1 .. e + 1
          <6>1. CASE client # "live"
            BY <1>1, <2>2, <4>4, <4>5, <5>1, <5>2, <6>1 DEF TypeOK
          <6>2. CASE client = "live"
            BY <1>1, <2>2, <2>3, <4>4, <4>5, <5>1, <6>2 DEF TypeOK
          <6>3. QED
            BY <6>1, <6>2
        <5>4. e + 1 \in 0 .. log'[s].seq /\ lo <= e + 1 /\ e + 1 <= Announced(s)'
          BY <1>1, <2>2, <2>3, <3>1, <3>2, <4>4, <4>5, <5>1
        <5>5. Carries(queue', s, e + 1, Announced(s)')
          BY <3>1, <3>2, <4>4, <4>5, <5>1
        <5>6. QED
          BY <1>3, <2>3, <2>4, <5>3, <5>4, <5>5
      <4>6. CASE t # s
        <5>1. early'[s] = early[s] /\ cursor'[s] = cursor[s] /\ client' = client
          BY <1>1, <4>4, <4>6 DEF TypeOK
        <5>2. Carries(queue', s, e, Announced(s)')
          BY <3>3, <4>2, <4>6
        <5>3. QED
          BY <1>3, <2>2, <2>3, <2>4, <5>1, <5>2
      <4>7. QED
        BY <4>5, <4>6
    <3>6. CASE queue[1].event = "exit" /\ UNCHANGED <<client, cursor, base, held, early>>
      <4>1. Carries(queue', s, e, Announced(s)')
        BY <3>3, <3>6 DEF IsEvent
      <4>2. QED
        BY <2>5, <3>6, <4>1
    <3>7. QED
      BY <2>13, <3>1, <3>4, <3>5, <3>6 DEF Deliver
  <2>14. ~Leave /\ ~Connect
    BY <1>5 DEF Leave, Close, Connect
  <2>15. ASSUME NEW t \in Streams, Reader(t), ~PublishChunk(t)
         PROVE  (\E n, m \in 0 .. log[s].seq : Sent(s, n, m))'
    <3>1. UNCHANGED <<linkVars, clientVars>>
      BY <2>15 DEF Reader, ReadChunk, PipeEnds
    <3>2. QED
      BY <2>7, <2>10, <3>1
  <2>16. ASSUME MarkExited \/ UNCHANGED vars PROVE (\E n, m \in 0 .. log[s].seq : Sent(s, n, m))'
    <3>1. UNCHANGED <<linkVars, clientVars>>
      BY <2>16 DEF MarkExited, vars
    <3>2. QED
      BY <2>7, <2>10, <3>1
  <2>17. QED
    BY <2>7, <2>8, <2>11, <2>12, <2>13, <2>14, <2>15, <2>16 DEF Next, Ask, Reaper
<1>6. QED
  BY <1>4, <1>5
\* What can happen to the queue.
LEMMA QueueStep ==
  ASSUME IInv, [Next]_vars
  PROVE  \/ queue' = queue
         \/ queue' = <<>>
         \/ queue # <<>> /\ queue' = Tail(queue) /\ Deliver
         \/ \E f \in Frames : /\ queue' = Append(queue, f)
                              /\ \/ f.event = "page"
                                 \/ f.event = "exit" /\ PublishExit
                                 \/ f.event = "stream" /\ \E s \in Streams : PublishChunk(s)
<1> USE DEF daemonVars, linkVars, clientVars
<1>1. TypeOK
  BY DEF IInv
<1>2. ASSUME NEW s \in Streams, PublishChunk(s), queue' # queue, queue' # <<>>
      PROVE  \E f \in Frames : queue' = Append(queue, f) /\ f.event = "stream"
  <2>1. /\ StreamEvent(s, log[s].seq) \in Frames /\ StreamEvent(s, log[s].seq).event = "stream"
        /\ Publish(StreamEvent(s, log[s].seq))
    BY <1>1, <1>2, FrameTypes DEF PublishChunk, TypeOK, LogOK
  <2>2. QED
    BY <1>2, <2>1, PublishIs
<1>3. ASSUME PublishExit, queue' # queue, queue' # <<>>
      PROVE  \E f \in Frames : queue' = Append(queue, f) /\ f.event = "exit"
  <2>1. ExitEvent \in Frames /\ ExitEvent.event = "exit" /\ Publish(ExitEvent)
    BY <1>3, FrameTypes DEF PublishExit
  <2>2. QED
    BY <1>3, <2>1, PublishIs
<1>4. ASSUME Respond PROVE \E f \in Frames : queue' = Append(queue, f) /\ f.event = "page"
  <2>1. answer[1] \in Answers /\ queue' = Append(queue, PageFrame(answer[1]))
    BY <1>1, <1>4, QueueIs DEF Respond, NoAnswer
  <2>2. QED
    BY <2>1, FrameTypes
<1>5. ASSUME ~Deliver, ~Respond, ~PublishExit, ~\E s \in Streams : PublishChunk(s)
      PROVE  queue' = queue \/ queue' = <<>>
  BY <1>5 DEF Next, vars, Reader, Reaper, Ask, ReadChunk, PipeEnds, MarkExited, Attach, Connect, Leave, Close
<1>6. Deliver => queue # <<>> /\ queue' = Tail(queue)
  BY DEF Deliver
<1>7. QED
  BY <1>2, <1>3, <1>4, <1>5, <1>6

\* Once the readers are done, nothing is written or announced any more.
LEMMA DoneStep ==
  ASSUME TypeOK, [Next]_vars, \A s \in Streams : reader[s] = "done"
  PROVE  /\ log' = log /\ reader' = reader
         /\ \A s \in Streams : ~PublishChunk(s)
<1>1. \A s \in Streams : ~Reader(s)
  BY DEF Reader, ReadChunk, PublishChunk, PipeEnds
<1>2. QED
  BY <1>1 DEF Next, vars, Reader, Reaper, Ask, MarkExited, PublishExit, Attach, Respond, Deliver, Connect, Leave,
              daemonVars

LEMMA ExitStep ==
  ASSUME IInv, [Next]_vars
  PROVE  ExitInv'
<1> USE DEF daemonVars, linkVars, clientVars
<1>1. TypeOK /\ LinkInv /\ ExitInv /\ reader \in [Streams -> {"read", "publish", "done"}]
  BY DEF IInv, TypeOK
<1>2. /\ status' = "running" => status = "running"
      /\ status = "published" => status' = "published"
      /\ PublishExit => status' = "published"
  BY <1>1 DEF Next, vars, Reader, Reaper, Ask, ReadChunk, PublishChunk, PipeEnds, MarkExited, PublishExit, Attach,
              Respond, Deliver, Connect, Leave
<1>3. status' # "running" => \A s \in Streams : reader'[s] = "done"
  <2>1. CASE \A s \in Streams : reader[s] = "done"
    BY <1>1, <2>1, DoneStep
  <2>2. CASE ~\A s \in Streams : reader[s] = "done"
    <3>1. status = "running" /\ ~MarkExited
      BY <1>1, <2>2 DEF ExitInv, MarkExited
    <3>2. status' = "running"
      BY <3>1 DEF Next, vars, Reader, Reaper, Ask, ReadChunk, PublishChunk, PipeEnds, PublishExit, Attach, Respond,
                  Deliver, Connect, Leave
    <3>3. QED
      BY <3>2
  <2>3. QED
    BY <2>1, <2>2
<1>4. ASSUME NEW s \in Streams, reader'[s] = "publish" PROVE log'[s].seq > 0
  <2>1. log[s].seq \in Nat /\ log'[s].seq \in Nat /\ log[s].seq <= log'[s].seq
    BY <1>1, LogStep DEF TypeOK, LogOK
  <2>2. CASE reader[s] = "publish"
    BY <1>1, <2>1, <2>2 DEF ExitInv
  <2>3. CASE reader[s] # "publish"
    <3>1. PICK len \in Lengths : ReadChunk(s, len)
      BY <1>1, <1>4, <2>3 DEF Next, vars, Reader, Reaper, Ask, ReadChunk, PublishChunk, PipeEnds, MarkExited,
           PublishExit, Attach, Respond, Deliver, Connect, Leave
    <3>2. log'[s].seq = log[s].seq + 1
      BY <1>1, <3>1 DEF ReadChunk, LogAppend, TypeOK
    <3>3. QED
      BY <2>1, <3>2
  <2>4. QED
    BY <2>2, <2>3
<1>5. queue # <<>> => /\ Head(queue) = queue[1] /\ 1 \in DOMAIN queue /\ conn = "authed"
  BY HeadIs
<1>6. ASSUME exitSeen' PROVE exitSeen \/ (Deliver /\ queue # <<>> /\ queue[1].event = "exit")
  <2>1. CASE Deliver
    <3>1. queue # <<>> /\ Head(queue) = queue[1]
      BY <1>5, <2>1 DEF Deliver
    <3>2. exitSeen' = exitSeen \/ queue[1].event = "exit"
      BY <2>1, <3>1 DEF Deliver, TakePage, TakeEvent
    <3>3. QED
      BY <1>6, <2>1, <3>1, <3>2
  <2>2. CASE ~Deliver
    BY <1>6, <2>2 DEF Next, vars, Reader, Reaper, Ask, ReadChunk, PublishChunk, PipeEnds, MarkExited, PublishExit, Attach,
         Respond, Connect, Leave
  <2>3. QED
    BY <2>1, <2>2
<1>7. exitSeen' => status = "published" /\ status' = "published"
  <2>1. exitSeen => status = "published"
    BY <1>1 DEF ExitInv
  <2>2. queue # <<>> /\ queue[1].event = "exit" => status = "published"
    BY <1>1, <1>5 DEF ExitInv
  <2>3. QED
    BY <1>2, <1>6, <2>1, <2>2
<1>8. status # "running" => \A s \in Streams : ~PublishChunk(s)
  BY <1>1 DEF ExitInv, PublishChunk
<1>9. \A s \in Streams, j \in DOMAIN <<>> : FALSE
  OBVIOUS
<1>10. ASSUME queue' = Tail(queue), queue # <<>>
       PROVE  \A j \in DOMAIN queue' : j + 1 \in DOMAIN queue /\ 1 < j + 1 /\ queue'[j] = queue[j + 1]
  BY <1>1, <1>10, TailIs DEF TypeOK
<1>11. ASSUME NEW f \in Frames, queue' = Append(queue, f)
       PROVE  /\ DOMAIN queue = 1 .. Len(queue) /\ DOMAIN queue' = 1 .. Len(queue) + 1 /\ Len(queue) \in Nat
              /\ \A j \in 1 .. Len(queue) : queue'[j] = queue[j]
              /\ queue'[Len(queue) + 1] = f
  BY <1>1, <1>11, AppendIs DEF TypeOK
<1>12. ASSUME exitSeen', conn' = "authed", NEW s \in Streams, NEW j \in DOMAIN queue'
       PROVE  ~IsEvent(queue', s, j)
  <2>1. CASE queue' = queue
    <3>1. conn = "authed"
      BY <1>1, <1>5, <1>12, <2>1, <1>9
    <3>2. exitSeen \/ \A k \in DOMAIN queue : 1 < k => ~IsEvent(queue, s, k)
      BY <1>1, <1>5, <1>6, <1>12 DEF ExitInv
    <3>3. exitSeen \/ (Deliver /\ queue[1].event = "exit")
      BY <1>6, <1>12
    <3>4. CASE exitSeen
      BY <1>1, <1>12, <2>1, <3>1, <3>4 DEF ExitInv, IsEvent
    <3>5. CASE Deliver /\ queue[1].event = "exit" /\ ~exitSeen
      <4>1. queue # <<>> /\ queue' = Tail(queue)
        BY <3>5 DEF Deliver
      <4>2. queue'[j] = queue[j + 1] /\ j + 1 \in DOMAIN queue /\ 1 < j + 1
        BY <1>10, <1>12, <4>1
      <4>3. QED
        BY <3>2, <3>5, <4>2 DEF IsEvent
    <3>6. QED
      BY <3>3, <3>4, <3>5
  <2>2. CASE queue' = <<>>
    BY <1>9, <1>12, <2>2
  <2>3. CASE queue # <<>> /\ queue' = Tail(queue)
    <3>1. queue'[j] = queue[j + 1] /\ j + 1 \in DOMAIN queue /\ 1 < j + 1
      BY <1>10, <1>12, <2>3
    <3>2. ~IsEvent(queue, s, j + 1)
      BY <1>1, <1>5, <1>6, <1>12, <2>3, <3>1 DEF ExitInv
    <3>3. QED
      BY <3>1, <3>2 DEF IsEvent
  <2>4. ASSUME NEW f \in Frames, queue' = Append(queue, f), ~Deliver,
               f.event # "stream" \/ \E t \in Streams : PublishChunk(t)
        PROVE  ~IsEvent(queue', s, j)
    <3>1. exitSeen /\ status = "published"
      BY <1>6, <1>7, <1>12, <2>4
    <3>2. f.event # "stream"
      BY <1>8, <2>4, <3>1
    <3>3. j \in 1 .. Len(queue) => ~IsEvent(queue, s, j)
      <4>1. j \in DOMAIN queue => queue # <<>>
        BY <1>9
      <4>2. QED
        BY <1>1, <1>5, <1>11, <2>4, <3>1, <4>1 DEF ExitInv
    <3>4. QED
      BY <1>11, <1>12, <2>4, <3>2, <3>3 DEF IsEvent
  <2>5. ~(Deliver /\ \E f \in Frames : queue' = Append(queue, f))
    <3>1. \A f \in Frames : Len(Append(queue, f)) = Len(queue) + 1 /\ Len(queue) \in Nat
      BY <1>1, AppendIs DEF TypeOK
    <3>2. queue # <<>> => Len(Tail(queue)) = Len(queue) - 1
      BY <1>1, TailIs DEF TypeOK
    <3>3. QED
      BY <3>1, <3>2 DEF Deliver
  <2>6. QED
    BY <2>1, <2>2, <2>3, <2>4, <2>5, QueueStep
<1>13. ASSUME NEW i \in DOMAIN queue', queue'[i].event = "exit"
       PROVE  /\ status' = "published"
              /\ \A s \in Streams, j \in DOMAIN queue' : i < j => ~IsEvent(queue', s, j)
  <2>1. CASE queue' = queue
    BY <1>1, <1>2, <1>13, <2>1 DEF ExitInv, IsEvent
  <2>2. CASE queue' = <<>>
    BY <1>9, <1>13, <2>2
  <2>3. CASE queue # <<>> /\ queue' = Tail(queue)
    <3>1. /\ i + 1 \in DOMAIN queue /\ queue[i + 1].event = "exit"
          /\ \A j \in DOMAIN queue' : i < j => /\ j + 1 \in DOMAIN queue /\ i + 1 < j + 1
                                               /\ queue'[j] = queue[j + 1]
      <4>1. \A j \in DOMAIN queue' : i < j => i + 1 < j + 1
        BY <1>1, <1>13, <2>3, TailIs DEF TypeOK
      <4>2. QED
        BY <1>10, <1>13, <2>3, <4>1
    <3>2. status = "published" /\ \A s \in Streams, j \in DOMAIN queue : i + 1 < j => ~IsEvent(queue, s, j)
      BY <1>1, <3>1 DEF ExitInv
    <3>3. QED
      BY <1>2, <3>1, <3>2 DEF IsEvent
  <2>4. ASSUME NEW f \in Frames, queue' = Append(queue, f),
               \/ f.event = "page"
               \/ f.event = "exit" /\ PublishExit
               \/ f.event = "stream" /\ \E s \in Streams : PublishChunk(s)
        PROVE  /\ status' = "published"
               /\ \A s \in Streams, j \in DOMAIN queue' : i < j => ~IsEvent(queue', s, j)
    <3>1. CASE i = Len(queue) + 1
      <4>1. PublishExit
        BY <1>11, <1>13, <2>4, <3>1
      <4>2. \A j \in DOMAIN queue' : ~(i < j)
        BY <1>11, <2>4, <3>1
      <4>3. QED
        BY <1>2, <4>1, <4>2
    <3>2. CASE i \in 1 .. Len(queue)
      <4>1. i \in DOMAIN queue /\ queue[i].event = "exit"
        BY <1>11, <1>13, <2>4, <3>2
      <4>2. status = "published" /\ \A s \in Streams, j \in DOMAIN queue : i < j => ~IsEvent(queue, s, j)
        BY <1>1, <4>1 DEF ExitInv
      <4>3. f.event # "stream"
        BY <1>8, <2>4, <4>2
      <4>4. ASSUME NEW s \in Streams, NEW j \in DOMAIN queue', i < j PROVE ~IsEvent(queue', s, j)
        BY <1>11, <2>4, <4>2, <4>3, <4>4 DEF IsEvent
      <4>5. QED
        BY <1>2, <4>2, <4>4
    <3>3. QED
      BY <1>11, <1>13, <2>4, <3>1, <3>2
  <2>5. QED
    BY <2>1, <2>2, <2>3, <2>4, QueueStep
<1>14. QED
  BY <1>3, <1>4, <1>7, <1>12, <1>13 DEF ExitInv
LEMMA ExitIsLastStep ==
  ASSUME IInv, [Next]_vars, LinkInv', SentInv', ExitInv'
  PROVE  ExitIsLast'
<1> USE DEF daemonVars, linkVars, clientVars
<1> SUFFICES ASSUME exitSeen', client' = "live", NEW s \in Streams
             PROVE  cursor'[s] = log'[s].seq /\ reader'[s] = "done"
  BY DEF ExitIsLast
<1>1. reader'[s] = "done"
  BY DEF ExitInv
<1>2. conn' # "open"
  BY DEF LinkInv
<1>3. CASE conn' = "authed"
  <2>1. PICK lo, e \in 0 .. log'[s].seq : Sent(s, lo, e)'
    BY <1>3 DEF SentInv
  <2>2. e <= cursor'[s] /\ Carries(queue', s, e, log'[s].seq)
    BY <1>1, <2>1 DEF Sent, Announced
  <2>3. log'[s].seq \in Nat /\ cursor'[s] <= log'[s].seq
    BY LogStep, ClientStep DEF IInv, LogOK
  <2>4. log'[s].seq <= e
    <3>1. \A j \in DOMAIN queue' : ~IsEvent(queue', s, j)
      BY <1>3 DEF ExitInv, IsEvent
    <3>2. e \in Nat
      BY <2>1, <2>3
    <3>3. QED
      BY <2>2, <2>3, <3>1, <3>2, CarriesNoEvent
  <2>5. cursor'[s] \in Nat
    <3>1. base'[s] <= cursor'[s] /\ TypeOK'
      BY ClientStep, TypeStep
    <3>2. QED
      BY <3>1 DEF TypeOK
  <2>6. QED
    BY <1>1, <2>1, <2>2, <2>3, <2>4, <2>5
<1>4. CASE conn' # "authed"
  <2>1. conn' = "closed"
    BY <1>2, <1>4, TypeStep DEF TypeOK
  <2>2. client' = client /\ exitSeen' = exitSeen /\ cursor' = cursor
    <3>1. ~Deliver
      <4>1. Deliver => queue # <<>> /\ conn' = conn
        BY DEF Deliver
      <4>2. QED
        BY <2>1, <4>1, HeadIs
    <3>2. ~Leave /\ ~Connect /\ ~Ask
      BY <2>1 DEF Leave, Connect, Ask, Attach
    <3>3. QED
      BY <3>1, <3>2 DEF Next, vars, Reader, Reaper, ReadChunk, PublishChunk, PipeEnds, MarkExited, PublishExit, Respond
  <2>3. \A t \in Streams : cursor[t] = log[t].seq /\ reader[t] = "done"
    BY <2>2 DEF IInv, ExitIsLast
  <2>4. log' = log
    BY <2>3, DoneStep DEF IInv
  <2>5. QED
    BY <1>1, <2>2, <2>3, <2>4
<1>5. QED
  BY <1>3, <1>4

LEMMA AnswersStep ==
  ASSUME IInv, [Next]_vars
  PROVE  AnswersMoveOn'
<1> USE DEF daemonVars, linkVars, clientVars
<1>1. (answer # NoAnswer => MovesOn(answer[1])) /\ TypeOK
  BY DEF IInv, AnswersMoveOn, MovesOn
<1>2. CASE \E asked \in Asks : Attach(asked)
  <2>1. PICK asked \in Asks : Attach(asked)
    BY <1>2
  <2>2. MovesOn(AttachResult(asked, cursor)) /\ answer'[1] = AttachResult(asked, cursor)
    BY <1>1, <2>1, AnswerIs DEF Attach
  <2>3. QED
    BY <2>2 DEF AnswersMoveOn, MovesOn
<1>3. CASE ~\E asked \in Asks : Attach(asked)
  <2>1. answer' = answer \/ answer' = NoAnswer
    BY <1>3 DEF Next, vars, Reader, Reaper, Ask, ReadChunk, PublishChunk, PipeEnds, MarkExited, PublishExit, Publish,
         Close, Respond, Deliver, Connect, Leave
  <2>2. QED
    BY <1>1, <2>1 DEF AnswersMoveOn, MovesOn
<1>4. QED
  BY <1>2, <1>3

LEMMA InitIInv == Init => IInv
<1> SUFFICES ASSUME Init PROVE IInv
  OBVIOUS
<1>1. /\ Bytes(<<>>) = 0 /\ <<>> \in Seq(Chunks) /\ <<>> \in Seq(Frames) /\ <<>> \in Seq(Answers) /\ Len(<<>>) = 0
      /\ DOMAIN <<>> = {}
  <2>1. /\ <<>> \in Seq(Chunks) /\ <<>> \in Seq(Frames) /\ <<>> \in Seq(Answers) /\ Len(<<>>) = 0
        /\ DOMAIN <<>> = {}
    OBVIOUS
  <2>2. Bytes(<<>>) = 0
    BY <2>1, BytesIs
  <2>3. QED
    BY <2>1, <2>2
<1>2. 0 <= LogMax /\ 0 <= Depth /\ 0 \in 0 .. MaxConnects
  BY ReplayAssumption
<1>3. \A s \in Streams : log[s] = EmptyLog
  BY DEF Init
<1>4. LogOK(EmptyLog)
  <2>1. /\ EmptyLog.chunks = <<>> /\ EmptyLog.size = 0 /\ EmptyLog.seq = 0 /\ EmptyLog.truncated = FALSE
    BY DEF EmptyLog
  <2>2. /\ Len(EmptyLog.chunks) = 0 /\ 1 .. Len(EmptyLog.chunks) = {} /\ Bytes(EmptyLog.chunks) = 0
        /\ EmptyLog.chunks \in Seq(Chunks)
    BY <1>1, <2>1
  <2>3. EmptyLog.truncated \in BOOLEAN /\ ~EmptyLog.truncated
    BY <2>1
  <2>4. EmptyLog.truncated <=> Len(EmptyLog.chunks) < EmptyLog.seq
    BY <2>1, <2>2, <2>3
  <2>5. QED
    BY <1>2, <2>1, <2>2, <2>3, <2>4 DEF LogOK
<1> DEFINE Rest ==
      /\ DOMAIN log = Streams
      /\ reader \in [Streams -> {"read", "publish", "done"}]
      /\ status \in {"running", "exited", "published"}
      /\ conn \in {"closed", "open", "authed"}
      /\ queue \in Seq(Frames) /\ Len(queue) <= Depth
      /\ answer \in Seq(Answers) /\ Len(answer) <= 1
      /\ client \in {"off", "ask", "wait", "live"}
      /\ cursor \in [Streams -> Nat]
      /\ base \in [Streams -> Nat]
      /\ held \in [Streams -> SUBSET Nat]
      /\ early \in [Streams -> SUBSET Nat]
      /\ exitSeen \in BOOLEAN
      /\ connects \in 0 .. MaxConnects
<1>5. Rest
  <2>1. cursor \in [Streams -> Nat] /\ base \in [Streams -> Nat]
    BY DEF Init
  <2>2. held \in [Streams -> SUBSET Nat] /\ early \in [Streams -> SUBSET Nat]
    BY DEF Init
  <2>3. reader \in [Streams -> {"read", "publish", "done"}] /\ DOMAIN log = Streams
    BY DEF Init
  <2>4. queue \in Seq(Frames) /\ Len(queue) <= Depth /\ answer \in Seq(Answers) /\ Len(answer) <= 1
    BY <1>1, <1>2 DEF Init, NoAnswer
  <2>5. exitSeen \in BOOLEAN /\ connects \in 0 .. MaxConnects
    BY <1>2 DEF Init
  <2>6. status = "running" /\ conn = "closed" /\ client = "off"
    BY DEF Init
  <2>7. QED
    BY <2>1, <2>2, <2>3, <2>4, <2>5, <2>6
<1>6. TypeOK
  BY <1>3, <1>4, <1>5 DEF TypeOK
<1>7. LinkInv
  BY <1>1 DEF LinkInv, Init
<1>8. OnTheirWay = {}
  BY <1>1 DEF OnTheirWay, NoAnswer, Init
<1>9. PageInv /\ SentInv /\ ExitInv /\ ExitIsLast /\ AnswersMoveOn
  BY <1>1, <1>8 DEF PageInv, SentInv, ExitInv, ExitIsLast, AnswersMoveOn, Init
<1>10. \A s \in Streams : CursorInv(s)
  BY DEF CursorInv, EmptyLog, Init
<1>11. NoGap
  BY DEF NoGap, Init
<1>12. QED
  BY <1>6, <1>7, <1>9, <1>10, <1>11 DEF IInv

LEMMA StepIInv == IInv /\ [Next]_vars => IInv'
<1> SUFFICES ASSUME IInv, [Next]_vars PROVE IInv'
  OBVIOUS
<1>1. TypeOK' /\ LinkInv' /\ SentInv' /\ ExitInv'
  BY TypeStep, LinkStep, SentStep, ExitStep
<1>2. PageInv' /\ ExitIsLast' /\ AnswersMoveOn'
  BY <1>1, PageStep, ExitIsLastStep, AnswersStep
<1>3. (\A s \in Streams : CursorInv(s))' /\ NoGap'
  BY ClientStep DEF CursorInv, NoGap
<1>4. QED
  BY <1>1, <1>2, <1>3 DEF IInv

-----------------------------------------------------------------------------
(* The theorems. *)

\* In every reachable state: who is connected how, what the pages on their way bring,
\* and for each stream where what was announced to the client now is.
THEOREM Invariance == Spec => []IInv
BY InitIInv, StepIInv, PTL DEF Spec

\* Log::append: a log is consecutive chunks up to its sequence number, within its
\* bound, and truncated exactly when something is missing.
THEOREM TypeCorrect == Spec => []TypeOK
<1>1. IInv => TypeOK
  BY DEF IInv
<1>2. QED
  BY <1>1, Invariance, PTL

\* Log::page: whatever the log, the cursor and the budget, a page is what the client
\* has to get, and keeps within the budget.
THEOREM PagesHonest == Spec => []PagesAreHonest
BY HonestPages, TypeCorrect, PTL

\* attach: an answer brings something or has nothing left to bring, within the
\* greatest page.
THEOREM AnswersProgress == Spec => []AnswersMoveOn
<1>1. IInv => AnswersMoveOn
  BY DEF IInv
<1>2. QED
  BY <1>1, Invariance, PTL

\* What a client has of a stream has no gap and nothing twice, over any number of
\* connections, whatever mix of pages and live events it came from.
THEOREM ReplayHasNoGap == Spec => []NoGap
<1>1. IInv => NoGap
  BY DEF IInv
<1>2. QED
  BY <1>1, Invariance, PTL

\* The reaper joins both readers before it publishes the exit: a live client that has
\* seen the exit has everything the run ever wrote.
THEOREM ExitComesLast == Spec => []ExitIsLast
<1>1. IInv => ExitIsLast
  BY DEF IInv
<1>2. QED
  BY <1>1, Invariance, PTL
===============================================================================
