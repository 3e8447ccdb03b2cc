--------------------------- MODULE PtySessionProofs ---------------------------
(* What TLAPS proves about PtySession, for every value of its constants. *)
EXTENDS PtySession, SequenceTheorems, FiniteSetTheorems, TLAPS

-----------------------------------------------------------------------------
(* The screen cache. *)

\* An operation is either output, which leaves the size, or a resize to t.
SizeAfter(op, s, t) == IF op.op = "resize" THEN t = op.size ELSE t = s

\* Putting an operation at the end of a history changes the size it ends in as
\* the operation says.
LEMMA EndsInSizeAppend ==
  ASSUME NEW q \in Seq(Ops), NEW s \in Sizes, NEW t \in Sizes, NEW op \in Ops,
         EndsInSize(q, s), SizeAfter(op, s, t)
  PROVE  EndsInSize(Append(q, op), t)
<1> DEFINE r == Append(q, op)
<1>1. DOMAIN q = 1 .. Len(q) /\ Len(q) \in Nat
  BY LenProperties
<1>2. /\ DOMAIN r = 1 .. (Len(q) + 1)
      /\ \A j \in 1 .. Len(q) : r[j] = q[j]
      /\ r[Len(q) + 1] = op
  BY AppendProperties, LenProperties
<1> HIDE DEF r
<1>3. SUFFICES ASSUME NEW j \in DOMAIN r, r[j].op = "resize",
                      \A k \in DOMAIN r : k > j => r[k].op # "resize"
               PROVE  r[j].size = t
  BY DEF EndsInSize, r
<1>4. CASE j = Len(q) + 1
  BY <1>2, <1>3, <1>4 DEF SizeAfter
<1>5. CASE j # Len(q) + 1
  <2>1. j \in DOMAIN q /\ q[j] = r[j] /\ Len(q) + 1 > j /\ Len(q) + 1 \in DOMAIN r
    BY <1>1, <1>2, <1>3, <1>5
  <2>2. op.op # "resize"
    BY <1>2, <1>3, <2>1
  <2>3. \A k \in DOMAIN q : k > j => q[k].op # "resize"
    BY <1>1, <1>2, <1>3
  <2>4. QED
    BY <1>3, <2>1, <2>2, <2>3 DEF EndsInSize, SizeAfter
<1>6. QED
  BY <1>4, <1>5

\* Appending to the second of two sequences appends to both together.
LEMMA ConcatAppend ==
  ASSUME NEW S, NEW q \in Seq(S), NEW r \in Seq(S), NEW e \in S
  PROVE  q \o Append(r, e) = Append(q \o r, e)
<1>1. q \o r \in Seq(S)
  BY ConcatProperties
<1>2. Append(r, e) = r \o <<e>> /\ Append(q \o r, e) = (q \o r) \o <<e>>
  BY <1>1, AppendIsConcat
<1>3. <<e>> \in Seq(S)
  OBVIOUS
<1>4. \A t \in Seq(S) : (q \o r) \o t = q \o (r \o t)
  BY ConcatAssociative, SMTT(20)
<1>5. QED
  BY <1>2, <1>3, <1>4, Zenon

\* update_screen with one operation keeps the cache consistent.
LEMMA AppliedConsistent ==
  ASSUME NEW v \in Screens, v.valid, NEW s \in Sizes, NEW t \in Sizes, NEW op \in Ops,
         NEW chars \in Nat, Consistent(v, s), SizeAfter(op, s, t)
  PROVE  /\ Applied(v, op, chars) \in Screens
         /\ Consistent(Applied(v, op, chars), t)
<1>1. /\ v.screen \in Seq(Ops) /\ v.baseline \in Seq(Ops) /\ v.pending \in Seq(Ops)
      /\ v.chars \in Nat /\ v.baseline \o v.pending = v.screen /\ EndsInSize(v.screen, s)
  BY DEF Screens, Consistent
<1>2. v.baseline \o Append(v.pending, op) = Append(v.screen, op)
  <2>1. \A q, r \in Seq(Ops) : q \o Append(r, op) = Append(q \o r, op)
    BY ConcatAppend
  <2>2. QED
    BY <1>1, <2>1, Zenon
<1>3. EndsInSize(Append(v.screen, op), t)
  BY <1>1, EndsInSizeAppend
<1>4. Append(v.screen, op) \in Seq(Ops) /\ Append(v.pending, op) \in Seq(Ops)
  BY <1>1
<1>5. Applied(v, op, chars) \in Screens
  <2>1. /\ v.valid \in BOOLEAN /\ v.baseline \in Seq(Ops)
        /\ v.chars + chars \in Nat /\ TRUE \in BOOLEAN
    BY DEF Screens
  <2>2. QED
    BY <1>4, <2>1, ZenonT(30) DEF Applied, Screens
<1>6. QED
  BY <1>1, <1>2, <1>3, <1>5 DEF Applied, Consistent, Screens

\* checkpoint keeps the cache consistent and leaves nothing pending.
LEMMA FrozenConsistent ==
  ASSUME NEW v \in Screens, v.valid, NEW s \in Sizes, Consistent(v, s)
  PROVE  /\ Frozen(v) \in Screens
         /\ Consistent(Frozen(v), s)
         /\ Frozen(v).chars = 0 /\ Frozen(v).pending = <<>> /\ Frozen(v).valid
<1>1. v.screen \in Seq(Ops) /\ EndsInSize(v.screen, s)
  BY DEF Screens, Consistent
<1>2. v.screen \o <<>> = v.screen
  BY <1>1, ConcatEmptySeq
<1>3. Frozen(v) \in Screens
  <2>1. v.valid \in BOOLEAN /\ <<>> \in Seq(Ops) /\ 0 \in Nat /\ FALSE \in BOOLEAN
    BY DEF Screens
  <2>2. QED
    BY <1>1, <2>1, ZenonT(30) DEF Frozen, Screens
<1>4. QED
  BY <1>1, <1>2, <1>3 DEF Frozen, Consistent, Screens

\* A cache without a parser is consistent with every size.
LEMMA FaultedConsistent ==
  ASSUME NEW s \in Sizes
  PROVE  /\ Faulted \in Screens /\ Consistent(Faulted, s)
         /\ Faulted.chars = 0 /\ ~Faulted.valid
<1>1. <<>> \in Seq(Ops)
  OBVIOUS
<1>2. QED
  BY <1>1 DEF Faulted, Screens, Consistent

\* What append and resize may make of the cache, before append looks at the budget.
LEMMA AppliedUpdates ==
  ASSUME NEW v \in Screens, NEW s \in Sizes, NEW t \in Sizes, NEW op \in Ops,
         NEW chars \in Nat, Consistent(v, s), SizeAfter(op, s, t),
         NEW w \in Updates(v, Applied(v, op, chars))
  PROVE  /\ w \in Screens /\ Consistent(w, t)
         /\ v.chars <= PendingMaxChars /\ chars = 0 => w.chars <= PendingMaxChars
<1>1. CASE v.valid /\ w = Applied(v, op, chars)
  <2>1. v.chars \in Nat /\ w.chars = v.chars + chars
    BY <1>1 DEF Screens, Applied
  <2>2. QED
    BY <1>1, <2>1, AppliedConsistent, SessionAssumption
<1>2. CASE w = Faulted
  BY <1>2, FaultedConsistent, SessionAssumption
<1>3. CASE ~v.valid /\ w = v
  BY <1>3, FaultedConsistent, SessionAssumption DEF Consistent
<1>4. QED
  BY <1>1, <1>2, <1>3 DEF Updates

\* What a checkpoint may make of the cache.
LEMMA FrozenUpdates ==
  ASSUME NEW v \in Screens, NEW s \in Sizes, Consistent(v, s),
         NEW w \in Updates(v, Frozen(v))
  PROVE  /\ w \in Screens /\ Consistent(w, s) /\ w.chars <= PendingMaxChars
         /\ w.valid => w.pending = <<>>
<1>1. CASE v.valid /\ w = Frozen(v)
  BY <1>1, FrozenConsistent, SessionAssumption
<1>2. CASE w = Faulted
  BY <1>2, FaultedConsistent, SessionAssumption
<1>3. CASE ~v.valid /\ w = v
  <2>1. v = Faulted
    BY <1>3 DEF Consistent
  <2>2. QED
    BY <1>3, <2>1, FaultedConsistent, SessionAssumption
<1>4. QED
  BY <1>1, <1>2, <1>3 DEF Updates

\* What a chunk may make of the cache: the budget of characters is kept.
LEMMA DrawnConsistent ==
  ASSUME NEW v \in Screens, NEW s \in Sizes, NEW n \in Nat, NEW chars \in Nat,
         Consistent(v, s), NEW x \in Drawn(v, n, chars)
  PROVE  x \in Screens /\ Consistent(x, s) /\ x.chars <= PendingMaxChars
<1>1. Data(n) \in Ops /\ SizeAfter(Data(n), s, s)
  BY DEF Data, Ops, SizeAfter
<1>2. PICK w \in Updates(v, Applied(v, Data(n), chars)) :
        x \in IF OverBudget(w) THEN Updates(w, Frozen(w)) ELSE {w}
  BY DEF Drawn
<1>3. w \in Screens /\ Consistent(w, s)
  BY <1>1, AppliedUpdates
<1>4. CASE OverBudget(w)
  BY <1>2, <1>3, <1>4, FrozenUpdates
<1>5. CASE ~OverBudget(w)
  <2>1. w.chars \in Nat /\ ~(w.chars > PendingMaxChars)
    BY <1>3, <1>5 DEF Screens, OverBudget
  <2>2. QED
    BY <1>2, <1>3, <1>5, <2>1, SessionAssumption
<1>6. QED
  BY <1>4, <1>5

-----------------------------------------------------------------------------
(* The journal and the wire. *)

\* Trimming a journal leaves a suffix of it, with the newest chunk.
LEMMA TrimSuffix ==
  ASSUME NEW S, NEW s \in Seq(S), s # <<>>
  PROVE  \E k \in 1 .. Len(s) : Trim(s) = SubSeq(s, k, Len(s))
<1>1. Len(s) \in Nat /\ Len(s) # 0 /\ DOMAIN s = 1 .. Len(s)
  BY LenProperties, EmptySeq
<1>2. IsFiniteSet(1 .. Len(s)) /\ Cardinality(1 .. Len(s)) = Len(s)
  <2>1. 1 <= Len(s)
    BY <1>1
  <2>2. QED
    BY <1>1, <2>1, FS_Interval
<1>3. Kept(s) \in SUBSET (1 .. Len(s)) /\ Len(s) \in Kept(s)
  BY <1>1 DEF Kept
<1>4. IsFiniteSet(Kept(s)) /\ Cardinality(Kept(s)) <= Len(s)
  BY <1>2, <1>3, FS_Subset
<1>5. Cardinality(Kept(s)) \in Nat /\ Cardinality(Kept(s)) # 0
  BY <1>3, <1>4, FS_CardinalityType, FS_EmptySet
<1>6. Len(s) + 1 - Cardinality(Kept(s)) \in 1 .. Len(s)
  BY <1>1, <1>4, <1>5
<1>7. QED
  BY <1>6 DEF Trim

\* The journal append pushes, before it is trimmed.
Chunk == [seq |-> seq + 1, len |-> AtMost(chunk, WindowChars)]
Pushed == Append(chunks, Chunk)

Chunks == [seq : Nat, len : Nat]

\* The chunk that is pushed is the last one, the others stay where they were.
LEMMA PushedChunks ==
  ASSUME TypeOK
  PROVE  /\ Pushed \in Seq(Chunks) /\ Pushed # <<>>
         /\ Len(chunks) \in Nat /\ DOMAIN chunks = 1 .. Len(chunks)
         /\ Len(Pushed) = Len(chunks) + 1
         /\ \A j \in 1 .. Len(chunks) : Pushed[j] = chunks[j]
         /\ Pushed[Len(chunks) + 1].seq = seq + 1
<1>1. Chunk \in Chunks /\ Chunk.seq = seq + 1
  BY SessionAssumption DEF TypeOK, AtMost, Chunk, Chunks
<1>2. chunks \in Seq(Chunks)
  BY DEF TypeOK, Chunks
<1>3. /\ Pushed \in Seq(Chunks) /\ Pushed # <<>>
      /\ Len(Pushed) = Len(chunks) + 1
      /\ \A j \in 1 .. Len(chunks) : Pushed[j] = chunks[j]
      /\ Pushed[Len(chunks) + 1] = Chunk
  BY <1>1, <1>2, AppendProperties DEF Pushed
<1>4. Len(chunks) \in Nat /\ DOMAIN chunks = 1 .. Len(chunks)
  BY <1>2, LenProperties
<1>5. QED
  BY <1>1, <1>3, <1>4

\* What is retained of it is a suffix.
LEMMA PushedTrimmed ==
  ASSUME TypeOK, ReaderRecord
  PROVE  \E k \in 1 .. Len(Pushed) :
           /\ chunks' = SubSeq(Pushed, k, Len(Pushed))
           /\ chunks' \in Seq(Chunks)
           /\ Len(chunks') = Len(Pushed) - k + 1
           /\ DOMAIN chunks' = 1 .. Len(chunks')
           /\ \A j \in 1 .. Len(chunks') : chunks'[j] = Pushed[k + j - 1]
<1>1. chunks' = Trim(Pushed)
  BY DEF ReaderRecord, Pushed, Chunk
<1>2. Pushed \in Seq(Chunks) /\ Pushed # <<>> /\ Len(Pushed) \in Nat
  BY PushedChunks, LenProperties
<1>3. PICK k \in 1 .. Len(Pushed) : Trim(Pushed) = SubSeq(Pushed, k, Len(Pushed))
  BY <1>2, TrimSuffix
<1>4. /\ SubSeq(Pushed, k, Len(Pushed)) \in Seq(Chunks)
      /\ Len(SubSeq(Pushed, k, Len(Pushed))) = Len(Pushed) - k + 1
      /\ \A j \in 1 .. (Len(Pushed) - k + 1) :
           SubSeq(Pushed, k, Len(Pushed))[j] = Pushed[k + j - 1]
  <2>1. \A j \in k .. Len(Pushed) : Pushed[j] \in Chunks
    BY <1>2, ElementOfSeq, LenProperties
  <2>2. QED
    BY <1>2, <2>1, SubSeqProperties
<1>5. QED
  BY <1>1, <1>3, <1>4, LenProperties

\* What may be on the wire, and the data events among its first n.
Events == [event : {"data"}, seq : Nat] \cup [event : {"exit"}]
DataAt(w, n) == {j \in DOMAIN w : j <= n /\ w[j].event = "data"}

\* An event appended to the wire changes no earlier count.
LEMMA DataAppend ==
  ASSUME NEW w \in Seq(Events), NEW e \in Events
  PROVE  /\ \A n \in 1 .. Len(w) : DataAt(Append(w, e), n) = DataAt(w, n)
         /\ Cardinality(DataAt(w, Len(w))) \in Nat
         /\ Cardinality(DataAt(Append(w, e), Len(w) + 1)) =
              Cardinality(DataAt(w, Len(w))) + (IF e.event = "data" THEN 1 ELSE 0)
<1> DEFINE x == Append(w, e)
<1>1. Len(w) \in Nat /\ DOMAIN w = 1 .. Len(w)
  BY LenProperties
<1>2. /\ DOMAIN x = 1 .. (Len(w) + 1)
      /\ \A j \in 1 .. Len(w) : x[j] = w[j]
      /\ x[Len(w) + 1] = e
  BY AppendProperties, LenProperties
<1> HIDE DEF x
<1>3. \A n \in 1 .. Len(w) : DataAt(x, n) = DataAt(w, n)
  BY <1>1, <1>2 DEF DataAt
<1>4. IsFiniteSet(DataAt(w, Len(w))) /\ Len(w) + 1 \notin DataAt(w, Len(w))
  <2>1. IsFiniteSet(1 .. Len(w)) /\ DataAt(w, Len(w)) \subseteq 1 .. Len(w)
    BY <1>1, FS_Interval DEF DataAt
  <2>2. QED
    BY <1>1, <2>1, FS_Subset
<1>5. Cardinality(DataAt(w, Len(w))) \in Nat
  BY <1>4, FS_CardinalityType
<1>6. CASE e.event = "data"
  <2>1. DataAt(x, Len(w) + 1) = DataAt(w, Len(w)) \cup {Len(w) + 1}
    BY <1>1, <1>2, <1>6 DEF DataAt
  <2>2. QED
    BY <1>3, <1>4, <1>5, <1>6, <2>1, FS_AddElement DEF x
<1>7. CASE e.event # "data"
  <2>1. DataAt(x, Len(w) + 1) = DataAt(w, Len(w))
    BY <1>1, <1>2, <1>7 DEF DataAt
  <2>2. QED
    BY <1>3, <1>5, <1>7, <2>1 DEF x
<1>8. QED
  BY <1>6, <1>7

-----------------------------------------------------------------------------
(* Types and the cache. *)

\* Every step keeps the types, and the characters pending within their limit.
LEMMA TypeStep ==
  ASSUME TypeOK, Consistent(vt, size), [Next]_vars
  PROVE  TypeOK'
<1> USE DEF ptyVars, readVars, innerVars, masterVars, exitVars, resizeVars
<1>1. ASSUME Produce PROVE TypeOK'
  BY <1>1 DEF Produce, TypeOK
<1>2. ASSUME CloseSlave PROVE TypeOK'
  BY <1>2 DEF CloseSlave, TypeOK
<1>3. ASSUME ReopenSlave PROVE TypeOK'
  BY <1>3 DEF ReopenSlave, TypeOK
<1>4. ASSUME ChildEnds PROVE TypeOK'
  BY <1>4 DEF ChildEnds, TypeOK
<1>5. ASSUME NEW n \in 1 .. (produced - consumed), ReaderRead(n) PROVE TypeOK'
  BY <1>5 DEF ReaderRead, TypeOK
<1>6. ASSUME ReaderRecord PROVE TypeOK'
  <2>1. PICK visible \in BOOLEAN : vt' \in IF visible THEN Drawn(vt, seq + 1, chunk) ELSE {vt}
    BY <1>6 DEF ReaderRecord
  <2>2. vt' \in Screens /\ vt'.chars <= PendingMaxChars
    <3>1. CASE visible
      <4>1. vt \in Screens /\ size \in Sizes /\ seq + 1 \in Nat /\ chunk \in Nat
        BY DEF TypeOK
      <4>2. vt' \in Drawn(vt, seq + 1, chunk)
        BY <2>1, <3>1
      <4>3. QED
        BY <4>1, <4>2, DrawnConsistent
    <3>2. CASE ~visible
      BY <2>1, <3>2 DEF TypeOK
    <3>3. QED
      BY <3>1, <3>2
  <2>3. chunks' \in Seq([seq : Nat, len : Nat])
    BY <1>6, PushedTrimmed DEF Chunks
  <2>4. QED
    BY <1>6, <2>2, <2>3 DEF ReaderRecord, TypeOK
<1>7. ASSUME ReaderPublish PROVE TypeOK'
  <2>1. wire' \in Seq([event : {"data"}, seq : Nat] \cup [event : {"exit"}])
    BY <1>7, AppendProperties DEF ReaderPublish, TypeOK
  <2>2. QED
    BY <1>7, <2>1 DEF ReaderPublish, TypeOK
<1>8. ASSUME ReaderEnd PROVE TypeOK'
  BY <1>8 DEF ReaderEnd, TypeOK
<1>9. ASSUME ExitRecord PROVE TypeOK'
  BY <1>9 DEF ExitRecord, TypeOK
<1>10. ASSUME ExitDrained PROVE TypeOK'
  BY <1>10 DEF ExitDrained, TypeOK
<1>11. ASSUME ExitGivesUp PROVE TypeOK'
  BY <1>11 DEF ExitGivesUp, TypeOK
<1>12. ASSUME ExitFreeze PROVE TypeOK'
  <2>1. vt' \in Screens /\ vt'.chars <= PendingMaxChars
    BY <1>12, FrozenUpdates DEF ExitFreeze, ExitFreezes, TypeOK
  <2>2. QED
    BY <1>12, <2>1 DEF ExitFreeze, TypeOK
<1>13. ASSUME ExitCheck PROVE TypeOK'
  BY <1>13 DEF ExitCheck, TypeOK
<1>14. ASSUME ExitPublish PROVE TypeOK'
  <2>1. wire' \in Seq([event : {"data"}, seq : Nat] \cup [event : {"exit"}])
    BY <1>14, AppendProperties DEF ExitPublish, TypeOK
  <2>2. QED
    BY <1>14, <2>1 DEF ExitPublish, TypeOK
<1>15. ASSUME Refresh PROVE TypeOK'
  <2>1. vt' \in Screens /\ vt'.chars <= PendingMaxChars
    BY <1>15, FrozenUpdates DEF Refresh, TypeOK
  <2>2. QED
    BY <1>15, <2>1 DEF Refresh, TypeOK
<1>16. ASSUME NEW r \in Resizers, NEW s \in Sizes, ResizeModel(r, s) PROVE TypeOK'
  <2>1. Resize(s) \in Ops /\ SizeAfter(Resize(s), size, s)
    BY DEF Resize, Ops, SizeAfter
  <2>2. vt' \in Screens /\ vt'.chars <= PendingMaxChars
    <3>1. vt \in Screens /\ vt.chars <= PendingMaxChars /\ size \in Sizes /\ 0 \in Nat
      BY DEF TypeOK
    <3>2. vt' \in Updates(vt, Applied(vt, Resize(s), 0))
      BY <1>16 DEF ResizeModel
    <3>3. QED
      BY <2>1, <3>1, <3>2, AppliedUpdates
  <2>3. QED
    BY <1>16, <2>2 DEF ResizeModel, TypeOK
<1>17. ASSUME NEW r \in Resizers, ResizeTerminal(r) PROVE TypeOK'
  BY <1>17 DEF ResizeTerminal, TypeOK
<1>18. ASSUME Retire PROVE TypeOK'
  BY <1>18 DEF Retire, TypeOK
<1>19. ASSUME DropMaster PROVE TypeOK'
  BY <1>19 DEF DropMaster, TypeOK
<1>20. CASE UNCHANGED vars
  BY <1>20 DEF vars, TypeOK
<1> HIDE DEF ptyVars, readVars, innerVars, masterVars, exitVars, resizeVars
<1>21. QED
  BY <1>1, <1>2, <1>3, <1>4, <1>5, <1>6, <1>7, <1>8, <1>9, <1>10, <1>11, <1>12, <1>13, <1>14, <1>15, <1>16, <1>17, <1>18, <1>19, <1>20
     DEF Next, Terminal, Reader, ExitThread, Resizing

\* Every step keeps the cache consistent with the size the session reports.
LEMMA ScreenStep ==
  ASSUME TypeOK, Consistent(vt, size), [Next]_vars
  PROVE  Consistent(vt, size)'
<1> USE DEF ptyVars, readVars, innerVars, masterVars, exitVars, resizeVars
<1>1. ASSUME Produce PROVE Consistent(vt, size)'
  BY <1>1 DEF Produce, Consistent, EndsInSize
<1>2. ASSUME CloseSlave PROVE Consistent(vt, size)'
  BY <1>2 DEF CloseSlave, Consistent, EndsInSize
<1>3. ASSUME ReopenSlave PROVE Consistent(vt, size)'
  BY <1>3 DEF ReopenSlave, Consistent, EndsInSize
<1>4. ASSUME ChildEnds PROVE Consistent(vt, size)'
  BY <1>4 DEF ChildEnds, Consistent, EndsInSize
<1>5. ASSUME NEW n \in 1 .. (produced - consumed), ReaderRead(n) PROVE Consistent(vt, size)'
  BY <1>5 DEF ReaderRead, Consistent, EndsInSize
<1>6. ASSUME ReaderRecord PROVE Consistent(vt, size)'
  <2>1. PICK visible \in BOOLEAN : vt' \in IF visible THEN Drawn(vt, seq + 1, chunk) ELSE {vt}
    BY <1>6 DEF ReaderRecord
  <2>2. vt \in Screens /\ size \in Sizes /\ seq + 1 \in Nat /\ chunk \in Nat /\ size' = size
    BY <1>6 DEF TypeOK, ReaderRecord
  <2>3. CASE visible
    <3>1. vt' \in Drawn(vt, seq + 1, chunk)
      BY <2>1, <2>3
    <3>2. Consistent(vt', size)
      BY <2>2, <3>1, DrawnConsistent
    <3>3. QED
      BY <2>2, <3>2 DEF Consistent, EndsInSize
  <2>4. CASE ~visible
    BY <2>1, <2>2, <2>4 DEF Consistent, EndsInSize
  <2>5. QED
    BY <2>3, <2>4
<1>7. ASSUME ReaderPublish PROVE Consistent(vt, size)'
  BY <1>7 DEF ReaderPublish, Consistent, EndsInSize
<1>8. ASSUME ReaderEnd PROVE Consistent(vt, size)'
  BY <1>8 DEF ReaderEnd, Consistent, EndsInSize
<1>9. ASSUME ExitRecord PROVE Consistent(vt, size)'
  BY <1>9 DEF ExitRecord, Consistent, EndsInSize
<1>10. ASSUME ExitDrained PROVE Consistent(vt, size)'
  BY <1>10 DEF ExitDrained, Consistent, EndsInSize
<1>11. ASSUME ExitGivesUp PROVE Consistent(vt, size)'
  BY <1>11 DEF ExitGivesUp, Consistent, EndsInSize
<1>12. ASSUME ExitFreeze PROVE Consistent(vt, size)'
  <2>1. vt \in Screens /\ size \in Sizes /\ size' = size
    BY <1>12 DEF ExitFreeze, TypeOK
  <2>2. Consistent(vt', size)
    BY <1>12, <2>1, FrozenUpdates DEF ExitFreeze, ExitFreezes
  <2>3. QED
    BY <2>1, <2>2 DEF Consistent, EndsInSize
<1>13. ASSUME ExitCheck PROVE Consistent(vt, size)'
  BY <1>13 DEF ExitCheck, Consistent, EndsInSize
<1>14. ASSUME ExitPublish PROVE Consistent(vt, size)'
  BY <1>14 DEF ExitPublish, Consistent, EndsInSize
<1>15. ASSUME Refresh PROVE Consistent(vt, size)'
  <2>1. vt \in Screens /\ size \in Sizes /\ size' = size
    BY <1>15 DEF Refresh, TypeOK
  <2>2. Consistent(vt', size)
    BY <1>15, <2>1, FrozenUpdates DEF Refresh
  <2>3. QED
    BY <2>1, <2>2 DEF Consistent, EndsInSize
<1>16. ASSUME NEW r \in Resizers, NEW s \in Sizes, ResizeModel(r, s) PROVE Consistent(vt, size)'
  <2>1. Resize(s) \in Ops /\ SizeAfter(Resize(s), size, s)
    BY DEF Resize, Ops, SizeAfter
  <2>2. vt \in Screens /\ size \in Sizes /\ 0 \in Nat /\ size' = s
    BY <1>16 DEF TypeOK, ResizeModel
  <2>3. vt' \in Updates(vt, Applied(vt, Resize(s), 0))
    BY <1>16 DEF ResizeModel
  <2>4. Consistent(vt', s)
    BY <2>1, <2>2, <2>3, AppliedUpdates
  <2>5. QED
    BY <2>2, <2>4 DEF Consistent, EndsInSize
<1>17. ASSUME NEW r \in Resizers, ResizeTerminal(r) PROVE Consistent(vt, size)'
  BY <1>17 DEF ResizeTerminal, Consistent, EndsInSize
<1>18. ASSUME Retire PROVE Consistent(vt, size)'
  BY <1>18 DEF Retire, Consistent, EndsInSize
<1>19. ASSUME DropMaster PROVE Consistent(vt, size)'
  BY <1>19 DEF DropMaster, Consistent, EndsInSize
<1>20. CASE UNCHANGED vars
  BY <1>20 DEF vars, Consistent, EndsInSize
<1> HIDE DEF ptyVars, readVars, innerVars, masterVars, exitVars, resizeVars
<1>21. QED
  BY <1>1, <1>2, <1>3, <1>4, <1>5, <1>6, <1>7, <1>8, <1>9, <1>10, <1>11, <1>12, <1>13, <1>14, <1>15, <1>16, <1>17, <1>18, <1>19, <1>20
     DEF Next, Terminal, Reader, ExitThread, Resizing

-----------------------------------------------------------------------------
(* The journal, the wire and the exit. *)

\* Every step keeps the retained chunks the newest ones, without a hole.
LEMMA JournalStep ==
  ASSUME TypeOK, JournalContiguous, [Next]_vars
  PROVE  JournalContiguous'
<1> USE DEF ptyVars, readVars, innerVars, masterVars, exitVars, resizeVars
<1>1. ASSUME Produce PROVE JournalContiguous'
  BY <1>1 DEF Produce, JournalContiguous
<1>2. ASSUME CloseSlave PROVE JournalContiguous'
  BY <1>2 DEF CloseSlave, JournalContiguous
<1>3. ASSUME ReopenSlave PROVE JournalContiguous'
  BY <1>3 DEF ReopenSlave, JournalContiguous
<1>4. ASSUME ChildEnds PROVE JournalContiguous'
  BY <1>4 DEF ChildEnds, JournalContiguous
<1>5. ASSUME NEW n \in 1 .. (produced - consumed), ReaderRead(n) PROVE JournalContiguous'
  BY <1>5 DEF ReaderRead, JournalContiguous
<1>6. ASSUME ReaderRecord PROVE JournalContiguous'
  <2>1. seq \in Nat /\ seq' = seq + 1
    BY <1>6 DEF TypeOK, ReaderRecord
  <2>2. PICK k \in 1 .. Len(Pushed) :
          /\ Len(chunks') = Len(Pushed) - k + 1
          /\ DOMAIN chunks' = 1 .. Len(chunks')
          /\ \A j \in 1 .. Len(chunks') : chunks'[j] = Pushed[k + j - 1]
    BY <1>6, PushedTrimmed
  <2>3. \A j \in 1 .. Len(Pushed) : Pushed[j].seq = seq - Len(chunks) + j
    <3>1. \A j \in 1 .. Len(chunks) : Pushed[j].seq = seq - Len(chunks) + j
      BY PushedChunks DEF JournalContiguous
    <3>2. Pushed[Len(chunks) + 1].seq = seq - Len(chunks) + (Len(chunks) + 1)
      BY <2>1, PushedChunks
    <3>3. QED
      BY <3>1, <3>2, PushedChunks
  <2>4. Len(Pushed) = Len(chunks) + 1 /\ Len(chunks) \in Nat /\ Len(chunks) <= seq
    BY PushedChunks DEF JournalContiguous
  <2>7. Len(chunks') <= seq'
    BY <2>1, <2>2, <2>4
  <2>8. \A j \in DOMAIN chunks' : chunks'[j].seq = seq' - Len(chunks') + j
    <3>1. SUFFICES ASSUME NEW j \in 1 .. Len(chunks') PROVE chunks'[j].seq = seq' - Len(chunks') + j
      BY <2>2
    <3>2. chunks'[j] = Pushed[k + j - 1] /\ k + j - 1 \in 1 .. Len(Pushed)
      BY <2>2, <2>4
    <3>3. chunks'[j].seq = seq - Len(chunks) + (k + j - 1)
      BY <2>3, <3>2
    <3>4. QED
      BY <2>1, <2>2, <2>4, <3>3
  <2>9. chunks' # <<>>
    BY <2>2, <2>4
  <2>10. QED
    BY <2>7, <2>8, <2>9 DEF JournalContiguous
<1>7. ASSUME ReaderPublish PROVE JournalContiguous'
  BY <1>7 DEF ReaderPublish, JournalContiguous
<1>8. ASSUME ReaderEnd PROVE JournalContiguous'
  BY <1>8 DEF ReaderEnd, JournalContiguous
<1>9. ASSUME ExitRecord PROVE JournalContiguous'
  BY <1>9 DEF ExitRecord, JournalContiguous
<1>10. ASSUME ExitDrained PROVE JournalContiguous'
  BY <1>10 DEF ExitDrained, JournalContiguous
<1>11. ASSUME ExitGivesUp PROVE JournalContiguous'
  BY <1>11 DEF ExitGivesUp, JournalContiguous
<1>12. ASSUME ExitFreeze PROVE JournalContiguous'
  BY <1>12 DEF ExitFreeze, JournalContiguous
<1>13. ASSUME ExitCheck PROVE JournalContiguous'
  BY <1>13 DEF ExitCheck, JournalContiguous
<1>14. ASSUME ExitPublish PROVE JournalContiguous'
  BY <1>14 DEF ExitPublish, JournalContiguous
<1>15. ASSUME Refresh PROVE JournalContiguous'
  BY <1>15 DEF Refresh, JournalContiguous
<1>16. ASSUME NEW r \in Resizers, NEW s \in Sizes, ResizeModel(r, s) PROVE JournalContiguous'
  BY <1>16 DEF ResizeModel, JournalContiguous
<1>17. ASSUME NEW r \in Resizers, ResizeTerminal(r) PROVE JournalContiguous'
  BY <1>17 DEF ResizeTerminal, JournalContiguous
<1>18. ASSUME Retire PROVE JournalContiguous'
  BY <1>18 DEF Retire, JournalContiguous
<1>19. ASSUME DropMaster PROVE JournalContiguous'
  BY <1>19 DEF DropMaster, JournalContiguous
<1>20. CASE UNCHANGED vars
  BY <1>20 DEF vars, JournalContiguous
<1> HIDE DEF ptyVars, readVars, innerVars, masterVars, exitVars, resizeVars
<1>21. QED
  BY <1>1, <1>2, <1>3, <1>4, <1>5, <1>6, <1>7, <1>8, <1>9, <1>10, <1>11, <1>12, <1>13, <1>14, <1>15, <1>16, <1>17, <1>18, <1>19, <1>20
     DEF Next, Terminal, Reader, ExitThread, Resizing

\* The number of data events among the first n.
DataCount(w, n) == Cardinality(DataAt(w, n))

\* PublishedInOrder of any wire, so that it can be stated of the next one.
Published(w, q, r) ==
  /\ \A j \in DOMAIN w : w[j].event = "data" => w[j].seq = DataCount(w, j)
  /\ DataCount(w, Len(w)) = IF r = "publish" THEN q - 1 ELSE q

\* ... which is what it is.
LEMMA PublishedIsInOrder ==
  /\ PublishedInOrder <=> Published(wire, seq, reader)
  /\ PublishedInOrder' <=> Published(wire', seq', reader')
BY DEF PublishedInOrder, Published, DataUpTo, DataCount, DataAt

\* Appending an event to the wire.
LEMMA WireStep ==
  ASSUME TypeOK, NEW e \in Events, wire' = Append(wire, e)
  PROVE  /\ Len(wire) \in Nat /\ DOMAIN wire = 1 .. Len(wire)
         /\ Len(wire') = Len(wire) + 1 /\ DOMAIN wire' = 1 .. (Len(wire) + 1)
         /\ \A j \in 1 .. Len(wire) : wire'[j] = wire[j] /\ DataCount(wire', j) = DataCount(wire, j)
         /\ wire'[Len(wire) + 1] = e
         /\ DataCount(wire, Len(wire)) \in Nat
         /\ DataCount(wire', Len(wire) + 1) =
              DataCount(wire, Len(wire)) + (IF e.event = "data" THEN 1 ELSE 0)
<1>1. wire \in Seq(Events)
  BY DEF TypeOK, Events
<1>2. /\ Len(wire) \in Nat /\ DOMAIN wire = 1 .. Len(wire)
      /\ Len(wire') = Len(wire) + 1 /\ DOMAIN wire' = 1 .. (Len(wire) + 1)
      /\ \A j \in 1 .. Len(wire) : wire'[j] = wire[j]
      /\ wire'[Len(wire) + 1] = e
  BY <1>1, AppendProperties, LenProperties
<1>3. /\ \A n \in 1 .. Len(wire) : DataAt(wire', n) = DataAt(wire, n)
      /\ DataCount(wire, Len(wire)) \in Nat
      /\ DataCount(wire', Len(wire) + 1) =
           DataCount(wire, Len(wire)) + (IF e.event = "data" THEN 1 ELSE 0)
  BY <1>1, DataAppend DEF DataCount
<1>4. QED
  BY <1>2, <1>3 DEF DataCount

\* Every step keeps the data events numbered 1, 2, 3, ... on the wire.
LEMMA PublishStep ==
  ASSUME TypeOK, PublishedInOrder, [Next]_vars
  PROVE  PublishedInOrder'
<1> USE DEF ptyVars, readVars, innerVars, masterVars, exitVars, resizeVars
<1>1. ASSUME Produce PROVE PublishedInOrder'
  BY <1>1 DEF Produce, PublishedInOrder, DataUpTo
<1>2. ASSUME CloseSlave PROVE PublishedInOrder'
  BY <1>2 DEF CloseSlave, PublishedInOrder, DataUpTo
<1>3. ASSUME ReopenSlave PROVE PublishedInOrder'
  BY <1>3 DEF ReopenSlave, PublishedInOrder, DataUpTo
<1>4. ASSUME ChildEnds PROVE PublishedInOrder'
  BY <1>4 DEF ChildEnds, PublishedInOrder, DataUpTo
<1>5. ASSUME NEW n \in 1 .. (produced - consumed), ReaderRead(n) PROVE PublishedInOrder'
  BY <1>5 DEF ReaderRead, PublishedInOrder, DataUpTo
<1>6. ASSUME ReaderRecord PROVE PublishedInOrder'
  <2>1. reader = "record" /\ reader' = "publish" /\ seq' = seq + 1 /\ wire' = wire /\ seq \in Nat
    BY <1>6 DEF ReaderRecord, TypeOK
  <2>2. QED
    BY <2>1 DEF PublishedInOrder, DataUpTo
<1>7. ASSUME ReaderPublish PROVE PublishedInOrder'
  <2> DEFINE e == [event |-> "data", seq |-> seq]
  <2>1. e \in Events /\ wire' = Append(wire, e) /\ e.event = "data" /\ e.seq = seq
    BY <1>7 DEF ReaderPublish, TypeOK, Events
  <2> HIDE DEF e
  <2>2. reader = "publish" /\ reader' = "read" /\ seq' = seq /\ seq \in Nat
    BY <1>7 DEF ReaderPublish, TypeOK
  <2>3. Published(wire, seq, reader)
    BY PublishedIsInOrder
  <2>4. DataCount(wire', Len(wire) + 1) = seq
    BY <2>1, <2>2, <2>3, WireStep DEF Published
  <2>5. \A j \in DOMAIN wire' : wire'[j].event = "data" => wire'[j].seq = DataCount(wire', j)
    BY <2>1, <2>3, <2>4, WireStep DEF Published
  <2>6. Published(wire', seq', reader')
    BY <2>1, <2>2, <2>4, <2>5, WireStep DEF Published
  <2>7. QED
    BY <2>6, PublishedIsInOrder
<1>8. ASSUME ReaderEnd PROVE PublishedInOrder'
  BY <1>8 DEF ReaderEnd, PublishedInOrder, DataUpTo
<1>9. ASSUME ExitRecord PROVE PublishedInOrder'
  BY <1>9 DEF ExitRecord, PublishedInOrder, DataUpTo
<1>10. ASSUME ExitDrained PROVE PublishedInOrder'
  BY <1>10 DEF ExitDrained, PublishedInOrder, DataUpTo
<1>11. ASSUME ExitGivesUp PROVE PublishedInOrder'
  BY <1>11 DEF ExitGivesUp, PublishedInOrder, DataUpTo
<1>12. ASSUME ExitFreeze PROVE PublishedInOrder'
  BY <1>12 DEF ExitFreeze, PublishedInOrder, DataUpTo
<1>13. ASSUME ExitCheck PROVE PublishedInOrder'
  BY <1>13 DEF ExitCheck, PublishedInOrder, DataUpTo
<1>14. ASSUME ExitPublish PROVE PublishedInOrder'
  <2> DEFINE e == [event |-> "exit"]
  <2>1. e \in Events /\ wire' = Append(wire, e) /\ e.event # "data"
    BY <1>14 DEF ExitPublish, Events
  <2> HIDE DEF e
  <2>2. reader' = reader /\ seq' = seq
    BY <1>14 DEF ExitPublish
  <2>3. Published(wire, seq, reader)
    BY PublishedIsInOrder
  <2>4. \A j \in DOMAIN wire' : wire'[j].event = "data" => wire'[j].seq = DataCount(wire', j)
    BY <2>1, <2>3, WireStep DEF Published
  <2>5. Published(wire', seq', reader')
    BY <2>1, <2>2, <2>3, <2>4, WireStep DEF Published
  <2>6. QED
    BY <2>5, PublishedIsInOrder
<1>15. ASSUME Refresh PROVE PublishedInOrder'
  BY <1>15 DEF Refresh, PublishedInOrder, DataUpTo
<1>16. ASSUME NEW r \in Resizers, NEW s \in Sizes, ResizeModel(r, s) PROVE PublishedInOrder'
  BY <1>16 DEF ResizeModel, PublishedInOrder, DataUpTo
<1>17. ASSUME NEW r \in Resizers, ResizeTerminal(r) PROVE PublishedInOrder'
  BY <1>17 DEF ResizeTerminal, PublishedInOrder, DataUpTo
<1>18. ASSUME Retire PROVE PublishedInOrder'
  BY <1>18 DEF Retire, PublishedInOrder, DataUpTo
<1>19. ASSUME DropMaster PROVE PublishedInOrder'
  BY <1>19 DEF DropMaster, PublishedInOrder, DataUpTo
<1>20. CASE UNCHANGED vars
  BY <1>20 DEF vars, PublishedInOrder, DataUpTo
<1> HIDE DEF ptyVars, readVars, innerVars, masterVars, exitVars, resizeVars
<1>21. QED
  BY <1>1, <1>2, <1>3, <1>4, <1>5, <1>6, <1>7, <1>8, <1>9, <1>10, <1>11, <1>12, <1>13, <1>14, <1>15, <1>16, <1>17, <1>18, <1>19, <1>20
     DEF Next, Terminal, Reader, ExitThread, Resizing

\* Every step keeps what the exit thread relies on.
LEMMA ExitStep ==
  ASSUME TypeOK, Consistent(vt, size), ExitInv, [Next]_vars
  PROVE  ExitInv'
<1> USE DEF ptyVars, readVars, innerVars, masterVars, exitVars, resizeVars
<1>1. ASSUME Produce PROVE ExitInv'
  BY <1>1 DEF Produce, ExitInv, Exited, TypeOK
<1>2. ASSUME CloseSlave PROVE ExitInv'
  BY <1>2 DEF CloseSlave, ExitInv, Exited, TypeOK
<1>3. ASSUME ReopenSlave PROVE ExitInv'
  BY <1>3 DEF ReopenSlave, ExitInv, Exited, TypeOK
<1>4. ASSUME ChildEnds PROVE ExitInv'
  BY <1>4 DEF ChildEnds, ExitInv, Exited, TypeOK
<1>5. ASSUME NEW n \in 1 .. (produced - consumed), ReaderRead(n) PROVE ExitInv'
  BY <1>5 DEF ReaderRead, ExitInv, Exited, TypeOK
<1>6. ASSUME ReaderRecord PROVE ExitInv'
  <2>1. exit \in {"wait", "drain"} \/ gaveUp
    BY <1>6 DEF ReaderRecord, ExitInv
  <2>2. ~Exited \/ gaveUp
    BY <2>1 DEF ExitInv
  <2>3. Exited' = Exited /\ reader' = "publish" /\ UNCHANGED <<ptyVars, consumed, status, retired, exitVars>>
    BY <1>6 DEF ReaderRecord, Exited
  <2>4. QED
    BY <2>1, <2>2, <2>3 DEF ExitInv
<1>7. ASSUME ReaderPublish PROVE ExitInv'
  <2> DEFINE e == [event |-> "data", seq |-> seq]
  <2>1. e \in Events /\ wire' = Append(wire, e) /\ e.event = "data"
    BY <1>7 DEF ReaderPublish, TypeOK, Events
  <2> HIDE DEF e
  <2>2. Exited' = Exited
    BY <2>1, WireStep DEF Exited
  <2>3. QED
    BY <1>7, <2>2 DEF ReaderPublish, ExitInv
<1>8. ASSUME ReaderEnd PROVE ExitInv'
  BY <1>8 DEF ReaderEnd, MayStopReading, ExitInv, Exited
<1>9. ASSUME ExitRecord PROVE ExitInv'
  BY <1>9 DEF ExitRecord, ExitInv, Exited, TypeOK
<1>10. ASSUME ExitDrained PROVE ExitInv'
  BY <1>10 DEF ExitDrained, ExitInv, Exited, TypeOK
<1>11. ASSUME ExitGivesUp PROVE ExitInv'
  BY <1>11 DEF ExitGivesUp, ExitInv, Exited, TypeOK
<1>12. ASSUME ExitFreeze PROVE ExitInv'
  <2>1. vt'.valid => vt'.pending = <<>>
    <3>1. CASE vt.dirty
      BY <1>12, <3>1, FrozenUpdates DEF ExitFreeze, ExitFreezes, TypeOK
    <3>2. CASE ~vt.dirty
      BY <1>12, <3>2 DEF ExitFreeze, ExitFreezes, Consistent
    <3>3. QED
      BY <3>1, <3>2
  <2>2. QED
    BY <1>12, <2>1 DEF ExitFreeze, ExitInv, Exited
<1>13. ASSUME ExitCheck PROVE ExitInv'
  BY <1>13 DEF ExitCheck, ExitInv, Exited, TypeOK
<1>14. ASSUME ExitPublish PROVE ExitInv'
  BY <1>14 DEF ExitPublish, ExitInv, Exited, TypeOK
<1>15. ASSUME Refresh PROVE ExitInv'
  <2>1. vt'.valid => vt'.pending = <<>>
    BY <1>15, FrozenUpdates DEF Refresh, TypeOK
  <2>2. QED
    BY <1>15, <2>1 DEF Refresh, ExitInv, Exited
<1>16. ASSUME NEW r \in Resizers, NEW s \in Sizes, ResizeModel(r, s) PROVE ExitInv'
  BY <1>16 DEF ResizeModel, ExitInv, Exited, TypeOK
<1>17. ASSUME NEW r \in Resizers, ResizeTerminal(r) PROVE ExitInv'
  BY <1>17 DEF ResizeTerminal, ExitInv, Exited, TypeOK
<1>18. ASSUME Retire PROVE ExitInv'
  BY <1>18 DEF Retire, ExitInv, Exited, TypeOK
<1>19. ASSUME DropMaster PROVE ExitInv'
  BY <1>19 DEF DropMaster, ExitInv, Exited, TypeOK
<1>20. CASE UNCHANGED vars
  BY <1>20 DEF vars, ExitInv, Exited, TypeOK
<1> HIDE DEF ptyVars, readVars, innerVars, masterVars, exitVars, resizeVars
<1>21. QED
  BY <1>1, <1>2, <1>3, <1>4, <1>5, <1>6, <1>7, <1>8, <1>9, <1>10, <1>11, <1>12, <1>13, <1>14, <1>15, <1>16, <1>17, <1>18, <1>19, <1>20
     DEF Next, Terminal, Reader, ExitThread, Resizing

\* Every step keeps the exit event the last one, unless the exit thread gave up.
LEMMA DataBeforeExitStep ==
  ASSUME TypeOK, ExitInv, DataBeforeExit, [Next]_vars
  PROVE  DataBeforeExit'
<1> USE DEF ptyVars, readVars, innerVars, masterVars, exitVars, resizeVars
<1>1. ASSUME Produce PROVE DataBeforeExit'
  BY <1>1 DEF Produce, DataBeforeExit
<1>2. ASSUME CloseSlave PROVE DataBeforeExit'
  BY <1>2 DEF CloseSlave, DataBeforeExit
<1>3. ASSUME ReopenSlave PROVE DataBeforeExit'
  BY <1>3 DEF ReopenSlave, DataBeforeExit
<1>4. ASSUME ChildEnds PROVE DataBeforeExit'
  BY <1>4 DEF ChildEnds, DataBeforeExit
<1>5. ASSUME NEW n \in 1 .. (produced - consumed), ReaderRead(n) PROVE DataBeforeExit'
  BY <1>5 DEF ReaderRead, DataBeforeExit
<1>6. ASSUME ReaderRecord PROVE DataBeforeExit'
  BY <1>6 DEF ReaderRecord, DataBeforeExit
<1>7. ASSUME ReaderPublish PROVE DataBeforeExit'
  <2> DEFINE e == [event |-> "data", seq |-> seq]
  <2>1. e \in Events /\ wire' = Append(wire, e) /\ e.event = "data"
    BY <1>7 DEF ReaderPublish, TypeOK, Events
  <2> HIDE DEF e
  <2>2. ~gaveUp => ~Exited
    BY <1>7 DEF ReaderPublish, ExitInv
  <2>3. gaveUp' = gaveUp
    BY <1>7 DEF ReaderPublish
  <2>4. QED
    BY <2>1, <2>2, <2>3, WireStep DEF DataBeforeExit, Exited
<1>8. ASSUME ReaderEnd PROVE DataBeforeExit'
  BY <1>8 DEF ReaderEnd, DataBeforeExit
<1>9. ASSUME ExitRecord PROVE DataBeforeExit'
  BY <1>9 DEF ExitRecord, DataBeforeExit
<1>10. ASSUME ExitDrained PROVE DataBeforeExit'
  BY <1>10 DEF ExitDrained, DataBeforeExit
<1>11. ASSUME ExitGivesUp PROVE DataBeforeExit'
  BY <1>11 DEF ExitGivesUp, DataBeforeExit
<1>12. ASSUME ExitFreeze PROVE DataBeforeExit'
  BY <1>12 DEF ExitFreeze, DataBeforeExit
<1>13. ASSUME ExitCheck PROVE DataBeforeExit'
  BY <1>13 DEF ExitCheck, DataBeforeExit
<1>14. ASSUME ExitPublish PROVE DataBeforeExit'
  <2> DEFINE e == [event |-> "exit"]
  <2>1. e \in Events /\ wire' = Append(wire, e)
    BY <1>14 DEF ExitPublish, Events
  <2> HIDE DEF e
  <2>2. ~Exited
    BY <1>14 DEF ExitPublish, ExitInv
  <2>3. QED
    BY <2>1, <2>2, WireStep DEF DataBeforeExit, Exited
<1>15. ASSUME Refresh PROVE DataBeforeExit'
  BY <1>15 DEF Refresh, DataBeforeExit
<1>16. ASSUME NEW r \in Resizers, NEW s \in Sizes, ResizeModel(r, s) PROVE DataBeforeExit'
  BY <1>16 DEF ResizeModel, DataBeforeExit
<1>17. ASSUME NEW r \in Resizers, ResizeTerminal(r) PROVE DataBeforeExit'
  BY <1>17 DEF ResizeTerminal, DataBeforeExit
<1>18. ASSUME Retire PROVE DataBeforeExit'
  BY <1>18 DEF Retire, DataBeforeExit
<1>19. ASSUME DropMaster PROVE DataBeforeExit'
  BY <1>19 DEF DropMaster, DataBeforeExit
<1>20. CASE UNCHANGED vars
  BY <1>20 DEF vars, DataBeforeExit
<1> HIDE DEF ptyVars, readVars, innerVars, masterVars, exitVars, resizeVars
<1>21. QED
  BY <1>1, <1>2, <1>3, <1>4, <1>5, <1>6, <1>7, <1>8, <1>9, <1>10, <1>11, <1>12, <1>13, <1>14, <1>15, <1>16, <1>17, <1>18, <1>19, <1>20
     DEF Next, Terminal, Reader, ExitThread, Resizing

-----------------------------------------------------------------------------
(* The inductive invariant. *)

\* The invariant holds at first.
LEMMA InitIInv == Init => IInv
<1> SUFFICES ASSUME Init PROVE IInv
  OBVIOUS
<1> USE SessionAssumption
<1>1. <<Resize(InitialSize)>> \in Seq(Ops) /\ <<>> \in Seq(Ops)
  BY DEF Resize, Ops
<1>2. EndsInSize(<<Resize(InitialSize)>>, InitialSize)
  BY DEF EndsInSize, Resize
<1>3. <<Resize(InitialSize)>> \o <<>> = <<Resize(InitialSize)>>
  BY <1>1, ConcatEmptySeq
<1>4. vt \in Screens /\ Consistent(vt, size) /\ vt.chars = 0
  <2>1. CASE vt = Faulted
    BY <2>1, FaultedConsistent DEF Init
  <2>2. CASE vt # Faulted
    <3>1. vt = [valid |-> TRUE, screen |-> <<Resize(InitialSize)>>,
                baseline |-> <<Resize(InitialSize)>>, pending |-> <<>>,
                chars |-> 0, dirty |-> FALSE]
      BY <2>2 DEF Init
    <3>2. vt \in Screens
      BY <1>1, <3>1 DEF Screens
    <3>3. size = InitialSize
      BY DEF Init
    <3>4. QED
      BY <1>2, <1>3, <3>1, <3>2, <3>3 DEF Consistent
  <2>3. QED
    BY <2>1, <2>2
<1>5. TypeOK
  <2>1. <<>> \in Seq([seq : Nat, len : Nat])
    OBVIOUS
  <2>2. <<>> \in Seq([event : {"data"}, seq : Nat] \cup [event : {"exit"}])
    OBVIOUS
  <2>3. vt.chars <= PendingMaxChars
    BY <1>4
  <2>4. seq \in Nat /\ size \in Sizes /\ ptySize \in Sizes /\ resizes \in Nat /\ chunk \in Nat
        /\ produced \in Nat /\ consumed \in Nat /\ consumed <= produced
    BY DEF Init
  <2>5. resizer \in [Resizers -> {"idle", "master"}] /\ wanted \in [Resizers -> Sizes]
    BY DEF Init
  <2>6. chunks = <<>> /\ wire = <<>>
    BY DEF Init
  <2>7. QED
    BY <1>4, <2>1, <2>2, <2>3, <2>4, <2>5, <2>6, ZenonT(30) DEF Init, TypeOK
<1>6. JournalContiguous
  BY DEF Init, JournalContiguous
<1>7. PublishedInOrder
  <2>1. wire = <<>> /\ seq = 0 /\ reader = "read" /\ DOMAIN wire = {} /\ Len(wire) = 0
    BY DEF Init
  <2>2. DataAt(wire, 0) = {} /\ DataUpTo(0) = 0
    BY <2>1, FS_EmptySet DEF DataAt, DataUpTo
  <2>3. QED
    BY <2>1, <2>2 DEF PublishedInOrder
<1>8. ~Exited
  BY DEF Init, Exited
<1>9. ExitInv /\ DataBeforeExit
  BY <1>8 DEF Init, ExitInv, DataBeforeExit
<1>10. QED
  BY <1>4, <1>5, <1>6, <1>7, <1>9 DEF IInv

\* Every step preserves the invariant.
LEMMA NextIInv == IInv /\ [Next]_vars => IInv'
<1> SUFFICES ASSUME IInv, [Next]_vars PROVE IInv'
  OBVIOUS
<1>1. TypeOK' /\ Consistent(vt, size)'
  BY TypeStep, ScreenStep DEF IInv
<1>2. JournalContiguous' /\ PublishedInOrder'
  BY JournalStep, PublishStep DEF IInv
<1>3. ExitInv' /\ DataBeforeExit'
  BY ExitStep, DataBeforeExitStep DEF IInv
<1>4. QED
  BY <1>1, <1>2, <1>3 DEF IInv

\* IInv is an invariant of the session.
THEOREM Invariance == Spec => []IInv
BY InitIInv, NextIInv, PTL DEF Spec

\* Every variable of the session keeps its type, and the characters pending stay
\* within SNAPSHOT_PENDING_MAX_CHARS, however chunks and resizes interleave.
THEOREM TypeCorrect == Spec => []TypeOK
<1>1. IInv => TypeOK
  BY DEF IInv
<1>2. QED
  BY <1>1, Invariance, PTL

\* A snapshot read at any moment replays to the screen, and ends in the size the
\* session reports.
THEOREM FaithfulSnapshot == Spec => []SnapshotFaithful
<1>1. IInv => SnapshotFaithful
  <2>1. SUFFICES ASSUME IInv, vt.valid
                 PROVE  /\ vt.baseline \o vt.pending = vt.screen
                        /\ EndsInSize(vt.baseline \o vt.pending, size)
    BY DEF SnapshotFaithful
  <2>2. vt.baseline \o vt.pending = vt.screen /\ EndsInSize(vt.screen, size)
    BY <2>1 DEF IInv, Consistent
  <2>3. QED
    BY <2>2, Zenon
<1>2. QED
  BY <1>1, Invariance, PTL

\* The chunks a client can read back have no hole, whatever the window.
THEOREM NoHoleInJournal == Spec => []JournalContiguous
<1>1. IInv => JournalContiguous
  BY DEF IInv
<1>2. QED
  BY <1>1, Invariance, PTL

\* Every chunk is published exactly once and in order.
THEOREM EveryChunkPublishedOnce == Spec => []PublishedInOrder
<1>1. IInv => PublishedInOrder
  BY DEF IInv
<1>2. QED
  BY <1>1, Invariance, PTL

\* The exit event follows all data, unless the exit thread gave up waiting.
THEOREM ExitComesLast == Spec => []DataBeforeExit
<1>1. IInv => DataBeforeExit
  BY DEF IInv
<1>2. QED
  BY <1>1, Invariance, PTL

\* An announced exit means the terminal was read to its end and the screen frozen.
THEOREM ExitIsComplete == Spec => []CompleteAtExit
<1>1. IInv => CompleteAtExit
  BY DEF IInv, ExitInv, CompleteAtExit, TypeOK
<1>2. QED
  BY <1>1, Invariance, PTL

\* Both: when a client gets the exit nothing follows it and nothing is missing.
THEOREM ExitEndsTheStream == Spec => []ExitIsTheEnd
<1>1. DataBeforeExit /\ CompleteAtExit => ExitIsTheEnd
  BY DEF ExitIsTheEnd
<1>2. QED
  BY <1>1, ExitComesLast, ExitIsComplete, PTL

-----------------------------------------------------------------------------
(* The session implements SessionStream. *)

\* The oldest retained chunk only ever moves towards the newest.
LEMMA RecordRefines ==
  ASSUME IInv, IInv', ReaderRecord
  PROVE  Stream!Record
<1>1. /\ reader = "record" /\ reader' = "publish" /\ seq' = seq + 1 /\ wire' = wire /\ seq \in Nat
      /\ Len(chunks) \in Nat /\ Len(chunks') \in Nat
  BY LenProperties DEF IInv, TypeOK, ReaderRecord, readVars
<1>2. DataUpTo(Len(wire)) = seq /\ DataUpTo(Len(wire))' = DataUpTo(Len(wire))
  BY <1>1 DEF IInv, PublishedInOrder, DataUpTo
<1>3. Len(chunks') # 0 /\ Len(chunks') <= Len(chunks) + 1
  BY PushedChunks, PushedTrimmed DEF IInv
<1>4. seq' + 1 - Len(chunks') \in (seq + 1 - Len(chunks)) .. seq'
  BY <1>1, <1>3
<1>5. QED
  BY <1>1, <1>2, <1>4 DEF Stream!Record

\* Every step of the session is a step of SessionStream or leaves it alone.
LEMMA StreamStep ==
  ASSUME IInv, IInv', [Next]_vars
  PROVE  [Stream!StreamNext]_(Stream!streamVars)
<1>1. CASE ReaderRecord
  BY <1>1, RecordRefines DEF Stream!StreamNext
<1>2. CASE ReaderPublish
  <2>1. reader = "publish" /\ reader' = "read" /\ seq' = seq /\ chunks' = chunks /\ seq \in Nat
    BY <1>2 DEF ReaderPublish, innerVars, IInv, TypeOK
  <2>2. DataUpTo(Len(wire)) = seq - 1 /\ DataUpTo(Len(wire))' = seq
    BY <2>1 DEF IInv, PublishedInOrder
  <2>3. Stream!Announce
    BY <2>1, <2>2 DEF Stream!Announce
  <2>4. QED
    BY <2>3 DEF Stream!StreamNext
<1>3. CASE ~ReaderRecord /\ ~ReaderPublish
  <2>1. seq' = seq /\ chunks' = chunks /\ (reader' = "publish" <=> reader = "publish")
    BY <1>3 DEF Next, Terminal, Reader, ExitThread, Resizing, vars, ptyVars, readVars, innerVars, masterVars, exitVars,
         resizeVars, Produce, CloseSlave, ReopenSlave, ChildEnds, ReaderRead, ReaderEnd, ExitRecord,
         ExitDrained, ExitGivesUp, ExitFreeze, ExitCheck, ExitPublish, Refresh, ResizeModel,
         ResizeTerminal, Retire, DropMaster
  <2>2. DataUpTo(Len(wire))' = DataUpTo(Len(wire))
    BY <2>1 DEF IInv, PublishedInOrder
  <2>3. QED
    BY <2>1, <2>2 DEF Stream!streamVars
<1>4. QED
  BY <1>1, <1>2, <1>3

\* Whatever its threads do, a session is a numbered stream: chunks are recorded
\* one by one, the newest can be read back, and each is announced once, in order.
THEOREM Implements == Spec => ImplementsStream
<1>1. Init => Stream!StreamInit
  <2>1. SUFFICES ASSUME Init PROVE Stream!StreamInit
    OBVIOUS
  <2>2. seq = 0 /\ Len(chunks) = 0 /\ reader = "read"
    BY <2>1 DEF Init
  <2>3. DataUpTo(Len(wire)) = 0
    BY <2>1, <2>2, InitIInv DEF IInv, PublishedInOrder
  <2>4. QED
    BY <2>2, <2>3 DEF Stream!StreamInit
<1>2. IInv /\ IInv' /\ [Next]_vars => [Stream!StreamNext]_(Stream!streamVars)
  BY StreamStep
<1>3. QED
  BY <1>1, <1>2, Invariance, PTL DEF Spec, ImplementsStream, Stream!StreamSpec

=============================================================================
