------------------------- MODULE RenderDeliveryProofs -------------------------
(* What TLAPS proves about RenderDelivery, for every value of its constants. *)
EXTENDS RenderDelivery, SequenceTheorems, TLAPS

-----------------------------------------------------------------------------
(* Types. *)

LEMMA FrameTypes ==
  ASSUME NEW s \in Sessions, NEW n \in Nat
  PROVE  DataFrame(s, n) \in Frames /\ ResponseFrame(s, n) \in Frames
BY DEF DataFrame, ResponseFrame, Frames

\* The sending side: what a channel, a hand and a wire are after each operation.
LEMMA EnqueueType ==
  ASSUME TypeOK, NEW c \in Conns, NEW f \in Frames, HasRoom(c), Enqueue(c, f)
  PROVE  /\ queue' \in [Conns -> Seq(Frames)]
         /\ \A d \in Conns : Len(queue'[d]) <= QueueDepth
<1>1. Append(queue[c], f) \in Seq(Frames) /\ Len(Append(queue[c], f)) = Len(queue[c]) + 1
  BY AppendProperties DEF TypeOK
<1>2. queue' = [queue EXCEPT ![c] = Append(queue[c], f)]
  BY DEF Enqueue
<1>3. Len(queue[c]) \in Nat
  BY LenProperties DEF TypeOK
<1>4. Len(queue[c]) + 1 <= QueueDepth
  BY <1>3, DeliveryAssumption DEF HasRoom
<1>5. QED
  BY <1>1, <1>2, <1>4 DEF TypeOK

LEMMA TypeStep ==
  ASSUME TypeOK, \A c \in Conns : ConnInv(c), [Next]_vars
  PROVE  TypeOK'
<1> USE DEF TypeOK, pubVars, sendVars, readVars
<1>1. ASSUME NEW s \in Sessions, Record(s) PROVE TypeOK'
  <2>1. seq' = [seq EXCEPT ![s] = seq[s] + 1] /\ pub' = [pub EXCEPT ![s] = "copy"]
        /\ UNCHANGED <<targets, slow, clients, closed, sendVars, readVars, gone>>
    BY <1>1 DEF Record
  <2>2. QED
    BY <2>1
<1>2. ASSUME NEW s \in Sessions, Copy(s) PROVE TypeOK'
  BY <1>2 DEF Copy
<1>3. ASSUME NEW s \in Sessions, NEW c \in Conns, SkipStranger(s, c) PROVE TypeOK'
  BY <1>3 DEF SkipStranger
<1>4. ASSUME NEW s \in Sessions, NEW c \in Conns, SendEvent(s, c) PROVE TypeOK'
  <2>1. DataFrame(s, seq[s]) \in Frames
    BY FrameTypes
  <2>2. /\ queue' \in [Conns -> Seq(Frames)]
        /\ \A d \in Conns : Len(queue'[d]) <= QueueDepth
    BY <1>4, <2>1, EnqueueType DEF SendEvent, TrySends
  <2>3. QED
    BY <1>4, <2>2 DEF SendEvent
<1>5. ASSUME NEW s \in Sessions, NEW c \in Conns, MissEvent(s, c) PROVE TypeOK'
  BY <1>5 DEF MissEvent
<1>6. ASSUME NEW s \in Sessions, NEW c \in Conns, DropSlow(s, c) PROVE TypeOK'
  BY <1>6 DEF DropSlow, Disconnect
<1>7. ASSUME NEW s \in Sessions, Published(s) PROVE TypeOK'
  BY <1>7 DEF Published
<1>8. ASSUME NEW c \in Conns, Connect(c) PROVE TypeOK'
  BY <1>8 DEF Connect
<1>9. ASSUME NEW c \in Conns, Authenticate(c) PROVE TypeOK'
  BY <1>9 DEF Authenticate
<1>10. ASSUME NEW c \in Conns, Refuse(c) PROVE TypeOK'
  BY <1>10 DEF Refuse
<1>11. ASSUME NEW c \in Conns, NEW s \in Sessions, Attach(c, s) PROVE TypeOK'
  <2>1. /\ <<ResponseFrame(s, seq[s])>> \in Seq(Frames)
        /\ Len(<<ResponseFrame(s, seq[s])>>) = 1
    BY FrameTypes
  <2>2. attached' \in [Conns -> [Sessions -> Nat \cup {NotAttached}]]
    BY <1>11 DEF Attach
  <2>3. QED
    BY <1>11, <2>1, <2>2 DEF Attach
<1>12. ASSUME NEW c \in Conns, Respond(c), ConnInv(c) PROVE TypeOK'
  <2>1. reply[c][1] \in Frames
    BY <1>12 DEF Respond, ConnInv
  <2>2. /\ queue' \in [Conns -> Seq(Frames)]
        /\ \A d \in Conns : Len(queue'[d]) <= QueueDepth
    BY <1>12, <2>1, EnqueueType DEF Respond
  <2>3. <<>> \in Seq(Frames) /\ Len(<<>>) <= 1
    BY EmptySeq
  <2>4. /\ reply' \in [Conns -> Seq(Frames)] /\ \A d \in Conns : Len(reply'[d]) <= 1
        /\ reader' \in [Conns -> {"none", "read", "dispatch", "respond", "done"}]
    BY <1>12, <2>3 DEF Respond
  <2>5. QED
    BY <1>12, <2>2, <2>4 DEF Respond
<1>13. ASSUME NEW c \in Conns, RespondInVain(c) PROVE TypeOK'
  BY <1>13 DEF RespondInVain
<1>14. ASSUME NEW c \in Conns, Leave(c) PROVE TypeOK'
  BY <1>14 DEF Leave, Disconnect
<1>15. ASSUME NEW c \in Conns, Take(c) PROVE TypeOK'
  <2>1. queue[c] \in Seq(Frames) /\ queue[c] # <<>>
    BY <1>15 DEF Take
  <2>2. /\ Tail(queue[c]) \in Seq(Frames) /\ Len(Tail(queue[c])) <= QueueDepth
        /\ <<Head(queue[c])>> \in Seq(Frames) /\ Len(<<Head(queue[c])>>) = 1
    BY <2>1, HeadTailProperties, LenProperties, DeliveryAssumption
  <2>3. QED
    BY <1>15, <2>2 DEF Take
<1>16. ASSUME NEW c \in Conns, Write(c) PROVE TypeOK'
  <2>1. wire[c] \o hand[c] \in Seq(Frames)
    BY ConcatProperties
  <2>2. QED
    BY <1>16, <2>1 DEF Write
<1>17. ASSUME NEW c \in Conns, WriteFails(c) PROVE TypeOK'
  <2>1. <<>> \in Seq(Frames) /\ Len(<<>>) <= QueueDepth /\ Len(<<>>) <= 1
    BY EmptySeq, DeliveryAssumption
  <2>2. QED
    BY <1>17, <2>1 DEF WriteFails
<1>18. ASSUME NEW c \in Conns, WriterEnds(c) PROVE TypeOK'
  <2>1. <<>> \in Seq(Frames) /\ Len(<<>>) <= QueueDepth
    BY EmptySeq, DeliveryAssumption
  <2>2. QED
    BY <1>18, <2>1 DEF WriterEnds
<1>19. ASSUME NEW c \in Conns, HangUp(c) PROVE TypeOK'
  BY <1>19 DEF HangUp
<1>20. CASE UNCHANGED vars
  BY <1>20 DEF vars
<1>21. QED
  BY <1>1, <1>2, <1>3, <1>4, <1>5, <1>6, <1>7, <1>8, <1>9, <1>10, <1>11, <1>12, <1>13,
     <1>14, <1>15, <1>16, <1>17, <1>18, <1>19, <1>20
     DEF Next, Broadcast, Serve, WriterThread

-----------------------------------------------------------------------------
(* What a connection has been given. *)

LEMMA GivenType ==
  ASSUME TypeOK, NEW c \in Conns
  PROVE  /\ Given(c) \in Seq(Frames) /\ Len(Given(c)) \in Nat
         /\ DOMAIN Given(c) = 1 .. Len(Given(c))
         /\ \A j \in 1 .. Len(Given(c)) : Given(c)[j] \in Frames
<1>1. wire[c] \in Seq(Frames) /\ hand[c] \in Seq(Frames) /\ queue[c] \in Seq(Frames)
  BY DEF TypeOK
<1>2. Given(c) \in Seq(Frames)
  BY <1>1, ConcatProperties DEF Given
<1>3. QED
  BY <1>2, LenProperties, ElementOfSeq

\* Moving a frame from the queue to the hand, and from the hand to the wire.
LEMMA TakeKeeps ==
  ASSUME NEW w \in Seq(Frames), NEW q \in Seq(Frames), q # <<>>
  PROVE  (w \o <<Head(q)>>) \o Tail(q) = (w \o <<>>) \o q
<1>1. Head(q) \in Frames /\ Tail(q) \in Seq(Frames) /\ <<Head(q)>> \in Seq(Frames)
  BY HeadTailProperties
<1>2. q = <<Head(q)>> \o Tail(q)
  BY <1>1
<1>3. (w \o <<Head(q)>>) \o Tail(q) = w \o (<<Head(q)>> \o Tail(q))
  BY <1>1, ConcatAssociative
<1>4. QED
  BY <1>2, <1>3, ConcatEmptySeq

LEMMA EnqueueAppends ==
  ASSUME NEW w \in Seq(Frames), NEW h \in Seq(Frames), NEW q \in Seq(Frames), NEW f \in Frames
  PROVE  (w \o h) \o Append(q, f) = Append((w \o h) \o q, f)
<1>1. w \o h \in Seq(Frames) /\ (w \o h) \o q \in Seq(Frames) /\ <<f>> \in Seq(Frames)
  BY ConcatProperties
<1>2. Append(q, f) = q \o <<f>> /\ Append((w \o h) \o q, f) = ((w \o h) \o q) \o <<f>>
  BY <1>1, AppendIsConcat
<1>3. QED
  BY <1>1, <1>2, ConcatAssociative

\* What is not on the wire yet is one sequence.
LEMMA GivenParts ==
  ASSUME NEW w \in Seq(Frames), NEW h \in Seq(Frames), NEW q \in Seq(Frames)
  PROVE  (w \o h) \o q = w \o (h \o q)
BY ConcatAssociative

Same(c) == Given(c)' = Given(c)
Gets(c, f) == Given(c)' = Append(Given(c), f)
\* What is left is what was written.
Cut(c) == closed'[c] /\ Given(c)' = wire[c]

\* What a step does to it: nothing, one frame more, or the end.
LEMMA GivenStep ==
  ASSUME TypeOK, \A d \in Conns : ConnInv(d), [Next]_vars, NEW c \in Conns
  PROVE  \/ Same(c)
         \/ Cut(c)
         \/ \E s \in Sessions : SendEvent(s, c) /\ Gets(c, DataFrame(s, seq[s]))
         \/ Respond(c) /\ Gets(c, reply[c][1])
<1> USE DEF sendVars
<1>1. wire[c] \in Seq(Frames) /\ hand[c] \in Seq(Frames) /\ queue[c] \in Seq(Frames)
  BY DEF TypeOK
<1>2. wire'[c] = wire[c] /\ hand'[c] = hand[c] /\ queue'[c] = queue[c] => Same(c)
  BY DEF Same, Given
<1>3. ASSUME NEW f \in Frames, Enqueue(c, f), wire' = wire, hand' = hand PROVE Gets(c, f)
  <2>1. queue'[c] = Append(queue[c], f)
    BY <1>3 DEF Enqueue, TypeOK
  <2>2. (wire[c] \o hand[c]) \o Append(queue[c], f) = Append((wire[c] \o hand[c]) \o queue[c], f)
    BY <1>1, EnqueueAppends
  <2>3. QED
    BY <1>3, <2>1, <2>2 DEF Gets, Given
<1>4. ASSUME NEW s \in Sessions, NEW x \in Conns, SendEvent(s, x)
      PROVE  Same(c) \/ (x = c /\ Gets(c, DataFrame(s, seq[s])))
  <2>1. CASE x = c
    <3>1. DataFrame(s, seq[s]) \in Frames
      BY FrameTypes DEF TypeOK
    <3>2. QED
      BY <1>3, <1>4, <2>1, <3>1 DEF SendEvent
  <2>2. CASE x # c
    <3>1. wire' = wire /\ hand' = hand /\ queue'[c] = queue[c]
      BY <1>4, <2>2 DEF SendEvent, Enqueue, TypeOK
    <3>2. QED
      BY <1>2, <3>1
  <2>3. QED
    BY <2>1, <2>2
<1>5. ASSUME NEW x \in Conns, Respond(x) PROVE Same(c) \/ (x = c /\ Gets(c, reply[c][1]))
  <2>1. CASE x = c
    <3>1. reply[c][1] \in Frames
      BY <1>5, <2>1 DEF Respond, ConnInv, TypeOK
    <3>2. QED
      BY <1>3, <1>5, <2>1, <3>1 DEF Respond
  <2>2. CASE x # c
    <3>1. wire' = wire /\ hand' = hand /\ queue'[c] = queue[c]
      BY <1>5, <2>2 DEF Respond, Enqueue, TypeOK
    <3>2. QED
      BY <1>2, <3>1
  <2>3. QED
    BY <2>1, <2>2
<1>6. ASSUME NEW x \in Conns, Take(x) PROVE Same(c)
  <2>1. CASE x = c
    <3>1. /\ hand[c] = <<>> /\ queue[c] # <<>> /\ wire'[c] = wire[c]
          /\ hand'[c] = <<Head(queue[c])>> /\ queue'[c] = Tail(queue[c])
      BY <1>6, <2>1 DEF Take, TypeOK
    <3>2. QED
      BY <1>1, <3>1, TakeKeeps DEF Same, Given
  <2>2. CASE x # c
    BY <1>2, <1>6, <2>2 DEF Take, TypeOK
  <2>3. QED
    BY <2>1, <2>2
<1>7. ASSUME NEW x \in Conns, Write(x) PROVE Same(c)
  <2>1. CASE x = c
    <3>1. wire'[c] = wire[c] \o hand[c] /\ hand'[c] = <<>> /\ queue'[c] = queue[c]
      BY <1>7, <2>1 DEF Write, TypeOK
    <3>2. (wire[c] \o hand[c]) \o <<>> = wire[c] \o hand[c]
      BY <1>1, ConcatProperties, ConcatEmptySeq
    <3>3. QED
      BY <3>1, <3>2 DEF Same, Given
  <2>2. CASE x # c
    BY <1>2, <1>7, <2>2 DEF Write, TypeOK
  <2>3. QED
    BY <2>1, <2>2
<1>8. ASSUME NEW x \in Conns, WriteFails(x) \/ WriterEnds(x) PROVE Same(c) \/ Cut(c)
  <2>1. CASE x = c
    <3>1. wire'[c] = wire[c] /\ hand'[c] = <<>> /\ queue'[c] = <<>>
      BY <1>8, <2>1 DEF WriteFails, WriterEnds, TypeOK
    <3>2. (wire[c] \o <<>>) \o <<>> = wire[c]
      BY <1>1, ConcatEmptySeq
    <3>3. Given(c)' = wire[c]
      BY <3>1, <3>2 DEF Given
    <3>4. closed'[c]
      <4>1. CASE WriteFails(c)
        BY <4>1 DEF WriteFails, TypeOK
      <4>2. CASE WriterEnds(c)
        <5>1. writer[c] = "run" /\ reader[c] \notin {"read", "dispatch", "respond"} /\ closed' = closed
          BY <4>2 DEF WriterEnds, Referenced
        <5>2. QED
          BY <5>1 DEF ConnInv, TypeOK
      <4>3. QED
        BY <1>8, <2>1, <4>1, <4>2
    <3>5. QED
      BY <3>3, <3>4 DEF Cut
  <2>2. CASE x # c
    BY <1>2, <1>8, <2>2 DEF WriteFails, WriterEnds, TypeOK
  <2>3. QED
    BY <2>1, <2>2
<1>9. CASE UNCHANGED sendVars \/ UNCHANGED <<queue, hand, wire>>
  BY <1>2, <1>9
<1>10. QED
  BY <1>4, <1>5, <1>6, <1>7, <1>8, <1>9
     DEF Next, vars, Broadcast, Serve, WriterThread, Record, Copy, SkipStranger, MissEvent, DropSlow,
         Published, Connect, Authenticate, Refuse, Attach, RespondInVain, Leave, HangUp

-----------------------------------------------------------------------------
(* The connections and the publishers. *)

\* Nobody who has not shown the token is given a frame.
LEMMA StrangerStep ==
  ASSUME TypeOK, \A d \in Conns : ConnInv(d), [Next]_vars, NEW c \in Conns,
         ~authed[c]
  PROVE  Given(c)' = <<>>
<1>1. Given(c) = <<>> /\ reader[c] # "respond"
  BY DEF ConnInv
<1>2. CASE Same(c)
  BY <1>1, <1>2 DEF Same
<1>3. CASE Cut(c)
  <2>1. wire[c] \in Seq(Frames) /\ hand[c] \in Seq(Frames) /\ queue[c] \in Seq(Frames)
    BY DEF TypeOK
  <2>2. Len(Given(c)) = Len(wire[c]) + Len(hand[c]) + Len(queue[c])
    BY <2>1, ConcatProperties DEF Given
  <2>3. Len(Given(c)) = 0 /\ Len(wire[c]) \in Nat /\ Len(hand[c]) \in Nat /\ Len(queue[c]) \in Nat
    BY <1>1, <2>1, LenProperties
  <2>4. Len(wire[c]) = 0
    <3>1. 0 = Len(wire[c]) + Len(hand[c]) + Len(queue[c])
      BY <2>2, <2>3
    <3>2. \A i, j, k \in Nat : 0 = i + j + k => i = 0
      OBVIOUS
    <3>3. QED
      BY <2>3, <3>1, <3>2
  <2>5. wire[c] = <<>>
    BY <2>1, <2>4, EmptySeq
  <2>6. QED
    BY <1>3, <2>5 DEF Cut
<1>4. QED
  BY <1>1, <1>2, <1>3, GivenStep DEF SendEvent, Respond

LEMMA ConnStep ==
  ASSUME TypeOK, \A d \in Conns : ConnInv(d), [Next]_vars, NEW c \in Conns
  PROVE  ConnInv(c)'
<1> USE DEF sendVars, readVars
<1> DEFINE Rest ==
      /\ (reader[c] = "none") = (writer[c] = "none")
      /\ writer[c] # "run" => hand[c] = <<>>
      /\ reader[c] = "done" => closed[c]
      /\ reader[c] # "none" /\ ~closed[c] => c \in clients
      /\ authed[c] => reader[c] # "none"
      /\ ~authed[c] => /\ reader[c] \notin {"dispatch", "respond"}
                       /\ \A s \in Sessions : attached[c][s] = NotAttached
      /\ reader[c] = "respond" => Len(reply[c]) = 1 /\ reply[c][1].kind = "response"
<1>1. ConnInv(c) /\ Rest
  BY DEF ConnInv
<1>2. ASSUME NEW s \in Sessions, Record(s) \/ Broadcast(s) PROVE Rest' /\ authed' = authed
  <2>1. UNCHANGED <<writer, hand, readVars>>
    BY <1>2 DEF Record, Broadcast, Copy, SkipStranger, SendEvent, MissEvent, DropSlow, Published
  <2>2. (closed' = closed /\ clients' = clients) \/ \E x \in Conns : Disconnect(x)
    BY <1>2 DEF Record, Broadcast, Copy, SkipStranger, SendEvent, MissEvent, DropSlow, Published
  <2>3. (closed[c] => closed'[c]) /\ (c \in clients /\ c \notin clients' => closed'[c])
    BY <2>2 DEF Disconnect, TypeOK
  <2>4. QED
    BY <1>1, <2>1, <2>3
<1>3. ASSUME NEW x \in Conns, Connect(x) PROVE Rest' /\ authed' = authed
  BY <1>1, <1>3 DEF Connect, TypeOK
<1>4. ASSUME NEW x \in Conns, Authenticate(x) PROVE Rest' /\ (authed[c] => authed'[c])
  BY <1>1, <1>4 DEF Authenticate, TypeOK
<1>5. ASSUME NEW x \in Conns, Refuse(x) PROVE Rest' /\ authed' = authed
  BY <1>1, <1>5 DEF Refuse, TypeOK
<1>6. ASSUME NEW x \in Conns, NEW s \in Sessions, Attach(x, s) PROVE Rest' /\ authed' = authed
  <2>1. ResponseFrame(s, seq[s]).kind = "response" /\ Len(<<ResponseFrame(s, seq[s])>>) = 1
    BY DEF ResponseFrame
  <2>2. CASE x = c
    BY <1>1, <1>6, <2>1, <2>2 DEF Attach, TypeOK
  <2>3. CASE x # c
    <3>1. /\ reader'[c] = reader[c] /\ reply'[c] = reply[c] /\ attached'[c] = attached[c]
          /\ UNCHANGED <<clients, closed, writer, hand, authed>>
      BY <1>6, <2>3 DEF Attach, TypeOK
    <3>2. QED
      BY <1>1, <3>1
  <2>4. QED
    BY <2>2, <2>3
<1>7. ASSUME NEW x \in Conns, Respond(x) \/ RespondInVain(x) PROVE Rest' /\ authed' = authed
  BY <1>1, <1>7 DEF Respond, RespondInVain, TypeOK
<1>8. ASSUME NEW x \in Conns, Leave(x) PROVE Rest' /\ authed' = authed
  BY <1>1, <1>8 DEF Leave, Disconnect, TypeOK
<1>9. ASSUME NEW x \in Conns, WriterThread(x) \/ Write(x) \/ HangUp(x) PROVE Rest' /\ authed' = authed
  <2>1. UNCHANGED <<readVars, clients>> /\ (closed[c] => closed'[c])
    BY <1>9 DEF WriterThread, Take, Write, WriteFails, WriterEnds, HangUp, TypeOK
  <2>2. /\ (writer[c] = "none") = (writer'[c] = "none")
        /\ writer'[c] # "run" => hand'[c] = <<>>
    <3>1. ConnInv(x)
      OBVIOUS
    <3>2. CASE Take(x) \/ Write(x) \/ HangUp(x)
      BY <1>1, <3>2 DEF Take, Write, HangUp, TypeOK
    <3>3. CASE WriteFails(x)
      BY <1>1, <3>1, <3>3 DEF WriteFails, ConnInv, TypeOK
    <3>4. CASE WriterEnds(x)
      BY <1>1, <3>4 DEF WriterEnds, TypeOK
    <3>5. QED
      BY <1>9, <3>2, <3>3, <3>4 DEF WriterThread
  <2>3. QED
    BY <1>1, <2>1, <2>2
<1>10. ASSUME UNCHANGED vars PROVE Rest' /\ authed' = authed
  BY <1>1, <1>10 DEF vars, pubVars
<1>11. Rest' /\ (authed[c] => authed'[c])
  <2> HIDE DEF Rest
  <2> QED
    BY <1>2, <1>3, <1>4, <1>5, <1>6, <1>7, <1>8, <1>9, <1>10 DEF Next, Serve, vars
<1>12. QED
  BY <1>11, StrangerStep DEF ConnInv

LEMMA PubStep ==
  ASSUME TypeOK, \A s \in Sessions : PubInv(s), [Next]_vars, NEW s \in Sessions
  PROVE  PubInv(s)'
<1> USE DEF pubVars
<1>1. PubInv(s)
  OBVIOUS
<1>2. ASSUME NEW t \in Sessions, Record(t) PROVE PubInv(s)'
  <2>1. pub[t] = "idle" /\ pub' = [pub EXCEPT ![t] = "copy"] /\ UNCHANGED <<targets, slow>>
    BY <1>2 DEF Record
  <2>2. QED
    BY <1>1, <2>1 DEF PubInv, TypeOK
<1>3. ASSUME NEW t \in Sessions, Copy(t) PROVE PubInv(s)'
  BY <1>1, <1>3 DEF Copy, PubInv, TypeOK
<1>4. ASSUME NEW t \in Sessions, NEW c \in Conns,
             SkipStranger(t, c) \/ SendEvent(t, c) \/ MissEvent(t, c)
      PROVE  PubInv(s)'
  <2>1. /\ c \in targets[t] /\ pub' = pub
        /\ targets' = [targets EXCEPT ![t] = @ \ {c}]
        /\ slow' = slow \/ slow' = [slow EXCEPT ![t] = @ \cup {c}]
    BY <1>4 DEF SkipStranger, SendEvent, MissEvent
  <2>2. QED
    BY <1>1, <2>1 DEF PubInv, TypeOK
<1>5. ASSUME NEW t \in Sessions, NEW c \in Conns, DropSlow(t, c) PROVE PubInv(s)'
  BY <1>1, <1>5 DEF DropSlow, PubInv, TypeOK
<1>6. ASSUME NEW t \in Sessions, Published(t) PROVE PubInv(s)'
  BY <1>1, <1>6 DEF Published, PubInv, TypeOK
<1>7. CASE UNCHANGED pubVars
  BY <1>1, <1>7 DEF PubInv
<1>8. QED
  BY <1>2, <1>3, <1>4, <1>5, <1>6, <1>7
     DEF Next, vars, Broadcast, Serve, WriterThread, Connect, Authenticate, Refuse, Attach, Respond,
         RespondInVain, Leave, Take, Write, WriteFails, WriterEnds, HangUp

-----------------------------------------------------------------------------
(* The events in a sequence of frames. *)

\* The next event goes at the end of what has every number up to it.
LEMMA AppendEvent ==
  ASSUME NEW s \in Sessions, NEW g \in Seq(Frames), NEW top \in Int,
         NEW from \in Nat \cup {NotAttached}, top + 1 \in Nat,
         Good(g, s, top, TRUE, from)
  PROVE  Good(Append(g, DataFrame(s, top + 1)), s, top + 1, TRUE, from)
<1> DEFINE f == DataFrame(s, top + 1)
           h == Append(g, f)
           last == Len(g) + 1
<1>1. f \in Frames /\ f.kind = "data" /\ f.session = s /\ f.seq = top + 1
  BY FrameTypes DEF DataFrame
<1>2. /\ Len(g) \in Nat /\ DOMAIN g = 1 .. Len(g) /\ DOMAIN h = 1 .. last
      /\ \A j \in 1 .. Len(g) : h[j] = g[j] /\ g[j] \in Frames
      /\ h[last] = f
  <2>1. /\ Len(h) = Len(g) + 1 /\ h \in Seq(Frames)
        /\ \A j \in 1 .. Len(g) : h[j] = g[j]
        /\ h[Len(g) + 1] = f
    BY <1>1, AppendProperties
  <2>2. QED
    BY <1>1, <2>1, LenProperties, ElementOfSeq
<1>3. \A j \in 1 .. Len(g) : (IsEvent(h, s, j) <=> IsEvent(g, s, j)) /\ h[j].seq = g[j].seq /\ g[j].seq \in Nat
  BY <1>2 DEF IsEvent, Frames
<1>4. IsEvent(h, s, last) /\ h[last].seq = top + 1
  BY <1>1, <1>2 DEF IsEvent
<1> HIDE DEF f, h
<1>5. \A j \in DOMAIN g : IsEvent(g, s, j) => g[j].seq <= top /\ Covers(g, s, g[j].seq, top)
  BY DEF Good
<1>6. ASSUME NEW m \in Int, Covers(g, s, m, top) PROVE Covers(h, s, m, top + 1)
  <2> SUFFICES ASSUME NEW n \in m .. top + 1 PROVE Has(h, s, n)
    BY DEF Covers
  <2>1. CASE n = top + 1
    BY <1>2, <1>4, <2>1 DEF Has
  <2>2. CASE n \in m .. top
    <3>1. PICK k \in DOMAIN g : IsEvent(g, s, k) /\ g[k].seq = n
      BY <1>6, <2>2 DEF Covers, Has
    <3>2. k \in DOMAIN h /\ IsEvent(h, s, k) /\ h[k].seq = n
      BY <1>2, <1>3, <3>1
    <3>3. QED
      BY <3>2 DEF Has
  <2>3. QED
    BY <2>1, <2>2
<1>7. \A j \in DOMAIN h : IsEvent(h, s, j) => h[j].seq <= top + 1
  BY <1>2, <1>3, <1>4, <1>5
<1>8. \A j \in DOMAIN h : IsEvent(h, s, j) => Covers(h, s, h[j].seq, top + 1)
  <2> SUFFICES ASSUME NEW j \in DOMAIN h, IsEvent(h, s, j)
               PROVE  Covers(h, s, h[j].seq, top + 1)
    OBVIOUS
  <2>1. CASE j = last
    <3>1. \A n \in h[j].seq .. top + 1 : n = top + 1
      BY <1>4, <2>1
    <3>2. QED
      BY <1>2, <1>4, <3>1 DEF Covers, Has
  <2>2. CASE j \in 1 .. Len(g)
    BY <1>2, <1>3, <1>5, <1>6, <2>2
  <2>3. QED
    BY <1>2, <2>1, <2>2
<1>9. from # NotAttached => Covers(h, s, from + 1, top + 1)
  <2>1. from # NotAttached => Covers(g, s, from + 1, top) /\ from + 1 \in Int
    BY DEF Good
  <2>2. QED
    BY <1>6, <2>1
<1>10. Consecutive(h, s)
  <2> SUFFICES ASSUME NEW i \in DOMAIN h, NEW j \in DOMAIN h, i < j, IsEvent(h, s, i), IsEvent(h, s, j)
               PROVE  /\ h[i].seq < h[j].seq
                      /\ \A n \in h[i].seq .. h[j].seq : \E k \in i .. j : IsEvent(h, s, k) /\ h[k].seq = n
    BY DEF Consecutive
  <2>1. i \in 1 .. Len(g) /\ IsEvent(g, s, i) /\ h[i].seq = g[i].seq
    BY <1>2, <1>3
  <2>2. CASE j \in 1 .. Len(g)
    <3>1. IsEvent(g, s, j) /\ h[j].seq = g[j].seq
      BY <1>3, <2>2
    <3>2. /\ g[i].seq < g[j].seq
          /\ \A n \in g[i].seq .. g[j].seq : \E k \in i .. j : IsEvent(g, s, k) /\ g[k].seq = n
      BY <1>2, <2>1, <2>2, <3>1 DEF Good, Consecutive
    <3>3. \A k \in i .. j : k \in 1 .. Len(g)
      BY <2>1, <2>2
    <3>4. \A k \in i .. j : (IsEvent(h, s, k) <=> IsEvent(g, s, k)) /\ h[k].seq = g[k].seq
      BY <1>3, <3>3
    <3>5. QED
      BY <2>1, <3>1, <3>2, <3>4
  <2>3. CASE j = last
    <3>1. g[i].seq <= top /\ Covers(g, s, g[i].seq, top) /\ g[i].seq \in Nat
      BY <1>2, <1>3, <1>5, <2>1
    <3>2. ASSUME NEW n \in g[i].seq .. top PROVE \E k \in i .. j : IsEvent(h, s, k) /\ h[k].seq = n
      <4>1. PICK k \in DOMAIN g : IsEvent(g, s, k) /\ g[k].seq = n
        BY <3>1, <3>2 DEF Covers, Has
      <4>2. ~(k < i)
        <5>1. k < i => g[k].seq < g[i].seq
          BY <1>2, <2>1, <4>1 DEF Good, Consecutive
        <5>2. n \in Int /\ g[i].seq <= n
          BY <3>1, <3>2
        <5>3. QED
          BY <3>1, <4>1, <5>1, <5>2
      <4>3. k \in i .. j /\ IsEvent(h, s, k) /\ h[k].seq = n
        BY <1>2, <1>3, <2>1, <2>3, <4>1, <4>2
      <4>4. QED
        BY <4>3
    <3>3. \A n \in h[i].seq .. h[j].seq : n = top + 1 \/ n \in g[i].seq .. top
      BY <1>4, <2>1, <2>3, <3>1
    <3>4. j \in i .. j
      BY <1>2, <2>1, <2>3
    <3>5. QED
      BY <1>4, <2>1, <2>3, <3>1, <3>2, <3>3, <3>4
  <2>4. QED
    BY <1>2, <2>2, <2>3
<1>11. QED
  BY <1>7, <1>8, <1>9, <1>10 DEF Good, h, f

\* A frame that is no event of the session changes nothing for it.
LEMMA AppendOther ==
  ASSUME NEW s \in Sessions, NEW g \in Seq(Frames), NEW top \in Int, NEW live \in BOOLEAN,
         NEW from \in Nat \cup {NotAttached}, NEW f \in Frames,
         ~(f.kind = "data" /\ f.session = s),
         Good(g, s, top, live, from)
  PROVE  Good(Append(g, f), s, top, live, from)
<1> DEFINE h == Append(g, f)
<1>1. /\ Len(g) \in Nat /\ DOMAIN g = 1 .. Len(g) /\ DOMAIN h = 1 .. Len(g) + 1
      /\ \A j \in 1 .. Len(g) : h[j] = g[j]
      /\ h[Len(g) + 1] = f
  BY AppendProperties, LenProperties
<1>2. \A j \in DOMAIN h : IsEvent(h, s, j) => j \in DOMAIN g
  BY <1>1 DEF IsEvent
<1>3. \A j \in DOMAIN g : j \in DOMAIN h /\ (IsEvent(h, s, j) <=> IsEvent(g, s, j)) /\ h[j] = g[j]
  BY <1>1 DEF IsEvent
<1> HIDE DEF h
<1>4. \A m : Covers(g, s, m, top) => Covers(h, s, m, top)
  <2>1. \A n : Has(g, s, n) => Has(h, s, n)
    BY <1>3 DEF Has
  <2>2. QED
    BY <2>1 DEF Covers
<1>5. Consecutive(h, s)
  <2> SUFFICES ASSUME NEW i \in DOMAIN h, NEW j \in DOMAIN h, i < j, IsEvent(h, s, i), IsEvent(h, s, j)
               PROVE  /\ h[i].seq < h[j].seq
                      /\ \A n \in h[i].seq .. h[j].seq : \E k \in i .. j : IsEvent(h, s, k) /\ h[k].seq = n
    BY DEF Consecutive
  <2>1. i \in DOMAIN g /\ j \in DOMAIN g /\ IsEvent(g, s, i) /\ IsEvent(g, s, j) /\ h[i] = g[i] /\ h[j] = g[j]
    BY <1>2, <1>3
  <2>2. /\ g[i].seq < g[j].seq
        /\ \A n \in g[i].seq .. g[j].seq : \E k \in i .. j : IsEvent(g, s, k) /\ g[k].seq = n
    BY <2>1 DEF Good, Consecutive
  <2>3. \A k \in i .. j : k \in DOMAIN g
    BY <1>1, <2>1
  <2>4. QED
    BY <1>3, <2>1, <2>2, <2>3
<1>6. \A j \in DOMAIN h : IsEvent(h, s, j) => h[j].seq <= top /\ (live => Covers(h, s, h[j].seq, top))
  BY <1>2, <1>3, <1>4 DEF Good
<1>7. live /\ from # NotAttached => Covers(h, s, from + 1, top)
  BY <1>4 DEF Good
<1>8. QED
  BY <1>5, <1>6, <1>7 DEF Good, h

\* What a closed connection's peer got is a beginning of what it was given.
LEMMA CutGood ==
  ASSUME NEW s \in Sessions, NEW w \in Seq(Frames), NEW t \in Seq(Frames), NEW top \in Int,
         NEW live, NEW from, NEW from2,
         Good(w \o t, s, top, live, from)
  PROVE  Good(w, s, top, FALSE, from2)
<1> DEFINE g == w \o t
<1>1. /\ Len(w) \in Nat /\ Len(t) \in Nat /\ DOMAIN w = 1 .. Len(w) /\ DOMAIN g = 1 .. Len(w) + Len(t)
      /\ \A j \in 1 .. Len(w) : g[j] = w[j]
  BY ConcatProperties, LenProperties
<1>2. \A j \in DOMAIN w : j \in DOMAIN g /\ (IsEvent(g, s, j) <=> IsEvent(w, s, j)) /\ g[j] = w[j]
  BY <1>1 DEF IsEvent
<1> HIDE DEF g
<1>3. (\A j \in DOMAIN g : IsEvent(g, s, j) => g[j].seq <= top) /\ Consecutive(g, s)
  BY DEF Good, g
<1>4. Consecutive(w, s)
  <2> SUFFICES ASSUME NEW i \in DOMAIN w, NEW j \in DOMAIN w, i < j, IsEvent(w, s, i), IsEvent(w, s, j)
               PROVE  /\ w[i].seq < w[j].seq
                      /\ \A n \in w[i].seq .. w[j].seq : \E k \in i .. j : IsEvent(w, s, k) /\ w[k].seq = n
    BY DEF Consecutive
  <2>1. /\ g[i].seq < g[j].seq
        /\ \A n \in g[i].seq .. g[j].seq : \E k \in i .. j : IsEvent(g, s, k) /\ g[k].seq = n
    BY <1>2, <1>3 DEF Consecutive
  <2>2. \A k \in i .. j : k \in DOMAIN w
    BY <1>1
  <2>3. QED
    BY <1>2, <2>1, <2>2
<1>5. QED
  BY <1>2, <1>3, <1>4 DEF Good

\* Time only takes demands away: a later top when the connection is closed, a later
\* attach, which starts where the broadcasts are.
LEMMA GoodLater ==
  ASSUME NEW s \in Sessions, NEW g \in Seq(Frames), NEW top \in Int, NEW top2 \in Int,
         NEW live \in BOOLEAN, NEW live2 \in BOOLEAN, NEW from, NEW from2,
         Good(g, s, top, live, from), top <= top2,
         live2 => live /\ top2 = top /\ (from2 = from \/ (from2 \in Int /\ from2 >= top))
  PROVE  Good(g, s, top2, live2, from2)
<1>1. \A j \in DOMAIN g : IsEvent(g, s, j) => g[j].seq <= top2
  <2>1. \A j \in DOMAIN g : g[j].seq \in Nat
    <3>1. \A j \in DOMAIN g : g[j] \in Frames
      BY ElementOfSeq, LenProperties
    <3>2. QED
      BY <3>1 DEF Frames
  <2>2. QED
    BY <2>1 DEF Good
<1>2. live2 /\ from2 # NotAttached => Covers(g, s, from2 + 1, top2)
  <2>1. from2 \in Int /\ from2 >= top => from2 + 1 .. top = {}
    OBVIOUS
  <2>2. QED
    BY <2>1 DEF Good, Covers
<1>3. QED
  BY <1>1, <1>2 DEF Good

-----------------------------------------------------------------------------
(* The steps and the events. *)

LEMMA TopType ==
  ASSUME TypeOK, NEW c \in Conns, NEW s \in Sessions
  PROVE  Top(c, s) \in Int /\ Top(c, s) <= seq[s] /\ seq[s] \in Nat
BY DEF Top, TypeOK

\* What the broadcasts are through with, for a connection that has shown the token:
\* only a frame it gets takes it further while the connection lives.
LEMMA TopStep ==
  ASSUME IInv, [Next]_vars, NEW c \in Conns, NEW s \in Sessions, authed[c], ~SendEvent(s, c)
  PROVE  /\ Top(c, s) <= Top(c, s)'
         /\ ~closed'[c] => Top(c, s)' = Top(c, s)
<1> USE DEF pubVars
<1>1. /\ TypeOK /\ PubInv(s)
      /\ closed[c] \/ c \in clients
  BY DEF IInv, ConnInv
<1>2. Top(c, s) \in Int /\ seq[s] \in Nat
  BY <1>1, TopType
<1>3. (InFlight(c, s)' = InFlight(c, s) /\ seq'[s] = seq[s]) => Top(c, s)' = Top(c, s)
  BY DEF Top
<1>4. ASSUME NEW t \in Sessions, Record(t)
      PROVE  Top(c, s)' = Top(c, s)
  <2>1. CASE t = s
    <3>1. ~InFlight(c, s)
      BY <1>1, <1>4, <2>1 DEF Record, InFlight, PubInv
    <3>2. InFlight(c, s)' /\ seq'[s] = seq[s] + 1
      BY <1>1, <1>4, <2>1 DEF Record, InFlight, TypeOK
    <3>3. QED
      BY <1>2, <3>1, <3>2 DEF Top
  <2>2. CASE t # s
    BY <1>1, <1>3, <1>4, <2>2 DEF Record, InFlight, TypeOK
  <2>3. QED
    BY <2>1, <2>2
<1>5. ASSUME NEW t \in Sessions, Copy(t)
      PROVE  /\ Top(c, s) <= Top(c, s)'
             /\ ~closed'[c] => Top(c, s)' = Top(c, s)
  <2>1. CASE t = s
    <3>1. InFlight(c, s) /\ seq'[s] = seq[s] /\ closed' = closed
      BY <1>5, <2>1 DEF Copy, InFlight
    <3>2. c \in clients => InFlight(c, s)'
      BY <1>1, <1>5, <2>1 DEF Copy, InFlight, TypeOK
    <3>3. Top(c, s) = seq[s] - 1 /\ (Top(c, s)' = seq[s] - 1 \/ Top(c, s)' = seq[s])
      BY <3>1 DEF Top
    <3>4. c \in clients => Top(c, s)' = seq[s] - 1
      BY <3>1, <3>2 DEF Top
    <3>5. c \notin clients => closed'[c]
      BY <1>1, <3>1
    <3>6. QED
      BY <1>2, <3>3, <3>4, <3>5
  <2>2. CASE t # s
    <3>1. Top(c, s)' = Top(c, s)
      BY <1>1, <1>3, <1>5, <2>2 DEF Copy, InFlight, TypeOK
    <3>2. QED
      BY <1>2, <3>1
  <2>3. QED
    BY <2>1, <2>2
<1>6. ASSUME NEW t \in Sessions, NEW x \in Conns, SkipStranger(t, x) \/ SendEvent(t, x) \/ MissEvent(t, x)
      PROVE  Top(c, s)' = Top(c, s)
  <2>1. /\ seq' = seq /\ pub' = pub
        /\ targets' = [targets EXCEPT ![t] = @ \ {x}]
        /\ slow' = slow \/ slow' = [slow EXCEPT ![t] = @ \cup {x}]
        /\ (t = s /\ x = c) => MissEvent(t, x)
    BY <1>6 DEF SkipStranger, SendEvent, MissEvent
  <2>2. MissEvent(t, x) => x \in targets[t] /\ slow' = [slow EXCEPT ![t] = @ \cup {x}]
    BY DEF MissEvent
  <2>3. CASE t = s /\ x = c
    BY <1>1, <1>3, <2>1, <2>2, <2>3 DEF InFlight, TypeOK
  <2>4. CASE ~(t = s /\ x = c)
    BY <1>1, <1>3, <2>1, <2>4 DEF InFlight, TypeOK
  <2>5. QED
    BY <2>3, <2>4
<1>7. ASSUME NEW t \in Sessions, NEW x \in Conns, DropSlow(t, x)
      PROVE  /\ Top(c, s) <= Top(c, s)'
             /\ ~closed'[c] => Top(c, s)' = Top(c, s)
  <2>1. /\ seq' = seq /\ pub' = pub /\ targets' = targets /\ x \in slow[t]
        /\ slow' = [slow EXCEPT ![t] = @ \ {x}]
        /\ closed' = [closed EXCEPT ![x] = TRUE]
    BY <1>7 DEF DropSlow, Disconnect
  <2>2. CASE t = s /\ x = c
    <3>1. InFlight(c, s) /\ closed'[c] /\ seq'[s] = seq[s]
      BY <1>1, <2>1, <2>2 DEF InFlight, TypeOK
    <3>2. Top(c, s) = seq[s] - 1 /\ (Top(c, s)' = seq[s] - 1 \/ Top(c, s)' = seq[s])
      BY <3>1 DEF Top
    <3>3. QED
      BY <1>2, <3>1, <3>2
  <2>3. CASE ~(t = s /\ x = c)
    <3>1. Top(c, s)' = Top(c, s)
      BY <1>1, <1>3, <2>1, <2>3 DEF InFlight, TypeOK
    <3>2. QED
      BY <1>2, <3>1
  <2>4. QED
    BY <2>2, <2>3
<1>8. ASSUME NEW t \in Sessions, Published(t) PROVE Top(c, s)' = Top(c, s)
  BY <1>1, <1>3, <1>8 DEF Published, InFlight, TypeOK
<1>9. ASSUME UNCHANGED pubVars PROVE Top(c, s)' = Top(c, s)
  BY <1>3, <1>9 DEF InFlight
<1>10. (\E t \in Sessions : Record(t) \/ Broadcast(t)) \/ UNCHANGED pubVars
  BY DEF Next, vars, Serve, WriterThread, Connect, Authenticate, Refuse, Attach, Respond,
         RespondInVain, Leave, Take, Write, WriteFails, WriterEnds, HangUp
<1>11. QED
  BY <1>2, <1>4, <1>5, <1>6, <1>7, <1>8, <1>9, <1>10 DEF Broadcast

\* Nothing reopens a connection, and an attach starts where its session is.
LEMMA AttachStep ==
  ASSUME TypeOK, [Next]_vars, NEW c \in Conns, NEW s \in Sessions
  PROVE  /\ closed[c] => closed'[c]
         /\ attached'[c][s] = attached[c][s] \/ attached'[c][s] = seq[s]
<1> USE DEF readVars, sendVars
<1>1. closed' = closed \/ \E x \in Conns : closed' = [closed EXCEPT ![x] = TRUE]
  BY DEF Next, vars, Record, Broadcast, Copy, SkipStranger, SendEvent, MissEvent, DropSlow, Published,
         Serve, WriterThread, Connect, Authenticate, Refuse, Attach, Respond, RespondInVain, Leave,
         Take, Write, WriteFails, WriterEnds, HangUp, Disconnect
<1>2. attached' = attached \/ \E x \in Conns, t \in Sessions : attached' = [attached EXCEPT ![x][t] = seq[t]]
  BY DEF Next, vars, Record, Broadcast, Copy, SkipStranger, SendEvent, MissEvent, DropSlow, Published,
         Serve, WriterThread, Connect, Authenticate, Refuse, Attach, Respond, RespondInVain, Leave,
         Take, Write, WriteFails, WriterEnds, HangUp
<1>3. closed[c] => closed'[c]
  BY <1>1 DEF TypeOK
<1>4. attached'[c][s] = attached[c][s] \/ attached'[c][s] = seq[s]
  <2>1. ASSUME NEW x \in Conns, NEW t \in Sessions, attached' = [attached EXCEPT ![x][t] = seq[t]]
        PROVE  attached'[c][s] = attached[c][s] \/ attached'[c][s] = seq[s]
    BY <2>1 DEF TypeOK
  <2>2. QED
    BY <1>2, <2>1
<1>5. QED
  BY <1>3, <1>4

LEMMA EventStep ==
  ASSUME IInv, [Next]_vars, NEW c \in Conns, NEW s \in Sessions
  PROVE  EventInv(c, s)'
<1>1. TypeOK /\ (\A d \in Conns : ConnInv(d)) /\ PubInv(s) /\ EventInv(c, s)
  BY DEF IInv
<1>2. TypeOK' /\ ConnInv(c)'
  BY <1>1, TypeStep, ConnStep
<1>3. /\ Given(c) \in Seq(Frames)
      /\ Top(c, s) \in Int /\ Top(c, s)' \in Int /\ Top(c, s) <= seq[s] /\ seq[s] \in Nat
      /\ closed[c] \in BOOLEAN /\ closed'[c] \in BOOLEAN
      /\ attached[c][s] \in Nat \cup {NotAttached} /\ attached'[c][s] \in Nat \cup {NotAttached}
  <2>1. Top(c, s)' \in Int
    <3>1. seq'[s] \in Nat
      BY <1>2 DEF TypeOK
    <3>2. QED
      BY <3>1 DEF Top
  <2>2. Given(c) \in Seq(Frames) /\ Top(c, s) \in Int /\ Top(c, s) <= seq[s] /\ seq[s] \in Nat
    BY <1>1, GivenType, TopType
  <2>3. closed[c] \in BOOLEAN /\ attached[c][s] \in Nat \cup {NotAttached}
    BY <1>1 DEF TypeOK
  <2>4. closed'[c] \in BOOLEAN /\ attached'[c][s] \in Nat \cup {NotAttached}
    BY <1>2 DEF TypeOK
  <2>5. QED
    BY <2>1, <2>2, <2>3, <2>4
<1>4. Good(Given(c), s, Top(c, s), ~closed[c], attached[c][s])
  BY <1>1 DEF EventInv
<1>5. SUFFICES Good(Given(c)', s, Top(c, s)', ~closed'[c], attached'[c][s])
  BY DEF EventInv
<1>6. CASE ~authed'[c]
  <2>1. Given(c)' = <<>> /\ attached'[c][s] = NotAttached
    BY <1>2, <1>6 DEF ConnInv
  <2>2. DOMAIN <<>> = {}
    OBVIOUS
  <2>3. QED
    BY <2>1, <2>2 DEF Good, Consecutive
<1>7. CASE SendEvent(s, c)
  <2>1. /\ c \in targets[s] /\ ~closed[c] /\ closed' = closed /\ attached' = attached
        /\ targets' = [targets EXCEPT ![s] = @ \ {c}] /\ UNCHANGED <<seq, pub, slow>>
    BY <1>7 DEF SendEvent, TrySends, readVars
  <2>2. Gets(c, DataFrame(s, seq[s]))
    <3>1. Enqueue(c, DataFrame(s, seq[s])) /\ wire' = wire /\ hand' = hand
      BY <1>7 DEF SendEvent
    <3>2. queue'[c] = Append(queue[c], DataFrame(s, seq[s]))
      BY <1>1, <3>1 DEF Enqueue, TypeOK
    <3>3. wire[c] \in Seq(Frames) /\ hand[c] \in Seq(Frames) /\ queue[c] \in Seq(Frames)
      BY <1>1 DEF TypeOK
    <3>4. (wire[c] \o hand[c]) \o Append(queue[c], DataFrame(s, seq[s]))
            = Append((wire[c] \o hand[c]) \o queue[c], DataFrame(s, seq[s]))
      <4>1. DataFrame(s, seq[s]) \in Frames
        BY <1>3, FrameTypes
      <4>2. QED
        BY <3>3, <4>1, EnqueueAppends
    <3>5. QED
      BY <3>1, <3>2, <3>4 DEF Gets, Given
  <2>3. InFlight(c, s) /\ ~InFlight(c, s)'
    BY <1>1, <2>1 DEF InFlight, PubInv, TypeOK
  <2>4. Top(c, s) = seq[s] - 1 /\ Top(c, s)' = seq[s]
    BY <2>1, <2>3 DEF Top
  <2>5. Good(Append(Given(c), DataFrame(s, Top(c, s) + 1)), s, Top(c, s) + 1, TRUE, attached[c][s])
    <3>1. Good(Given(c), s, Top(c, s), TRUE, attached[c][s])
      BY <1>4, <2>1
    <3>2. Top(c, s) + 1 \in Nat
      BY <1>3, <2>4
    <3>3. QED
      BY <1>3, <3>1, <3>2, AppendEvent
  <2>6. Top(c, s) + 1 = seq[s]
    BY <1>3, <2>4
  <2>7. (~closed'[c]) = TRUE
    BY <2>1
  <2>8. QED
    BY <2>1, <2>2, <2>4, <2>5, <2>6, <2>7 DEF Gets
<1>8. CASE authed'[c] /\ ~SendEvent(s, c)
  <2>1. CASE ~authed[c]
    <3>1. Given(c) = <<>> /\ attached[c][s] = NotAttached /\ Given(c)' = <<>>
      BY <1>1, <2>1, StrangerStep DEF ConnInv
    <3>2. attached'[c][s] = NotAttached
      <4>1. \/ authed' = authed
            \/ \E x \in Conns : authed' = [authed EXCEPT ![x] = TRUE] /\ attached' = attached
        BY DEF readVars, sendVars, Next, vars, Record, Broadcast, Copy, SkipStranger, SendEvent,
               MissEvent, DropSlow, Published, Serve, WriterThread, Connect, Authenticate, Refuse, Attach,
               Respond, RespondInVain, Leave, Take, Write, WriteFails, WriterEnds, HangUp
      <4>2. QED
        BY <1>1, <1>8, <2>1, <3>1, <4>1 DEF TypeOK
    <3>3. DOMAIN <<>> = {}
      OBVIOUS
    <3>4. QED
      BY <3>1, <3>2, <3>3 DEF Good, Consecutive
  <2>2. CASE authed[c]
    <3>1. /\ Top(c, s) <= Top(c, s)'
          /\ ~closed'[c] => Top(c, s)' = Top(c, s)
      BY <1>8, <2>2, TopStep
    <3>2. /\ closed[c] => closed'[c]
          /\ attached'[c][s] = attached[c][s] \/ attached'[c][s] = seq[s]
      BY <1>1, AttachStep
    <3>3. ASSUME NEW g \in Seq(Frames), Good(g, s, Top(c, s), ~closed[c], attached[c][s])
          PROVE  Good(g, s, Top(c, s)', ~closed'[c], attached'[c][s])
      <4> DEFINE live2 == ~closed'[c]
                 live == ~closed[c]
                 from2 == attached'[c][s]
                 from == attached[c][s]
                 top2 == Top(c, s)'
                 top == Top(c, s)
      <4>1. live2 => live /\ top2 = top /\ (from2 = from \/ (from2 \in Int /\ from2 >= top))
        BY <1>3, <3>1, <3>2
      <4>2. /\ top \in Int /\ top2 \in Int /\ live \in BOOLEAN /\ live2 \in BOOLEAN /\ top <= top2
            /\ Good(g, s, top, live, from)
        BY <1>3, <3>1, <3>3
      <4> HIDE DEF live2, live, from2, from, top2, top
      <4>3. Good(g, s, top2, live2, from2)
        BY <4>1, <4>2, GoodLater
      <4>4. QED
        BY <4>3 DEF live2, from2, top2
    <3>4. CASE Same(c)
      BY <1>3, <1>4, <3>3, <3>4 DEF Same
    <3>5. CASE Cut(c)
      <4>1. wire[c] \in Seq(Frames) /\ hand[c] \o queue[c] \in Seq(Frames)
            /\ Given(c) = wire[c] \o (hand[c] \o queue[c])
        <5>1. wire[c] \in Seq(Frames) /\ hand[c] \in Seq(Frames) /\ queue[c] \in Seq(Frames)
          BY <1>1 DEF TypeOK
        <5>2. hand[c] \o queue[c] \in Seq(Frames)
          BY <5>1, ConcatProperties
        <5>3. (wire[c] \o hand[c]) \o queue[c] = wire[c] \o (hand[c] \o queue[c])
          BY <5>1, GivenParts
        <5>4. QED
          BY <5>1, <5>2, <5>3 DEF Given
      <4>2. Good(wire[c], s, Top(c, s), FALSE, attached'[c][s])
        <5>1. Good(wire[c] \o (hand[c] \o queue[c]), s, Top(c, s), ~closed[c], attached[c][s])
          BY <1>4, <4>1
        <5>2. QED
          BY <1>3, <4>1, <5>1, CutGood
      <4>3. Good(wire[c], s, Top(c, s)', FALSE, attached'[c][s])
        BY <1>3, <3>1, <4>1, <4>2, GoodLater
      <4>4. (~closed'[c]) = FALSE /\ Given(c)' = wire[c]
        BY <3>5 DEF Cut
      <4>5. QED
        BY <4>3, <4>4
    <3>6. ASSUME NEW f \in Frames, Gets(c, f), ~(f.kind = "data" /\ f.session = s)
          PROVE  Good(Given(c)', s, Top(c, s)', ~closed'[c], attached'[c][s])
      <4>1. Good(Append(Given(c), f), s, Top(c, s), ~closed[c], attached[c][s])
        <5>1. (~closed[c]) \in BOOLEAN
          OBVIOUS
        <5>2. QED
          BY <1>3, <1>4, <3>6, <5>1, AppendOther
      <4>2. Append(Given(c), f) \in Seq(Frames)
        BY <1>3, AppendProperties
      <4>3. QED
        BY <3>3, <3>6, <4>1, <4>2 DEF Gets
    <3>7. ASSUME NEW t \in Sessions, SendEvent(t, c), Gets(c, DataFrame(t, seq[t]))
          PROVE  Good(Given(c)', s, Top(c, s)', ~closed'[c], attached'[c][s])
      <4>1. t # s /\ DataFrame(t, seq[t]) \in Frames /\ DataFrame(t, seq[t]).session = t
        BY <1>1, <1>8, <3>7, FrameTypes DEF TypeOK, DataFrame
      <4>2. QED
        BY <3>6, <3>7, <4>1
    <3>8. ASSUME Respond(c), Gets(c, reply[c][1])
          PROVE  Good(Given(c)', s, Top(c, s)', ~closed'[c], attached'[c][s])
      <4>1. reply[c][1] \in Frames /\ reply[c][1].kind = "response"
        BY <1>1, <3>8 DEF Respond, ConnInv, TypeOK
      <4>2. QED
        BY <3>6, <3>8, <4>1
    <3>9. QED
      BY <1>1, <3>4, <3>5, <3>7, <3>8, GivenStep
  <2>3. QED
    BY <2>1, <2>2
<1>9. QED
  BY <1>6, <1>7, <1>8

-----------------------------------------------------------------------------
(* The theorems. *)

LEMMA InitIInv == Init => IInv
<1> SUFFICES ASSUME Init PROVE IInv
  OBVIOUS
<1>1. TypeOK
  <2>1. <<>> \in Seq(Frames) /\ Len(<<>>) = 0
    OBVIOUS
  <2>2. QED
    BY <2>1, DeliveryAssumption DEF Init, TypeOK
<1>2. \A c \in Conns : Given(c) = <<>>
  <2>1. (<<>> \o <<>>) \o <<>> = <<>>
    BY ConcatEmptySeq, EmptySeq
  <2>2. QED
    BY <2>1 DEF Init, Given
<1>3. \A c \in Conns : ConnInv(c)
  BY <1>2 DEF Init, ConnInv
<1>4. \A s \in Sessions : PubInv(s)
  BY DEF Init, PubInv
<1>5. \A c \in Conns, s \in Sessions : EventInv(c, s)
  <2>1. DOMAIN <<>> = {}
    OBVIOUS
  <2>2. \A c \in Conns, s \in Sessions : attached[c][s] = NotAttached
    BY DEF Init
  <2>3. QED
    BY <1>2, <2>1, <2>2 DEF EventInv, Good, Consecutive
<1>6. QED
  BY <1>1, <1>3, <1>4, <1>5 DEF IInv

LEMMA StepIInv == IInv /\ [Next]_vars => IInv'
<1> SUFFICES ASSUME IInv, [Next]_vars PROVE IInv'
  OBVIOUS
<1>1. TypeOK'
  BY TypeStep DEF IInv
<1>2. \A c \in Conns : ConnInv(c)'
  BY ConnStep DEF IInv
<1>3. \A s \in Sessions : PubInv(s)'
  BY PubStep DEF IInv
<1>4. \A c \in Conns, s \in Sessions : EventInv(c, s)'
  BY EventStep
<1>5. QED
  BY <1>1, <1>2, <1>3, <1>4 DEF IInv

\* In every reachable state the frames a connection was given agree with where the
\* broadcasts are.
THEOREM Invariance == Spec => []IInv
<1>1. Init => IInv
  BY InitIInv
<1>2. IInv /\ [Next]_vars => IInv'
  BY StepIInv
<1>3. QED
  BY <1>1, <1>2, PTL DEF Spec

\* Types: the queues are bounded, each thread holds at most one frame.
THEOREM TypeCorrect == Spec => []TypeOK
<1>1. IInv => TypeOK
  BY DEF IInv
<1>2. QED
  BY <1>1, Invariance, PTL

\* broadcast, send_blocking and the writers: a session's events are in order and
\* without a gap on every connection.
THEOREM EventsHaveNoHole == Spec => []NoHole
<1>1. IInv => NoHole
  BY DEF IInv, EventInv, Good, NoHole
<1>2. QED
  BY <1>1, Invariance, PTL

\* broadcast and dispatch(attach): a live connection misses nothing after the state
\* that attach returned.
THEOREM AttachLosesNothing == Spec => []NothingLost
<1>1. IInv => NothingLost
  BY DEF IInv, EventInv, Good, NothingLost, Covers, Top
<1>2. QED
  BY <1>1, Invariance, PTL

\* broadcast: whoever has not shown the token is given no event.
THEOREM OnlyTheAuthenticated == Spec => []StrangersGetNothing
<1>1. IInv => StrangersGetNothing
  <2>1. DOMAIN <<>> = {}
    OBVIOUS
  <2>2. QED
    BY <2>1 DEF IInv, ConnInv, StrangersGetNothing
<1>2. QED
  BY <1>1, Invariance, PTL

\* Delivery composed with its sessions: what it lets a session do is what
\* SessionStream allows, and PtySession does (append, then publish).
THEOREM SessionsAreStreams == Spec => PublishersAreStreams
<1>1. ASSUME Init, NEW s \in Sessions PROVE Stream(s)!StreamInit
  BY <1>1 DEF Init, Stream!StreamInit
<1>2. ASSUME TypeOK, Next, NEW s \in Sessions
      PROVE  Stream(s)!StreamNext \/ UNCHANGED Stream(s)!streamVars
  <2>1. seq[s] \in Nat
    BY <1>2 DEF TypeOK
  <2>2. ASSUME NEW t \in Sessions, Record(t)
        PROVE  Stream(s)!StreamNext \/ UNCHANGED Stream(s)!streamVars
    <3>1. CASE t = s
      <4>1. pub[s] = "idle" /\ pub'[s] = "copy" /\ seq'[s] = seq[s] + 1
        BY <1>2, <2>2, <3>1 DEF Record, TypeOK
      <4>2. 1 \in 1 .. seq'[s] /\ seq'[s] - 1 = seq[s]
        BY <2>1, <4>1
      <4>3. Stream(s)!Record
        BY <4>1, <4>2 DEF Stream!Record
      <4>4. QED
        BY <4>3 DEF Stream!StreamNext
    <3>2. CASE t # s
      BY <1>2, <2>2, <3>2 DEF Record, TypeOK, Stream!streamVars
    <3>3. QED
      BY <3>1, <3>2
  <2>3. ASSUME NEW t \in Sessions, Copy(t) PROVE UNCHANGED Stream(s)!streamVars
    BY <1>2, <2>3 DEF Copy, TypeOK, Stream!streamVars
  <2>4. ASSUME NEW t \in Sessions, Published(t)
        PROVE  Stream(s)!StreamNext \/ UNCHANGED Stream(s)!streamVars
    <3>1. CASE t = s
      <4>1. pub[s] = "send" /\ pub'[s] = "idle" /\ seq' = seq
        BY <1>2, <2>4, <3>1 DEF Published, TypeOK
      <4>2. seq[s] - 1 < seq[s]
        BY <2>1
      <4>3. Stream(s)!Announce
        BY <4>1, <4>2 DEF Stream!Announce
      <4>4. QED
        BY <4>3 DEF Stream!StreamNext
    <3>2. CASE t # s
      BY <1>2, <2>4, <3>2 DEF Published, TypeOK, Stream!streamVars
    <3>3. QED
      BY <3>1, <3>2
  <2>5. \/ \E t \in Sessions : Record(t) \/ Copy(t) \/ Published(t)
        \/ seq' = seq /\ pub' = pub
    BY <1>2 DEF Next, pubVars, Broadcast, Serve, WriterThread, SkipStranger, SendEvent, MissEvent, DropSlow,
           Connect, Authenticate, Refuse, Attach, Respond, RespondInVain, Leave, Take, Write, WriteFails,
           WriterEnds, HangUp
  <2>6. seq' = seq /\ pub' = pub => UNCHANGED Stream(s)!streamVars
    BY DEF Stream!streamVars
  <2>7. QED
    BY <2>2, <2>3, <2>4, <2>5, <2>6
<1>3. Init => \A s \in Sessions : Stream(s)!StreamInit
  BY <1>1
<1>4. TypeOK /\ [Next]_vars
        => [\A s \in Sessions : Stream(s)!StreamNext \/ UNCHANGED Stream(s)!streamVars]_vars
  BY <1>2
<1>5. QED
  BY <1>3, <1>4, TypeCorrect, PTL DEF Spec, PublishersAreStreams
=============================================================================
