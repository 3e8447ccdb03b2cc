---------------------------- MODULE RenderDelivery ----------------------------
(***************************************************************************)
(* How the output of the sessions reaches the connections of wand-renderd  *)
(* (wand-renderd/src/server.rs): the hub and its list of connections, a    *)
(* bounded send queue, a reader thread and a writer thread per connection, *)
(* and the session threads that broadcast.                                 *)
(*                                                                         *)
(* A session is what SessionStream says of it: it numbers a chunk under    *)
(* its lock and publishes it afterwards; here publishing takes its steps   *)
(* (copy the list, one try_send per connection, disconnect the slow).  The *)
(* one request that matters is attach: it reads the session's number and   *)
(* its chunks under the same lock.  The peer, the socket's other end, is   *)
(* external: it reads when it likes, or never, and may hang up.           *)
(***************************************************************************)
EXTENDS Integers, Sequences, Functions

CONSTANTS
  Conns,        \* connections
  Sessions,     \* sessions whose output is broadcast
  QueueDepth,   \* EVENT_QUEUE_DEPTH
  MaxChunks     \* bound: chunks the sessions record, together

ASSUME DeliveryAssumption ==
  /\ QueueDepth \in Nat \ {0}
  /\ MaxChunks \in Nat

VARIABLES
  seq,       \* per session: Inner.seq
  pub,       \* per session: where its publishing thread is
  targets,   \* per session: the copied list, what is left of it
  slow,      \* per session: connections whose try_send failed
  clients,   \* ClientHub.clients
  authed,    \* per connection: ClientConn.authed
  closed,    \* per connection: ClientConn.closed
  queue,     \* per connection: the channel
  hand,      \* per connection: the frame the writer thread has taken
  wire,      \* per connection: the frames the peer has got
  reader,    \* per connection: where the reader thread is
  writer,    \* per connection: where the writer thread is
  reply,     \* per connection: the response in the reader thread's hands
  attached,  \* history, per connection and session: the number attach read
  gone       \* per connection: whether the peer hung up

pubVars  == <<seq, pub, targets, slow>>
sendVars == <<queue, hand, wire, writer>>
readVars == <<authed, reader, reply, attached>>
vars == <<pubVars, clients, closed, sendVars, readVars, gone>>

DataFrame(s, n)     == [kind |-> "data", session |-> s, seq |-> n]
ResponseFrame(s, n) == [kind |-> "response", session |-> s, seq |-> n]
Frames == [kind : {"data", "response"}, session : Sessions, seq : Nat]
NotAttached == -1

TypeOK ==
  /\ seq \in [Sessions -> Nat]
  /\ pub \in [Sessions -> {"idle", "copy", "send"}]
  /\ targets \in [Sessions -> SUBSET Conns]
  /\ slow \in [Sessions -> SUBSET Conns]
  /\ clients \subseteq Conns
  /\ authed \in [Conns -> BOOLEAN]
  /\ closed \in [Conns -> BOOLEAN]
  /\ queue \in [Conns -> Seq(Frames)]
  /\ hand \in [Conns -> Seq(Frames)]
  /\ wire \in [Conns -> Seq(Frames)]
  /\ reader \in [Conns -> {"none", "read", "dispatch", "respond", "done"}]
  /\ writer \in [Conns -> {"none", "run", "gone"}]
  /\ reply \in [Conns -> Seq(Frames)]
  /\ \A c \in Conns : Len(queue[c]) <= QueueDepth /\ Len(hand[c]) <= 1 /\ Len(reply[c]) <= 1
  /\ attached \in [Conns -> [Sessions -> Nat \cup {NotAttached}]]
  /\ gone \in [Conns -> BOOLEAN]

Init ==
  /\ seq = [s \in Sessions |-> 0]
  /\ pub = [s \in Sessions |-> "idle"]
  /\ targets = [s \in Sessions |-> {}]
  /\ slow = [s \in Sessions |-> {}]
  /\ clients = {}
  /\ authed = [c \in Conns |-> FALSE]
  /\ closed = [c \in Conns |-> FALSE]
  /\ queue = [c \in Conns |-> <<>>]
  /\ hand = [c \in Conns |-> <<>>]
  /\ wire = [c \in Conns |-> <<>>]
  /\ reader = [c \in Conns |-> "none"]
  /\ writer = [c \in Conns |-> "none"]
  /\ reply = [c \in Conns |-> <<>>]
  /\ attached = [c \in Conns |-> [s \in Sessions |-> NotAttached]]
  /\ gone = [c \in Conns |-> FALSE]

-----------------------------------------------------------------------------
(* Shared pieces. *)

\* The channel takes a frame: it has room and its receiver is not gone.
HasRoom(c) == Len(queue[c]) < QueueDepth
Enqueue(c, f) == queue' = [queue EXCEPT ![c] = Append(@, f)]

\* hub.disconnect: close, then take out of the list.  Closing twice, or copying
\* a closed connection in between, changes nothing.
Disconnect(c) ==
  /\ closed' = [closed EXCEPT ![c] = TRUE]
  /\ clients' = clients \ {c}

\* The strong references to a ClientConn: the hub's, its reader thread's and the
\* copies of broadcasts.  The writer thread only has a weak one.
Referenced_ByWriter(c) == TRUE
Referenced(c) ==
  \/ c \in clients
  \/ reader[c] \in {"read", "dispatch", "respond"}
  \/ \E s \in Sessions : c \in targets[s] \cup slow[s]

-----------------------------------------------------------------------------
(* Broadcasting: a session's append, then ClientHub::broadcast. *)

Record_Overlaps(s) ==
  /\ pub[s] # "copy"
  /\ FoldFunction(+, 0, seq) < MaxChunks
  /\ seq' = [seq EXCEPT ![s] = @ + 1]
  /\ pub' = [pub EXCEPT ![s] = "copy"]
  /\ UNCHANGED <<targets, slow, clients, closed, sendVars, readVars, gone>>

\* One thread of a session appends, and publishes before it appends again.
Record(s) ==
  /\ pub[s] = "idle"
  /\ FoldFunction(+, 0, seq) < MaxChunks
  /\ seq' = [seq EXCEPT ![s] = @ + 1]
  /\ pub' = [pub EXCEPT ![s] = "copy"]
  /\ UNCHANGED <<targets, slow, clients, closed, sendVars, readVars, gone>>

Copy(s) ==
  /\ pub[s] = "copy"
  /\ pub' = [pub EXCEPT ![s] = "send"]
  /\ targets' = [targets EXCEPT ![s] = clients]
  /\ UNCHANGED <<seq, slow, clients, closed, sendVars, readVars, gone>>

\* try_send fails at once when the connection is closed, full or without a writer.
TrySends(c) == ~closed[c] /\ HasRoom(c) /\ writer[c] # "gone"

SkipStranger(s, c) ==
  /\ c \in targets[s]
  /\ ~authed[c]
  /\ targets' = [targets EXCEPT ![s] = @ \ {c}]
  /\ UNCHANGED <<seq, pub, slow, clients, closed, sendVars, readVars, gone>>

SendEvent_ToAnyone(s, c) ==
  /\ c \in targets[s]
  /\ TrySends(c)
  /\ targets' = [targets EXCEPT ![s] = @ \ {c}]
  /\ Enqueue(c, DataFrame(s, seq[s]))
  /\ UNCHANGED <<seq, pub, slow, clients, closed, hand, wire, writer, readVars, gone>>

SendEvent(s, c) ==
  /\ c \in targets[s]
  /\ authed[c]
  /\ TrySends(c)
  /\ targets' = [targets EXCEPT ![s] = @ \ {c}]
  /\ Enqueue(c, DataFrame(s, seq[s]))
  /\ UNCHANGED <<seq, pub, slow, clients, closed, hand, wire, writer, readVars, gone>>

MissEvent_Drops(s, c) ==
  /\ c \in targets[s]
  /\ authed[c]
  /\ ~TrySends(c)
  /\ targets' = [targets EXCEPT ![s] = @ \ {c}]
  /\ UNCHANGED <<seq, pub, slow, clients, closed, sendVars, readVars, gone>>

MissEvent_Waits(s, c) ==
  /\ c \in targets[s]
  /\ authed[c]
  /\ closed[c] \/ writer[c] = "gone"
  /\ targets' = [targets EXCEPT ![s] = @ \ {c}]
  /\ slow' = [slow EXCEPT ![s] = @ \cup {c}]
  /\ UNCHANGED <<seq, pub, clients, closed, sendVars, readVars, gone>>

MissEvent(s, c) ==
  /\ c \in targets[s]
  /\ authed[c]
  /\ ~TrySends(c)
  /\ targets' = [targets EXCEPT ![s] = @ \ {c}]
  /\ slow' = [slow EXCEPT ![s] = @ \cup {c}]
  /\ UNCHANGED <<seq, pub, clients, closed, sendVars, readVars, gone>>

DropSlow(s, c) ==
  /\ pub[s] = "send"
  /\ targets[s] = {}
  /\ c \in slow[s]
  /\ slow' = [slow EXCEPT ![s] = @ \ {c}]
  /\ Disconnect(c)
  /\ UNCHANGED <<seq, pub, targets, sendVars, readVars, gone>>

Published(s) ==
  /\ pub[s] = "send"
  /\ targets[s] = {}
  /\ slow[s] = {}
  /\ pub' = [pub EXCEPT ![s] = "idle"]
  /\ UNCHANGED <<seq, targets, slow, clients, closed, sendVars, readVars, gone>>

-----------------------------------------------------------------------------
(* A connection's reader thread. *)

\* accept_connection: registered with the hub, with both its threads.
Connect(c) ==
  /\ reader[c] = "none"
  /\ clients' = clients \cup {c}
  /\ reader' = [reader EXCEPT ![c] = "read"]
  /\ writer' = [writer EXCEPT ![c] = "run"]
  /\ UNCHANGED <<pubVars, closed, queue, hand, wire, authed, reply, attached, gone>>

\* handle_frame on a good token: authenticated before it is dispatched.  Bound:
\* a peer asks once per session.
Authenticate(c) ==
  /\ reader[c] = "read"
  /\ ~closed[c]
  /\ ~gone[c]
  /\ \E s \in Sessions : attached[c][s] = NotAttached
  /\ authed' = [authed EXCEPT ![c] = TRUE]
  /\ reader' = [reader EXCEPT ![c] = "dispatch"]
  /\ UNCHANGED <<pubVars, clients, closed, sendVars, reply, attached, gone>>

\* ... and on a bad one.
Refuse(c) ==
  /\ reader[c] = "read"
  /\ ~closed[c]
  /\ ~gone[c]
  /\ closed' = [closed EXCEPT ![c] = TRUE]
  /\ UNCHANGED <<pubVars, clients, sendVars, readVars, gone>>

\* dispatch of attach: Session::state under the session's lock.
Attach(c, s) ==
  /\ reader[c] = "dispatch"
  /\ attached[c][s] = NotAttached
  /\ reply' = [reply EXCEPT ![c] = <<ResponseFrame(s, seq[s])>>]
  /\ attached' = [attached EXCEPT ![c][s] = seq[s]]
  /\ reader' = [reader EXCEPT ![c] = "respond"]
  /\ UNCHANGED <<pubVars, clients, closed, sendVars, authed, gone>>

\* respond: send_blocking waits for room, and gives up on a closed connection
\* or one without a writer.
Respond(c) ==
  /\ reader[c] = "respond"
  /\ HasRoom(c) /\ writer[c] # "gone"
  /\ Enqueue(c, reply[c][1])
  /\ reply' = [reply EXCEPT ![c] = <<>>]
  /\ reader' = [reader EXCEPT ![c] = "read"]
  /\ UNCHANGED <<pubVars, clients, closed, hand, wire, writer, authed, attached, gone>>

RespondInVain(c) ==
  /\ reader[c] = "respond"
  /\ closed[c] \/ writer[c] = "gone"
  /\ reply' = [reply EXCEPT ![c] = <<>>]
  /\ reader' = [reader EXCEPT ![c] = "read"]
  /\ UNCHANGED <<pubVars, clients, closed, sendVars, authed, attached, gone>>

\* read_loop: closed by somebody else, or end of file.
Leave(c) ==
  /\ reader[c] = "read"
  /\ closed[c] \/ gone[c]
  /\ Disconnect(c)
  /\ reader' = [reader EXCEPT ![c] = "done"]
  /\ UNCHANGED <<pubVars, sendVars, authed, reply, attached, gone>>

-----------------------------------------------------------------------------
(* A connection's writer thread: spawn_writer. *)

Take(c) ==
  /\ writer[c] = "run"
  /\ hand[c] = <<>>
  /\ queue[c] # <<>>
  /\ Referenced(c)
  /\ hand' = [hand EXCEPT ![c] = <<Head(queue[c])>>]
  /\ queue' = [queue EXCEPT ![c] = Tail(@)]
  /\ UNCHANGED <<pubVars, clients, closed, wire, writer, readVars, gone>>

\* write_all, when the peer reads ...
Write(c) ==
  /\ hand[c] # <<>>
  /\ ~closed[c]
  /\ wire' = [wire EXCEPT ![c] = @ \o hand[c]]
  /\ hand' = [hand EXCEPT ![c] = <<>>]
  /\ UNCHANGED <<pubVars, clients, closed, queue, writer, readVars, gone>>

\* ... and to a socket that is shut down or whose peer is gone: the receiver
\* goes with the thread, and what is queued with it.
WriteFails(c) ==
  /\ hand[c] # <<>>
  /\ closed[c] \/ gone[c]
  /\ closed' = [closed EXCEPT ![c] = TRUE]
  /\ hand' = [hand EXCEPT ![c] = <<>>]
  /\ queue' = [queue EXCEPT ![c] = <<>>]
  /\ writer' = [writer EXCEPT ![c] = "gone"]
  /\ UNCHANGED <<pubVars, clients, wire, readVars, gone>>

\* Nobody refers to the connection: the senders are gone.
WriterEnds(c) ==
  /\ writer[c] = "run"
  /\ hand[c] = <<>>
  /\ ~Referenced(c)
  /\ writer' = [writer EXCEPT ![c] = "gone"]
  /\ queue' = [queue EXCEPT ![c] = <<>>]
  /\ UNCHANGED <<pubVars, clients, closed, hand, wire, readVars, gone>>

-----------------------------------------------------------------------------
(* The other end of the socket. *)

HangUp(c) ==
  /\ reader[c] # "none"
  /\ ~gone[c]
  /\ gone' = [gone EXCEPT ![c] = TRUE]
  /\ UNCHANGED <<pubVars, clients, closed, sendVars, readVars>>

-----------------------------------------------------------------------------

Broadcast(s) ==
  \/ Copy(s)
  \/ \E c \in Conns : SkipStranger(s, c) \/ SendEvent(s, c) \/ MissEvent(s, c) \/ DropSlow(s, c)
  \/ Published(s)
Serve(c) ==
  (\E s \in Sessions : Attach(c, s)) \/ Respond(c) \/ RespondInVain(c) \/ Leave(c)
WriterThread(c) == Take(c) \/ WriteFails(c) \/ WriterEnds(c)

Next ==
  \/ \E s \in Sessions : Record(s) \/ Broadcast(s)
  \/ \E c \in Conns :
       Connect(c) \/ Authenticate(c) \/ Refuse(c) \/ Serve(c) \/ WriterThread(c) \/ Write(c) \/ HangUp(c)

Spec == Init /\ [][Next]_vars

\* The daemon's threads run; when there is output or a request, and whether a
\* peer ever reads (Write), is not theirs to say.
FairSpec ==
  /\ Spec
  /\ \A s \in Sessions : WF_vars(Broadcast(s))
  /\ \A c \in Conns : WF_vars(Serve(c)) /\ WF_vars(WriterThread(c))

-----------------------------------------------------------------------------
(* Properties. *)

\* What a connection has been given, in the order its peer will see it.
Given(c) == wire[c] \o hand[c] \o queue[c]
IsEvent(g, s, j) == g[j].kind = "data" /\ g[j].session = s
Has(g, s, n) == \E j \in DOMAIN g : IsEvent(g, s, j) /\ g[j].seq = n

\* A broadcast in flight that may yet reach the connection, or close it.
InFlight(c, s) == pub[s] = "copy" \/ c \in targets[s] \cup slow[s]

\* However requests, broadcasts and slow peers interleave, and whether or not the
\* connection lives: the events of a session on it grow, and between two of them is
\* every number between theirs ...
Consecutive(g, s) ==
  \A i, j \in DOMAIN g : i < j /\ IsEvent(g, s, i) /\ IsEvent(g, s, j) =>
    /\ g[i].seq < g[j].seq
    /\ \A n \in g[i].seq .. g[j].seq : \E k \in i .. j : IsEvent(g, s, k) /\ g[k].seq = n
NoHole == \A c \in Conns, s \in Sessions : Consecutive(Given(c), s)

\* ... and while it lives they go on from the state attach returned: no chunk is
\* lost between that state and the first event, or later.
NothingLost ==
  \A c \in Conns, s \in Sessions :
    ~closed[c] /\ attached[c][s] # NotAttached /\ ~InFlight(c, s) =>
      \A n \in attached[c][s] + 1 .. seq[s] : Has(Given(c), s, n)

\* Events go to nobody before it has shown the token.
StrangersGetNothing ==
  \A c \in Conns, s \in Sessions :
    ~authed[c] => \A j \in DOMAIN Given(c) : ~IsEvent(Given(c), s, j)

\* The invariant the proofs rest on.  A connection that reads is in the hub's list
\* until it is closed, and one that has not shown the token has got nothing at all.
ConnInv(c) ==
  /\ (reader[c] = "none") = (writer[c] = "none")
  /\ writer[c] # "run" => hand[c] = <<>>
  /\ reader[c] = "done" => closed[c]
  /\ reader[c] # "none" /\ ~closed[c] => c \in clients
  /\ authed[c] => reader[c] # "none"
  /\ ~authed[c] => /\ reader[c] \notin {"dispatch", "respond"}
                   /\ Given(c) = <<>>
                   /\ \A s \in Sessions : attached[c][s] = NotAttached
  /\ reader[c] = "respond" => Len(reply[c]) = 1 /\ reply[c][1].kind = "response"

PubInv(s) ==
  /\ pub[s] # "send" => targets[s] = {} /\ slow[s] = {}
  /\ targets[s] \cap slow[s] = {}

\* The last number the broadcasts of a session are through with, for a connection;
\* a live one has every number up to it, from its first event or its attach.
Top(c, s) == IF InFlight(c, s) THEN seq[s] - 1 ELSE seq[s]
Covers(g, s, m, top) == \A n \in m .. top : Has(g, s, n)
Good(g, s, top, live, from) ==
  /\ \A j \in DOMAIN g : IsEvent(g, s, j) => g[j].seq <= top
  /\ Consecutive(g, s)
  /\ live => \A j \in DOMAIN g : IsEvent(g, s, j) => Covers(g, s, g[j].seq, top)
  /\ live /\ from # NotAttached => Covers(g, s, from + 1, top)
EventInv(c, s) == Good(Given(c), s, Top(c, s), ~closed[c], attached[c][s])

IInv ==
  /\ TypeOK
  /\ \A c \in Conns : ConnInv(c)
  /\ \A s \in Sessions : PubInv(s)
  /\ \A c \in Conns, s \in Sessions : EventInv(c, s)

\* A session's append and publish are those of a SessionStream, which PtySession
\* implements: delivery relies on no more.  What is retained is left open here.
Stream(s) ==
  INSTANCE SessionStream WITH
    first <- 1,
    seq <- seq[s],
    announced <- IF pub[s] = "idle" THEN seq[s] ELSE seq[s] - 1
PublishersAreStreams ==
  /\ \A s \in Sessions : Stream(s)!StreamInit
  /\ [][\A s \in Sessions : Stream(s)!StreamNext \/ UNCHANGED Stream(s)!streamVars]_vars

\* A peer that does not read never holds up a session's output.
PublisherNeverWaits == \A s \in Sessions : pub[s] = "copy" ~> pub[s] = "idle"

\* A closed connection lets go of both its threads (and so of its descriptor).
ThreadsEnd == \A c \in Conns : closed[c] ~> (reader[c] = "done" /\ writer[c] = "gone")
=============================================================================
