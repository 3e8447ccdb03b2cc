--------------------------- MODULE StructuredReplay ---------------------------
(***************************************************************************)
(* How the output of a structured run reaches a client: a reader per pipe  *)
(* appends to a bounded log and publishes what it appended, the reaper     *)
(* publishes the exit, attach answers with a page of both logs, and a      *)
(* connection's bounded queue carries pages and events to the client       *)
(* (wand-structured-renderd/src/lib.rs and main.rs).                       *)
(*                                                                         *)
(* One run and one client: publish treats each connection by itself.  A    *)
(* chunk is its sequence number and its length; decoding is TextPipeline's.*)
(* External: the client, which does what docs/structured-protocol-v2.md    *)
(* asks of it: it pages until both streams are complete, keeps the events  *)
(* that come meanwhile, and then takes each sequence number once.          *)
(***************************************************************************)
EXTENDS Integers, Sequences, FiniteSets

CONSTANTS
  Lengths,      \* of a chunk in bytes; a read is at most 8 KiB
  LogMax,       \* RUN_LOG_MAX_BYTES
  PageMin,      \* the least page a client can ask for (16 KiB)
  PageMax,      \* REPLAY_PAGE_MAX_BYTES
  Depth,        \* EVENT_QUEUE_DEPTH
  Written,      \* bound, per stream: chunks the run writes
  MaxConnects   \* bound: connections the client makes

Streams == {"stdout", "stderr"}

ASSUME ReplayAssumption ==
  /\ Lengths \subseteq 1 .. PageMin
  /\ PageMin \in 1 .. PageMax
  /\ LogMax \in Nat /\ PageMax \in Nat /\ Depth \in Nat \ {0} /\ MaxConnects \in Nat
  /\ Written \in [Streams -> Nat]

VARIABLES
  log,        \* per stream: RunInner.stdout, RunInner.stderr
  reader,     \* per stream: where its read_pipe thread is
  status,     \* RunInner.status, and whether the exit was published
  conn,       \* the connection: closed, open, or authed
  queue,      \* Connection.writer
  answer,     \* the response its thread is about to send
  client,     \* the client: off, asking for a page, between pages, live
  cursor,     \* per stream: the last sequence number the client has
  base,       \* per stream: the one before the first of its reducer
  held,       \* per stream: the sequence numbers in its reducer
  early,      \* per stream: live ones that came while it was paging
  exitSeen,   \* it got the exit on this connection
  connects    \* connections made so far

daemonVars == <<log, reader, status>>
linkVars   == <<conn, queue, answer>>
clientVars == <<client, cursor, base, held, early, exitSeen>>
vars == <<daemonVars, linkVars, clientVars, connects>>

NoAnswer == <<>>
EmptyLog == [chunks |-> <<>>, size |-> 0, seq |-> 0, truncated |-> FALSE]

Init ==
  /\ log = [s \in Streams |-> EmptyLog]
  /\ reader = [s \in Streams |-> "read"]
  /\ status = "running"
  /\ conn = "closed" /\ queue = <<>> /\ answer = NoAnswer
  /\ client = "off"
  /\ cursor = [s \in Streams |-> 0]
  /\ base = [s \in Streams |-> 0]
  /\ held = [s \in Streams |-> {}]
  /\ early = [s \in Streams |-> {}]
  /\ exitSeen = FALSE
  /\ connects = 0

-----------------------------------------------------------------------------
(* Log. *)

Bytes(chunks) ==
  LET sum[n \in 0 .. Len(chunks)] == IF n = 0 THEN 0 ELSE sum[n - 1] + chunks[n].len
  IN  sum[Len(chunks)]

\* The newest chunks that fit: as many as leave the log within its bound.
Retained(chunks) ==
  LET fits == {n \in 0 .. Len(chunks) : Bytes(SubSeq(chunks, n + 1, Len(chunks))) <= LogMax}
      drop == CHOOSE n \in fits : \A m \in fits : n <= m
  IN  SubSeq(chunks, drop + 1, Len(chunks))

LogAppend_KeepsFlag(l, len) ==
  LET kept == Retained(Append(l.chunks, [seq |-> l.seq + 1, len |-> len]))
  IN  [chunks |-> kept, size |-> Bytes(kept), seq |-> l.seq + 1, truncated |-> l.truncated]

LogAppend(l, len) ==
  LET all  == Append(l.chunks, [seq |-> l.seq + 1, len |-> len])
      kept == Retained(all)
  IN  [chunks |-> kept, size |-> Bytes(kept), seq |-> l.seq + 1,
       truncated |-> l.truncated \/ kept # all]

First(l) == IF l.chunks = <<>> THEN l.seq + 1 ELSE Head(l.chunks).seq

Resets_Exclusive(l, after) == after > l.seq \/ after < First(l) - 2
Resets(l, after) == after > l.seq \/ after < First(l) - 1

\* The longest run of chunks after the cursor that the budget pays for.  The log is
\* in order: what is after the cursor is its end.
Page(l, after, budget) ==
  LET from == IF Resets(l, after) THEN First(l) - 1 ELSE after
      skip == Cardinality({k \in DOMAIN l.chunks : l.chunks[k].seq <= from})
      todo == SubSeq(l.chunks, skip + 1, Len(l.chunks))
      fits == {n \in 0 .. Len(todo) : Bytes(SubSeq(todo, 1, n)) <= budget}
      sent == SubSeq(todo, 1, CHOOSE n \in fits : \A m \in fits : m <= n)
      next == IF sent = <<>> THEN from ELSE sent[Len(sent)].seq
  IN  [chunks |-> sent, next |-> next, complete |-> next = l.seq, reset |-> Resets(l, after)]

\* attach: one budget, spent on stdout first.
Asks == {0, PageMax + 1}   \* the least and the greatest page
Clamp_NoFloor(asked) == IF asked > PageMax THEN PageMax ELSE asked
Clamp(asked) == IF asked < PageMin THEN PageMin ELSE IF asked > PageMax THEN PageMax ELSE asked
AttachResult(asked, after) ==
  LET out == Page(log["stdout"], after["stdout"], Clamp(asked))
      err == Page(log["stderr"], after["stderr"], Clamp(asked) - Bytes(out.chunks))
  IN  [s \in Streams |-> IF s = "stdout" THEN out ELSE err]

-----------------------------------------------------------------------------
(* The run: read_pipe, the reaper, and Hub::publish. *)

StreamEvent(s, n) == [event |-> "stream", stream |-> s, seq |-> n]
ExitEvent == [event |-> "exit"]
PageFrame(page) == [event |-> "page", page |-> page]

Close ==
  /\ conn' = "closed"
  /\ queue' = <<>>
  /\ answer' = NoAnswer

\* To an authenticated client; one whose queue is full is let go.
Publish_DropsEvent(frame) ==
  /\ queue' = IF conn = "authed" /\ Len(queue) < Depth THEN Append(queue, frame) ELSE queue
  /\ UNCHANGED <<conn, answer>>

Publish(frame) ==
  \/ conn # "authed" /\ UNCHANGED linkVars
  \/ /\ conn = "authed" /\ Len(queue) < Depth
     /\ queue' = Append(queue, frame)
     /\ UNCHANGED <<conn, answer>>
  \/ conn = "authed" /\ Len(queue) >= Depth /\ Close

\* A read that completes some text is logged under the run's lock ...
ReadChunk(s, len) ==
  /\ reader[s] = "read"
  /\ log[s].seq < Written[s]
  /\ reader' = [reader EXCEPT ![s] = "publish"]
  /\ UNCHANGED <<status, linkVars, clientVars, connects>>
  /\ log' = [log EXCEPT ![s] = LogAppend(@, len)]

\* ... and published after the lock was dropped.
PublishChunk(s) ==
  /\ reader[s] = "publish"
  /\ reader' = [reader EXCEPT ![s] = "read"]
  /\ Publish(StreamEvent(s, log[s].seq))
  /\ UNCHANGED <<log, status, clientVars, connects>>

PipeEnds(s) ==
  /\ reader[s] = "read"
  /\ reader' = [reader EXCEPT ![s] = "done"]
  /\ UNCHANGED <<log, status, linkVars, clientVars, connects>>

\* The reaper has joined both readers.
MarkExited_UnjoinedStderr ==
  /\ status = "running"
  /\ reader["stdout"] = "done"
  /\ status' = "exited"
  /\ UNCHANGED <<log, reader, linkVars, clientVars, connects>>

MarkExited ==
  /\ status = "running"
  /\ \A s \in Streams : reader[s] = "done"
  /\ status' = "exited"
  /\ UNCHANGED <<log, reader, linkVars, clientVars, connects>>

PublishExit ==
  /\ status = "exited"
  /\ status' = "published"
  /\ Publish(ExitEvent)
  /\ UNCHANGED <<log, reader, clientVars, connects>>

-----------------------------------------------------------------------------
(* The connection: its thread and its writer. *)

\* The request authenticates the connection before it is dispatched; the answer
\* is taken under the run's lock.
Attach_AuthedLast(asked) ==
  /\ conn # "closed" /\ client = "ask" /\ answer = NoAnswer
  /\ client' = "wait"
  /\ UNCHANGED <<daemonVars, conn, queue, cursor, base, held, early, exitSeen, connects>>
  /\ answer' = <<AttachResult(asked, cursor)>>

Attach(asked) ==
  /\ conn # "closed" /\ client = "ask" /\ answer = NoAnswer
  /\ conn' = "authed"
  /\ client' = "wait"
  /\ UNCHANGED <<daemonVars, queue, cursor, base, held, early, exitSeen, connects>>
  /\ answer' = <<AttachResult(asked, cursor)>>

\* The answer waits for room in the queue, behind the events that came first.
Respond ==
  /\ answer # NoAnswer
  /\ Len(queue) < Depth
  /\ queue' = Append(queue, PageFrame(answer[1]))
  /\ answer' = NoAnswer
  /\ conn' = "authed"
  /\ UNCHANGED <<daemonVars, clientVars, connects>>

-----------------------------------------------------------------------------
(* The client. *)

Connect ==
  /\ client = "off" /\ conn = "closed"
  /\ connects < MaxConnects
  /\ connects' = connects + 1
  /\ conn' = "open"
  /\ client' = "ask"
  /\ UNCHANGED <<daemonVars, queue, answer, cursor, base, held, early, exitSeen>>

Leave ==
  /\ client # "off"
  /\ client' = "off"
  /\ Close
  /\ early' = [s \in Streams |-> {}]
  /\ exitSeen' = FALSE
  /\ UNCHANGED <<daemonVars, cursor, base, held, connects>>

Greatest(S, otherwise) == IF S = {} THEN otherwise ELSE CHOOSE n \in S : \A m \in S : m <= n

\* A page: it extends what the client has, or starts over.  With the last one the
\* client takes the events it kept, each sequence number once.
TakePage(page) ==
  LET sent(s)  == {page[s].chunks[k].seq : k \in 1 .. Len(page[s].chunks)}
      last     == \A s \in Streams : page[s].complete
      later(s) == IF last THEN {n \in early[s] : n > page[s].next} ELSE {}
  IN  /\ base' = [s \in Streams |->
                    IF page[s].reset THEN page[s].next - Len(page[s].chunks) ELSE base[s]]
      /\ held' = [s \in Streams |->
                    (IF page[s].reset THEN {} ELSE held[s]) \cup sent(s) \cup later(s)]
      /\ cursor' = [s \in Streams |-> Greatest(later(s), page[s].next)]
      /\ early' = IF last THEN [s \in Streams |-> {}] ELSE early
      /\ client' = IF last THEN "live" ELSE "ask"
      /\ UNCHANGED exitSeen

TakeEvent(s, n) ==
  \/ /\ client # "live"
     /\ early' = [early EXCEPT ![s] = @ \cup {n}]
     /\ UNCHANGED <<client, cursor, base, held, exitSeen>>
  \/ /\ client = "live" /\ n > cursor[s]
     /\ held' = [held EXCEPT ![s] = @ \cup {n}]
     /\ cursor' = [cursor EXCEPT ![s] = n]
     /\ UNCHANGED <<client, base, early, exitSeen>>
  \/ client = "live" /\ n <= cursor[s] /\ UNCHANGED clientVars

Deliver ==
  /\ queue # <<>>
  /\ queue' = Tail(queue)
  /\ LET frame == Head(queue)
     IN  \/ frame.event = "page" /\ TakePage(frame.page)
         \/ frame.event = "stream" /\ TakeEvent(frame.stream, frame.seq)
         \/ /\ frame.event = "exit"
            /\ exitSeen' = TRUE
            /\ UNCHANGED <<client, cursor, base, held, early>>
  /\ UNCHANGED <<daemonVars, conn, answer, connects>>

-----------------------------------------------------------------------------

Reader(s) == PublishChunk(s) \/ PipeEnds(s) \/ \E len \in Lengths : ReadChunk(s, len)
Reaper == MarkExited \/ PublishExit
\* A client that was let go notices.
Notice == conn = "closed" /\ Leave
Ask == \E asked \in Asks : Attach(asked)

Next ==
  \/ \E s \in Streams : Reader(s)
  \/ Reaper
  \/ Ask \/ Respond \/ Deliver
  \/ Connect \/ Leave

Spec == Init /\ [][Next]_vars

\* The daemon's threads run, the children's pipes end, and the client asks and
\* reads as long as it stays: some step of these is taken while one is possible.
Progress == (\E s \in Streams : Reader(s)) \/ Reaper \/ Respond \/ Deliver \/ Notice \/ Ask
FairSpec == Spec /\ WF_vars(Progress)

-----------------------------------------------------------------------------
(* Properties. *)

\* A log is what its fields say: consecutive chunks up to seq, their bytes within
\* the bound, and truncated exactly when something is missing.
Chunks == [seq : Nat, len : Lengths]
LogOK(l) ==
  /\ l.chunks \in Seq(Chunks) /\ l.seq \in Nat /\ l.truncated \in BOOLEAN
  /\ Len(l.chunks) <= l.seq
  /\ \A k \in 1 .. Len(l.chunks) : l.chunks[k].seq = l.seq - Len(l.chunks) + k
  /\ l.size = Bytes(l.chunks) /\ l.size <= LogMax
  /\ l.truncated <=> Len(l.chunks) < l.seq

Pages == [chunks : Seq(Chunks), next : Nat, complete : BOOLEAN, reset : BOOLEAN]
Answers == [Streams -> Pages]
Frames ==
  [event : {"stream"}, stream : Streams, seq : Nat] \cup {ExitEvent} \cup
  [event : {"page"}, page : Answers]

TypeOK ==
  /\ DOMAIN log = Streams /\ \A s \in Streams : LogOK(log[s])
  /\ reader \in [Streams -> {"read", "publish", "done"}]
  /\ status \in {"running", "exited", "published"}
  /\ conn \in {"closed", "open", "authed"}
  /\ queue \in Seq(Frames) /\ Len(queue) <= Depth
  /\ answer \in Seq(Answers) /\ Len(answer) <= 1
  /\ client \in {"off", "ask", "wait", "live"}
  /\ cursor \in [Streams -> Nat]
  /\ base \in [Streams -> Nat]
  /\ held \in [Streams -> SUBSET Nat]
  /\ early \in [Streams -> SUBSET Nat]
  /\ exitSeen \in BOOLEAN
  /\ connects \in 0 .. MaxConnects

\* structured-protocol-v2.md, attach: for every cursor and page size a page is
\* what the client has to get: it is told to start over if and only if a chunk it
\* lacks is gone (or its cursor is not of this log), the page is the gapless
\* continuation, and complete says that nothing is left.
Lacks(l, after) == {n \in 1 .. l.seq : n > after /\ n < First(l)}
Honest(l, after, page) ==
  /\ page.reset <=> (Lacks(l, after) # {} \/ after > l.seq)
  /\ LET from == IF page.reset THEN First(l) - 1 ELSE after
     IN  /\ \A k \in 1 .. Len(page.chunks) : page.chunks[k].seq = from + k
         /\ page.next = from + Len(page.chunks)
  /\ page.complete <=> page.next = l.seq
PagesAreHonest ==
  \A s \in Streams : reader[s] = "publish" =>   \* a log just changed: each is seen
    \A after \in 0 .. log[s].seq + 1, budget \in 0 .. PageMax :
      LET page == Page(log[s], after, budget)
      IN  Honest(log[s], after, page) /\ Bytes(page.chunks) <= budget

\* lib.rs:60-61: however small a page was asked for and whatever stdout took of it,
\* an answer brings something or has nothing left to bring; and it keeps within
\* the greatest page.
AnswersMoveOn ==
  answer # NoAnswer =>
    LET page == answer[1]
    IN  /\ \/ \E s \in Streams : page[s].chunks # <<>>
           \/ \A s \in Streams : page[s].complete
        /\ Bytes(page["stdout"].chunks) + Bytes(page["stderr"].chunks) <= PageMax

\* What a client has of a stream has no gap and nothing twice: from where it last
\* started over to its cursor, whatever mix of pages and live events it came from,
\* over any number of connections.
NoGap == \A s \in Streams : held[s] = (base[s] + 1) .. cursor[s]

\* A live client that has seen the exit has everything the run ever wrote
\* (the reaper joins both readers before it publishes).
ExitIsLast ==
  exitSeen /\ client = "live" => \A s \in Streams : cursor[s] = log[s].seq /\ reader[s] = "done"

\* A client that stays connected comes to have everything, or is let go.
CatchesUp ==
  (client # "off" /\ status = "published")
    ~> (client = "off" \/ (\A s \in Streams : cursor[s] = log[s].seq))
=============================================================================
