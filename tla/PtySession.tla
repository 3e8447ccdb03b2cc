----------------------------- MODULE PtySession -----------------------------
(***************************************************************************)
(* One PTY session of wand-render: its reader thread, its exit thread, the *)
(* maintenance thread that freezes its screen, connection threads that     *)
(* resize it, and one that forgets it (wand-render/src/session.rs).        *)
(*                                                                         *)
(* A step is what a thread does while it holds one of the session's locks, *)
(* or one event it publishes.  Output is counted in characters; the screen *)
(* is the sequence of operations the VT parser was given, so that "the     *)
(* snapshot replays to the screen" is an equation between sequences.       *)
(* Adjacent data operations of `pending` are one operation in the code; the *)
(* model keeps them apart and counts the merged ones (PendingOps).         *)
(* The text window `output` gets what the screen gets and is left out, as  *)
(* are the bytes: decoding and marker stripping decide only how much of a  *)
(* chunk is visible.                                                       *)
(***************************************************************************)
EXTENDS Integers, Sequences, FiniteSets, Functions

CONSTANTS
  Resizers,         \* connection threads that resize the session
  Sizes,            \* the terminal sizes they ask for
  InitialSize,      \* the size the session is spawned with
  WindowChars,      \* PTY_OUTPUT_MAX_CHARS
  PendingMaxChars,  \* SNAPSHOT_PENDING_MAX_CHARS
  PendingMaxOps,    \* SNAPSHOT_PENDING_MAX_OPS
  MaxOutput,        \* bound: characters written to the terminal
  MaxResizes        \* bound: how many resizes are asked for

ASSUME SessionAssumption ==
  /\ InitialSize \in Sizes
  /\ WindowChars \in Nat
  /\ PendingMaxChars \in Nat
  /\ PendingMaxOps \in Nat
  /\ MaxOutput \in Nat
  /\ MaxResizes \in Nat

VARIABLES
  child,      \* the child process
  slave,      \* whether anybody has the terminal open
  produced,   \* characters written to the terminal
  consumed,   \* characters the reader thread has read
  reader,     \* where the reader thread is
  chunk,      \* characters in the reader's hands
  status,     \* Inner.status
  size,       \* Inner.cols, Inner.rows
  seq,        \* Inner.seq
  chunks,     \* Inner.chunks: the retained chunks, [seq, len]
  vt,         \* Inner.screen_valid, parser, baseline, pending, ...
  master,     \* Session.master
  ptySize,    \* the size the kernel keeps for the terminal
  retired,    \* Session.retired
  exit,       \* where the exit thread is
  gaveUp,     \* history: wait_reader ran into READER_DRAIN_TIMEOUT
  wire,       \* the events published
  resizer,    \* per connection thread: where its resize is
  wanted,     \* per connection thread: the size it asks for
  resizes     \* resizes asked for

ptyVars    == <<child, slave, produced>>
readVars   == <<reader, consumed, chunk>>
innerVars  == <<status, size, seq, chunks, vt>>
masterVars == <<master, ptySize>>
exitVars   == <<exit, gaveUp>>
resizeVars == <<resizer, wanted, resizes>>
vars == <<ptyVars, readVars, innerVars, masterVars, retired, exitVars, wire, resizeVars>>

-----------------------------------------------------------------------------
(* The screen cache: what the parser was given, the frozen baseline and    *)
(* the operations since.                                                   *)

Data(n)   == [op |-> "data", seq |-> n]
Resize(s) == [op |-> "resize", size |-> s]
Ops == [op : {"data"}, seq : Nat] \cup [op : {"resize"}, size : Sizes]

Screens ==
  [valid : BOOLEAN, screen : Seq(Ops), baseline : Seq(Ops), pending : Seq(Ops),
   chars : Nat, dirty : BOOLEAN]

\* update_screen after a panic: no snapshot from now on.
Faulted ==
  [valid |-> FALSE, screen |-> <<>>, baseline |-> <<>>, pending |-> <<>>,
   chars |-> 0, dirty |-> FALSE]

\* update_screen: the parser may panic under any update; an invalid cache is
\* left alone.
Updates(v, w) == IF v.valid THEN {w, Faulted} ELSE {v}

Applied(v, op, chars) ==
  [v EXCEPT !.screen = Append(@, op), !.pending = Append(@, op),
            !.chars = @ + chars, !.dirty = TRUE]

Frozen_KeepsPending(v) == [v EXCEPT !.baseline = v.screen, !.dirty = FALSE]
\* checkpoint
Frozen(v) ==
  [v EXCEPT !.baseline = v.screen, !.pending = <<>>, !.chars = 0, !.dirty = FALSE]

\* The length of `pending` in the code, where push_pending extends a data
\* operation that is already the last one.
PendingOps(v) ==
  Cardinality({j \in DOMAIN v.pending :
                 v.pending[j].op = "data" =>
                   j = 1 \/ v.pending[j - 1].op = "resize"})

OverBudget_OpsOnly(v) == PendingOps(v) > PendingMaxOps
OverBudget(v) == v.chars > PendingMaxChars \/ PendingOps(v) > PendingMaxOps

\* The screen part of append: process, and freeze at once when over budget.
Drawn(v, n, chars) ==
  UNION {IF OverBudget(w) THEN Updates(w, Frozen(w)) ELSE {w} :
           w \in Updates(v, Applied(v, Data(n), chars))}

-----------------------------------------------------------------------------
(* The journal: ChunkWindow::push.                                         *)

AtMost(a, b) == IF a <= b THEN a ELSE b

CharsFrom(s, j) == SumFunctionOnSet([k \in DOMAIN s |-> s[k].len], j .. Len(s))

\* Chunks are dropped from the old end while the window is over its size; the
\* newest one stays.
Kept(s) == {j \in DOMAIN s : j = Len(s) \/ CharsFrom(s, j) <= WindowChars}
Trim_Newest(s) == IF CharsFrom(s, 1) <= WindowChars THEN s ELSE SubSeq(s, 1, Len(s) - 1)
Trim(s) == SubSeq(s, Len(s) + 1 - Cardinality(Kept(s)), Len(s))

-----------------------------------------------------------------------------

TypeOK ==
  /\ child \in {"running", "gone"}
  /\ slave \in {"open", "closed"}
  /\ produced \in Nat
  /\ consumed \in Nat /\ consumed <= produced
  /\ reader \in {"read", "record", "publish", "done"}
  /\ chunk \in Nat
  /\ status \in {"running", "exited"}
  /\ size \in Sizes
  /\ seq \in Nat
  /\ chunks \in Seq([seq : Nat, len : Nat])
  /\ vt \in Screens /\ vt.chars <= PendingMaxChars
  /\ master \in {"open", "dropped"}
  /\ ptySize \in Sizes
  /\ retired \in BOOLEAN
  /\ exit \in {"wait", "drain", "freeze", "check", "publish", "done"}
  /\ gaveUp \in BOOLEAN
  /\ wire \in Seq([event : {"data"}, seq : Nat] \cup [event : {"exit"}])
  /\ resizer \in [Resizers -> {"idle", "master"}]
  /\ wanted \in [Resizers -> Sizes]
  /\ resizes \in Nat

\* Session::spawn: the model is created with the first size and checkpointed.
Init ==
  /\ child = "running"
  /\ slave = "open"
  /\ produced = 0
  /\ consumed = 0
  /\ reader = "read"
  /\ chunk = 0
  /\ status = "running"
  /\ size = InitialSize
  /\ seq = 0
  /\ chunks = <<>>
  /\ vt \in {[valid |-> TRUE, screen |-> <<Resize(InitialSize)>>,
              baseline |-> <<Resize(InitialSize)>>, pending |-> <<>>,
              chars |-> 0, dirty |-> FALSE],
             Faulted}
  /\ master = "open"
  /\ ptySize = InitialSize
  /\ retired = FALSE
  /\ exit = "wait"
  /\ gaveUp = FALSE
  /\ wire = <<>>
  /\ resizer = [r \in Resizers |-> "idle"]
  /\ wanted = [r \in Resizers |-> InitialSize]
  /\ resizes = 0

-----------------------------------------------------------------------------
(* The terminal, as the reader sees it.                                    *)

\* The child, or something it started, writes.
Produce ==
  /\ slave = "open"
  /\ produced < MaxOutput
  /\ produced' = produced + 1
  /\ UNCHANGED <<child, slave, readVars, innerVars, masterVars, retired, exitVars, wire, resizeVars>>

\* Nobody has the terminal open: for good, or while the child reopens it.
CloseSlave ==
  /\ slave = "open"
  /\ slave' = "closed"
  /\ UNCHANGED <<child, produced, readVars, innerVars, masterVars, retired, exitVars, wire, resizeVars>>

ReopenSlave ==
  /\ slave = "closed"
  /\ child = "running"
  /\ slave' = "open"
  /\ UNCHANGED <<child, produced, readVars, innerVars, masterVars, retired, exitVars, wire, resizeVars>>

\* The child ends; what it started may keep the terminal open.
ChildEnds ==
  /\ child = "running"
  /\ child' = "gone"
  /\ UNCHANGED <<slave, produced, readVars, innerVars, masterVars, retired, exitVars, wire, resizeVars>>

-----------------------------------------------------------------------------
(* The reader thread: read_loop and append.                                *)

\* A batch of what is buffered; append drops it when the session is retired.
ReaderRead(n) ==
  /\ reader = "read"
  /\ consumed + n <= produced
  /\ consumed' = consumed + n
  /\ IF retired
     THEN UNCHANGED <<reader, chunk>>
     ELSE reader' = "record" /\ chunk' = n
  /\ UNCHANGED <<ptyVars, innerVars, masterVars, retired, exitVars, wire, resizeVars>>

\* append under the state lock.  `visible`: the marker stripper lets some text through.
ReaderRecord ==
  /\ reader = "record"
  /\ reader' = "publish"
  /\ seq' = seq + 1
  /\ chunks' = Trim(Append(chunks, [seq |-> seq + 1, len |-> AtMost(chunk, WindowChars)]))
  /\ \E visible \in BOOLEAN :
       vt' \in IF visible THEN Drawn(vt, seq + 1, chunk) ELSE {vt}
  /\ UNCHANGED <<ptyVars, consumed, chunk, status, size, masterVars, retired, exitVars, wire, resizeVars>>

\* append after the unlock.
ReaderPublish_Coalesces ==
  /\ reader = "publish"
  /\ reader' = "read"
  /\ chunk' = 0
  /\ wire' = IF consumed < produced THEN wire ELSE Append(wire, [event |-> "data", seq |-> seq])
  /\ UNCHANGED <<ptyVars, consumed, innerVars, masterVars, retired, exitVars, resizeVars>>

ReaderPublish ==
  /\ reader = "publish"
  /\ reader' = "read"
  /\ chunk' = 0
  /\ wire' = Append(wire, [event |-> "data", seq |-> seq])
  /\ UNCHANGED <<ptyVars, consumed, innerVars, masterVars, retired, exitVars, resizeVars>>

\* End of file, EIO or EAGAIN: retried while the child runs, for the terminal may be reopened.
MayStopReading_AtOnce == TRUE
MayStopReading_Forgotten == retired
MayStopReading == status = "exited" \/ retired

ReaderEnd ==
  /\ reader = "read"
  /\ slave = "closed"
  /\ consumed = produced
  /\ MayStopReading
  /\ reader' = "done"
  /\ UNCHANGED <<ptyVars, consumed, chunk, innerVars, masterVars, retired, exitVars, wire, resizeVars>>

-----------------------------------------------------------------------------
(* The exit thread: exit_loop.                                             *)

ExitRecord ==
  /\ exit = "wait"
  /\ child = "gone"
  /\ exit' = "drain"
  /\ status' = "exited"
  /\ UNCHANGED <<ptyVars, readVars, size, seq, chunks, vt, masterVars, retired, gaveUp, wire, resizeVars>>

\* wait_reader: the reader is done ...

ExitDrained ==
  /\ exit = "drain"
  /\ reader = "done"
  /\ exit' = "freeze"
  /\ UNCHANGED <<ptyVars, readVars, innerVars, masterVars, retired, gaveUp, wire, resizeVars>>

\* ... or READER_DRAIN_TIMEOUT passed.
TimesOut == reader # "done"

ExitGivesUp ==
  /\ exit = "drain"
  /\ TimesOut
  /\ exit' = "freeze"
  /\ gaveUp' = TRUE
  /\ UNCHANGED <<ptyVars, readVars, innerVars, masterVars, retired, wire, resizeVars>>

ExitFreezes(v) == IF v.dirty THEN Updates(v, Frozen(v)) ELSE {v}

ExitFreeze ==
  /\ exit = "freeze"
  /\ exit' = "check"
  /\ vt' \in ExitFreezes(vt)
  /\ UNCHANGED <<ptyVars, readVars, status, size, seq, chunks, masterVars, retired, gaveUp, wire, resizeVars>>

\* A session that was forgotten is not announced any more.
ExitCheck ==
  /\ exit = "check"
  /\ exit' = IF retired THEN "done" ELSE "publish"
  /\ UNCHANGED <<ptyVars, readVars, innerVars, masterVars, retired, gaveUp, wire, resizeVars>>

ExitPublish ==
  /\ exit = "publish"
  /\ exit' = "done"
  /\ wire' = Append(wire, [event |-> "exit"])
  /\ UNCHANGED <<ptyVars, readVars, innerVars, masterVars, retired, gaveUp, resizeVars>>

-----------------------------------------------------------------------------
(* Maintenance, resize and forget.                                         *)

\* refresh_snapshot, when the session has been quiet; only registered sessions get it.
Refreshable_Running == ~retired /\ vt.dirty /\ status = "running"
Refreshable == ~retired /\ vt.dirty

Refresh ==
  /\ Refreshable
  /\ vt' \in Updates(vt, Frozen(vt))
  /\ UNCHANGED <<ptyVars, readVars, status, size, seq, chunks, masterVars, retired, exitVars, wire, resizeVars>>

\* resize under the state lock ...
ResizeModel(r, s) ==
  /\ resizer[r] = "idle"
  /\ resizes < MaxResizes
  /\ resizes' = resizes + 1
  /\ status = "running"
  /\ size' = s
  /\ vt' \in Updates(vt, Applied(vt, Resize(s), 0))
  /\ resizer' = [resizer EXCEPT ![r] = "master"]
  /\ wanted' = [wanted EXCEPT ![r] = s]
  /\ UNCHANGED <<ptyVars, readVars, status, seq, chunks, masterVars, retired, exitVars, wire>>

\* ... and under the master lock.
ResizeTerminal(r) ==
  /\ resizer[r] = "master"
  /\ resizer' = [resizer EXCEPT ![r] = "idle"]
  /\ ptySize' = IF master = "open" THEN wanted[r] ELSE ptySize
  /\ UNCHANGED <<ptyVars, readVars, innerVars, master, retired, exitVars, wire, wanted, resizes>>

\* retire, first the flag, then (the signal and) the descriptors.
Retire ==
  /\ ~retired
  /\ retired' = TRUE
  /\ UNCHANGED <<ptyVars, readVars, innerVars, masterVars, exitVars, wire, resizeVars>>

DropMaster ==
  /\ retired
  /\ master = "open"
  /\ master' = "dropped"
  /\ UNCHANGED <<ptyVars, readVars, innerVars, ptySize, retired, exitVars, wire, resizeVars>>

-----------------------------------------------------------------------------

Terminal == Produce \/ CloseSlave \/ ReopenSlave \/ ChildEnds
Reader ==
  \/ \E n \in 1 .. (produced - consumed) : ReaderRead(n)
  \/ ReaderRecord \/ ReaderPublish \/ ReaderEnd
ExitThread ==
  ExitRecord \/ ExitDrained \/ ExitGivesUp \/ ExitFreeze \/ ExitCheck \/ ExitPublish
Resizing == \E r \in Resizers : (\E s \in Sizes : ResizeModel(r, s)) \/ ResizeTerminal(r)

Next == Terminal \/ Reader \/ ExitThread \/ Refresh \/ Resizing \/ Retire \/ DropMaster

Spec == Init /\ [][Next]_vars

\* Both session threads and the maintenance thread run for as long as the
\* daemon does; what the child writes, and when it ends, is its own affair.
FairSpec == Spec /\ WF_vars(Reader) /\ WF_vars(ExitThread) /\ WF_vars(Refresh)

-----------------------------------------------------------------------------
(* Properties. *)

EndsInSize(ops, s) ==
  \A j \in DOMAIN ops :
    /\ ops[j].op = "resize"
    /\ \A k \in DOMAIN ops : k > j => ops[k].op # "resize"
    => ops[j].size = s

\* snapshot_for_read at any moment: replaying the frozen baseline and then the
\* pending operations gives the screen, nothing twice and nothing left out, and
\* the replay ends in the size the session reports.
SnapshotFaithful ==
  vt.valid =>
    /\ vt.baseline \o vt.pending = vt.screen
    /\ EndsInSize(vt.baseline \o vt.pending, size)

\* chunks of attach: the retained chunks are the newest, without a hole, so a
\* client that sees a first chunk above its own number knows it missed some.
JournalContiguous ==
  /\ Len(chunks) <= seq
  /\ \A j \in DOMAIN chunks : chunks[j].seq = seq - Len(chunks) + j
  /\ seq > 0 => chunks # <<>>

\* The data events, counted over a stretch of the wire.
DataUpTo(n) == Cardinality({j \in DOMAIN wire : j <= n /\ wire[j].event = "data"})

\* Every chunk is published once, in the order of its number, whatever exit does.
PublishedInOrder ==
  /\ \A j \in DOMAIN wire : wire[j].event = "data" => wire[j].seq = DataUpTo(j)
  /\ DataUpTo(Len(wire)) = IF reader = "publish" THEN seq - 1 ELSE seq

Exited == \E j \in DOMAIN wire : wire[j].event = "exit"

\* Data comes before exit, unless wait_reader gave up.
DataBeforeExit ==
  ~gaveUp => \A j \in DOMAIN wire : wire[j].event = "exit" => j = Len(wire)

\* A session whose exit is announced has been read to the end, transient hang-ups
\* of its terminal included, and its final screen is frozen, unless wait_reader gave up.
CompleteAtExit ==
  ~gaveUp /\ Exited =>
    /\ slave = "closed" /\ consumed = produced
    /\ reader = "done"
    /\ vt.valid => vt.pending = <<>>

\* What a client may rely on when it gets the exit: nothing follows it, and nothing
\* is missing.
ExitIsTheEnd == DataBeforeExit /\ CompleteAtExit

\* Whatever happens to the terminal, the exit of a child is processed.
ExitProcessed == child = "gone" ~> exit = "done"

\* The baseline catches up with the screen once output pauses, or the session is forgotten.
SnapshotSettles == vt.dirty ~> (~vt.dirty \/ retired)

\* The reader does not outlive a session that nobody can write to any more.
ReaderEnds == (child = "gone" /\ slave = "closed") ~> reader = "done"

\* Both threads of a session end when its child and its terminal have.
SessionEnds == ExitProcessed /\ ReaderEnds

-----------------------------------------------------------------------------
(* Claims of comments and documents that this code does not keep; each is  *)
(* refuted by a counterexample the README describes.                       *)

Quiet == \A r \in Resizers : resizer[r] = "idle"

\* session.rs resize: when no resize is under way the terminal has the size the
\* session reports and its screen is kept in.
SizesAgree == Quiet /\ master = "open" => ptySize = size

\* session.rs exit_loop: after the final checkpoint the screen does not change.
ScreenFinal ==
  [][(exit \in {"check", "publish", "done"}) => vt'.screen = vt.screen]_vars

\* docs/render-protocol.md 5: the baseline is rebuilt when pending passes its limits.
PendingWithinBudget == vt.valid => ~OverBudget(vt)

\* session.rs retire: nothing is recorded or broadcast any more.
RetiredRecordsNothing == [][retired => seq' = seq]_vars

-----------------------------------------------------------------------------
(* The inductive invariant behind the safety properties. *)

\* A cache is consistent: it replays to the screen, ends in size s, and only a
\* dirty one has something to freeze.
Consistent(v, s) ==
  IF v.valid
  THEN /\ v.baseline \o v.pending = v.screen
       /\ EndsInSize(v.screen, s)
       /\ ~v.dirty => v.pending = <<>>
  ELSE v = Faulted

ExitInv ==
  /\ exit = "wait" <=> status = "running"
  /\ status = "exited" => child = "gone"
  /\ Exited => exit = "done"
  /\ ~gaveUp /\ exit \notin {"wait", "drain"} => reader = "done"
  /\ ~gaveUp /\ exit \in {"check", "publish", "done"} => (vt.valid => vt.pending = <<>>)
  /\ reader = "done" /\ ~retired => status = "exited" /\ slave = "closed" /\ consumed = produced
  /\ ~gaveUp /\ (exit = "publish" \/ Exited) => slave = "closed" /\ consumed = produced

IInv ==
  /\ TypeOK
  /\ Consistent(vt, size)
  /\ JournalContiguous
  /\ PublishedInOrder
  /\ ExitInv
  /\ DataBeforeExit

-----------------------------------------------------------------------------
(* The session implements SessionStream.                                   *)

Stream ==
  INSTANCE SessionStream WITH
    first <- seq + 1 - Len(chunks),
    announced <- DataUpTo(Len(wire))

ImplementsStream == Stream!StreamSpec
=============================================================================
