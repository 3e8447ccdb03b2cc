----------------------------- MODULE TextPipeline -----------------------------
(***************************************************************************)
(* What becomes of the bytes of a terminal on their way to a session's     *)
(* windows and screen: the UTF-8 decoder, the stripper of the private exit *)
(* marker, the two text windows and the tracker of DEC private modes       *)
(* (wand-render/src/utf8.rs, marker.rs, bounds.rs, snapshot.rs), strung    *)
(* together as in Session::read_loop and Session::append.                  *)
(*                                                                         *)
(* The terminal cuts its output where it likes, so each stage has a memory *)
(* of what may still become something; what the stages yield must not      *)
(* depend on the cuts.  A byte or a character is a symbol; three bytes     *)
(* "L" "C" "C" are the character "Z", and the marker's prefix, its start   *)
(* character, its name and the token, has three characters.                *)
(***************************************************************************)
EXTENDS Integers, Sequences, SequencesExt

CONSTANTS
  Scripts,      \* what the terminal may write
  WindowChars,  \* PTY_OUTPUT_MAX_CHARS
  MaxSequence   \* MAX_SEQUENCE_BYTES

ASSUME PipelineAssumption ==
  /\ Scripts \subseteq Seq(STRING)
  /\ WindowChars \in Nat \ {0}
  /\ MaxSequence \in Nat /\ MaxSequence > 2   \* at least its introducer (snapshot.rs:239: 32)

VARIABLES
  script,    \* the terminal's output, of this behaviour
  taken,     \* how much of it was read
  undecoded, \* IncrementalUtf8Decoder.pending
  text,      \* history: all that was decoded
  seq,       \* SessionInner.seq
  marker,    \* MarkerStripper
  visible,   \* history: all that was let through
  output,    \* TextWindow
  chunks,    \* ChunkWindow
  modes      \* DecModeTracker

vars == <<script, taken, undecoded, text, seq, marker, visible, output, chunks, modes>>

Least(S) == CHOOSE n \in S : \A m \in S : n <= m
Greatest(S) == CHOOSE n \in S : \A m \in S : m <= n
Smaller(m, n) == IF m <= n THEN m ELSE n
From(s, n) == SubSeq(s, n, Len(s))
\* tail_chars
LastChars(s, n) == From(s, Len(s) - Smaller(n, Len(s)) + 1)

-----------------------------------------------------------------------------
(* IncrementalUtf8Decoder::push.  "L" leads a character of three bytes, "C"  *)
(* continues one, "X" is in none; every other symbol is a character.         *)

Ascii(b) == b \notin {"L", "C", "X"}

\* from_utf8 finds an end of the bytes that may be the beginning of a character.
Unfinished_Never(bytes) == FALSE
Unfinished(bytes) == bytes \in {<<"L">>, <<"L", "C">>}

\* What the loop makes of the bytes ahead, and how many it takes.
Whole(ahead) == IsPrefix(<<"L", "C", "C">>, ahead)
Char(ahead) == IF Whole(ahead) THEN <<"Z">> ELSE IF Ascii(Head(ahead)) THEN <<Head(ahead)>> ELSE <<>>
Size(ahead) == IF Whole(ahead) THEN 3 ELSE IF IsPrefix(<<"L", "C">>, ahead) THEN 2 ELSE 1

\* One turn of the loop; nothing changes once it has ended.
DecodeTurn(bytes, at) ==
  LET ahead == From(bytes, at.index)
  IN  IF ahead = <<>> \/ Unfinished(ahead) THEN at
      ELSE [text |-> at.text \o Char(ahead), index |-> at.index + Size(ahead)]
Decoded(bytes) ==
  LET turn[k \in 0 .. Len(bytes)] ==
        IF k = 0 THEN [text |-> <<>>, index |-> 1] ELSE DecodeTurn(bytes, turn[k - 1])
      last == turn[Len(bytes)]
  IN  [text |-> last.text, rest |-> From(bytes, last.index)]

-----------------------------------------------------------------------------
(* MarkerStripper::consume.                                                  *)

Prefix == <<"R", "P", "K">>
MarkerEnd == "U"
Digits == {"0", "7"}

\* Where a sequence has the prefix.
Starts(s) == {i \in DOMAIN s : IsPrefix(Prefix, From(s, i))}
Ends(s, i) == {j \in i + Len(Prefix) .. Len(s) : s[j] = MarkerEnd}
IsExitCode(code) == Len(code) \in 1 .. 3 /\ \A k \in DOMAIN code : code[k] \in Digits

\* longest_prefix_suffix
PartialPrefix_Never(s) == 0
PartialPrefix(s) ==
  Greatest({0} \cup {n \in 1 .. Smaller(Len(s), Len(Prefix) - 1) : LastChars(s, n) = SubSeq(Prefix, 1, n)})

\* Up to i it is visible, the rest has to wait.
Held(s, i) == [visible |-> SubSeq(s, 1, i - 1), pending |-> From(s, i), completed |-> FALSE]

Consumed(m, chunk) ==
  LET all   == m.pending \o chunk
      start == Least(Starts(all))
      end   == Least(Ends(all, start))
      code  == SubSeq(all, start + Len(Prefix), end - 1)
  IN  IF m.completed THEN [visible |-> chunk, pending |-> <<>>, completed |-> TRUE]
      ELSE IF Starts(all) # {} /\ Ends(all, start) = {} THEN Held(all, start)
      ELSE IF Starts(all) # {} /\ IsExitCode(code)
           THEN [visible |-> SubSeq(all, 1, start - 1) \o From(all, end + 1),
                 pending |-> <<>>, completed |-> TRUE]
      ELSE Held(all, Len(all) - PartialPrefix(all) + 1)

-----------------------------------------------------------------------------
(* TextWindow and ChunkWindow.                                               *)

\* TextWindow::trim: whole segments from the front, then a part of the next.
Chars(segments) == Len(FlattenSeq(segments))
Trimmed(segments, overflow) ==
  LET gone == Greatest({k \in 0 .. Len(segments) : Chars(SubSeq(segments, 1, k)) <= overflow})
      more == overflow - Chars(SubSeq(segments, 1, gone))
      rest == From(segments, gone + 1)
  IN  IF more = 0 \/ rest = <<>> THEN rest
      ELSE <<LastChars(Head(rest), Len(Head(rest)) - more)>> \o Tail(rest)

TextPush_KeepsCount(w, chunk) ==
  LET chars == w.chars + Len(chunk)
  IN  [chars |-> chars,
       segments |-> Trimmed(Append(w.segments, chunk), IF chars > WindowChars THEN chars - WindowChars ELSE 0)]

TextPush(w, chunk) ==
  LET chars == w.chars + Len(chunk)
  IN  IF chunk = <<>> THEN w
      ELSE IF Len(chunk) >= WindowChars
           THEN [chars |-> WindowChars, segments |-> <<LastChars(chunk, WindowChars)>>]
      ELSE IF chars <= WindowChars THEN [chars |-> chars, segments |-> Append(w.segments, chunk)]
      ELSE [chars |-> WindowChars,
            segments |-> Trimmed(Append(w.segments, chunk), chars - WindowChars)]

\* ChunkWindow::push; the newest entry stays.
Texts(entries) == [k \in DOMAIN entries |-> entries[k].data]
Entry(n, chunk) == [seq |-> n, data |-> LastChars(chunk, WindowChars)]
ChunkPush_DropsNewest(w, n, chunk) ==
  LET all == Append(w.entries, Entry(n, chunk))
  IN  IF Chars(Texts(all)) <= WindowChars THEN [chars |-> Chars(Texts(all)), entries |-> all] ELSE w
ChunkPush(w, n, chunk) ==
  LET all   == Append(w.entries, Entry(n, chunk))
      chars == w.chars + Len(Last(all).data)
      Left(k) == chars - Chars(Texts(SubSeq(all, 1, k)))
      gone  == Least({k \in 0 .. Len(all) - 1 : k = Len(all) - 1 \/ Left(k) <= WindowChars})
  IN  [chars |-> Left(gone), entries |-> From(all, gone + 1)]

-----------------------------------------------------------------------------
(* DecModeTracker::scan.                                                     *)

Finals == {"h", "l"}
Value == [x \in Digits |-> IF x = "7" THEN 7 ELSE 0]

\* A parameter begins after each of these and ends before the next.
Cuts(s) == {0} \cup {k \in DOMAIN s : s[k] = ";"}
CutAfter(s, i) == Least({j \in Cuts(s) \cup {Len(s) + 1} : i < j})
Parameters(s) == {SubSeq(s, i + 1, CutAfter(s, i) - 1) : i \in Cuts(s)}
NoneEmpty(s) == \A k \in Cuts(s) : k + 1 \notin Cuts(s)
Number(s) == FoldLeft(LAMBDA n, x : 10 * n + Value[x], 0, s)
IsSeven(s) == s # <<>> /\ Number(s) = 7

\* parse_dec_private_mode on what begins with ESC: a mode, the beginning of one
\* (with no parameter left empty so far), or neither.
Intro == <<"E", "[", "?">>
ModeEnd(s) ==   \* the first symbol that is not part of the parameters
  Least({k \in Len(Intro) + 1 .. Len(s) : s[k] \notin Digits \cup {";"}} \cup {Len(s) + 1})
Body(s) == SubSeq(s, Len(Intro) + 1, ModeEnd(s) - 1)

IsMode(s) ==
  /\ IsPrefix(Intro, s)
  /\ ModeEnd(s) <= Smaller(Len(s), MaxSequence)
  /\ s[ModeEnd(s)] \in Finals
  /\ NoneEmpty(Body(s)) /\ Len(Body(s)) \notin Cuts(Body(s))

MayBecomeMode_Never(s) == FALSE
MayBecomeMode(s) ==
  \/ IsStrictPrefix(s, Intro)
  \/ /\ IsPrefix(Intro, s)
     /\ ModeEnd(s) = Len(s) + 1 /\ Len(s) < MaxSequence
     /\ NoneEmpty(Body(s))

HasSeven(s) == \E x \in Parameters(Body(s)) : IsSeven(x)

\* One turn of the loop; nothing changes once it has ended.
ScanTurn(s, at) ==
  LET ahead == From(s, at.index)
  IN  IF ahead = <<>> THEN at
      ELSE IF Head(ahead) # "E" THEN [at EXCEPT !.index = @ + 1]
      ELSE IF MayBecomeMode(ahead) THEN at
      ELSE IF IsMode(ahead)
           THEN [autowrap |-> IF HasSeven(ahead) THEN ahead[ModeEnd(ahead)] = "h" ELSE at.autowrap,
                 index |-> at.index + ModeEnd(ahead)]
      ELSE [at EXCEPT !.index = @ + 1]
Scanned(autowrap, s) ==
  LET turn[k \in 0 .. Len(s)] ==
        IF k = 0 THEN [autowrap |-> autowrap, index |-> 1] ELSE ScanTurn(s, turn[k - 1])
      last == turn[Len(s)]
  IN  [autowrap |-> last.autowrap, tail |-> From(s, last.index)]

-----------------------------------------------------------------------------
(* Session::read_loop and Session::append.                                   *)

Init ==
  /\ script \in Scripts
  /\ taken = 0
  /\ undecoded = <<>>
  /\ text = <<>>
  /\ marker = [pending |-> <<>>, completed |-> FALSE]
  /\ visible = <<>>
  /\ output = [chars |-> 0, segments |-> <<>>]
  /\ seq = 0
  /\ chunks = [chars |-> 0, entries |-> <<>>]
  /\ modes = [autowrap |-> TRUE, tail |-> <<>>]

\* One chunk of text: numbered, then stripped, then windowed, scanned and drawn.
AppendText(data) ==
  LET stripped == Consumed(marker, data)
  IN  /\ text' = text \o data
      /\ seq' = seq + 1
      /\ chunks' = ChunkPush(chunks, seq + 1, data)
      /\ marker' = [pending |-> stripped.pending, completed |-> stripped.completed]
      /\ visible' = visible \o stripped.visible
      /\ output' = TextPush(output, stripped.visible)
      /\ modes' = Scanned(modes.autowrap, modes.tail \o stripped.visible)

\* A read returns any part of what is there; text that is not complete waits.
Read(n) ==
  LET decoded == Decoded(undecoded \o SubSeq(script, taken + 1, taken + n))
  IN  /\ taken + n <= Len(script)
      /\ taken' = taken + n
      /\ undecoded' = decoded.rest
      /\ \/ decoded.text # <<>> /\ AppendText(decoded.text)
         \/ decoded.text = <<>> /\ UNCHANGED <<text, seq, marker, visible, output, chunks, modes>>
      /\ UNCHANGED script

Next == \E n \in 1 .. Len(script) : Read(n)
Spec == Init /\ [][Next]_vars

-----------------------------------------------------------------------------
(* Properties.  Each compares a stage with what the whole of its input, cut   *)
(* nowhere, amounts to.                                                       *)

\* utf8.rs: only whole characters come out, none is lost at a cut, broken ones
\* leave no trace, and at most a character's beginning waits.
Characters(bytes) == FlattenSeq([i \in DOMAIN bytes |-> Char(From(bytes, i))])
DecodedWhole ==
  LET bytes == SubSeq(script, 1, taken)
  IN  text = Characters(bytes) /\ Unfinished(undecoded) = (undecoded # <<>>) /\ IsSuffix(undecoded, bytes)

\* marker.rs: nothing gets lost and nothing is made up: what was let through and
\* what waits are the text, without one whole marker once that was found.
Without(s, i) == SubSeq(s, 1, i - 1) \o From(s, Least(Ends(s, i)) + 1)
Markers(s) ==
  {i \in Starts(s) : /\ Ends(s, i) # {}
                     /\ IsExitCode(SubSeq(s, i + Len(Prefix), Least(Ends(s, i)) - 1))}
NothingLost ==
  \/ ~marker.completed /\ visible \o marker.pending = text
  \/ /\ marker.completed /\ marker.pending = <<>>
     /\ \E i \in Markers(text) : visible = Without(text, i)

\* marker.rs:76: no marker gets through at a cut: as long as every prefix in the
\* text is that of a marker, the first of them is found, wherever the cuts are, and
\* no beginning of one was let through.
NoFalseStart == \A i \in Starts(text) : Ends(text, i) # {} => i \in Markers(text)
NoMarkerLeaks ==
  NoFalseStart => /\ marker.completed <=> Markers(text) # {}
                  /\ Markers(text) # {} => visible = Without(text, Least(Markers(text)))
                  /\ ~marker.completed => Starts(visible) = {}

\* Both: the marker goes, and nothing but the marker.
MarkerStripped == NothingLost /\ NoMarkerLeaks

\* bounds.rs: the windows hold the newest characters, and know how many; the
\* chunk window holds whole chunks, save a chunk that is too long by itself.
WindowsHoldTheEnd ==
  /\ FlattenSeq(output.segments) = LastChars(visible, WindowChars)
  /\ output.chars = Chars(output.segments)
  /\ IsSuffix(FlattenSeq(Texts(chunks.entries)), text)
  /\ chunks.chars = Chars(Texts(chunks.entries)) /\ chunks.chars <= WindowChars
  /\ seq > 0 => chunks.entries # <<>> /\ Last(chunks.entries).seq = seq

\* snapshot.rs: wherever its sequences are cut, autowrap is what the last whole
\* mode sequence with a 7 says, and what waits is short.
WholeModes(s) ==
  {i \in DOMAIN s : s[i] = "E" /\ IsMode(From(s, i))}
Sevens(s) == {i \in WholeModes(s) : HasSeven(From(s, i))}
AutowrapTracked ==
  /\ modes.autowrap <=>
       LET at == Greatest(Sevens(visible)) IN
       Sevens(visible) = {} \/ From(visible, at)[ModeEnd(From(visible, at))] = "h"
  /\ Len(modes.tail) < MaxSequence

\* Not kept when a broken marker comes before a good one in the same buffer.
AlwaysStripped == marker.completed <=> Markers(text) # {}
=============================================================================
