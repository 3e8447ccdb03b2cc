----------------------------- MODULE ListSnapshot -----------------------------
(***************************************************************************)
(* The bounded snapshot of a session in the answer to list: dropped        *)
(* pending first, then a prefix of the data that leaves the terminal in    *)
(* peace, or none at all (wand-render/src/snapshot.rs, bound_for_list).    *)
(* Pure functions, of what TextPipeline lets through to the screen.        *)
(* Symbols are those of TextPipeline, with "E" for ESC, "B" for BEL, "S"   *)
(* for the backslash and "]" for what opens an OSC.                        *)
(***************************************************************************)
EXTENDS TextPipeline

CONSTANTS
  Meta,      \* serialized size of a snapshot without data and pending
  EscWidth   \* serialized size of ESC (\u001b)

ASSUME ListAssumption == Meta \in Nat /\ EscWidth \in Nat \ {0}

Upto(s, n) == SubSeq(s, 1, n)

\* What JSON makes of a symbol: control characters and the backslash are escaped.
Json(c) ==
  IF c \in {"E", "R", "U", "B"} THEN [k \in 1 .. EscWidth |-> c] ELSE IF c = "S" THEN <<c, c>> ELSE <<c>>
Width(data) == Chars([i \in DOMAIN data |-> Json(data[i])])
Snapshot(data, pending) == [data |-> data, pending |-> pending]
SerializedLen(snapshot) == Meta + Width(snapshot.data) + Width(snapshot.pending)
NoSnapshot == <<>>

\* SNAPSHOT_TRUNCATION_RESET
Reset == <<"E", "[", "0", "m">>

PrefixFits(data, n, max) == SerializedLen(Snapshot(Upto(data, n) \o Reset, <<>>)) <= max

\* The binary search: low fits (or is 0), high does not.  A turn of the loop;
\* nothing changes once it has ended.
SearchTurn(data, max, at) ==
  LET mid == at.low + (at.high - at.low) \div 2
  IN  IF at.high - at.low <= 1 THEN at
      ELSE IF PrefixFits(data, mid, max) THEN [low |-> mid, high |-> at.high]
      ELSE [low |-> at.low, high |-> mid]
Search(data, max) ==
  LET turn[k \in 0 .. Len(data)] ==
        IF k = 0 THEN [low |-> 0, high |-> Len(data)] ELSE SearchTurn(data, max, turn[k - 1])
  IN  turn[Len(data)].low

\* escape_end is Some, for what begins with ESC.
CsiInner == {"?", ";", "0", "3", "7"}
CsiFinal == {"h", "l", "m", "a"}
Closed(s) ==
  /\ Len(s) > 1
  /\ s[2] = "[" => \E k \in 3 .. Len(s) : s[k] \in CsiFinal /\ \A j \in 3 .. k - 1 : s[j] \in CsiInner
  /\ s[2] = "]" => \E k \in 3 .. Len(s) : s[k] = "B" \/ (s[k] = "E" /\ k < Len(s) /\ s[k + 1] = "S")

\* trim_incomplete_escape: every ESC goes, from the last one backwards, until one
\* is closed, and all that is behind it.
Escapes(data) == {k \in DOMAIN data : data[k] = "E"}
Dangling(data) == {k \in Escapes(data) : \A j \in Escapes(data) : k <= j => ~Closed(From(data, j))}
Trim_Never(data) == data
Trim(data) == IF Dangling(data) = {} THEN data ELSE Upto(data, Least(Dangling(data)) - 1)

BoundForList(snapshot, max) ==
  LET bare == Snapshot(snapshot.data, <<>>)
      kept == Snapshot(Trim(Upto(bare.data, Search(bare.data, max))) \o Reset, <<>>)
  IN  IF SerializedLen(snapshot) <= max THEN snapshot
      ELSE IF SerializedLen(bare) <= max THEN bare
      ELSE IF SerializedLen(kept) <= max THEN kept
      ELSE NoSnapshot

-----------------------------------------------------------------------------

\* A terminal reads from the front: where it is after some data, on the ground or
\* within an escape sequence.  A new ESC ends what came before.
TerminalStep(at, c) ==
  IF c = "E" THEN IF at = "string" THEN "string esc" ELSE "esc"
  ELSE IF at \in {"esc", "string esc"} THEN IF c = "[" THEN "csi" ELSE IF c = "]" THEN "string" ELSE "ground"
  ELSE IF at = "csi" THEN IF c \in CsiInner THEN "csi" ELSE "ground"
  ELSE IF at = "string" THEN IF c = "B" THEN "ground" ELSE "string"
  ELSE "ground"
Grounded(data) ==
  LET at[n \in 0 .. Len(data)] == IF n = 0 THEN "ground" ELSE TerminalStep(at[n - 1], data[n])
  IN  at[Len(data)] = "ground"

\* What the emulator formats: no ESC follows an ESC, a control sequence has only
\* its own symbols (or is broken off by an ESC), and in a string is no ESC but
\* that of its terminator.
Orderly(data) ==
  \A i \in Escapes(data) : i < Len(data) =>
    /\ data[i + 1] # "E"
    /\ data[i + 1] = "[" =>
         \A k \in i + 2 .. Len(data) :
           (\A j \in i + 2 .. k - 1 : data[j] \in CsiInner) => data[k] \in CsiInner \cup CsiFinal \cup {"E"}
    /\ data[i + 1] = "]" =>
         \A k \in i + 2 .. Len(data) - 1 :
           data[k] = "E" /\ (\A j \in i + 2 .. k - 1 : data[j] \notin {"B", "E"}) => data[k + 1] = "S"

\* docs/render-protocol.md, 9.1.1: the result is within the limit and never ends
\* within an escape sequence; nothing more is dropped than has to be: pending
\* before data, then the longest prefix that ends outside of a sequence and
\* fits with the reset, and everything only when not even the reset fits.
Usable(data, n, max) == Grounded(Upto(data, n)) /\ PrefixFits(data, n, max)
BoundedWell(snapshot, max) ==
  LET got  == BoundForList(snapshot, max)
      data == snapshot.data
      bare == Snapshot(data, <<>>)
  IN  IF got = NoSnapshot THEN ~PrefixFits(data, 0, max) /\ SerializedLen(bare) > max
      ELSE /\ SerializedLen(got) <= max
           /\ \/ got = snapshot
              \/ got = bare /\ SerializedLen(snapshot) > max
              \/ /\ SerializedLen(bare) > max
                 /\ \E n \in 0 .. Len(data) :
                      /\ got = Snapshot(Upto(data, n) \o Reset, <<>>) /\ Grounded(Upto(data, n))
                      /\ \A m \in n + 1 .. Len(data) : ~Usable(data, m, max)

\* docs/render-protocol.md, 9.1.1, of every screen that is drawn (looked at once,
\* when it was drawn in one go), within any limit: the snapshot in a list keeps
\* the limit, leaves the terminal outside of a sequence, and drops no more than it
\* has to.
ListIsBounded ==
  seq = 1 /\ Orderly(visible) =>
    \A max \in 0 .. Meta + Width(visible) + 2, pending \in {<<>>, <<"a", "a">>} :
      BoundedWell(Snapshot(visible, pending), max)
=============================================================================
