---------------------------- MODULE SessionStream ----------------------------
(***************************************************************************)
(* What a PTY session promises about its output, whatever threads produce  *)
(* it: chunks are numbered 1, 2, 3, ... without a hole, the newest of them *)
(* can be read back from the first retained one on, and each is announced  *)
(* exactly once, in order, after it can be read back.                      *)
(* PtySession implements this; RenderDelivery builds on it.                *)
(***************************************************************************)
EXTENDS Naturals

VARIABLES
  seq,        \* the number of the newest chunk (Inner.seq)
  first,      \* the number of the oldest chunk that is retained (Inner.chunks)
  announced   \* the number of the newest chunk that was published

streamVars == <<seq, first, announced>>

StreamTypeOK ==
  /\ seq \in Nat
  /\ first \in Nat
  /\ announced \in Nat

StreamInit ==
  /\ seq = 0
  /\ first = 1
  /\ announced = 0

\* Session::append up to the unlock: number, retain, drop the oldest.  The
\* newest chunk is always retained.
Record ==
  /\ announced = seq
  /\ seq' = seq + 1
  /\ first' \in first .. seq'
  /\ UNCHANGED announced

\* Session::append after the unlock.
Announce ==
  /\ announced < seq
  /\ announced' = seq
  /\ UNCHANGED <<seq, first>>

StreamNext == Record \/ Announce

StreamSpec == StreamInit /\ [][StreamNext]_streamVars

-----------------------------------------------------------------------------

\* Whoever was told of chunk n can still get n or newer, and at most one chunk
\* is recorded but not yet announced.
StreamInv ==
  /\ first <= seq + 1
  /\ seq > 0 => first <= seq
  /\ announced \in {seq, seq - 1}
=============================================================================
