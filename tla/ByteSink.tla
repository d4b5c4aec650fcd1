------------------------------ MODULE ByteSink ------------------------------
(***************************************************************************)
(* What the write side of a net.Socket promises to its Duplex stream: the  *)
(* bytes of a chunk are handed to the TCP send buffer in order, at most    *)
(* Capacity of them unacknowledged at a time, and the write callback runs  *)
(* once the whole chunk is in the buffer, one chunk after the other.       *)
(* Bytes are counted, not named: the stream keeps them in order.           *)
(***************************************************************************)
EXTENDS Naturals

CONSTANT Capacity   \* size of the TCP send buffer

VARIABLES
  issued,   \* bytes of the chunks given to _write so far
  taken,    \* bytes the send buffer has accepted so far
  acked,    \* bytes the peer has acknowledged so far
  busy      \* a chunk's callback is outstanding

sinkVars == <<issued, taken, acked, busy>>

SinkInit == issued = 0 /\ taken = 0 /\ acked = 0 /\ busy = FALSE

\* The stream hands over a chunk of n bytes (an empty one is legal).
Write ==
  /\ ~busy
  /\ busy' = TRUE
  /\ issued' \in Nat /\ issued' >= issued
  /\ UNCHANGED <<taken, acked>>

\* The send buffer accepts bytes that were issued, while it has room.
Take ==
  /\ busy
  /\ taken' \in (taken + 1)..issued
  /\ taken' - acked <= Capacity
  /\ UNCHANGED <<issued, acked, busy>>

\* The peer acknowledges accepted bytes, which leave the buffer.
Acknowledge ==
  /\ acked' \in (acked + 1)..taken
  /\ UNCHANGED <<issued, taken, busy>>

\* The write callback runs: everything issued has been accepted.
Confirm ==
  /\ busy
  /\ taken = issued
  /\ busy' = FALSE
  /\ UNCHANGED <<issued, taken, acked>>

SinkNext == Write \/ Take \/ Acknowledge \/ Confirm

SinkSpec == SinkInit /\ [][SinkNext]_sinkVars
=============================================================================
