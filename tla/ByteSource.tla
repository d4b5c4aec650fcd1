----------------------------- MODULE ByteSource -----------------------------
(***************************************************************************)
(* What the read side of a net.Socket promises: chunks are emitted in the  *)
(* order in which they arrived, none is lost or repeated, "end" comes      *)
(* after the last of them, and because the receive window is given back    *)
(* only as the application reads, no more than Capacity bytes pile up.     *)
(***************************************************************************)
EXTENDS Naturals, Sequences, Functions

CONSTANT Capacity   \* most bytes held for the application

VARIABLES
  arrived,  \* chunks that lwIP has handed over
  out,      \* chunks emitted to the application
  over      \* "no", "end" after the end of the stream, "broken" if destroyed

sourceVars == <<arrived, out, over>>

SourceInit == arrived = <<>> /\ out = <<>> /\ over = "no"

Arrive ==
  /\ over # "end"
  /\ Len(arrived') = Len(arrived) + 1
  /\ SubSeq(arrived', 1, Len(arrived)) = arrived
  /\ SumFunction(arrived') <= SumFunction(out) + Capacity
  /\ UNCHANGED <<out, over>>

Emit ==
  /\ over = "no" /\ Len(out) < Len(arrived)
  /\ out' = SubSeq(arrived, 1, Len(out) + 1)
  /\ UNCHANGED <<arrived, over>>

End == over = "no" /\ out = arrived /\ over' = "end" /\ UNCHANGED <<arrived, out>>

Break == over = "no" /\ over' = "broken" /\ UNCHANGED <<arrived, out>>

SourceNext == Arrive \/ Emit \/ End \/ Break

SourceSpec == SourceInit /\ [][SourceNext]_sourceVars
=============================================================================
