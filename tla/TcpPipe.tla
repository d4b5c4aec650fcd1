------------------------------ MODULE TcpPipe ------------------------------
(***************************************************************************)
(* A connection in one direction: a socket that writes and a socket that   *)
(* reads, each with its own process, and the network between them.  The    *)
(* sender is the byte sink that TcpSend implements; the receiver is        *)
(* TcpReceive, step by step.  The connection couples them by flow          *)
(* control: bytes leave the send buffer when they are acknowledged, and    *)
(* are taken by the receiver while its window lasts.                       *)
(***************************************************************************)
EXTENDS TcpReceive

CONSTANTS
  SndBuf,     \* size of the sender's TCP send buffer
  ChunkLens   \* lengths of the chunks that are written

\* A segment can be as short as one byte; there is a longest one.
ASSUME PipeAssumption ==
  /\ SndBuf \in Nat \ {0} /\ ChunkLens \subseteq Nat
  /\ 1 \in SegLens /\ \E n \in SegLens : \A m \in SegLens : m <= n

VARIABLES issued, taken, acked, busy   \* the sender: see ByteSink

sender == <<issued, taken, acked, busy>>
pipeVars == <<vars, sender>>

Sink == INSTANCE ByteSink WITH Capacity <- SndBuf

PipeInit == Init /\ Sink!SinkInit

\* The sender writes until it has closed.
Write ==
  /\ pcb = "open"
  /\ \E n \in ChunkLens : issued + n <= MaxBytes /\ issued' = issued + n
  /\ Sink!Write

\* Bytes in the send buffer that the window of the receiver allows.
Transfer == \E n \in SegLens : received + n <= taken /\ Segment(n)

\* The receiver has acknowledged what it received.
Acknowledge == Sink!Acknowledge /\ acked' <= received

\* The sender closes when all that was written has left.
Finish == ~busy /\ received = issued /\ PeerFin

\* A reset ends the connection for both.
Connected == alive /\ pcb # "freed"

PipeNext ==
  \/ Local /\ UNCHANGED sender
  \/ alive /\ (Transfer \/ Finish \/ PeerReset) /\ UNCHANGED sender
  \/ Connected /\ (Write \/ Sink!Take \/ Sink!Confirm \/ Acknowledge) /\ UNCHANGED vars

PipeSpec ==
  /\ PipeInit /\ [][PipeNext]_pipeVars
  /\ Serves
  /\ WF_pipeVars(Connected /\ Sink!Take /\ UNCHANGED vars)
  /\ WF_pipeVars(Connected /\ Sink!Confirm /\ UNCHANGED vars)
  /\ WF_pipeVars(Connected /\ Acknowledge /\ UNCHANGED vars)
  /\ WF_pipeVars(Connected /\ Transfer /\ UNCHANGED sender)

-----------------------------------------------------------------------------
(* Properties *)

\* Something ends the connection before its time: a reset, a destroyed socket,
\* or data that came before the callbacks of an accepted socket were set.
Broken == destroyed \/ early \/ pcb = "freed" \/ ~alive

\* With a listener, the reader catches up with the writer: the window always
\* opens again, however the marks of the streams, the sizes of the chunks and
\* the pauses of the application fall (net.ts:233, 262 and 281).
CatchesUp == listener ~> Bytes(out) = issued \/ Broken

\* The receiver implements the byte source.
LargestSeg == CHOOSE n \in SegLens : \A m \in SegLens : m <= n
Source == INSTANCE ByteSource WITH
  Capacity <- Wnd + (PassMark - 1) + (ReadMark - 1) + LargestSeg,
  over <- IF ended THEN "end" ELSE IF destroyed THEN "broken" ELSE "no"
ImplementsByteSource == Source!SourceSpec

\* What lwIP receives, and acknowledges, is handed to the socket: "delay
\* accepting connection until callback has been set up" (tcp.cc:309).
HandedOver == received = Bytes(arrived)
=============================================================================
