--------------------------- MODULE ReliableSender ---------------------------
(***************************************************************************)
(* src/sliding-window-algorithm/reliable_sender.cpp.  The program          *)
(* alternates between one pass over the window, which retransmits the      *)
(* frames that have timed out and fills the window from the file, and one  *)
(* recvfrom(), which returns an acknowledgement or gives up after 100 ms.  *)
(*                                                                         *)
(* A pass only writes to the socket, so it is one step.  Which frames have *)
(* timed out depends on clocks and on RTO: any subset may have.            *)
(***************************************************************************)
EXTENDS UdpChannel, Sequences

CONSTANTS
  SWS,          \* upper bound of the congestion window
  UninitAck     \* what the uninitialized ack[] buffer holds before any receipt

ASSUME SenderAssumption ==
  /\ SWS \in Nat \ {0}
  /\ UninitAck \in Int

VARIABLES
  windowBuf,        \* frames sent and not acknowledged, oldest first
  nextFrame,        \* frames read from the file so far (ftell)
  LAR,              \* last acknowledgement received, -1 before the first
  congestionWindow,
  lastFrameSeqNo,   \* sequence number of the last frame, -1 until it is read
  ack,              \* the buffer that recvfrom() fills, and leaves alone on a timeout
  spc               \* "sending", "waiting", "done" (returned) or "failed" (exit(1))

senderVars ==
  <<windowBuf, nextFrame, LAR, congestionWindow, lastFrameSeqNo, ack, spc>>

Frame == [seqNum : SeqNo, data : File, isEnd : BOOLEAN]

SenderTypeOK ==
  /\ windowBuf \in Seq(Frame)
  /\ nextFrame \in 0 .. NumFrames
  /\ LAR \in SeqNo \cup {-1}
  /\ congestionWindow \in 0 .. SWS
  /\ lastFrameSeqNo \in SeqNo \cup {-1}
  /\ ack \in SeqNo \cup {UninitAck}
  /\ spc \in {"sending", "waiting", "done", "failed"}

SenderInit ==
  /\ windowBuf = << >>
  /\ nextFrame = 0
  /\ LAR = -1
  /\ congestionWindow = SWS \div 2
  /\ lastFrameSeqNo = -1
  /\ ack = UninitAck
  /\ spc = "sending"

-----------------------------------------------------------------------------
\* One pass over the window. Positions count from 0 as the code's loop does;
\* `expired` is the set of positions whose frames have timed out.

Positions == 0 .. Len(windowBuf) - 1

\* The expired frames that the loop reaches as long as nothing changes its bound.
Reached(expired) == {i \in expired : i < congestionWindow}

\* The first expired frame of a pass halves the congestion window.
WindowAfter(expired) ==
  IF Reached(expired) # {} /\ congestionWindow > 1
    THEN congestionWindow \div 2
    ELSE congestionWindow

\* The loop retransmits the first expired frame in any case, and the others only
\* if they lie inside the halved window.
Resent(expired) ==
  {i \in Reached(expired) :
     \/ i < WindowAfter(expired)
     \/ \A j \in Reached(expired) : i <= j}

\* Mutation: `i <= congestionWindow` bounds the loop.
FreshCountOneMore(expired) ==
  LET room == WindowAfter(expired) + 1 - Len(windowBuf)
      left == NumFrames - nextFrame
  IN  IF room <= 0 THEN 0 ELSE IF room < left THEN room ELSE left

\* How many frames the pass reads from the file: what fits behind the window, or
\* what is left.
FreshCount(expired) ==
  LET room == WindowAfter(expired) - Len(windowBuf)
      left == NumFrames - nextFrame
  IN  IF room <= 0 THEN 0 ELSE IF room < left THEN room ELSE left

\* The k-th frame that the pass appends to windowBuf.
Fresh(k) ==
  [seqNum |-> (LAR + Len(windowBuf) + k) % MAX_SEQ_NO,
   data   |-> nextFrame + k - 1,
   isEnd  |-> nextFrame + k = NumFrames]

\* What is sent for position i of the window w: its number is computed from the
\* position and not taken from the stored frame.
Transmission(w, i) ==
  SendFrame((LAR + i + 1) % MAX_SEQ_NO, w[i + 1].data, w[i + 1].isEnd)

SendWindow(expired) ==
  LET n    == FreshCount(expired)
      sent == Resent(expired) \cup (Len(windowBuf) .. Len(windowBuf) + n - 1)
  IN  /\ spc = "sending"
      /\ windowBuf' = windowBuf \o [k \in 1 .. n |-> Fresh(k)]
      /\ nextFrame' = nextFrame + n
      /\ lastFrameSeqNo' = IF n > 0 /\ nextFrame + n = NumFrames
                             THEN Fresh(n).seqNum ELSE lastFrameSeqNo
      /\ congestionWindow' = WindowAfter(expired)
      /\ IF refused /\ sent # {}
           THEN \* sendto() reports the pending error and the program exits
                /\ spc' = "failed"
                /\ refused' = FALSE
                /\ UNCHANGED frames
           ELSE /\ spc' = "waiting"
                /\ frames' = frames \cup {Transmission(windowBuf', i) : i \in sent}
                /\ UNCHANGED refused
      /\ UNCHANGED <<LAR, ack, acks>>

-----------------------------------------------------------------------------
\* The rest of the loop body, once recvfrom() has returned.

\* C's %, which takes the sign of its left operand.
CMod(a, b) == IF a >= 0 THEN a % b ELSE -((-a) % b)

\* Position in the window of the frame that acknowledgement a names.
AckIdx(a) == CMod(a - (LAR + 1), MAX_SEQ_NO)

InsideWindow(a) == AckIdx(a) >= 0 /\ AckIdx(a) < Len(windowBuf)

\* Mutation: the window grows without bound.
WindowUnbounded == congestionWindow + 1

\* The window grows by one on every turn, whether or not an acknowledgement came.
WindowGrown ==
  IF congestionWindow < SWS THEN congestionWindow + 1 ELSE congestionWindow

\* Mutation: the frame acknowledged stays in the window.
UnacknowledgedAndLast(a) == SubSeq(windowBuf, AckIdx(a) + 1, Len(windowBuf))

\* An acknowledgement is cumulative: what is left after all frames up to the one
\* it names have been dropped.
Unacknowledged(a) == SubSeq(windowBuf, AckIdx(a) + 2, Len(windowBuf))

\* Mutation: LAR is not advanced.
ProcessAckWithoutLAR(a) ==
  /\ congestionWindow' = WindowGrown
  /\ \/ /\ InsideWindow(a) /\ lastFrameSeqNo = a
        /\ spc' = "done"
        /\ UNCHANGED windowBuf
     \/ /\ InsideWindow(a) /\ lastFrameSeqNo # a
        /\ windowBuf' = Unacknowledged(a)
        /\ spc' = "sending"
     \/ /\ ~ InsideWindow(a)
        /\ spc' = "sending"
        /\ UNCHANGED windowBuf
  /\ UNCHANGED <<nextFrame, lastFrameSeqNo, LAR>>

\* An acknowledgement of the last frame ends the program; any other of the window
\* slides it.
ProcessAck(a) ==
  /\ congestionWindow' = WindowGrown
  /\ \/ /\ InsideWindow(a) /\ lastFrameSeqNo = a
        /\ spc' = "done"
        /\ UNCHANGED <<windowBuf, LAR>>
     \/ /\ InsideWindow(a) /\ lastFrameSeqNo # a
        /\ windowBuf' = Unacknowledged(a)
        /\ LAR' = a
        /\ spc' = "sending"
     \/ /\ ~ InsideWindow(a)
        /\ spc' = "sending"
        /\ UNCHANGED <<windowBuf, LAR>>
  /\ UNCHANGED <<nextFrame, lastFrameSeqNo>>

ReceiveAck(a) ==
  /\ spc = "waiting" /\ ~ refused
  /\ a \in acks
  /\ acks' \in AfterReceipt(acks, a)
  /\ ack' = a
  /\ ProcessAck(a)
  /\ UNCHANGED <<frames, refused>>

\* recvfrom() timed out. The program goes on and processes what ack[] still holds.
ReceiveTimeout ==
  /\ spc = "waiting" /\ ~ refused
  /\ ProcessAck(ack)
  /\ UNCHANGED <<ack, frames, acks, refused>>

\* recvfrom() failed with ECONNREFUSED.
ReceiveRefused ==
  /\ spc = "waiting" /\ refused
  /\ spc' = "failed"
  /\ refused' = FALSE
  /\ UNCHANGED <<windowBuf, nextFrame, LAR, congestionWindow, lastFrameSeqNo, ack,
                 frames, acks>>
=============================================================================
