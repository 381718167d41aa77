-------------------------- MODULE ReliableReceiver --------------------------
(***************************************************************************)
(* src/sliding-window-algorithm/reliable_receiver.cpp.  One action per     *)
(* turn of the receive loop: a frame is read, handleRecvFrame buffers it,  *)
(* writes what is now contiguous to the file, and acknowledges.            *)
(*                                                                         *)
(* present[], buf[] and buf_data_size[] are always set and cleared         *)
(* together, so they are one ring here: a slot holds the data of a frame,  *)
(* or Empty where present[] is 0.                                          *)
(***************************************************************************)
EXTENDS UdpChannel, Sequences

CONSTANT RWS    \* frames the receiver can buffer

ASSUME ReceiverAssumption == RWS \in Nat \ {0}

VARIABLES
  buf,          \* the ring of RWS frame buffers
  NFE,          \* next frame expected, a sequence number
  endSeqNum,    \* sequence number of the last frame, -1 until it has been seen
  written,      \* the destination file, frame by frame
  rpc           \* "receiving", "closing" (out of the loop) or "closed"

receiverVars == <<buf, NFE, endSeqNum, written, rpc>>

Empty == -1
Slot == 0 .. RWS - 1

ReceiverTypeOK ==
  /\ buf \in [Slot -> File \cup {Empty}]
  /\ NFE \in SeqNo
  /\ endSeqNum \in SeqNo \cup {-1}
  /\ written \in Seq(File)
  /\ rpc \in {"receiving", "closing", "closed"}

ReceiverInit ==
  /\ buf = [s \in Slot |-> Empty]
  /\ NFE = 0
  /\ endSeqNum = -1
  /\ written = << >>
  /\ rpc = "receiving"

-----------------------------------------------------------------------------
\* handleRecvFrame, in the order of its statements.

\* The test that rejects a frame, for a frame numbered seqNum.
OutsideWindow(seqNum) == (seqNum + (MAX_SEQ_NO - NFE)) % MAX_SEQ_NO >= RWS

\* The ring once frame d has been copied into its slot; a slot in use is kept.
Buffered(d) ==
  LET idx == d.seq % RWS
  IN  IF buf[idx] = Empty THEN [buf EXCEPT ![idx] = d.data] ELSE buf

\* The slot that the delivery loop reads in its turn i. The code adds i to NFE
\* and reduces modulo RWS only, not modulo MAX_SEQ_NO first.
DeliverySlot(i) == (i + NFE) % RWS

\* With ring b, the delivery loop stops after n turns.
Contiguous(b, n) ==
  /\ \A i \in 0 .. n - 1 : b[DeliverySlot(i)] # Empty
  /\ n < RWS => b[DeliverySlot(n)] = Empty

\* Mutation: present[] is not reset.
NeverCleared(b, n) == b

\* The ring b after the loop has written and cleared n slots.
Cleared(b, n) ==
  [s \in Slot |-> IF \E i \in 0 .. n - 1 : s = DeliverySlot(i) THEN Empty ELSE b[s]]

\* What those n turns append to the file.
Run(b, n) == [k \in 1 .. n |-> b[DeliverySlot(k - 1)]]

\* Mutation: the frame expected is acknowledged instead of its predecessor.
AckExpected(next) == next

\* The acknowledgement sent while `next` is expected: its predecessor.
AckFor(next) == (next + MAX_SEQ_NO - 1) % MAX_SEQ_NO

\* Mutation: a frame outside the window is dropped in silence.
RejectSilently(d) ==
  /\ OutsideWindow(d.seq)
  /\ UNCHANGED <<acks, buf, NFE, written, rpc>>

\* A duplicate from before the window: acknowledged by its own number, since its
\* acknowledgement may have been the datagram that was lost.
RejectFrame(d) ==
  /\ OutsideWindow(d.seq)
  /\ acks' = acks \cup {d.seq}
  /\ UNCHANGED <<buf, NFE, written, rpc>>

\* Mutation: the receiver leaves once it has seen the last frame.
EndSeen == endSeqNum' >= 0

\* The last frame is in the file. To have received it is not enough, earlier
\* frames may be missing.
ReachedEnd == endSeqNum' >= 0 /\ AckFor(NFE') = endSeqNum'

\* A frame of the window: buffer it, write the contiguous run, acknowledge
\* cumulatively, and leave the loop when the last frame has been written.
AcceptFrame(d) ==
  /\ ~ OutsideWindow(d.seq)
  /\ \E n \in 0 .. RWS :
       /\ Contiguous(Buffered(d), n)
       /\ written' = written \o Run(Buffered(d), n)
       /\ buf' = Cleared(Buffered(d), n)
       /\ NFE' = (NFE + n) % MAX_SEQ_NO
  /\ acks' = acks \cup {AckFor(NFE')}
  /\ rpc' = IF ReachedEnd THEN "closing" ELSE rpc

ReceiveFrame(d) ==
  /\ rpc = "receiving"
  /\ d \in frames
  /\ frames' \in AfterReceipt(frames, d)
  /\ endSeqNum' = IF d.end THEN d.seq ELSE endSeqNum
  /\ RejectFrame(d) \/ AcceptFrame(d)
  /\ UNCHANGED refused

\* After the loop: the last acknowledgement is sent three more times, the file
\* and the socket are closed.
CloseReceiver ==
  /\ rpc = "closing"
  /\ acks' = acks \cup {AckFor(NFE)}
  /\ rpc' = "closed"
  /\ UNCHANGED <<buf, NFE, endSeqNum, written, frames, refused>>
=============================================================================
