---------------------------- MODULE SlidingWindow ---------------------------
(***************************************************************************)
(* reliable_sender and reliable_receiver over the UDP path between them.   *)
(***************************************************************************)
EXTENDS ReliableSender, ReliableReceiver

vars == <<senderVars, receiverVars, channelVars>>

TypeOK == SenderTypeOK /\ ReceiverTypeOK /\ ChannelTypeOK

Init == SenderInit /\ ReceiverInit /\ ChannelInit

-----------------------------------------------------------------------------
\* The network.

LoseFrame(d) ==
  /\ d \in frames
  /\ frames' = frames \ {d}
  /\ UNCHANGED <<senderVars, receiverVars, acks, refused>>

\* An acknowledgement that is lost is one that the sender waits for in vain, so
\* the loss can be placed where the sender waits.
LoseAck(a) ==
  /\ spc = "waiting"
  /\ a \in acks
  /\ acks' = acks \ {a}
  /\ UNCHANGED <<senderVars, receiverVars, frames, refused>>

\* A frame reaches the port after the receiver has closed it: the host answers
\* with an ICMP error, which stays pending on the sender's connected socket.
PortUnreachable(d) ==
  /\ rpc = "closed"
  /\ spc \in {"sending", "waiting"}
  /\ d \in frames
  /\ frames' = frames \ {d}
  /\ refused' = TRUE
  /\ UNCHANGED <<senderVars, receiverVars, acks>>

-----------------------------------------------------------------------------
SenderNext ==
  /\ \/ \E expired \in SUBSET Positions : SendWindow(expired)
     \/ \E a \in acks : ReceiveAck(a)
     \/ ReceiveTimeout
     \/ ReceiveRefused
  /\ UNCHANGED receiverVars

ReceiverNext ==
  /\ \/ \E d \in frames : ReceiveFrame(d)
     \/ CloseReceiver
  /\ UNCHANGED senderVars

ChannelNext ==
  \/ \E d \in frames : LoseFrame(d) \/ PortUnreachable(d)
  \/ \E a \in acks : LoseAck(a)

\* Both programs have exited.
Finished == spc \in {"done", "failed"} /\ rpc = "closed"

Terminated == Finished /\ UNCHANGED vars

Next == SenderNext \/ ReceiverNext \/ ChannelNext \/ Terminated

Spec == Init /\ [][Next]_vars

(***************************************************************************)
(* Fairness.  Both programs keep running.  RTO is finite, so a frame at    *)
(* the front of the window that is never acknowledged times out again and  *)
(* again.  The network may lose a datagram any number of times but not     *)
(* every time it is sent; of the acknowledgements, this is said of those   *)
(* that the sender can still use.                                          *)
(***************************************************************************)
Fairness ==
  /\ WF_vars(SenderNext)
  /\ SF_vars(\E expired \in SUBSET Positions :
               0 \in expired /\ SendWindow(expired) /\ UNCHANGED receiverVars)
  /\ \A f \in File : SF_vars(\E d \in frames :
                               d.data = f /\ ReceiveFrame(d) /\ UNCHANGED senderVars)
  /\ SF_vars(\E a \in acks : InsideWindow(a) /\ ReceiveAck(a) /\ UNCHANGED receiverVars)
  /\ SF_vars(\E d \in frames : PortUnreachable(d))
  /\ WF_vars(CloseReceiver /\ UNCHANGED senderVars)

FairSpec == Spec /\ Fairness

-----------------------------------------------------------------------------
\* Safety. The numbers of the frames stand for their places in the file only
\* while they do not wrap; the runs say how many frames they send.

\* How many frames the sender has seen acknowledged and forgotten.
Discarded == nextFrame - Len(windowBuf)

\* The destination file is a prefix of the source file, whatever was lost,
\* repeated or reordered: no slot of the ring is written twice, early or under
\* another frame's number.
DeliveredInOrder == \A k \in 1 .. Len(written) : written[k] = k - 1

\* The sender drops a frame from windowBuf only when the receiver has written it;
\* what it drops can never be retransmitted.
AckedImpliesDelivered == Discarded <= Len(written)

\* The number a retransmission computes from LAR and the position in the window
\* is the number the frame was first sent with, and the window holds consecutive
\* frames of the file (the check that reliable_sender.cpp:358 has commented out).
WindowNumbered ==
  \A i \in 1 .. Len(windowBuf) :
    /\ windowBuf[i].seqNum = (LAR + i) % MAX_SEQ_NO
    /\ windowBuf[i].data = Discarded + i - 1

\* No frame is sent that the receiver could not buffer if it arrived now, in
\* whatever order the acknowledgements reach the sender.
ReceiverHasRoom == \A d \in frames : d.data < Len(written) + RWS

\* The sender exits, with or without an error, only after the whole file has been
\* written.
SenderStopsAfterDelivery == spc \in {"done", "failed"} => Len(written) = NumFrames

\* A turn of the sender in which nothing was received processes the previous
\* acknowledgement once more. That never moves the window or ends the program.
TimeoutNeverSlides == [][ReceiveTimeout => UNCHANGED <<windowBuf, LAR>> /\ spc' = "sending"]_vars

\* An acknowledgement that names a frame in the window is cumulative (readme.md:3):
\* receiving it drops that frame, or ends the program. All before it go as well, since the
\* window is a consecutive stretch of the file (WindowNumbered).
AckIsCumulative ==
  [][\A a \in acks :
       /\ ReceiveAck(a)
       /\ \E i \in 1 .. Len(windowBuf) : windowBuf[i].seqNum = a
       => spc' = "done" \/ \A i \in 1 .. Len(windowBuf') : windowBuf'[i].seqNum # a]_vars

\* The two programs together transfer the file as FileTransfer says.
Transfer == INSTANCE FileTransfer WITH
  out      <- written,
  receiver <- IF rpc = "receiving" THEN "open" ELSE "complete",
  sender   <- IF spc \in {"done", "failed"} THEN spc ELSE "active"

ImplementsTransfer == Transfer!Spec

\* Liveness: both programs exit in the end (readme.md:5).
BothExit == <>Finished
=============================================================================
