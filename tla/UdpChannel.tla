----------------------------- MODULE UdpChannel -----------------------------
(***************************************************************************)
(* The UDP path between reliable_sender and reliable_receiver, modelled    *)
(* from how src/sliding-window-algorithm/ uses it: sendto() hands over a   *)
(* datagram and recvfrom() may return any datagram under way.              *)
(*                                                                         *)
(* Each direction is the set of datagrams in flight.  A datagram may be    *)
(* lost, received in any order, and received again (it stays in flight     *)
(* after a receipt), so several copies of one datagram need no counting.   *)
(* This covers the netem losses and reorderings of the project's readme.   *)
(***************************************************************************)
EXTENDS Integers

CONSTANTS
  MAX_SEQ_NO,   \* sequence numbers are 0 .. MAX_SEQ_NO-1, both programs define it
  NumFrames     \* frames the file is cut into: bytes_to_xfer / MAX_DATA_SIZE, rounded up

ASSUME ChannelAssumption ==
  /\ MAX_SEQ_NO \in Nat \ {0}
  /\ NumFrames \in Nat

VARIABLES
  frames,       \* data datagrams in flight from the sender to the receiver
  acks,         \* acknowledgements in flight, each a sequence number
  refused       \* an ICMP port-unreachable waits on the sender's connected socket

channelVars == <<frames, acks, refused>>

SeqNo == 0 .. MAX_SEQ_NO - 1

\* The file, frame by frame. The bytes of a frame matter only in that no two
\* frames are to be confused, so a frame's data is its position in the file.
File == 0 .. NumFrames - 1

\* What create_send_frame packs and read_send_frame unpacks. The size field
\* travels with the data it measures.
Datagram == [seq : SeqNo, data : File, end : BOOLEAN]

SendFrame(seqNum, payload, isEnd) == [seq |-> seqNum, data |-> payload, end |-> isEnd]

ChannelTypeOK ==
  /\ frames \subseteq Datagram
  /\ acks \subseteq SeqNo
  /\ refused \in BOOLEAN

ChannelInit ==
  /\ frames = {}
  /\ acks = {}
  /\ refused = FALSE

\* What is left of the datagrams `under` once d has been received: the network
\* may still hold a second copy of it.
AfterReceipt(under, d) == {under, under \ {d}}
=============================================================================
