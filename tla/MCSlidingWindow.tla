--------------------------- MODULE MCSlidingWindow --------------------------
(***************************************************************************)
(* Model checking of SlidingWindow on small windows and short files.       *)
(***************************************************************************)
EXTENDS SlidingWindow

\* An uninitialized ack[] whose content names no frame of the first window.
HarmlessAck == -1

\* One that does: a zeroed stack word reads as the acknowledgement of frame 0.
ZeroAck == 0

(***************************************************************************)
(* A kind network, for the runs in which sequence numbers wrap around: no  *)
(* copy of a frame outlives its acknowledgement, and acknowledgements do   *)
(* not overtake one another.  MAX_SEQ_NO is 5000 in the program so that    *)
(* this may be assumed there.                                              *)
(***************************************************************************)
KindNetwork ==
  /\ \A d \in frames' : d.data >= Discarded'
  /\ \A a, b \in acks' : a = b
=============================================================================
