------------------------ MODULE MCSlidingWindowNoWrap -----------------------
(***************************************************************************)
(* Model checking of SlidingWindow under the assumptions of the proofs:    *)
(* the sequence numbers do not wrap around, the windows fit, the           *)
(* uninitialized ack[] is harmless.  TLC checks the three ASSUMEs as well. *)
(***************************************************************************)
EXTENDS SlidingWindowProofs

HarmlessAck == -1
=============================================================================
