---------------------------- MODULE FileTransfer ----------------------------
(***************************************************************************)
(* What reliable_sender and reliable_receiver promise together: the        *)
(* destination file grows by the next frames of the source file and by     *)
(* nothing else, the receiver stops exactly when the file is complete, and *)
(* the sender stops, successfully or not, only after that.                 *)
(* ("Both sender and receiver will exit once packet is fully sent and      *)
(* received", src/sliding-window-algorithm/readme.md:5.)                   *)
(***************************************************************************)
EXTENDS Integers, Sequences

CONSTANT NumFrames

VARIABLES
  out,          \* the destination file
  receiver,     \* "open" or "complete"
  sender        \* "active", "done" or "failed"

transferVars == <<out, receiver, sender>>

\* The first n frames of the source file.
Prefix(n) == [k \in 1 .. n |-> k - 1]

Init ==
  /\ out = << >>
  /\ receiver = "open"
  /\ sender = "active"

\* The receiver writes the next frames, one or more, and stops with the last.
Deliver ==
  /\ receiver = "open"
  /\ \E n \in Len(out) + 1 .. NumFrames :
       /\ out' = Prefix(n)
       /\ receiver' = IF n = NumFrames THEN "complete" ELSE "open"
  /\ UNCHANGED sender

\* The sender learns that the last frame has arrived, or finds the receiver gone.
Finish ==
  /\ sender = "active"
  /\ receiver = "complete"
  /\ sender' \in {"done", "failed"}
  /\ UNCHANGED <<out, receiver>>

Next == Deliver \/ Finish

Spec == Init /\ [][Next]_transferVars
=============================================================================
