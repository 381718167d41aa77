------------------------- MODULE SlidingWindowProofs ------------------------
(***************************************************************************)
(* Proofs about SlidingWindow, for every window size and every file that   *)
(* is short enough for its sequence numbers not to wrap around.            *)
(***************************************************************************)
EXTENDS SlidingWindow, SequenceTheorems, TLAPS

\* The file is cut into at most MAX_SEQ_NO - RWS frames (4830 frames, 7 MB).
ASSUME NoWrap == NumFrames + RWS <= MAX_SEQ_NO

\* The sender's largest window fits the receiver's (both are 170).
ASSUME WindowsFit == SWS <= RWS

\* The uninitialized ack[] names no frame of the first window.
ASSUME HarmlessUninitAck == CMod(UninitAck, MAX_SEQ_NO) \notin 0 .. SWS - 1

-----------------------------------------------------------------------------
(* Remainders: sequence numbers modulo MAX_SEQ_NO, ring slots modulo RWS.   *)

\* A number below the divisor is its own remainder.
LEMMA ModSmall ==
  ASSUME NEW m \in Nat \ {0}, NEW x \in 0 .. m - 1
  PROVE  x % m = x
  BY SMT

\* A number that has wrapped around once.
LEMMA ModOnce ==
  ASSUME NEW m \in Nat \ {0}, NEW x \in m .. 2 * m - 1
  PROVE  x % m = x - m
  BY SMT

\* Remainders lie below the divisor.
LEMMA ModRange ==
  ASSUME NEW m \in Nat \ {0}, NEW x \in Int
  PROVE  x % m \in 0 .. m - 1
  BY SMT

\* Division with remainder.
LEMMA ModDiv ==
  ASSUME NEW m \in Nat \ {0}, NEW x \in Int
  PROVE  x = m * (x \div m) + (x % m)
  BY SMT

\* A multiple of m between -m and m is 0.
LEMMA SmallMultiple ==
  ASSUME NEW m \in Nat \ {0}, NEW k \in Int, NEW d \in Int,
         d = m * k, -m < d, d < m
  PROVE  d = 0
  BY Z3

\* Two numbers less than m apart that have the same remainder are equal: a ring
\* of m slots has a slot for each of m consecutive numbers.
LEMMA ModUnique ==
  ASSUME NEW m \in Nat \ {0}, NEW x \in Int, NEW y \in Int,
         x % m = y % m, x - y < m, y - x < m
  PROVE  x = y
<1> DEFINE k == (x \div m) - (y \div m)
           d == x - y
<1>1. k \in Int /\ d \in Int
  BY SMT
<1>2. d = m * k
  <2>1. x = m * (x \div m) + (x % m)
    BY ModDiv
  <2>2. y = m * (y \div m) + (y % m)
    BY ModDiv
  <2>3. (x \div m) \in Int /\ (y \div m) \in Int
    BY SMT
  <2>4. QED
    BY <2>1, <2>2, <2>3, SMT
<1>3. -m < d /\ d < m
  BY SMT
<1>4. d = 0
  <2> HIDE DEF k, d
  <2>1. QED
    BY <1>1, <1>2, <1>3, SmallMultiple
<1>5. QED
  BY <1>4, SMT

-----------------------------------------------------------------------------
\* The inductive invariant. Without wrap-around a sequence number is a place in
\* the file, so every number in the system can be compared with every other.

FileFrame(n) == [seqNum |-> n, data |-> n, isEnd |-> n = NumFrames - 1]

\* The window is the stretch of the file from LAR + 1 to nextFrame - 1.
WindowInv ==
  /\ LAR = Discarded - 1
  /\ Len(windowBuf) <= SWS
  /\ \A i \in 1 .. Len(windowBuf) : windowBuf[i] = FileFrame(LAR + i)
  /\ lastFrameSeqNo = IF nextFrame = NumFrames /\ NumFrames > 0 THEN NumFrames - 1 ELSE -1

\* The receiver is behind what has been read and ahead of what has been dropped.
DeliveryInv ==
  /\ NFE = Len(written)
  /\ Discarded <= Len(written)
  /\ Len(written) <= nextFrame
  /\ DeliveredInOrder

\* A frame v buffered in slot s lies in the window, in the slot of its number.
InSlot(v, s) ==
  /\ NFE <= v /\ v < NFE + RWS
  /\ v < nextFrame
  /\ v % RWS = s
  /\ v = NumFrames - 1 => endSeqNum = NumFrames - 1

RingInv == \A s \in Slot : buf[s] # Empty => InSlot(buf[s], s)

\* Who may have stopped.
EndInv ==
  /\ endSeqNum \in {-1, NumFrames - 1}
  /\ rpc # "receiving" => Len(written) = NumFrames
  /\ rpc = "receiving" => Len(written) < NumFrames \/ NumFrames = 0
  /\ spc \in {"done", "failed"} => rpc # "receiving"
  /\ refused => rpc = "closed"

\* An acknowledgement names a frame that has been written, or none at all.
Truthful(a) == a < Len(written) \/ a = MAX_SEQ_NO - 1

NetworkInv ==
  /\ \A d \in frames : /\ d.seq = d.data
                       /\ d.data < nextFrame
                       /\ d.end = (d.data = NumFrames - 1)
  /\ \A a \in acks : Truthful(a)

\* What ack[] holds has had its effect: its frame is dropped already, or it names
\* no frame.
SettledInv ==
  spc # "done" => \/ ack \in SeqNo /\ (ack <= LAR \/ ack = MAX_SEQ_NO - 1)
                  \/ ack = UninitAck /\ LAR = -1

IInv ==
  /\ TypeOK
  /\ WindowInv
  /\ DeliveryInv
  /\ RingInv
  /\ EndInv
  /\ NetworkInv
  /\ SettledInv

-----------------------------------------------------------------------------
\* The constants, all assumptions together.
LEMMA Constants ==
  /\ MAX_SEQ_NO \in Nat \ {0} /\ NumFrames \in Nat
  /\ RWS \in Nat \ {0} /\ SWS \in Nat \ {0} /\ UninitAck \in Int
  /\ NumFrames + RWS <= MAX_SEQ_NO
  /\ SWS <= RWS
  BY ChannelAssumption, ReceiverAssumption, SenderAssumption, NoWrap, WindowsFit

\* What the receiver acknowledges: the frame before the next one expected, and
\* MAX_SEQ_NO - 1 before the first.
LEMMA AckForValue ==
  ASSUME NEW next \in 0 .. NumFrames
  PROVE  /\ next > 0 => AckFor(next) = next - 1
         /\ next = 0 => AckFor(next) = MAX_SEQ_NO - 1
<1>1. CASE next > 0
  <2>1. next + MAX_SEQ_NO - 1 \in MAX_SEQ_NO .. 2 * MAX_SEQ_NO - 1
    BY <1>1, Constants, SMT
  <2>2. (next + MAX_SEQ_NO - 1) % MAX_SEQ_NO = next + MAX_SEQ_NO - 1 - MAX_SEQ_NO
    BY <2>1, Constants, ModOnce
  <2>3. QED
    BY <1>1, <2>2, Constants, SMT DEF AckFor
<1>2. CASE next = 0
  <2>1. next + MAX_SEQ_NO - 1 \in 0 .. MAX_SEQ_NO - 1
    BY <1>2, Constants, SMT
  <2>2. (next + MAX_SEQ_NO - 1) % MAX_SEQ_NO = next + MAX_SEQ_NO - 1
    BY <2>1, Constants, ModSmall
  <2>3. QED
    BY <1>2, <2>2, Constants, SMT DEF AckFor
<1>3. QED
  BY <1>1, <1>2, SMT

\* A frame below the end of the receiver's window is outside it exactly if it has
\* been written already.
LEMMA OutsideIffWritten ==
  ASSUME NFE \in 0 .. NumFrames, NEW n \in 0 .. NumFrames - 1, n < NFE + RWS
  PROVE  OutsideWindow(n) <=> n < NFE
<1> DEFINE x == n + (MAX_SEQ_NO - NFE)
<1>1. CASE n < NFE
  <2>1. x \in 0 .. MAX_SEQ_NO - 1 /\ x >= RWS
    BY <1>1, Constants, SMT
  <2>2. x % MAX_SEQ_NO = x
    BY <2>1, Constants, ModSmall
  <2>3. QED
    BY <1>1, <2>1, <2>2, SMT DEF OutsideWindow
<1>2. CASE n >= NFE
  <2>1. x \in MAX_SEQ_NO .. 2 * MAX_SEQ_NO - 1 /\ x - MAX_SEQ_NO < RWS
    BY <1>2, Constants, SMT
  <2>2. x % MAX_SEQ_NO = x - MAX_SEQ_NO
    BY <2>1, Constants, ModOnce
  <2>3. QED
    BY <1>2, <2>1, <2>2, Constants, SMT DEF OutsideWindow
<1>3. QED
  BY <1>1, <1>2, Constants, SMT

\* The position of an acknowledgement: counted from the window's start, negative
\* before it, and never reduced by C's % while numbers do not wrap.
LEMMA AckIdxValue ==
  ASSUME LAR \in -1 .. NumFrames - 1, NEW a \in SeqNo
  PROVE  AckIdx(a) = a - (LAR + 1)
<1>1. CASE a > LAR
  <2>1. a - (LAR + 1) \in 0 .. MAX_SEQ_NO - 1
    BY <1>1, Constants, SMT DEF SeqNo
  <2>2. (a - (LAR + 1)) % MAX_SEQ_NO = a - (LAR + 1)
    BY <2>1, Constants, ModSmall
  <2>3. QED
    BY <1>1, <2>1, <2>2, Constants, SMT DEF AckIdx, CMod, SeqNo
<1>2. CASE a <= LAR
  <2>1. /\ a - (LAR + 1) < 0
        /\ -(a - (LAR + 1)) \in 0 .. MAX_SEQ_NO - 1
    BY <1>2, Constants, SMT DEF SeqNo
  <2>2. (-(a - (LAR + 1))) % MAX_SEQ_NO = -(a - (LAR + 1))
    BY <2>1, Constants, ModSmall
  <2>3. QED
    BY <1>2, <2>1, <2>2, Constants, SMT DEF AckIdx, CMod, SeqNo
<1>3. QED
  BY <1>1, <1>2, Constants, SMT DEF SeqNo

\* The initial states satisfy the invariant.
LEMMA InitInv == Init => IInv
<1> SUFFICES ASSUME Init PROVE IInv
  OBVIOUS
<1> USE DEF Init, SenderInit, ReceiverInit, ChannelInit
<1>1. TypeOK
  BY Constants, SMT DEF TypeOK, SenderTypeOK, ReceiverTypeOK, ChannelTypeOK, SeqNo, File, Slot, Empty
<1>2. WindowInv
  <2>1. Len(windowBuf) = 0 /\ 1 .. 0 = {}
    BY SMT
  <2>2. \A i \in 1 .. Len(windowBuf) : windowBuf[i] = FileFrame(LAR + i)
    BY <2>1, Zenon
  <2>3. LAR = Discarded - 1 /\ Len(windowBuf) <= SWS
    <3>1. Discarded = 0 - 0 /\ LAR = -1
      BY <2>1, Zenon DEF Discarded
    <3>2. QED
      BY <2>1, <3>1, Constants, SMT
  <2>4. lastFrameSeqNo = IF nextFrame = NumFrames /\ NumFrames > 0 THEN NumFrames - 1 ELSE -1
    BY Constants, SMT
  <2>5. QED
    BY <2>2, <2>3, <2>4, Zenon DEF WindowInv
<1>3. DeliveryInv
  BY Constants, SMT DEF DeliveryInv, Discarded, DeliveredInOrder
<1>4. RingInv
  BY DEF RingInv, Empty
<1>5. EndInv
  BY Constants, SMT DEF EndInv
<1>6. NetworkInv /\ SettledInv
  BY Constants, SMT DEF NetworkInv, SettledInv
<1>7. QED
  BY <1>1, <1>2, <1>3, <1>4, <1>5, <1>6 DEF IInv

-----------------------------------------------------------------------------
\* A pass over the window. What it appends continues the window along the file,
\* and what it sends is numbered as it is stored.

\* How far a pass can read.
LEMMA FreshCountBounds ==
  ASSUME TypeOK, NEW expired \in SUBSET Positions
  PROVE  /\ WindowAfter(expired) \in 0 .. SWS
         /\ FreshCount(expired) \in 0 .. NumFrames - nextFrame
         /\ FreshCount(expired) > 0 => Len(windowBuf) + FreshCount(expired) <= SWS
<1>1. congestionWindow \in 0 .. SWS /\ nextFrame \in 0 .. NumFrames /\ Len(windowBuf) \in Nat
  BY LenProperties, Zenon DEF TypeOK, SenderTypeOK
<1>2. WindowAfter(expired) \in 0 .. SWS
  BY <1>1, Constants, SMT DEF WindowAfter
<1>3. QED
  <2> HIDE DEF WindowAfter
  <2>1. QED
    BY <1>1, <1>2, Constants, SMT DEF FreshCount

\* The k-th frame appended is the frame of the file that comes next.
LEMMA FreshIsNext ==
  ASSUME TypeOK, WindowInv, NEW n \in 0 .. NumFrames - nextFrame, NEW k \in 1 .. n
  PROVE  /\ Fresh(k) = FileFrame(LAR + Len(windowBuf) + k)
         /\ LAR + Len(windowBuf) + k = nextFrame + k - 1
         /\ nextFrame + k - 1 \in File
<1>1. nextFrame \in 0 .. NumFrames /\ Len(windowBuf) \in Nat
  BY LenProperties, Zenon DEF TypeOK, SenderTypeOK
<1>2. LAR + Len(windowBuf) + k = nextFrame + k - 1
  BY <1>1, SMT DEF WindowInv, Discarded
<1>3. nextFrame + k - 1 \in 0 .. MAX_SEQ_NO - 1 /\ nextFrame + k - 1 \in File
  BY <1>1, Constants, SMT DEF File
<1>4. (LAR + Len(windowBuf) + k) % MAX_SEQ_NO = nextFrame + k - 1
  BY <1>2, <1>3, Constants, ModSmall
<1>5. (nextFrame + k = NumFrames) = (nextFrame + k - 1 = NumFrames - 1)
  BY <1>1, Constants, SMT
<1>6. QED
  BY <1>2, <1>3, <1>4, <1>5 DEF Fresh, FileFrame

LEMMA FileFrameType ==
  ASSUME NEW n \in File
  PROVE  FileFrame(n) \in Frame
  BY Constants, SMT DEF FileFrame, Frame, File, SeqNo

\* The window after a pass.
LEMMA SendWindowBuffer ==
  ASSUME IInv, NEW expired \in SUBSET Positions, SendWindow(expired)
  PROVE  /\ windowBuf' \in Seq(Frame)
         /\ Len(windowBuf') = Len(windowBuf) + FreshCount(expired)
         /\ Len(windowBuf') <= SWS
         /\ \A i \in 1 .. Len(windowBuf') : windowBuf'[i] = FileFrame(LAR + i)
         /\ nextFrame' = nextFrame + FreshCount(expired)
         /\ nextFrame' \in 0 .. NumFrames
<1> DEFINE n == FreshCount(expired)
           tail == [k \in 1 .. n |-> Fresh(k)]
<1>1. /\ n \in 0 .. NumFrames - nextFrame
      /\ n > 0 => Len(windowBuf) + n <= SWS
  BY FreshCountBounds DEF IInv
<1>2. /\ windowBuf' = windowBuf \o tail
      /\ nextFrame' = nextFrame + n
  BY Zenon DEF SendWindow
<1>3. windowBuf \in Seq(Frame) /\ Len(windowBuf) \in Nat /\ nextFrame \in 0 .. NumFrames
  BY LenProperties, Zenon DEF IInv, TypeOK, SenderTypeOK
<1> HIDE DEF n
<1>4. \A k \in 1 .. n : /\ Fresh(k) = FileFrame(LAR + Len(windowBuf) + k)
                        /\ Fresh(k) \in Frame
  BY <1>1, FreshIsNext, FileFrameType DEF IInv
<1>5. n \in Nat
  BY <1>1, <1>3, Constants, SMT
<1>6. tail \in Seq(Frame) /\ Len(tail) = n
  BY <1>4, <1>5, SMT
<1>7. /\ windowBuf' \in Seq(Frame)
      /\ Len(windowBuf') = Len(windowBuf) + n
      /\ \A i \in 1 .. Len(windowBuf) + n :
           windowBuf'[i] = IF i <= Len(windowBuf) THEN windowBuf[i] ELSE tail[i - Len(windowBuf)]
  <2> HIDE DEF tail
  <2>1. QED
    BY <1>2, <1>3, <1>6, ConcatProperties, Zenon
<1>8. ASSUME NEW i \in 1 .. Len(windowBuf')
      PROVE  windowBuf'[i] = FileFrame(LAR + i)
  <2>1. LAR \in Int
    BY Constants, SMT DEF IInv, TypeOK, SenderTypeOK, SeqNo
  <2>2. CASE i <= Len(windowBuf)
    <3>1. i \in 1 .. Len(windowBuf) /\ i \in 1 .. Len(windowBuf) + n
      BY <1>3, <1>5, <2>2, SMT
    <3>2. windowBuf[i] = FileFrame(LAR + i)
      BY <3>1 DEF IInv, WindowInv
    <3>3. QED
      BY <1>7, <2>2, <3>1, <3>2, Zenon
  <2>3. CASE i > Len(windowBuf)
    <3>1. /\ i \in 1 .. Len(windowBuf) + n
          /\ i - Len(windowBuf) \in 1 .. n
          /\ ~ i <= Len(windowBuf)
          /\ LAR + Len(windowBuf) + (i - Len(windowBuf)) = LAR + i
      BY <1>3, <1>5, <1>7, <2>1, <2>3, SMT
    <3>2. tail[i - Len(windowBuf)] = Fresh(i - Len(windowBuf))
      BY <3>1, Zenon
    <3>3. QED
      <4> HIDE DEF tail
      <4>1. QED
        BY <1>4, <1>7, <3>1, <3>2
  <2>4. QED
    BY <1>3, <1>7, <2>2, <2>3, SMT
<1>9. Len(windowBuf') <= SWS
  BY <1>1, <1>3, <1>5, <1>7, Constants, SMT DEF IInv, WindowInv
<1>10. nextFrame' \in 0 .. NumFrames
  BY <1>1, <1>2, <1>3, Constants, SMT
<1>11. QED
  BY <1>2, <1>7, <1>8, <1>9, <1>10 DEF n

\* What a pass sends is what is stored, number included.
LEMMA SendWindowFrames ==
  ASSUME IInv, NEW expired \in SUBSET Positions, SendWindow(expired)
  PROVE  \A d \in frames' : /\ d \in Datagram
                            /\ d.seq = d.data
                            /\ d.data < nextFrame'
                            /\ d.end = (d.data = NumFrames - 1)
<1> SUFFICES ASSUME NEW d \in frames'
             PROVE  /\ d \in Datagram
                    /\ d.seq = d.data
                    /\ d.data < nextFrame'
                    /\ d.end = (d.data = NumFrames - 1)
  OBVIOUS
<1> DEFINE n == FreshCount(expired)
           sent == Resent(expired) \cup (Len(windowBuf) .. Len(windowBuf) + n - 1)
<1>1. n \in 0 .. NumFrames - nextFrame
  BY FreshCountBounds DEF IInv
<1>2. /\ Len(windowBuf) \in Nat /\ nextFrame \in 0 .. NumFrames
      /\ LAR = nextFrame - Len(windowBuf) - 1 /\ LAR \in -1 .. MAX_SEQ_NO - 1
      /\ frames \subseteq Datagram
  BY LenProperties, Constants, SMT
     DEF IInv, TypeOK, SenderTypeOK, ChannelTypeOK, WindowInv, Discarded, SeqNo
<1>3. /\ Len(windowBuf') = Len(windowBuf) + n
      /\ \A i \in 1 .. Len(windowBuf') : windowBuf'[i] = FileFrame(LAR + i)
      /\ nextFrame' = nextFrame + n
      /\ nextFrame' \in 0 .. NumFrames
  BY SendWindowBuffer
<1>4. d \in frames \/ \E i \in sent : d = Transmission(windowBuf', i)
  BY Zenon DEF SendWindow
<1>5. sent \subseteq 0 .. Len(windowBuf') - 1
  <2>1. Resent(expired) \subseteq 0 .. Len(windowBuf) - 1
    BY Zenon DEF Resent, Reached, Positions
  <2> HIDE DEF n
  <2>2. QED
    BY <1>1, <1>2, <1>3, <2>1, Constants, SMT
<1> HIDE DEF n, sent
<1>6. CASE d \in frames
  <2>1. d \in Datagram /\ d.seq = d.data /\ d.data < nextFrame /\ d.end = (d.data = NumFrames - 1)
    BY <1>2, <1>6 DEF IInv, NetworkInv
  <2>2. d.data \in Int
    BY <2>1, Constants, SMT DEF Datagram, File
  <2>3. QED
    BY <1>1, <1>2, <1>3, <2>1, <2>2, Constants, SMT
<1>7. ASSUME NEW i \in sent, d = Transmission(windowBuf', i)
      PROVE  /\ d \in Datagram
             /\ d.seq = d.data
             /\ d.data < nextFrame'
             /\ d.end = (d.data = NumFrames - 1)
  <2>1. /\ i \in 0 .. Len(windowBuf') - 1 /\ i + 1 \in 1 .. Len(windowBuf')
        /\ LAR + i + 1 \in 0 .. MAX_SEQ_NO - 1
        /\ LAR + (i + 1) = LAR + i + 1
        /\ LAR + i + 1 \in File
        /\ LAR + i + 1 < nextFrame'
    BY <1>1, <1>2, <1>3, <1>5, <1>7, Constants, SMT DEF File
  <2>2. windowBuf'[i + 1] = FileFrame(LAR + i + 1)
    BY <1>3, <2>1
  <2>3. (LAR + i + 1) % MAX_SEQ_NO = LAR + i + 1
    BY <2>1, Constants, ModSmall
  <2>4. d = [seq |-> LAR + i + 1, data |-> LAR + i + 1, end |-> LAR + i + 1 = NumFrames - 1]
    BY <1>7, <2>2, <2>3 DEF Transmission, SendFrame, FileFrame
  <2>5. QED
    BY <2>1, <2>4, SMT DEF Datagram, SeqNo
<1>8. QED
  BY <1>4, <1>6, <1>7, Zenon

LEMMA SendWindowInv ==
  ASSUME IInv, NEW expired \in SUBSET Positions, SendWindow(expired), UNCHANGED receiverVars
  PROVE  IInv'
<1> DEFINE n == FreshCount(expired)
<1>1. UNCHANGED <<LAR, ack, acks, buf, NFE, endSeqNum, written, rpc>>
  BY Zenon DEF SendWindow, receiverVars
<1>2. /\ windowBuf' \in Seq(Frame)
      /\ Len(windowBuf') = Len(windowBuf) + n
      /\ Len(windowBuf') <= SWS
      /\ \A i \in 1 .. Len(windowBuf') : windowBuf'[i] = FileFrame(LAR + i)
      /\ nextFrame' = nextFrame + n
      /\ nextFrame' \in 0 .. NumFrames
  BY SendWindowBuffer
<1>3. \A d \in frames' : /\ d \in Datagram
                         /\ d.seq = d.data
                         /\ d.data < nextFrame'
                         /\ d.end = (d.data = NumFrames - 1)
  BY SendWindowFrames
<1>4. n \in 0 .. NumFrames - nextFrame /\ WindowAfter(expired) \in 0 .. SWS
  BY FreshCountBounds DEF IInv
<1>5. nextFrame \in 0 .. NumFrames /\ Len(windowBuf) \in Nat
  BY LenProperties, Zenon DEF IInv, TypeOK, SenderTypeOK
<1>6. lastFrameSeqNo' = IF nextFrame' = NumFrames /\ NumFrames > 0 THEN NumFrames - 1 ELSE -1
  <2>1. lastFrameSeqNo' = IF n > 0 /\ nextFrame + n = NumFrames
                            THEN Fresh(n).seqNum ELSE lastFrameSeqNo
    BY Zenon DEF SendWindow
  <2> HIDE DEF n
  <2>2. CASE n > 0 /\ nextFrame + n = NumFrames
    <3>1. n \in 1 .. n
      BY <1>4, <1>5, <2>2, Constants, SMT
    <3>2. /\ Fresh(n) = FileFrame(LAR + Len(windowBuf) + n)
          /\ LAR + Len(windowBuf) + n = nextFrame + n - 1
      BY <1>4, <3>1, FreshIsNext DEF IInv
    <3>3. Fresh(n).seqNum = NumFrames - 1
      <4>1. nextFrame + n - 1 = NumFrames - 1
        BY <1>4, <1>5, <2>2, Constants, SMT
      <4>2. QED
        BY <3>2, <4>1 DEF FileFrame
    <3>4. nextFrame' = NumFrames /\ NumFrames > 0
      BY <1>2, <1>4, <1>5, <2>2, Constants, SMT
    <3>5. QED
      BY <2>1, <2>2, <3>3, <3>4, Zenon
  <2>3. CASE ~ (n > 0 /\ nextFrame + n = NumFrames)
    BY <1>2, <1>4, <1>5, <2>1, <2>3, Constants, SMT DEF IInv, WindowInv
  <2>4. QED
    BY <2>2, <2>3
<1>7. /\ congestionWindow' = WindowAfter(expired)
      /\ \/ spc' = "failed" /\ refused = TRUE /\ refused' = FALSE
         \/ spc' = "waiting" /\ refused' = refused
      /\ spc = "sending"
  BY DEF SendWindow, IInv, TypeOK, ChannelTypeOK
<1>8. Discarded' = Discarded
  <2> HIDE DEF n
  <2>1. QED
    BY <1>2, <1>4, <1>5, Constants, SMT DEF Discarded
<1>9. TypeOK'
  <2>1. SenderTypeOK'
    BY <1>1, <1>2, <1>4, <1>6, <1>7, Constants, SMT DEF IInv, TypeOK, SenderTypeOK, SeqNo
  <2>2. ReceiverTypeOK'
    BY <1>1, Zenon DEF IInv, TypeOK, ReceiverTypeOK
  <2>3. ChannelTypeOK'
    BY <1>1, <1>3, <1>7, Zenon DEF IInv, TypeOK, ChannelTypeOK
  <2>4. QED
    BY <2>1, <2>2, <2>3 DEF TypeOK
<1>10. WindowInv'
  BY <1>1, <1>2, <1>6, <1>8, Zenon DEF IInv, WindowInv
<1>11. Len(written) \in Nat /\ nextFrame <= nextFrame'
  <2>1. Len(written) \in Nat
    BY LenProperties, Zenon DEF IInv, TypeOK, ReceiverTypeOK
  <2> HIDE DEF n
  <2>2. QED
    BY <1>2, <1>4, <1>5, <2>1, Constants, SMT
<1>12. DeliveryInv'
  <2>1. DeliveredInOrder'
    BY <1>1, Zenon DEF IInv, DeliveryInv, DeliveredInOrder
  <2>2. Len(written)' <= nextFrame'
    BY <1>1, <1>2, <1>5, <1>11, Constants, SMT DEF IInv, DeliveryInv
  <2>3. QED
    BY <1>1, <1>8, <2>1, <2>2, Zenon DEF IInv, DeliveryInv
<1>13. RingInv'
  <2> SUFFICES ASSUME NEW s \in Slot, buf[s] # Empty
               PROVE  InSlot(buf[s], s)'
    BY <1>1, Zenon DEF RingInv, Slot
  <2>1. InSlot(buf[s], s) /\ buf[s] \in Int
    BY Constants, SMT DEF IInv, RingInv, TypeOK, ReceiverTypeOK, File, Empty
  <2>2. buf[s] < nextFrame'
    BY <1>2, <1>5, <1>11, <2>1, Constants, SMT DEF InSlot
  <2>3. QED
    BY <1>1, <2>1, <2>2, Zenon DEF InSlot
<1>14. EndInv'
  <2>1. spc' \in {"done", "failed"} => rpc' # "receiving"
    BY <1>1, <1>7 DEF IInv, EndInv
  <2>2. refused' => rpc' = "closed"
    BY <1>1, <1>7, Zenon DEF IInv, EndInv
  <2>3. QED
    BY <1>1, <2>1, <2>2, Zenon DEF IInv, EndInv
<1>15. NetworkInv'
  BY <1>1, <1>3, Zenon DEF IInv, NetworkInv, Truthful
<1>16. SettledInv'
  BY <1>1, <1>7 DEF IInv, SettledInv
<1>17. QED
  BY <1>9, <1>10, <1>12, <1>13, <1>14, <1>15, <1>16 DEF IInv

-----------------------------------------------------------------------------
\* Acknowledgements. Numbers that the sender may process: those that arrived, and
\* the uninitialized one as long as none has.
Processable(a) ==
  \/ a \in SeqNo /\ Truthful(a)
  \/ a = UninitAck /\ LAR = -1

\* Ranges that the steps below use over and over.
LEMMA Ranges ==
  ASSUME IInv
  PROVE  /\ windowBuf \in Seq(Frame) /\ Len(windowBuf) \in Nat
         /\ nextFrame \in 0 .. NumFrames
         /\ LAR \in -1 .. NumFrames - 1
         /\ LAR = nextFrame - Len(windowBuf) - 1
         /\ Len(written) \in Nat /\ Len(written) <= nextFrame
         /\ LAR < Len(written)
         /\ NFE = Len(written)
<1>1. /\ windowBuf \in Seq(Frame) /\ Len(windowBuf) \in Nat
      /\ nextFrame \in 0 .. NumFrames /\ Len(written) \in Nat
  BY LenProperties, Zenon DEF IInv, TypeOK, SenderTypeOK, ReceiverTypeOK
<1>2. LAR = nextFrame - Len(windowBuf) - 1 /\ LAR \in -1 .. MAX_SEQ_NO - 1
  BY Constants, SMT DEF IInv, TypeOK, SenderTypeOK, WindowInv, Discarded, SeqNo
<1>3. /\ NFE = Len(written)
      /\ nextFrame - Len(windowBuf) <= Len(written)
      /\ Len(written) <= nextFrame
  BY DEF IInv, DeliveryInv, Discarded
<1>4. LAR \in -1 .. NumFrames - 1 /\ LAR < Len(written)
  BY <1>1, <1>2, <1>3, Constants, SMT
<1>5. QED
  BY <1>1, <1>2, <1>3, <1>4

\* An acknowledgement inside the window is of a frame that has been written.
LEMMA InsideIsWritten ==
  ASSUME IInv, NEW a, Processable(a), InsideWindow(a)
  PROVE  /\ a \in SeqNo
         /\ LAR < a /\ a < Len(written)
         /\ AckIdx(a) = a - (LAR + 1)
         /\ ~ (a = UninitAck /\ LAR = -1)
<1>1. CASE a \in SeqNo /\ Truthful(a) /\ ~ (a = UninitAck /\ LAR = -1)
  <2>1. AckIdx(a) >= 0 /\ AckIdx(a) < Len(windowBuf)
    BY DEF InsideWindow
  <2>2. AckIdx(a) = a - (LAR + 1)
    BY <1>1, AckIdxValue, Ranges
  <2>3. a \in 0 .. MAX_SEQ_NO - 1
    BY <1>1 DEF SeqNo
  <2>4. LAR < a /\ a # MAX_SEQ_NO - 1
    BY <2>1, <2>2, <2>3, Ranges, Constants, SMT
  <2>5. QED
    BY <1>1, <2>2, <2>4 DEF Truthful
<1>2. CASE a = UninitAck /\ LAR = -1
  <2>1. AckIdx(a) = CMod(UninitAck, MAX_SEQ_NO)
    <3>1. a - (LAR + 1) = UninitAck
      BY <1>2, Constants, SMT
    <3>2. QED
      BY <3>1 DEF AckIdx
  <2>2. CMod(UninitAck, MAX_SEQ_NO) \in Int
    BY Constants, ModRange, SMT DEF CMod
  <2>3. AckIdx(a) \notin 0 .. SWS - 1
    BY <2>1, HarmlessUninitAck
  <2>4. AckIdx(a) \in 0 .. SWS - 1
    BY <2>1, <2>2, Ranges, Constants, SMT DEF InsideWindow, IInv, WindowInv
  <2>5. QED
    BY <2>3, <2>4
<1>3. QED
  BY <1>1, <1>2 DEF Processable

\* One outside it has had its effect, or names no frame.
LEMMA OutsideIsSettled ==
  ASSUME IInv, NEW a, Processable(a), ~ InsideWindow(a)
  PROVE  \/ a \in SeqNo /\ (a <= LAR \/ a = MAX_SEQ_NO - 1)
         \/ a = UninitAck /\ LAR = -1
<1>1. SUFFICES ASSUME a \in SeqNo, Truthful(a), ~ (a <= LAR \/ a = MAX_SEQ_NO - 1)
               PROVE  FALSE
  BY DEF Processable
<1>2. AckIdx(a) = a - (LAR + 1)
  BY <1>1, AckIdxValue, Ranges
<1>3. a \in 0 .. MAX_SEQ_NO - 1 /\ a < Len(written)
  BY <1>1 DEF SeqNo, Truthful
<1>4. AckIdx(a) >= 0 /\ AckIdx(a) < Len(windowBuf)
  BY <1>1, <1>2, <1>3, Ranges, Constants, SMT
<1>5. QED
  BY <1>4 DEF InsideWindow

\* A frame of the window that is acknowledged is found by its number.
LEMMA WindowNumberIsInside ==
  ASSUME IInv, NEW i \in 1 .. Len(windowBuf)
  PROVE  /\ windowBuf[i].seqNum = LAR + i
         /\ LAR + i \in SeqNo
         /\ AckIdx(LAR + i) = i - 1
         /\ InsideWindow(LAR + i)
<1>1. windowBuf[i].seqNum = LAR + i
  <2>1. windowBuf[i] = FileFrame(LAR + i)
    BY DEF IInv, WindowInv
  <2>2. QED
    BY <2>1 DEF FileFrame
<1>2. LAR + i \in SeqNo
  BY Ranges, Constants, SMT DEF SeqNo
<1>3. AckIdx(LAR + i) = LAR + i - (LAR + 1)
  BY <1>2, AckIdxValue, Ranges
<1>4. AckIdx(LAR + i) = i - 1
  BY <1>3, Ranges, SMT
<1>5. QED
  BY <1>1, <1>2, <1>4, Ranges, SMT DEF InsideWindow

\* The sender may process what ack[] still holds.
LEMMA SettledIsProcessable ==
  ASSUME IInv, spc # "done"
  PROVE  Processable(ack)
<1>1. CASE ack \in SeqNo /\ (ack <= LAR \/ ack = MAX_SEQ_NO - 1)
  BY <1>1, Ranges, Constants, SMT DEF Processable, Truthful, SeqNo
<1>2. CASE ack = UninitAck /\ LAR = -1
  BY <1>2 DEF Processable
<1>3. QED
  BY <1>1, <1>2 DEF IInv, SettledInv

\* What a slide leaves: the stretch of the file behind the acknowledged frame.
LEMMA SlideBuffer ==
  ASSUME IInv, NEW a, Processable(a), InsideWindow(a)
  PROVE  /\ Unacknowledged(a) \in Seq(Frame)
         /\ Len(Unacknowledged(a)) = nextFrame - a - 1
         /\ \A i \in 1 .. Len(Unacknowledged(a)) : Unacknowledged(a)[i] = FileFrame(a + i)
<1> DEFINE m == AckIdx(a) + 2
           n == Len(windowBuf)
           rest == SubSeq(windowBuf, m, n)
<1>1. a \in SeqNo /\ LAR < a /\ a < Len(written) /\ AckIdx(a) = a - (LAR + 1)
  BY InsideIsWritten
<1>2. /\ a \in Int /\ n \in Nat /\ m = a - LAR + 1 /\ m \in Int /\ m >= 2
      /\ LAR = nextFrame - n - 1 /\ a <= nextFrame - 1 /\ nextFrame \in Int
      /\ LAR \in Int
  <2>1. a \in 0 .. MAX_SEQ_NO - 1
    BY <1>1 DEF SeqNo
  <2>2. m = a - LAR + 1
    BY <1>1, <2>1, Ranges, Constants, SMT
  <2>3. LAR \in Int /\ nextFrame \in Int /\ n \in Nat /\ LAR = nextFrame - n - 1
    BY Ranges, Constants, SMT
  <2>4. a <= nextFrame - 1
    BY <1>1, <2>1, Ranges, Constants, SMT
  <2> HIDE DEF m, n
  <2>5. m \in Int /\ m >= 2
    BY <1>1, <2>1, <2>2, <2>3, Constants, SMT
  <2>6. QED
    BY <2>1, <2>2, <2>3, <2>4, <2>5, Constants, SMT
<1> HIDE DEF m, n
<1>3. \A i \in m .. n : windowBuf[i] \in Frame
  <2> SUFFICES ASSUME NEW i \in m .. n PROVE windowBuf[i] \in Frame
    OBVIOUS
  <2>1. i \in 1 .. Len(windowBuf)
    BY <1>2, SMT DEF n
  <2>2. QED
    BY <2>1, Ranges, ElementOfSeq
<1>4. /\ rest \in Seq(Frame)
      /\ Len(rest) = IF m <= n THEN n - m + 1 ELSE 0
      /\ \A i \in 1 .. n - m + 1 : rest[i] = windowBuf[m + i - 1]
  BY <1>2, <1>3, SubSeqProperties
<1> HIDE DEF rest
<1>5. Len(rest) = nextFrame - a - 1
  BY <1>2, <1>4, SMT
<1>6. ASSUME NEW i \in 1 .. Len(rest)
      PROVE  rest[i] = FileFrame(a + i)
  <2>1. i \in 1 .. n - m + 1
    BY <1>2, <1>4, SMT
  <2>2. m + i - 1 \in 1 .. n /\ LAR + (m + i - 1) = a + i
    BY <1>2, <2>1, SMT
  <2>3. windowBuf[m + i - 1] = FileFrame(LAR + (m + i - 1))
    BY <2>2 DEF IInv, WindowInv, n
  <2>4. QED
    BY <1>4, <2>1, <2>2, <2>3
<1>7. rest = Unacknowledged(a)
  BY DEF rest, m, n, Unacknowledged
<1>8. QED
  BY <1>4, <1>5, <1>6, <1>7

\* Processing an acknowledgement. The step may take acknowledgements out of the
\* network, never add one.
LEMMA ProcessAckInv ==
  ASSUME IInv, spc = "waiting", NEW a, Processable(a), ProcessAck(a), ack' = a,
         acks' \subseteq acks, UNCHANGED <<receiverVars, frames, refused>>
  PROVE  IInv'
<1>1. /\ UNCHANGED <<buf, NFE, endSeqNum, written, rpc, frames, refused>>
      /\ UNCHANGED <<nextFrame, lastFrameSeqNo>>
  BY Zenon DEF receiverVars, ProcessAck
<1>2. congestionWindow' \in 0 .. SWS
  BY Constants, SMT DEF ProcessAck, WindowGrown, IInv, TypeOK, SenderTypeOK
<1>3. ReceiverTypeOK'
  BY <1>1, Zenon DEF IInv, TypeOK, ReceiverTypeOK
<1>4. ChannelTypeOK'
  BY <1>1, Zenon DEF IInv, TypeOK, ChannelTypeOK
<1>5. RingInv' /\ DeliveredInOrder'
  BY <1>1, Zenon DEF IInv, DeliveryInv, RingInv, InSlot, DeliveredInOrder
<1>6. \A d \in frames' : /\ d.seq = d.data
                         /\ d.data < nextFrame'
                         /\ d.end = (d.data = NumFrames - 1)
  BY <1>1, Zenon DEF IInv, NetworkInv
<1>7. (\A b \in acks' : Truthful(b)') /\ (\A b : Truthful(b)' = Truthful(b))
  BY <1>1, Zenon DEF IInv, NetworkInv, Truthful
<1>8. a \in SeqNo \cup {UninitAck}
  BY Zenon DEF Processable
<1>9. CASE /\ windowBuf' = windowBuf /\ LAR' = LAR
           /\ spc' = "done" \/ ~ InsideWindow(a)
  <2>1. spc' = "done" => rpc # "receiving"
    <3>1. SUFFICES ASSUME spc' = "done" PROVE rpc # "receiving"
      OBVIOUS
    <3>2. InsideWindow(a) /\ lastFrameSeqNo = a
      BY <3>1 DEF ProcessAck
    <3>3. a \in 0 .. MAX_SEQ_NO - 1 /\ a < Len(written)
      BY <3>2, InsideIsWritten DEF SeqNo
    <3>4. a = NumFrames - 1 /\ NumFrames > 0
      BY <3>2, <3>3, Constants, SMT DEF IInv, WindowInv
    <3>5. ~ (Len(written) < NumFrames \/ NumFrames = 0)
      BY <3>3, <3>4, Ranges, Constants, SMT
    <3>6. QED
      BY <3>5 DEF IInv, EndInv
  <2>2. spc' \in {"done", "sending"}
    BY DEF ProcessAck
  <2>3. SenderTypeOK'
    BY <1>1, <1>2, <1>8, <1>9, <2>2, Zenon DEF IInv, TypeOK, SenderTypeOK
  <2>4. WindowInv' /\ DeliveryInv'
    BY <1>1, <1>5, <1>9, Zenon DEF IInv, WindowInv, DeliveryInv, Discarded
  <2>5. EndInv'
    BY <1>1, <2>1, <2>2 DEF IInv, EndInv
  <2>6. NetworkInv'
    BY <1>6, <1>7, Zenon DEF NetworkInv
  <2>7. SettledInv'
    <3>1. SUFFICES ASSUME spc' # "done" PROVE SettledInv'
      BY DEF SettledInv
    <3>2. ~ InsideWindow(a)
      BY <1>9, <3>1
    <3>3. QED
      BY <1>9, <3>2, OutsideIsSettled, Zenon DEF SettledInv, SeqNo
  <2>9. QED
    BY <1>3, <1>4, <1>5, <2>3, <2>4, <2>5, <2>6, <2>7 DEF IInv, TypeOK
<1>10. CASE /\ InsideWindow(a)
            /\ windowBuf' = Unacknowledged(a)
            /\ LAR' = a
            /\ spc' = "sending"
  <2>1. a \in SeqNo /\ LAR < a /\ a < Len(written)
    BY <1>10, InsideIsWritten
  <2>2. /\ windowBuf' \in Seq(Frame)
        /\ Len(windowBuf') = nextFrame - a - 1
        /\ \A i \in 1 .. Len(windowBuf') : windowBuf'[i] = FileFrame(a + i)
    BY <1>10, SlideBuffer
  <2>3. a \in Int /\ nextFrame \in Int /\ Len(written) \in Int
    BY <2>1, Ranges, Constants, SMT DEF SeqNo
  <2>4. Len(windowBuf') <= SWS
    <3>1. Len(windowBuf) = nextFrame - LAR - 1 /\ LAR \in Int /\ Len(windowBuf) <= SWS
      BY Ranges, Constants, SMT DEF IInv, WindowInv
    <3>2. QED
      BY <2>1, <2>2, <2>3, <3>1, Constants, SMT
  <2>5. Discarded' = a + 1
    BY <1>1, <2>2, <2>3, SMT DEF Discarded
  <2>6. SenderTypeOK'
    BY <1>1, <1>2, <1>8, <1>10, <2>1, <2>2, Zenon DEF IInv, TypeOK, SenderTypeOK
  <2>7. WindowInv'
    <3>1. LAR' = Discarded' - 1
      BY <1>10, <2>3, <2>5, SMT
    <3>2. QED
      BY <1>1, <1>10, <2>2, <2>4, <3>1, Zenon DEF IInv, WindowInv
  <2>8. DeliveryInv'
    <3>1. Discarded' <= Len(written)
      BY <2>1, <2>3, <2>5, SMT
    <3>2. QED
      BY <1>1, <1>5, <3>1, Zenon DEF IInv, DeliveryInv
  <2>9. EndInv'
    BY <1>1, <1>10 DEF IInv, EndInv
  <2>10. NetworkInv'
    BY <1>6, <1>7, Zenon DEF NetworkInv
  <2>11. SettledInv'
    <3>1. ack' \in SeqNo /\ ack' <= LAR'
      BY <1>10, <2>1, <2>3, SMT
    <3>2. QED
      BY <3>1, Zenon DEF SettledInv, SeqNo
  <2>12. QED
    BY <1>3, <1>4, <1>5, <2>6, <2>7, <2>8, <2>9, <2>10, <2>11 DEF IInv, TypeOK
<1>11. QED
  BY <1>9, <1>10, Zenon DEF ProcessAck

LEMMA ReceiveAckInv ==
  ASSUME IInv, NEW a \in acks, ReceiveAck(a), UNCHANGED receiverVars
  PROVE  IInv'
<1>1. Processable(a)
  BY Zenon DEF IInv, TypeOK, ChannelTypeOK, NetworkInv, Processable
<1>2. acks' \subseteq acks
  BY DEF ReceiveAck, AfterReceipt
<1>3. QED
  BY <1>1, <1>2, ProcessAckInv, Zenon DEF ReceiveAck

LEMMA ReceiveTimeoutInv ==
  ASSUME IInv, ReceiveTimeout, UNCHANGED receiverVars
  PROVE  IInv'
<1>1. Processable(ack)
  BY SettledIsProcessable DEF ReceiveTimeout
<1>2. QED
  BY <1>1, ProcessAckInv, Zenon DEF ReceiveTimeout

LEMMA ReceiveRefusedInv ==
  ASSUME IInv, ReceiveRefused, UNCHANGED receiverVars
  PROVE  IInv'
<1>1. /\ UNCHANGED <<windowBuf, nextFrame, LAR, congestionWindow, lastFrameSeqNo, ack>>
      /\ UNCHANGED <<buf, NFE, endSeqNum, written, rpc, frames, acks>>
      /\ spc' = "failed" /\ refused /\ refused' = FALSE
  BY Zenon DEF ReceiveRefused, receiverVars
<1>2. TypeOK'
  BY <1>1, Zenon DEF IInv, TypeOK, SenderTypeOK, ReceiverTypeOK, ChannelTypeOK
<1>3. WindowInv' /\ DeliveryInv' /\ RingInv' /\ NetworkInv' /\ SettledInv'
  <2>1. spc # "done"
    BY DEF ReceiveRefused
  <2>2. SettledInv'
    BY <1>1, <2>1, Zenon DEF IInv, SettledInv
  <2>3. QED
    BY <1>1, <2>2, Zenon
       DEF IInv, WindowInv, DeliveryInv, RingInv, InSlot, NetworkInv, Truthful, Discarded,
           DeliveredInOrder
<1>4. EndInv'
  <2>1. rpc = "closed"
    BY <1>1, Zenon DEF IInv, EndInv
  <2>2. QED
    BY <1>1, <2>1 DEF IInv, EndInv
<1>5. QED
  BY <1>2, <1>3, <1>4 DEF IInv

-----------------------------------------------------------------------------
\* The receiver. Frames in flight are below the end of its window.

LEMMA FrameInFlight ==
  ASSUME IInv, NEW d \in frames
  PROVE  /\ d.seq = d.data
         /\ d.data \in 0 .. NumFrames - 1
         /\ d.data < nextFrame
         /\ d.data < NFE + RWS
         /\ d.end = (d.data = NumFrames - 1)
         /\ OutsideWindow(d.seq) <=> d.data < NFE
<1>1. /\ d.seq = d.data /\ d.data < nextFrame
      /\ d.end = (d.data = NumFrames - 1)
      /\ d.data \in 0 .. NumFrames - 1
  BY Zenon DEF IInv, NetworkInv, TypeOK, ChannelTypeOK, Datagram, File
<1>2. Len(windowBuf) <= RWS
  BY Ranges, Constants, SMT DEF IInv, WindowInv
<1>3. d.data < NFE + RWS /\ NFE \in 0 .. NumFrames
  BY <1>1, <1>2, Ranges, Constants, SMT
<1>4. QED
  BY <1>1, <1>3, OutsideIffWritten

\* What may be said of a ring b while `next` is expected and the last frame has, or
\* has not, been seen.
RingOK(b, next, end) ==
  \A s \in Slot : b[s] # Empty => /\ b[s] \in File
                                  /\ next <= b[s] /\ b[s] < next + RWS
                                  /\ b[s] < nextFrame
                                  /\ b[s] % RWS = s
                                  /\ b[s] = NumFrames - 1 => end = NumFrames - 1

\* Buffering a frame of the window keeps the ring in order.
LEMMA BufferedOK ==
  ASSUME IInv, NEW d \in frames, ~ OutsideWindow(d.seq),
         NEW end, end = IF d.end THEN d.seq ELSE endSeqNum
  PROVE  /\ Buffered(d) \in [Slot -> File \cup {Empty}]
         /\ RingOK(Buffered(d), NFE, end)
<1> DEFINE idx == d.seq % RWS
           b == Buffered(d)
<1>1. /\ d.seq = d.data /\ d.data \in 0 .. NumFrames - 1
      /\ d.data < nextFrame /\ NFE <= d.data /\ d.data < NFE + RWS
      /\ d.end = (d.data = NumFrames - 1)
  <2>1. ~ d.data < NFE /\ d.data \in 0 .. NumFrames - 1
    BY FrameInFlight
  <2>2. NFE <= d.data
    BY <2>1, Ranges, Constants, SMT
  <2>3. QED
    BY <2>2, FrameInFlight
<1>2. idx \in Slot
  <2>1. d.seq \in Int
    BY <1>1, SMT
  <2>2. QED
    BY <2>1, Constants, ModRange DEF Slot
<1>3. buf \in [Slot -> File \cup {Empty}]
  BY DEF IInv, TypeOK, ReceiverTypeOK
<1>4. d.data \in File /\ d.data # Empty
  BY <1>1, Constants, SMT DEF File, Empty
<1>5. b = IF buf[idx] = Empty THEN [buf EXCEPT ![idx] = d.data] ELSE buf
  BY DEF Buffered
<1>6. b \in [Slot -> File \cup {Empty}]
  <2> HIDE DEF b, idx
  <2>1. QED
    BY <1>2, <1>3, <1>4, <1>5
<1>7. end = NumFrames - 1 \/ end = endSeqNum
  BY <1>1
<1>8. ASSUME NEW s \in Slot, b[s] # Empty
      PROVE  /\ b[s] \in File
             /\ NFE <= b[s] /\ b[s] < NFE + RWS
             /\ b[s] < nextFrame
             /\ b[s] % RWS = s
             /\ b[s] = NumFrames - 1 => end = NumFrames - 1
  <2>1. CASE b[s] = buf[s]
    BY <1>3, <1>7, <1>8, <2>1, Zenon DEF IInv, RingInv, InSlot
  <2>2. CASE s = idx /\ b[s] = d.data
    <3>1. b[s] = NumFrames - 1 => end = NumFrames - 1
      BY <1>1, <2>2
    <3>2. QED
      BY <1>1, <1>4, <2>2, <3>1
  <2>3. b[s] = buf[s] \/ (s = idx /\ b[s] = d.data)
    <3> HIDE DEF b, idx
    <3>1. QED
      BY <1>2, <1>3, <1>5, Zenon
  <2>4. QED
    BY <2>1, <2>2, <2>3
<1>9. QED
  BY <1>6, <1>8 DEF RingOK

\* The delivery loop reads the frames in the order of the file: what turn i finds
\* is frame NFE + i.
LEMMA SlotHoldsFrame ==
  ASSUME IInv, NEW b \in [Slot -> File \cup {Empty}], NEW end, RingOK(b, NFE, end),
         NEW i \in 0 .. RWS - 1
  PROVE  /\ DeliverySlot(i) \in Slot
         /\ b[DeliverySlot(i)] # Empty => b[DeliverySlot(i)] = NFE + i
<1> DEFINE s == DeliverySlot(i)
           v == b[s]
<1>1. NFE \in Nat /\ i + NFE \in Int
  BY Ranges, Constants, SMT
<1>2. s \in Slot /\ s = (i + NFE) % RWS
  BY <1>1, Constants, ModRange DEF Slot, DeliverySlot
<1>3. ASSUME v # Empty
      PROVE  v = NFE + i
  <2>1. v \in File /\ NFE <= v /\ v < NFE + RWS /\ v % RWS = s
    BY <1>2, <1>3 DEF RingOK
  <2> HIDE DEF v, s
  <2>2. /\ v \in Int /\ v - (i + NFE) < RWS /\ (i + NFE) - v < RWS
        /\ v % RWS = (i + NFE) % RWS
    BY <1>1, <1>2, <2>1, Constants, SMT DEF File
  <2>3. v = i + NFE
    BY <1>1, <2>2, Constants, ModUnique
  <2>4. QED
    BY <1>1, <2>3, SMT
<1>4. QED
  BY <1>2, <1>3

\* The n turns of the loop append the next n frames of the file, and leave in the
\* ring what lies behind them.
LEMMA LoopDelivers ==
  ASSUME IInv, NEW b \in [Slot -> File \cup {Empty}], NEW end, RingOK(b, NFE, end),
         NEW n \in 0 .. RWS, Contiguous(b, n)
  PROVE  /\ NFE + n \in 0 .. nextFrame
         /\ Run(b, n) \in Seq(File)
         /\ Len(Run(b, n)) = n
         /\ \A k \in 1 .. n : Run(b, n)[k] = NFE + k - 1
         /\ Cleared(b, n) \in [Slot -> File \cup {Empty}]
         /\ RingOK(Cleared(b, n), NFE + n, end)
         /\ n > 0 /\ NFE + n = NumFrames => end = NumFrames - 1
<1>1. NFE \in Nat /\ n \in Nat /\ n <= RWS /\ NFE <= nextFrame /\ nextFrame \in Nat
  BY Ranges, Constants, SMT
<1>2. ASSUME NEW i \in 0 .. n - 1
      PROVE  /\ DeliverySlot(i) \in Slot
             /\ b[DeliverySlot(i)] = NFE + i
             /\ NFE + i \in File /\ NFE + i < nextFrame
             /\ NFE + i = NumFrames - 1 => end = NumFrames - 1
  <2>1. i \in 0 .. RWS - 1
    BY <1>1, Constants, SMT
  <2>2. b[DeliverySlot(i)] # Empty
    BY DEF Contiguous
  <2>3. DeliverySlot(i) \in Slot /\ b[DeliverySlot(i)] = NFE + i
    BY <2>1, <2>2, SlotHoldsFrame
  <2>4. QED
    BY <2>2, <2>3 DEF RingOK
<1>3. NFE + n \in 0 .. nextFrame
  <2>1. CASE n = 0
    BY <1>1, <2>1, SMT
  <2>2. CASE n > 0
    <3>1. n - 1 \in 0 .. n - 1
      BY <1>1, <2>2, SMT
    <3>2. NFE + (n - 1) < nextFrame
      BY <1>2, <3>1
    <3>3. QED
      BY <1>1, <3>2, SMT
  <2>3. QED
    BY <1>1, <2>1, <2>2, SMT
<1>4. \A k \in 1 .. n : Run(b, n)[k] = NFE + k - 1 /\ NFE + k - 1 \in File
  <2> SUFFICES ASSUME NEW k \in 1 .. n
               PROVE  Run(b, n)[k] = NFE + k - 1 /\ NFE + k - 1 \in File
    OBVIOUS
  <2>1. k - 1 \in 0 .. n - 1 /\ NFE + (k - 1) = NFE + k - 1
    BY <1>1, SMT
  <2>2. Run(b, n)[k] = b[DeliverySlot(k - 1)]
    BY DEF Run
  <2>3. QED
    BY <1>2, <2>1, <2>2
<1>5. Run(b, n) \in Seq(File) /\ Len(Run(b, n)) = n
  <2>1. \A k \in 1 .. n : b[DeliverySlot(k - 1)] \in File
    BY <1>4 DEF Run
  <2>2. QED
    BY <1>1, <2>1, SMT DEF Run
<1>6. Cleared(b, n) \in [Slot -> File \cup {Empty}]
  BY DEF Cleared
<1>7. RingOK(Cleared(b, n), NFE + n, end)
  <2> SUFFICES ASSUME NEW s \in Slot, Cleared(b, n)[s] # Empty
               PROVE  /\ Cleared(b, n)[s] = b[s] /\ b[s] # Empty
                      /\ NFE + n <= b[s] /\ b[s] < NFE + n + RWS
    BY DEF RingOK
  <2>1. /\ Cleared(b, n)[s] = b[s] /\ b[s] # Empty
        /\ \A i \in 0 .. n - 1 : s # DeliverySlot(i)
    BY DEF Cleared
  <2>2. /\ b[s] \in Nat /\ NFE <= b[s] /\ b[s] < NFE + RWS /\ b[s] % RWS = s
    BY <2>1, SMT DEF RingOK, File
  <2>3. ASSUME b[s] < NFE + n
        PROVE  FALSE
    <3>1. b[s] - NFE \in 0 .. n - 1 /\ (b[s] - NFE) + NFE = b[s]
      BY <1>1, <2>2, <2>3, SMT
    <3>2. DeliverySlot(b[s] - NFE) = s
      BY <2>2, <3>1 DEF DeliverySlot
    <3>3. QED
      BY <2>1, <3>1, <3>2
  <2>4. QED
    BY <1>1, <2>1, <2>2, <2>3, Constants, SMT
<1>8. ASSUME n > 0, NFE + n = NumFrames
      PROVE  end = NumFrames - 1
  <2>1. n - 1 \in 0 .. n - 1 /\ NFE + (n - 1) = NumFrames - 1
    BY <1>1, <1>8, Constants, SMT
  <2>2. QED
    BY <1>2, <2>1
<1>9. QED
  BY <1>3, <1>4, <1>5, <1>6, <1>7, <1>8

\* Appending the next frames keeps the file a prefix of the source.
LEMMA AppendInOrder ==
  ASSUME IInv, NEW run \in Seq(File),
         \A k \in 1 .. Len(run) : run[k] = Len(written) + k - 1,
         written' = written \o run
  PROVE  /\ written' \in Seq(File)
         /\ Len(written') = Len(written) + Len(run)
         /\ DeliveredInOrder'
<1>1. /\ written \in Seq(File) /\ Len(written) \in Nat /\ Len(run) \in Nat
      /\ DeliveredInOrder
  BY LenProperties, Zenon DEF IInv, TypeOK, ReceiverTypeOK, DeliveryInv
<1>2. /\ written' \in Seq(File)
      /\ Len(written') = Len(written) + Len(run)
      /\ \A k \in 1 .. Len(written) + Len(run) :
           written'[k] = IF k <= Len(written) THEN written[k] ELSE run[k - Len(written)]
  BY <1>1, ConcatProperties, Zenon
<1>3. ASSUME NEW k \in 1 .. Len(written')
      PROVE  written'[k] = k - 1
  <2>1. CASE k <= Len(written)
    <3>1. k \in 1 .. Len(written) /\ k \in 1 .. Len(written) + Len(run)
      BY <1>1, <2>1, SMT
    <3>2. QED
      BY <1>1, <1>2, <2>1, <3>1 DEF DeliveredInOrder
  <2>2. CASE ~ k <= Len(written)
    <3>1. /\ k - Len(written) \in 1 .. Len(run) /\ k \in 1 .. Len(written) + Len(run)
          /\ Len(written) + (k - Len(written)) - 1 = k - 1
      BY <1>1, <1>2, <2>2, SMT
    <3>2. QED
      BY <1>2, <2>2, <3>1
  <2>3. QED
    BY <2>1, <2>2
<1>4. QED
  BY <1>2, <1>3 DEF DeliveredInOrder

\* What every step of the receiver keeps: the sender's side, and the truth of the
\* acknowledgements, since the file only grows.
LEMMA ReceiverKeepsSender ==
  ASSUME IInv, UNCHANGED senderVars, frames' \subseteq frames, UNCHANGED refused,
         Len(written') \in Nat, Len(written) <= Len(written'),
         acks' \subseteq SeqNo, \A a \in acks' : a \in acks \/ Truthful(a)'
  PROVE  SenderTypeOK' /\ ChannelTypeOK' /\ WindowInv' /\ NetworkInv' /\ SettledInv'
<1>1. UNCHANGED <<windowBuf, nextFrame, LAR, congestionWindow, lastFrameSeqNo, ack, spc>>
  BY DEF senderVars
<1>2. SenderTypeOK' /\ WindowInv'
  BY <1>1, Zenon DEF IInv, TypeOK, SenderTypeOK, WindowInv, Discarded
<1>3. ChannelTypeOK'
  BY Zenon DEF IInv, TypeOK, ChannelTypeOK
<1>4. ASSUME NEW a \in SeqNo, Truthful(a)
      PROVE  a < Len(written') \/ a = MAX_SEQ_NO - 1
  BY <1>4, Ranges, Constants, SMT DEF Truthful, SeqNo
<1>5. \A a \in acks' : Truthful(a)'
  <2> SUFFICES ASSUME NEW a \in acks', a \in acks PROVE Truthful(a)'
    OBVIOUS
  <2>1. a \in SeqNo /\ Truthful(a)
    BY DEF IInv, NetworkInv
  <2>2. QED
    BY <1>4, <2>1 DEF Truthful
<1>6. SettledInv'
  BY <1>1, Zenon DEF IInv, SettledInv
<1>7. \A d \in frames' : /\ d.seq = d.data
                         /\ d.data < nextFrame'
                         /\ d.end = (d.data = NumFrames - 1)
  BY <1>1, Zenon DEF IInv, NetworkInv
<1>8. NetworkInv'
  BY <1>5, <1>7, Zenon DEF NetworkInv
<1>9. QED
  BY <1>2, <1>3, <1>6, <1>8

LEMMA AcceptFrameInv ==
  ASSUME IInv, NEW d \in frames, rpc = "receiving", frames' \in AfterReceipt(frames, d),
         endSeqNum' = (IF d.end THEN d.seq ELSE endSeqNum),
         AcceptFrame(d), UNCHANGED refused, UNCHANGED senderVars
  PROVE  IInv'
<1> DEFINE b == Buffered(d)
<1>1. ~ OutsideWindow(d.seq)
  BY DEF AcceptFrame
<1>2. b \in [Slot -> File \cup {Empty}] /\ RingOK(b, NFE, endSeqNum')
  BY <1>1, BufferedOK
<1>3. PICK n \in 0 .. RWS : /\ Contiguous(b, n)
                            /\ written' = written \o Run(b, n)
                            /\ buf' = Cleared(b, n)
                            /\ NFE' = (NFE + n) % MAX_SEQ_NO
  BY Zenon DEF AcceptFrame
<1> HIDE DEF b
<1>4. /\ NFE + n \in 0 .. nextFrame
      /\ Run(b, n) \in Seq(File) /\ Len(Run(b, n)) = n
      /\ \A k \in 1 .. n : Run(b, n)[k] = NFE + k - 1
      /\ Cleared(b, n) \in [Slot -> File \cup {Empty}]
      /\ RingOK(Cleared(b, n), NFE + n, endSeqNum')
      /\ n > 0 /\ NFE + n = NumFrames => endSeqNum' = NumFrames - 1
  BY <1>2, <1>3, LoopDelivers
<1>5. NFE = Len(written) /\ NFE \in Nat /\ nextFrame \in 0 .. NumFrames
  BY Ranges
<1>6. /\ written' \in Seq(File)
      /\ Len(written') = NFE + n
      /\ DeliveredInOrder'
  BY <1>3, <1>4, <1>5, AppendInOrder
<1>7. NFE + n \in 0 .. NumFrames /\ NFE + n \in 0 .. MAX_SEQ_NO - 1
  BY <1>4, <1>5, Constants, SMT
<1>8. NFE' = NFE + n
  BY <1>3, <1>7, Constants, ModSmall
<1>9. /\ NFE' > 0 => AckFor(NFE') = NFE' - 1
      /\ NFE' = 0 => AckFor(NFE') = MAX_SEQ_NO - 1
  BY <1>7, <1>8, AckForValue
<1>10. AckFor(NFE') \in SeqNo /\ (AckFor(NFE') < Len(written') \/ AckFor(NFE') = MAX_SEQ_NO - 1)
  BY <1>6, <1>7, <1>8, <1>9, Constants, SMT DEF SeqNo
<1>11. /\ UNCHANGED <<windowBuf, nextFrame, LAR, spc>>
       /\ acks' = acks \cup {AckFor(NFE')}
       /\ frames' \subseteq frames
  BY DEF AcceptFrame, senderVars, AfterReceipt
<1>12. endSeqNum' \in {-1, NumFrames - 1} /\ NumFrames > 0 /\ Len(written) < NumFrames
  <2>1. NumFrames > 0
    BY FrameInFlight, Constants, SMT
  <2>2. endSeqNum' \in {-1, NumFrames - 1}
    BY FrameInFlight, Zenon DEF IInv, EndInv
  <2>3. Len(written) < NumFrames
    BY <2>1, Constants, SMT DEF IInv, EndInv
  <2>4. QED
    BY <2>1, <2>2, <2>3
<1>13. ReachedEnd <=> Len(written') = NumFrames
  <2>1. CASE Len(written') = NumFrames
    <3>1. n > 0 /\ NFE + n = NumFrames
      BY <1>5, <1>6, <1>12, <2>1, Constants, SMT
    <3>2. endSeqNum' = NumFrames - 1 /\ AckFor(NFE') = NumFrames - 1
      BY <1>4, <1>8, <1>9, <1>12, <3>1
    <3>3. QED
      BY <1>12, <2>1, <3>2, Constants, SMT DEF ReachedEnd
  <2>2. CASE Len(written') # NumFrames
    <3>1. AckFor(NFE') # NumFrames - 1
      BY <1>6, <1>7, <1>8, <1>9, <1>12, <2>2, Constants, SMT
    <3>2. QED
      BY <1>12, <2>2, <3>1, Constants, SMT DEF ReachedEnd
  <2>3. QED
    BY <2>1, <2>2
<1>14. rpc' = IF Len(written') = NumFrames THEN "closing" ELSE "receiving"
  BY <1>13, Zenon DEF AcceptFrame
<1>15. SenderTypeOK' /\ ChannelTypeOK' /\ WindowInv' /\ NetworkInv' /\ SettledInv'
  <2>1. Len(written') \in Nat /\ Len(written) <= Len(written')
    BY <1>5, <1>6, <1>7, SMT
  <2>2. acks' \subseteq SeqNo
    BY <1>10, <1>11, Zenon DEF IInv, TypeOK, ChannelTypeOK
  <2>3. \A a \in acks' : a \in acks \/ Truthful(a)'
    BY <1>10, <1>11, Zenon DEF Truthful
  <2>4. QED
    BY <1>11, <2>1, <2>2, <2>3, ReceiverKeepsSender
<1>16. ReceiverTypeOK'
  <2>1. NFE' \in SeqNo /\ endSeqNum' \in SeqNo \cup {-1}
    BY <1>7, <1>8, <1>12, Constants, SMT DEF SeqNo
  <2>2. rpc' \in {"receiving", "closing", "closed"}
    BY <1>14
  <2>3. QED
    BY <1>3, <1>4, <1>6, <2>1, <2>2, Zenon DEF ReceiverTypeOK, Slot, File
<1>17. DeliveryInv'
  <2>1. Discarded' = Discarded /\ Discarded <= Len(written) /\ Discarded \in Int
    BY <1>11, Ranges, SMT DEF Discarded, IInv, DeliveryInv
  <2>2. Discarded' <= Len(written') /\ Len(written') <= nextFrame'
    BY <1>4, <1>5, <1>6, <1>11, <2>1, SMT
  <2>3. QED
    BY <1>6, <1>8, <2>2 DEF DeliveryInv
<1>18. RingInv'
  BY <1>3, <1>4, <1>8, <1>11, Zenon DEF RingInv, RingOK, InSlot, Slot
<1>19. EndInv'
  <2>1. rpc' = "receiving" => Len(written') < NumFrames
    <3>1. rpc' = "receiving" => Len(written') # NumFrames
      BY <1>14
    <3>2. QED
      BY <1>6, <1>7, <3>1, Constants, SMT
  <2>2. spc' \notin {"done", "failed"} /\ ~ refused'
    BY <1>11 DEF IInv, EndInv
  <2>3. QED
    BY <1>12, <1>14, <2>1, <2>2 DEF EndInv
<1>20. QED
  BY <1>15, <1>16, <1>17, <1>18, <1>19 DEF IInv, TypeOK

LEMMA RejectFrameInv ==
  ASSUME IInv, NEW d \in frames, rpc = "receiving", frames' \in AfterReceipt(frames, d),
         endSeqNum' = (IF d.end THEN d.seq ELSE endSeqNum),
         RejectFrame(d), UNCHANGED refused, UNCHANGED senderVars
  PROVE  IInv'
<1>1. /\ UNCHANGED <<windowBuf, nextFrame, LAR, spc, buf, NFE, written, rpc>>
      /\ acks' = acks \cup {d.seq}
      /\ frames' \subseteq frames
  BY DEF RejectFrame, senderVars, AfterReceipt
<1>2. d.data < NFE /\ d.seq = d.data /\ d.data \in 0 .. NumFrames - 1
  BY FrameInFlight DEF RejectFrame
<1>3. d.data # NumFrames - 1 /\ endSeqNum' = endSeqNum
  <2>1. Len(written) < NumFrames \/ NumFrames = 0
    BY DEF IInv, EndInv
  <2>2. d.data # NumFrames - 1
    BY <1>2, <2>1, Ranges, Constants, SMT
  <2>3. QED
    BY <2>2, FrameInFlight
<1>4. SenderTypeOK' /\ ChannelTypeOK' /\ WindowInv' /\ NetworkInv' /\ SettledInv'
  <2>1. Len(written') \in Nat /\ Len(written) <= Len(written')
    BY <1>1, Ranges, SMT
  <2>2. d.seq \in SeqNo /\ d.seq < Len(written')
    BY <1>1, <1>2, Ranges, Constants, SMT DEF SeqNo
  <2>3. acks' \subseteq SeqNo
    BY <1>1, <2>2, Zenon DEF IInv, TypeOK, ChannelTypeOK
  <2>4. \A a \in acks' : a \in acks \/ Truthful(a)'
    BY <1>1, <2>2, Zenon DEF Truthful
  <2>5. QED
    BY <1>1, <2>1, <2>3, <2>4, ReceiverKeepsSender
<1>5. ReceiverTypeOK' /\ DeliveryInv' /\ RingInv' /\ EndInv'
  BY <1>1, <1>3, Zenon
     DEF IInv, TypeOK, ReceiverTypeOK, DeliveryInv, DeliveredInOrder, Discarded, RingInv,
         InSlot, EndInv
<1>6. QED
  BY <1>4, <1>5 DEF IInv, TypeOK

LEMMA ReceiveFrameInv ==
  ASSUME IInv, NEW d \in frames, ReceiveFrame(d), UNCHANGED senderVars
  PROVE  IInv'
  BY AcceptFrameInv, RejectFrameInv, Zenon DEF ReceiveFrame

LEMMA CloseReceiverInv ==
  ASSUME IInv, CloseReceiver, UNCHANGED senderVars
  PROVE  IInv'
<1>1. /\ UNCHANGED <<windowBuf, nextFrame, LAR, spc, buf, NFE, endSeqNum, written, frames, refused>>
      /\ acks' = acks \cup {AckFor(NFE)}
      /\ rpc = "closing" /\ rpc' = "closed"
  BY DEF CloseReceiver, senderVars
<1>2. AckFor(NFE) \in SeqNo /\ (AckFor(NFE) < Len(written) \/ AckFor(NFE) = MAX_SEQ_NO - 1)
  <2>1. NFE \in 0 .. NumFrames /\ NFE = Len(written)
    BY Ranges, Constants, SMT
  <2>2. /\ NFE > 0 => AckFor(NFE) = NFE - 1
        /\ NFE = 0 => AckFor(NFE) = MAX_SEQ_NO - 1
    BY <2>1, AckForValue
  <2>3. QED
    BY <2>1, <2>2, Constants, SMT DEF SeqNo
<1>3. SenderTypeOK' /\ ChannelTypeOK' /\ WindowInv' /\ NetworkInv' /\ SettledInv'
  <2>1. Len(written') \in Nat /\ Len(written) <= Len(written')
    BY <1>1, Ranges, SMT
  <2>2. acks' \subseteq SeqNo
    BY <1>1, <1>2, Zenon DEF IInv, TypeOK, ChannelTypeOK
  <2>3. \A a \in acks' : a \in acks \/ Truthful(a)'
    BY <1>1, <1>2, Zenon DEF Truthful
  <2>4. QED
    BY <1>1, <2>1, <2>2, <2>3, ReceiverKeepsSender
<1>4. DeliveryInv' /\ RingInv'
  BY <1>1, Zenon DEF IInv, DeliveryInv, DeliveredInOrder, Discarded, RingInv, InSlot
<1>5. ReceiverTypeOK' /\ EndInv'
  BY <1>1 DEF IInv, TypeOK, ReceiverTypeOK, EndInv
<1>6. QED
  BY <1>3, <1>4, <1>5 DEF IInv, TypeOK

-----------------------------------------------------------------------------
\* Every step keeps the invariant.

LEMMA NetworkStepInv ==
  ASSUME IInv, ChannelNext
  PROVE  IInv'
<1>1. /\ UNCHANGED <<senderVars, receiverVars>>
      /\ frames' \subseteq frames /\ acks' \subseteq acks
      /\ refused' = refused \/ (refused' = TRUE /\ rpc = "closed" /\ spc \notin {"done", "failed"})
  BY DEF ChannelNext, LoseFrame, LoseAck, PortUnreachable
<1>2. /\ UNCHANGED <<windowBuf, nextFrame, LAR, congestionWindow, lastFrameSeqNo, ack, spc>>
      /\ UNCHANGED <<buf, NFE, endSeqNum, written, rpc>>
  BY <1>1 DEF senderVars, receiverVars
<1>3. SenderTypeOK' /\ ReceiverTypeOK'
  BY <1>2, Zenon DEF IInv, TypeOK, SenderTypeOK, ReceiverTypeOK
<1>4. ChannelTypeOK'
  BY <1>1 DEF IInv, TypeOK, ChannelTypeOK
<1>5. WindowInv' /\ DeliveryInv' /\ RingInv' /\ SettledInv'
  BY <1>2, Zenon
     DEF IInv, WindowInv, DeliveryInv, RingInv, InSlot, SettledInv, Discarded, DeliveredInOrder
<1>6. EndInv'
  BY <1>1, <1>2 DEF IInv, EndInv
<1>7. NetworkInv'
  BY <1>1, <1>2, Zenon DEF IInv, NetworkInv, Truthful
<1>8. QED
  BY <1>3, <1>4, <1>5, <1>6, <1>7 DEF IInv, TypeOK

LEMMA StutterInv ==
  ASSUME IInv, UNCHANGED vars
  PROVE  IInv'
<1>1. /\ UNCHANGED <<windowBuf, nextFrame, LAR, congestionWindow, lastFrameSeqNo, ack, spc>>
      /\ UNCHANGED <<buf, NFE, endSeqNum, written, rpc, frames, acks, refused>>
  BY DEF vars, senderVars, receiverVars, channelVars
<1>2. TypeOK'
  BY <1>1, Zenon DEF IInv, TypeOK, SenderTypeOK, ReceiverTypeOK, ChannelTypeOK
<1>3. QED
  BY <1>1, <1>2, Zenon
     DEF IInv, WindowInv, DeliveryInv, RingInv, InSlot, EndInv, NetworkInv, Truthful,
         SettledInv, Discarded, DeliveredInOrder

LEMMA StepInv == IInv /\ [Next]_vars => IInv'
<1> SUFFICES ASSUME IInv, [Next]_vars PROVE IInv'
  OBVIOUS
<1>1. CASE SenderNext
  BY <1>1, SendWindowInv, ReceiveAckInv, ReceiveTimeoutInv, ReceiveRefusedInv DEF SenderNext
<1>2. CASE ReceiverNext
  BY <1>2, ReceiveFrameInv, CloseReceiverInv DEF ReceiverNext
<1>3. CASE ChannelNext
  BY <1>3, NetworkStepInv
<1>4. CASE UNCHANGED vars
  BY <1>4, StutterInv
<1>5. QED
  BY <1>1, <1>2, <1>3, <1>4 DEF Next, Terminated

\* In every reachable state the window, the ring, the file and the datagrams in
\* flight agree on the places of the file (reliable_sender.cpp:146-375,
\* reliable_receiver.cpp:36-124), whatever the network does.
THEOREM Invariance == Spec => []IInv
<1>1. Init => IInv
  BY InitInv
<1>2. IInv /\ [Next]_vars => IInv'
  BY StepInv
<1>3. QED
  BY <1>1, <1>2, PTL DEF Spec

\* The variables keep their types: no number leaves 0 .. MAX_SEQ_NO - 1, no window
\* position is read outside the deque.
THEOREM TypeCorrect == Spec => []TypeOK
<1>1. IInv => TypeOK
  BY DEF IInv
<1>2. QED
  BY <1>1, Invariance, PTL

\* handleRecvFrame writes the frames of the source file in order, each once.
THEOREM WrittenInOrder == Spec => []DeliveredInOrder
<1>1. IInv => DeliveredInOrder
  BY DEF IInv, DeliveryInv
<1>2. QED
  BY <1>1, Invariance, PTL

\* The pop loop of reliablyTransfer (353-356) discards only what the receiver has
\* written.
THEOREM DiscardedIsWritten == Spec => []AckedImpliesDelivered
<1>1. IInv => AckedImpliesDelivered
  BY DEF IInv, DeliveryInv, AckedImpliesDelivered
<1>2. QED
  BY <1>1, Invariance, PTL

\* The number computed for a retransmission (168) is the number stored with the
\* frame (221).
THEOREM WindowIsNumbered == Spec => []WindowNumbered
<1>1. ASSUME IInv
      PROVE  WindowNumbered
  <2> SUFFICES ASSUME NEW i \in 1 .. Len(windowBuf)
               PROVE  /\ windowBuf[i].seqNum = (LAR + i) % MAX_SEQ_NO
                      /\ windowBuf[i].data = Discarded + i - 1
    BY DEF WindowNumbered
  <2>1. windowBuf[i] = FileFrame(LAR + i) /\ LAR = Discarded - 1
    BY <1>1 DEF IInv, WindowInv
  <2>2. LAR + i \in 0 .. MAX_SEQ_NO - 1 /\ Discarded \in Int
    BY <1>1, Ranges, Constants, SMT DEF Discarded
  <2>3. (LAR + i) % MAX_SEQ_NO = LAR + i /\ LAR + i = Discarded + i - 1
    BY <2>1, <2>2, Constants, ModSmall, SMT
  <2>4. QED
    BY <2>1, <2>3 DEF FileFrame
<1>2. QED
  BY <1>1, Invariance, PTL

\* A frame that arrives, however late, is never past the end of the ring that
\* handleRecvFrame (52) would accept it into.
THEOREM RoomForEveryFrame == Spec => []ReceiverHasRoom
<1>1. ASSUME IInv
      PROVE  ReceiverHasRoom
  <2>1. NFE = Len(written)
    BY <1>1, Ranges
  <2>2. QED
    BY <1>1, <2>1, FrameInFlight DEF ReceiverHasRoom
<1>2. QED
  BY <1>1, Invariance, PTL

\* The sender leaves its loop (325-329), or exits on ECONNREFUSED (294-296) or on a
\* failed sendto (248-253), only when the receiver has written the whole file.
THEOREM StopsAfterDelivery == Spec => []SenderStopsAfterDelivery
<1>1. IInv => SenderStopsAfterDelivery
  BY DEF IInv, EndInv, SenderStopsAfterDelivery
<1>2. QED
  BY <1>1, Invariance, PTL

-----------------------------------------------------------------------------
\* Action properties.

\* recvfrom() has timed out and ack[] still holds the previous acknowledgement
\* (290-303): processing it again neither moves the window nor ends the program.
THEOREM TimeoutIsHarmless == Spec => TimeoutNeverSlides
<1>1. ASSUME IInv, ReceiveTimeout
      PROVE  UNCHANGED <<windowBuf, LAR>> /\ spc' = "sending"
  <2>1. spc # "done" /\ ProcessAck(ack)
    BY <1>1 DEF ReceiveTimeout
  <2>2. \/ ack \in SeqNo /\ (ack <= LAR \/ ack = MAX_SEQ_NO - 1)
        \/ ack = UninitAck /\ LAR = -1
    BY <1>1, <2>1 DEF IInv, SettledInv
  <2>3. ~ InsideWindow(ack)
    <3>1. SUFFICES ASSUME InsideWindow(ack) PROVE FALSE
      OBVIOUS
    <3>2. Processable(ack)
      BY <1>1, <2>1, SettledIsProcessable
    <3>3. /\ ack \in 0 .. MAX_SEQ_NO - 1 /\ LAR < ack /\ ack < Len(written)
          /\ ~ (ack = UninitAck /\ LAR = -1)
      BY <1>1, <3>1, <3>2, InsideIsWritten DEF SeqNo
    <3>4. ack <= LAR \/ ack = MAX_SEQ_NO - 1
      BY <2>2, <3>3
    <3>5. QED
      BY <1>1, <3>3, <3>4, Ranges, Constants, SMT
  <2>4. QED
    BY <2>1, <2>3 DEF ProcessAck
<1>2. IInv /\ [Next]_vars
        => [ReceiveTimeout => UNCHANGED <<windowBuf, LAR>> /\ spc' = "sending"]_vars
  BY <1>1
<1>3. QED
  BY <1>2, Invariance, PTL DEF Spec, TimeoutNeverSlides

\* An acknowledgement of a frame in the window, when it is received, always drops
\* that frame and those before it (313-362): C's % never hides it.
THEOREM AckCounts == Spec => AckIsCumulative
<1> DEFINE Counts(a) == spc' = "done" \/ \A i \in 1 .. Len(windowBuf') : windowBuf'[i].seqNum # a
<1>1. ASSUME IInv, NEW a \in acks, ReceiveAck(a),
             \E i \in 1 .. Len(windowBuf) : windowBuf[i].seqNum = a
      PROVE  Counts(a)
  <2>1. PICK i \in 1 .. Len(windowBuf) : windowBuf[i].seqNum = a
    BY <1>1
  <2>2. LAR + i = a /\ InsideWindow(a) /\ a \in SeqNo
    BY <1>1, <2>1, WindowNumberIsInside
  <2>3. Processable(a)
    BY <1>1, <2>2 DEF IInv, NetworkInv, Processable
  <2>4. CASE lastFrameSeqNo = a
    BY <1>1, <2>2, <2>4 DEF ReceiveAck, ProcessAck
  <2>5. CASE lastFrameSeqNo # a
    <3>1. windowBuf' = Unacknowledged(a)
      BY <1>1, <2>2, <2>5 DEF ReceiveAck, ProcessAck
    <3>2. /\ Len(windowBuf') \in Nat
          /\ \A j \in 1 .. Len(windowBuf') : windowBuf'[j] = FileFrame(a + j)
      BY <1>1, <2>2, <2>3, <3>1, SlideBuffer, LenProperties
    <3>3. ASSUME NEW j \in 1 .. Len(windowBuf')
          PROVE  windowBuf'[j].seqNum # a
      <4>1. windowBuf'[j].seqNum = a + j
        <5>1. windowBuf'[j] = FileFrame(a + j)
          BY <3>2
        <5>2. QED
          BY <5>1 DEF FileFrame
      <4>2. a \in Int /\ j \in Int /\ j > 0
        BY <2>2, <3>2, Constants, SMT DEF SeqNo
      <4>3. QED
        BY <4>1, <4>2, SMT
    <3>4. QED
      BY <3>3
  <2>6. QED
    BY <2>4, <2>5
<1>2. IInv /\ [Next]_vars
        => [\A a \in acks :
              /\ ReceiveAck(a)
              /\ \E i \in 1 .. Len(windowBuf) : windowBuf[i].seqNum = a
              => Counts(a)]_vars
  BY <1>1, Zenon
<1>3. QED
  BY <1>2, Invariance, PTL DEF Spec, AckIsCumulative

-----------------------------------------------------------------------------
\* SlidingWindow implements FileTransfer.

\* A file in order is the prefix of its length.
LEMMA InOrderIsPrefix ==
  ASSUME NEW f \in Seq(File), \A k \in 1 .. Len(f) : f[k] = k - 1
  PROVE  f = Transfer!Prefix(Len(f))
<1>1. f = [k \in 1 .. Len(f) |-> f[k]]
  BY LenProperties
<1>2. QED
  BY <1>1 DEF Transfer!Prefix

\* A receipt extends the file by nothing, or is a Deliver step.
LEMMA ReceiptImplements ==
  ASSUME IInv, IInv', NEW d \in frames, ReceiveFrame(d), UNCHANGED senderVars
  PROVE  Transfer!Deliver \/ UNCHANGED Transfer!transferVars
<1>1. NumFrames > 0
  BY FrameInFlight, Constants, SMT
<1>2. spc' = spc /\ rpc = "receiving"
  BY DEF senderVars, ReceiveFrame
<1>3. Len(written) \in Nat /\ Len(written') \in Nat
  BY LenProperties DEF IInv, TypeOK, ReceiverTypeOK
<1>4. /\ rpc' # "receiving" => Len(written') = NumFrames
      /\ rpc' = "receiving" => Len(written') < NumFrames
      /\ Len(written) < NumFrames
  BY <1>1, <1>2, Constants, SMT DEF IInv, EndInv
<1>5. Len(written') <= NumFrames
  BY <1>3, <1>4, Constants, SMT
<1>6. written = Transfer!Prefix(Len(written)) /\ written' = Transfer!Prefix(Len(written'))
  <2>1. written \in Seq(File) /\ \A k \in 1 .. Len(written) : written[k] = k - 1
    BY DEF IInv, TypeOK, ReceiverTypeOK, DeliveryInv, DeliveredInOrder
  <2>2. written' \in Seq(File) /\ \A k \in 1 .. Len(written') : written'[k] = k - 1
    BY DEF IInv, TypeOK, ReceiverTypeOK, DeliveryInv, DeliveredInOrder
  <2>3. QED
    BY <2>1, <2>2, InOrderIsPrefix
<1>7. Len(written) <= Len(written')
  <2>1. CASE RejectFrame(d)
    BY <1>3, <2>1, SMT DEF RejectFrame
  <2>2. CASE AcceptFrame(d)
    <3>1. /\ Discarded' <= Len(written') /\ NFE' = Len(written')
          /\ NFE = Len(written)
      BY DEF IInv, DeliveryInv
    <3>2. PICK n \in 0 .. RWS : NFE' = (NFE + n) % MAX_SEQ_NO /\ NFE + n \in 0 .. nextFrame
      <4>1. ~ OutsideWindow(d.seq)
        BY <2>2 DEF AcceptFrame
      <4>2. /\ Buffered(d) \in [Slot -> File \cup {Empty}]
            /\ RingOK(Buffered(d), NFE, endSeqNum')
        BY <4>1, BufferedOK DEF ReceiveFrame
      <4>3. PICK n \in 0 .. RWS : Contiguous(Buffered(d), n) /\ NFE' = (NFE + n) % MAX_SEQ_NO
        BY <2>2, Zenon DEF AcceptFrame
      <4>4. QED
        BY <4>2, <4>3, LoopDelivers
    <3>3. NFE + n \in 0 .. MAX_SEQ_NO - 1 /\ NFE \in Nat /\ n \in Nat
      BY <3>2, Ranges, Constants, SMT
    <3>4. NFE' = NFE + n
      BY <3>2, <3>3, Constants, ModSmall
    <3>5. QED
      BY <3>1, <3>3, <3>4, SMT
  <2>3. QED
    BY <2>1, <2>2 DEF ReceiveFrame
<1>8. CASE Len(written') = Len(written)
  <2>1. written' = written /\ rpc' = "receiving"
    BY <1>3, <1>4, <1>6, <1>8, Constants, SMT
  <2>2. QED
    BY <1>2, <2>1 DEF Transfer!transferVars
<1>9. CASE Len(written') # Len(written)
  <2>1. Len(written') \in Len(written) + 1 .. NumFrames
    BY <1>3, <1>5, <1>7, <1>9, Constants, SMT
  <2>2. (rpc' = "receiving") = (Len(written') # NumFrames)
    BY <1>3, <1>4, Constants, SMT
  <2>3. QED
    BY <1>2, <1>6, <2>1, <2>2 DEF Transfer!Deliver
<1>10. QED
  BY <1>8, <1>9

\* The sender's turns are stutters, or a Finish step: it stops only when the
\* receiver has.
LEMMA SenderImplements ==
  ASSUME IInv, IInv', SenderNext
  PROVE  Transfer!Finish \/ UNCHANGED Transfer!transferVars
<1>1. UNCHANGED <<written, rpc>>
  BY DEF SenderNext, receiverVars
<1>2. spc \in {"sending", "waiting"} /\ spc' \in {"sending", "waiting", "done", "failed"}
  BY DEF SenderNext, SendWindow, ReceiveAck, ReceiveTimeout, ReceiveRefused, ProcessAck
<1>3. CASE spc' \in {"sending", "waiting"}
  BY <1>1, <1>2, <1>3 DEF Transfer!transferVars
<1>4. CASE spc' \in {"done", "failed"}
  <2>1. rpc # "receiving"
    BY <1>1, <1>4 DEF IInv, EndInv
  <2>2. QED
    BY <1>1, <1>2, <1>4, <2>1 DEF Transfer!Finish
<1>5. QED
  BY <1>2, <1>3, <1>4

\* reliable_sender and reliable_receiver together transfer the file: FileTransfer
\* is what a user of the two programs sees, losses and reorderings hidden.
THEOREM Refinement == Spec => ImplementsTransfer
<1>1. Init => Transfer!Init
  BY DEF Init, SenderInit, ReceiverInit, Transfer!Init
<1>2. ASSUME IInv, IInv', [Next]_vars
      PROVE  [Transfer!Next]_(Transfer!transferVars)
  <2>1. CASE SenderNext
    BY <1>2, <2>1, SenderImplements DEF Transfer!Next
  <2>2. CASE ReceiverNext
    <3>1. CASE \E d \in frames : ReceiveFrame(d) /\ UNCHANGED senderVars
      BY <1>2, <3>1, ReceiptImplements DEF Transfer!Next
    <3>2. CASE CloseReceiver /\ UNCHANGED senderVars
      BY <3>2 DEF CloseReceiver, senderVars, Transfer!transferVars
    <3>3. QED
      BY <2>2, <3>1, <3>2 DEF ReceiverNext
  <2>3. CASE ChannelNext
    BY <2>3
       DEF ChannelNext, LoseFrame, LoseAck, PortUnreachable, senderVars, receiverVars,
           Transfer!transferVars
  <2>4. CASE UNCHANGED vars
    BY <2>4 DEF vars, senderVars, receiverVars, Transfer!transferVars
  <2>5. QED
    BY <1>2, <2>1, <2>2, <2>3, <2>4 DEF Next, Terminated
<1>3. IInv /\ IInv' /\ [Next]_vars => [Transfer!Next]_(Transfer!transferVars)
  BY <1>2
<1>4. QED
  BY <1>1, <1>3, Invariance, PTL DEF Spec, ImplementsTransfer, Transfer!Spec
=============================================================================
