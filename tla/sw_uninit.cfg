SPECIFICATION Spec
CONSTANTS
  MAX_SEQ_NO = 8
  NumFrames = 2
  RWS = 2
  SWS = 2
  UninitAck <- ZeroAck
INVARIANT AckedImpliesDelivered
