SPECIFICATION Spec
CONSTANTS
  MAX_SEQ_NO = 7
  NumFrames = 9
  RWS = 3
  SWS = 3
  UninitAck <- HarmlessAck
INVARIANT DeliveredInOrder
ACTION_CONSTRAINT KindNetwork
