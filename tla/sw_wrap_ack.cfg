SPECIFICATION Spec
CONSTANTS
  MAX_SEQ_NO = 6
  NumFrames = 8
  RWS = 3
  SWS = 3
  UninitAck <- HarmlessAck
PROPERTY AckIsCumulative
ACTION_CONSTRAINT KindNetwork
