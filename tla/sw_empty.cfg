SPECIFICATION FairSpec
CONSTANTS
  MAX_SEQ_NO = 5
  NumFrames = 0
  RWS = 2
  SWS = 2
  UninitAck <- HarmlessAck
PROPERTY BothExit
