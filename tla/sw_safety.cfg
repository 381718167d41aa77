SPECIFICATION Spec
CONSTANTS
  MAX_SEQ_NO = 8
  NumFrames = 5
  RWS = 3
  SWS = 3
  UninitAck <- HarmlessAck
INVARIANTS
  TypeOK
  DeliveredInOrder
  AckedImpliesDelivered
  WindowNumbered
  ReceiverHasRoom
  SenderStopsAfterDelivery
  IInv
PROPERTIES
  TimeoutNeverSlides
  AckIsCumulative
  ImplementsTransfer
