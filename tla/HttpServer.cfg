SPECIFICATION FairSpec
CONSTANTS
  BodyLen = 2
  MaxRequests = 2
INVARIANTS
  HandledOnce
  MethodWritten
  Framed
PROPERTIES
  OneAnswer
  ExchangeSpec
  AllAnswered
CHECK_DEADLOCK FALSE
