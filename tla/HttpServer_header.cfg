SPECIFICATION Spec
CONSTANTS
  BodyLen = 1
  MaxRequests = 1
INVARIANT HeaderErrorReturned
CHECK_DEADLOCK FALSE
