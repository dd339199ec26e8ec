\* A read fails and its buffer is handed out.
SPECIFICATION Spec
CONSTANTS
  Clients = {c1}
  MaxInFlight = 1
  MaxRequests = 2
INVARIANTS
  FailedReadNotHandedOut
CHECK_DEADLOCK FALSE
