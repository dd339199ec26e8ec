\* Two clients, a queue of one, three requests: every interleaving.
SPECIFICATION Spec
CONSTANTS
  Clients = {c1, c2}
  MaxInFlight = 1
  MaxRequests = 3
INVARIANTS
  RequestInOnePlace
  QueueBounded
PROPERTIES
  WaitGetComesBack
  PendingIsServed
  DestructorReturnsUnlessMissed
CHECK_DEADLOCK FALSE
