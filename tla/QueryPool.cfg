\* Three threads and up to four queries: fewer, as many and more tasks than threads.
\* A destructor whose notify is missed hangs, hence no check for deadlocks.
SPECIFICATION Spec
CONSTANTS
  Workers = {w1, w2, w3}
  MaxQueries = 4
INVARIANTS
  EachQueryOnce
  NothingDropped
PROPERTIES
  FuturesBecomeReady
  DestructorReturnsUnlessMissed
CHECK_DEADLOCK FALSE
