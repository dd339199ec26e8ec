\* Two committing threads, two pauses, two Loads that fail: every order of
\* stores, notifies and the worker's steps, for callers that finish and callers
\* that never do.
SPECIFICATION Spec
CONSTANTS
  Callers = {w1, w2}
  MaxPauses = 2
  MaxFailedLoads = 2
  MaxCompactions = 2
INVARIANTS
  NoRequestSwallowed
PROPERTIES
  CommitsKeepBeingSeen
  EndsUnlessNotifyMissed
