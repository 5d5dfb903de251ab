\* Two workers whose callbacks close any connection
SPECIFICATION FairSpec
CONSTANTS
  Workers = {w1, w2}
PROPERTIES
  CloseReturns
\* When both connections are closed there are no more events.
CHECK_DEADLOCK FALSE
