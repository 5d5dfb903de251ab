\* Requests made one before the other is answered
SPECIFICATION FairSpec
CONSTANTS
  Users      = {u}
  Control    = c
  NoOne      = nobody
  Requests   = {r1, r2}
  NoRequest  = none
  NumThreads = 2
PROPERTIES
  RequestsAnswered
