\* Requested, called and accepted connections over two workers
SPECIFICATION FairSpec
CONSTANTS
  Users      = {u1, u2}
  Control    = c
  NoOne      = nobody
  Requests   = {r1, r2, r3}
  NoRequest  = none
  NumThreads = 2
INVARIANTS
  TypeOK
  SocketsAccounted
  AnswersTrue
  IdentifiedFirst
  Balanced
  FireHasRequest
PROPERTIES
  AnsweredInTurn
