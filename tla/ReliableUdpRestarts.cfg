\* Every process may restart once; an id is used once in each life, so that the second life uses it again; send_to may fail.
SPECIFICATION FairSpec
CONSTANTS
  a = a
  b = b
  c = c
  Sockets = {a, b, c}
  Links <- TwoReceivers
  NoPacket = NoPacket
  MaxRetries = 2
  MaxSends = 1
  MaxLife = 1
  IoErrors = TRUE
INVARIANTS
  TypeOK
  AckedMeansTaken
  AckedMeansHandled
  TimeoutAfterAllTries
PROPERTIES
  OutcomeIsFinal
  ImplementsAtLeastOnce
  EverySendResolves
\* Every bound may be used up.
CHECK_DEADLOCK FALSE
