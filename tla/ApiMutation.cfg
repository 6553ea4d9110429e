\* Two handlers of requests with one key and two bodies, whose receipt expires
\* once, and two publishers.
SPECIFICATION FairSpec
CONSTANTS
  Keys = {k1}
  Bodies = {a, b}
  Ids = {i1, i2}
  Handlers = {h1, h2}
  Publishers = {p1, p2}
  MaxRequests = 2
  MaxLapses = 1
  MaxFaults = 2
  NoKey = NoKey  NoBody = NoBody  NoId = NoId  NoHandler = NoHandler
INVARIANTS Replayable AnswersOwnMutation NoEventLost
PROPERTIES ServedAndDelivered
CHECK_DEADLOCK FALSE
