\* Desktop: cancelling a task that recovery put back in the queue.
SPECIFICATION Spec
CONSTANTS
  w1 = w1
  w2 = w2
  k1 = k1
  k2 = k2
  k3 = k3
  k4 = k4
  NoToken = NoToken
  NoTask = 0
  LeaseTicks = 3
  MaxLag = 1
  Tasks = {1}
  Leased = {1}
  Analyses = {1}
  Workers <- OneWorker
  Tokens <- ThreeTokens
  MaxFaults = 1
  Desktop = TRUE
PROPERTIES
  QueuedCancelEndsRun
