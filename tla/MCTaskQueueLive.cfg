\* Compose deployment under fairness: leased work ends whatever dies under it.
SPECIFICATION FairSpec
CONSTANTS
  w1 = w1
  w2 = w2
  k1 = k1
  k2 = k2
  k3 = k3
  k4 = k4
  NoToken = NoToken
  NoTask = 0
  LeaseTicks = 3
  MaxLag = 1
  Tasks = {1, 2}
  Leased = {1}
  Analyses = {}
  Workers <- TwoWorkers
  Tokens <- ThreeTokens
  MaxFaults = 2
  Desktop = FALSE
PROPERTIES
  LeasedTaskEnds
