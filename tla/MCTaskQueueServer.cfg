\* Compose deployment: two workers, a backtest (1), an analysis (2), a market update (3).
SPECIFICATION Spec
CONSTANTS
  w1 = w1
  w2 = w2
  k1 = k1
  k2 = k2
  k3 = k3
  k4 = k4
  Tasks = {1, 2, 3}
  Leased = {1, 2}
  Analyses = {2}
  Workers <- TwoWorkers
  Tokens <- FourTokens
  NoToken = NoToken
  NoTask = 0
  LeaseTicks = 3
  MaxLag = 1
  MaxFaults = 1
  Desktop = FALSE
SYMMETRY ServerSymmetry
INVARIANTS
  OneWriter
  UnleasedRunsAlone
  RunOutcomeAgrees
PROPERTIES
  TimestampsMonotone
  NoTheftFromLiveWorker
  ImplementsLifecycle
