\* Desktop deployment: one sidecar worker, a backtest (1), an analysis (2) and a
\* market update (3), startup recovery.
SPECIFICATION Spec
CONSTANTS
  w1 = w1
  w2 = w2
  k1 = k1
  k2 = k2
  k3 = k3
  k4 = k4
  Tasks = {1, 2, 3}
  Leased = {1, 2}
  Analyses = {2}
  Workers <- OneWorker
  Tokens <- ThreeTokens
  NoToken = NoToken
  NoTask = 0
  LeaseTicks = 3
  MaxLag = 1
  MaxFaults = 2
  Desktop = TRUE
SYMMETRY DesktopSymmetry
PROPERTIES
  ImplementsLifecycle
