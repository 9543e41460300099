---------------------------- MODULE MCBacktestRun ----------------------------
EXTENDS BacktestRun
\* Two workers, three symbols of which one is a gap, three claims.
=============================================================================
