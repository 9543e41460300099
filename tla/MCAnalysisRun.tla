----------------------------- MODULE MCAnalysisRun -----------------------------
EXTENDS AnalysisRun
OneKind == <<"market">>
TwoKinds == <<"market", "news">>
MarketOnly == {"market"}
================================================================================
