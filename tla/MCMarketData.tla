---------------------------- MODULE MCMarketData ----------------------------
\* Two callers and one instrument: what they share is the lookup of it.
EXTENDS MarketData
=============================================================================
