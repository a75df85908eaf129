----------------------------- MODULE MCQuotes -----------------------------
\* One asset, two instruments: one whose first provider serves every day and
\* whose second serves a window, one whose first may lack a close and whose
\* second climbs down a ladder.
EXTENDS Quotes

CONSTANTS petr, btc

MCInstruments == {petr, btc}
MCChain == [i \in MCInstruments |->
  <<[reach |-> "all", days |-> 0, gaps |-> IF i = btc THEN {} ELSE {3}],
    IF i = btc THEN [reach |-> "window", days |-> 2, gaps |-> {}]
    ELSE [reach |-> "ladder", days |-> 1, gaps |-> {}]>>]
MCTrades == [i \in MCInstruments |-> IF i = btc THEN Days ELSE Days \ {2}]
=============================================================================
