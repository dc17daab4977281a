------------------------- MODULE MCExchangeReader -------------------------
EXTENDS ExchangeReader

MCIds == {1, 2}
MCTimes == 0..2
MCSpans == {0, 2}
=============================================================================
