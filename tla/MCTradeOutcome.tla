--------------------------- MODULE MCTradeOutcome ---------------------------
EXTENDS TradeOutcome

MCBar(gap, hits, open) == [gap |-> gap, hits |-> hits, open |-> open]
MCBars == { MCBar(FALSE, {}, "inside"), MCBar(FALSE, {"up"}, "inside"),
            MCBar(FALSE, {"up", "down"}, "inside"), MCBar(TRUE, {}, "inside"),
            MCBar(TRUE, {"down"}, "inside"), MCBar(TRUE, {"up"}, "up"),
            MCBar(TRUE, {"up", "down"}, "up") }

\* four bars, the first of a block
MCSeries == { <<MCBar(TRUE, {}, "inside"), b, c, d>> : b, c, d \in MCBars }

MCSignal(at, side) == [at |-> at, side |-> side]
MCSignals == { <<MCSignal(1, s), MCSignal(2, t), MCSignal(3, s)>> : s, t \in {"long", "short"} }
             \cup { <<MCSignal(0, "long"), MCSignal(2, s), MCSignal(4, "short")>> :
                      s \in {"long", "short"} }
=============================================================================
