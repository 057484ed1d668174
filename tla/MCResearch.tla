------------------------------ MODULE MCResearch ------------------------------
(* The four parts of the research, one of them at work in each behaviour: the   *)
(* history, the outcome of signals, the breakout, the choice of an instrument.  *)
EXTENDS MCHistoryPager, MCTradeOutcome, MCBreakout, MCScreening

VARIABLE part

researchVars == <<part, pagerVars, outcomeVars, breakoutVars, screeningVars>>

PagerIdle == pager = "candles" /\ market = MCRef /\ clock = 12 /\ PagerInit
OutcomeIdle == /\ series = [b \in 1..4 |-> MCBar(b = 1, {}, "inside")]
               /\ signals = <<MCSignal(1, "long"), MCSignal(2, "long"), MCSignal(3, "long")>>
               /\ OutcomeInit
BreakoutIdle == atr = <<2, 2, 1, 1, 1, 1, 1, 1, 1>> /\ tradesFile = "none" /\ BreakoutInit
ScreeningIdle == /\ listing = <<MCPlain, MCPlain, MCPlain, MCPlain>>
                 /\ args = [list |-> TRUE, debug |-> 0, resume |-> 0, limit |-> <<>>]
                 /\ ScreeningInit

ResearchInit ==
    \/ part = "pager" /\ PagerInit /\ OutcomeIdle /\ BreakoutIdle /\ ScreeningIdle
    \/ part = "outcome" /\ OutcomeInit /\ PagerIdle /\ BreakoutIdle /\ ScreeningIdle
    \/ part = "breakout" /\ BreakoutInit /\ PagerIdle /\ OutcomeIdle /\ ScreeningIdle
    \/ part = "screening" /\ ScreeningInit /\ PagerIdle /\ OutcomeIdle /\ BreakoutIdle

ResearchNext ==
    \/ part = "pager" /\ PagerNext /\ UNCHANGED <<part, outcomeVars, breakoutVars, screeningVars>>
    \/ part = "outcome" /\ OutcomeNext /\ UNCHANGED <<part, pagerVars, breakoutVars, screeningVars>>
    \/ part = "breakout" /\ BreakoutNext /\ UNCHANGED <<part, pagerVars, outcomeVars, screeningVars>>
    \/ part = "screening" /\ ScreeningNext /\ UNCHANGED <<part, pagerVars, outcomeVars, breakoutVars>>

ResearchSpec == ResearchInit /\ [][ResearchNext]_researchVars

\* The type invariants of the four parts (HistoryPager, TradeOutcome, Breakout,
\* Screening).
ResearchTypeOK == PagerTypeOK /\ OutcomeTypeOK /\ BreakoutTypeOK /\ ScreeningTypeOK
=============================================================================
