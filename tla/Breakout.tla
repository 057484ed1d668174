------------------------------- MODULE Breakout -------------------------------
(***************************************************************************)
(* The replay of the compression breakout over a year of candles           *)
(* (backtest_compression_breakout.py) and its evaluation                   *)
(* (evaluate_phase47.py).  A bar brings a close, a range and an average    *)
(* true range; a bar among the quietest of the window is in an episode,    *)
(* the range of an episode freezes when it ends, and a close beyond it     *)
(* opens a position, which a stop or a trailing stop closes.  Prices are   *)
(* integers, the multiples of R hundredths.  The extremes of a trade       *)
(* (mae, mfe) and the log of events are left out.                          *)
(***************************************************************************)
EXTENDS Integers, Sequences, FiniteSets

CONSTANTS AtrSeries,    \* average true ranges: sequences, a value for each bar
          Closes,       \* closing prices
          Reaches,      \* how far a bar's high and low are from its close
          AtrPeriod, Lookback, Threshold,       \* DEF_..., Threshold in percent
          StopAtr, TrailAtr, ActivateR, ExpiryBars,
          SplitPercent, Insufficient, Evaluable, \* evaluate_phase47: the split,
          ReqExpectancy, ReqFactor, ReqStability, Spread \* tiers and criteria

ASSUME BreakoutAssumption ==
    /\ \A s \in AtrSeries : s \in Seq(Nat \ {0})
    /\ Closes \subseteq Int /\ Reaches \subseteq Nat
    /\ {AtrPeriod, Lookback, StopAtr, TrailAtr, ExpiryBars} \subseteq Nat \ {0}
    /\ {Threshold, ActivateR, SplitPercent, Insufficient, Evaluable, Spread} \subseteq Nat

VARIABLES atr,          \* the average true range of each bar
          phase,        \* "start", "replay", "traded", "ended" or "died"
          bar,          \* the bar to come
          window,       \* the last Lookback true ranges
          episode,      \* [state, high, low, left]
          position,     \* NoPosition, or the one position
          trades,       \* those closed
          funnel,       \* episodes started, expired, consumed, signals ignored
          tradesFile, summaryFile, \* the last by name: of "none", an "older" or "this" run
          verdict

breakoutVars == <<atr, phase, bar, window, episode, position, trades, funnel,
                  tradesFile, summaryFile, verdict>>

NoEpisode == [state |-> "inactive", high |-> 0, low |-> 0, left |-> 0]
NoPosition == <<>>
NoVerdict == [trades |-> "none", summary |-> "none", result |-> "none"]

BreakoutInit ==
    /\ atr \in AtrSeries
    /\ phase = "start" /\ bar = 1 /\ window = <<>>
    /\ episode = NoEpisode /\ position = NoPosition
    /\ trades = <<>>
    /\ funnel = [started |-> 0, expired |-> 0, consumed |-> 0, ignored |-> 0]
    /\ tradesFile \in {"none", "older"} /\ summaryFile = tradesFile
    /\ verdict = NoVerdict

-----------------------------------------------------------------------------
(* The replay.                                                             *)

\* _wilder_atr(): a true range needs the bar before, an average AtrPeriod of them
HasAtr(b) == b > AtrPeriod
FirstEvaluable == AtrPeriod + Lookback

Bounded(w) == IF Len(w) > Lookback THEN Tail(w) ELSE w

\* the window after the bars up to a last one
Filled(last) ==
    LET w[b \in 0..last] ==
          IF b = 0 THEN <<>>
          ELSE IF HasAtr(b) THEN Bounded(Append(w[b - 1], atr[b])) ELSE w[b - 1]
    IN  w[last]

\* A fault: the first evaluable bar is left out of the window.
PrefillShort ==
    /\ phase = "start" /\ phase' = "replay"
    /\ bar' = FirstEvaluable
    /\ window' = Filled(IF Len(atr) < FirstEvaluable THEN Len(atr) ELSE FirstEvaluable - 1)
    /\ UNCHANGED <<atr, episode, position, trades, funnel, tradesFile, summaryFile, verdict>>

\* the window is filled with the bars of the warmup and the first evaluable one
Prefill ==
    /\ phase = "start" /\ phase' = "replay"
    /\ bar' = FirstEvaluable
    /\ window' = Filled(IF Len(atr) < FirstEvaluable THEN Len(atr) ELSE FirstEvaluable)
    /\ UNCHANGED <<atr, episode, position, trades, funnel, tradesFile, summaryFile, verdict>>

\* the inclusive rank of the bar in the window, below the threshold
Qualifies(w, v) ==
    Cardinality({ i \in DOMAIN w : w[i] <= v }) * 100 < Threshold * Len(w)

Sign(side) == IF side = "long" THEN 1 ELSE -1
Gain(p, c) == Sign(p.side) * (c - p.entry)
InR(p, c) == (Gain(p, c) * 100) \div p.risk

\* an open position at a close: the trail is activated for good, the stop
\* follows the close at a distance and only in the position's favour
Managed(p, c) ==
    LET trailing == p.trail \/ InR(p, c) >= ActivateR
        candidate == c - Sign(p.side) * TrailAtr * p.atr
    IN  [p EXCEPT !.trail = trailing,
                  !.stop = IF trailing /\ Sign(p.side) * (candidate - @) > 0
                           THEN candidate ELSE @]

Hit(p, c) == Sign(p.side) * (c - p.stop) <= 0

Trade(p, c) == [entered |-> p.entered, exited |-> bar, side |-> p.side, entry |-> p.entry,
                risk |-> p.risk, r |-> InR(p, c),
                reason |-> IF p.trail THEN "trail" ELSE "stop"]

\* A fault: the stop is below the entry on either side.
OpenedBelow(side, c) ==
    LET risk == StopAtr * atr[bar] IN
    [entered |-> bar, side |-> side, entry |-> c, atr |-> atr[bar], risk |-> risk,
     stop |-> c - risk, trail |-> FALSE]

Opened(side, c) ==
    LET risk == StopAtr * atr[bar] IN
    [entered |-> bar, side |-> side, entry |-> c, atr |-> atr[bar], risk |-> risk,
     stop |-> c - Sign(side) * risk, trail |-> FALSE]

Larger(a, b) == IF a > b THEN a ELSE b
Smaller(a, b) == IF a < b THEN a ELSE b

\* the episode at a bar, before the breakout is looked for: only qualifying bars
\* widen the range, the first other one freezes it
EpisodeAt(quiet, c, reach) ==
    CASE episode.state = "inactive" /\ quiet ->
            [state |-> "active", high |-> c + reach, low |-> c - reach, left |-> 0]
      [] episode.state = "active" /\ quiet ->
            [episode EXCEPT !.high = Larger(@, c + reach), !.low = Smaller(@, c - reach)]
      [] episode.state = "active" /\ ~quiet ->
            [episode EXCEPT !.state = "frozen", !.left = ExpiryBars]
      [] OTHER -> episode

BreakoutSide(e, c) ==
    CASE e.state = "frozen" /\ c > e.high -> "long"
      [] e.state = "frozen" /\ c < e.low -> "short"
      [] OTHER -> "none"

One(b) == IF b THEN 1 ELSE 0

\* A fault: a signal that is ignored does not consume its episode.
CountedIfTaken(started, expired, consumed, ignored) ==
    [started |-> funnel.started + One(started), expired |-> funnel.expired + One(expired),
     consumed |-> funnel.consumed + One(consumed /\ ~ignored),
     ignored |-> funnel.ignored + One(ignored)]

Counted(started, expired, consumed, ignored) ==
    [started |-> funnel.started + One(started), expired |-> funnel.expired + One(expired),
     consumed |-> funnel.consumed + One(consumed), ignored |-> funnel.ignored + One(ignored)]

\* a bar: the window, the position, the episode, then the breakout
ReplayBar(c, reach) ==
    /\ phase = "replay" /\ bar <= Len(atr)
    /\ bar' = bar + 1
    /\ window' = IF bar > FirstEvaluable THEN Bounded(Append(window, atr[bar])) ELSE window
    /\ LET quiet == Qualifies(window', atr[bar])
           managed == IF position = NoPosition THEN NoPosition ELSE Managed(position, c)
           hit == managed # NoPosition /\ Hit(managed, c)
           kept == IF hit THEN NoPosition ELSE managed
           e == EpisodeAt(quiet, c, reach)
           side == BreakoutSide(e, c)
           started == episode.state = "inactive" /\ quiet
           broken == side # "none"
           expired == e.state = "frozen" /\ ~broken /\ e.left <= 1
       IN /\ trades' = IF hit THEN Append(trades, Trade(managed, c)) ELSE trades
          /\ position' = IF broken /\ kept = NoPosition THEN Opened(side, c) ELSE kept
          /\ episode' = IF broken \/ expired THEN NoEpisode
                        ELSE IF e.state = "frozen" THEN [e EXCEPT !.left = @ - 1] ELSE e
          /\ funnel' = Counted(started, expired, broken, broken /\ kept # NoPosition)
    /\ UNCHANGED <<atr, phase, tradesFile, summaryFile, verdict>>

\* the outputs: the trades, the events, and the summary at the end; the names
\* carry the first and the last epoch, so those of a later fetch sort last
WriteTrades ==
    /\ phase = "replay" /\ bar > Len(atr)
    /\ phase' = "traded" /\ tradesFile' = "this"
    /\ UNCHANGED <<atr, bar, window, episode, position, trades, funnel, summaryFile, verdict>>

WriteSummary ==
    /\ phase = "traded"
    /\ phase' = "ended" /\ summaryFile' = "this"
    /\ UNCHANGED <<atr, bar, window, episode, position, trades, funnel, tradesFile, verdict>>

ReplayDies ==
    /\ phase = "traded"
    /\ phase' = "died"
    /\ UNCHANGED <<atr, bar, window, episode, position, trades, funnel,
                   tradesFile, summaryFile, verdict>>

-----------------------------------------------------------------------------
(* The evaluation.                                                         *)

\* _load(): the last file of either name
Loaded == IF tradesFile = "this" THEN trades ELSE <<>>

\* the split is by the epochs of the summary; an older fetch ended a bar sooner
LastBar(file) == IF file = "this" THEN Len(atr) ELSE Len(atr) - 1
Boundary(file) == 1 + (SplitPercent * (LastBar(file) - 1)) \div 100

InSample(rows, file) == SelectSeq(rows, LAMBDA t : t.entered < Boundary(file))
Holdout(rows, file) == SelectSeq(rows, LAMBDA t : t.entered >= Boundary(file))

\* _net_r(): the cost of a round trip is a part of the entry price, in R
NetR(t) == t.r - (Spread * t.entry) \div t.risk

\* _metrics()
Total(rows, Keeps(_)) ==
    LET sum[n \in 0..Len(rows)] ==
          IF n = 0 THEN 0
          ELSE sum[n - 1] + IF Keeps(NetR(rows[n])) THEN NetR(rows[n]) ELSE 0
    IN  sum[Len(rows)]
NetTotal(rows) == Total(rows, LAMBDA v : TRUE)
GrossWin(rows) == Total(rows, LAMBDA v : v > 0)
GrossLoss(rows) == -Total(rows, LAMBDA v : v <= 0)

\* round(x / y, 4), in ten-thousandths; a tie, which floating point decides, is
\* rounded up
Rounded(x, y) == (20000 * x + y) \div (2 * y)

\* the rounded mean, in ten-thousandths of R
ExpectancyR(rows) ==
    IF rows = <<>> THEN 0 ELSE Rounded(NetTotal(rows), 100 * Len(rows))

ExpectancyMet(rows) == ExpectancyR(rows) > 100 * ReqExpectancy
FactorMet(rows) ==
    GrossLoss(rows) = 0 \/ Rounded(GrossWin(rows), GrossLoss(rows)) > 100 * ReqFactor
StabilityMet(held, sample) ==
    /\ ExpectancyR(sample) > 0
    /\ 100 * ExpectancyR(held) >= ReqStability * ExpectancyR(sample)

\* the criteria in their order, up to the first that is not met
Judged(held, sample) ==
    CASE Len(held) < Insufficient -> "INSUFFICIENT"
      [] Len(held) >= Insufficient /\ Len(held) < Evaluable -> "EXPLORATORY"
      [] Len(held) >= Evaluable /\ ExpectancyMet(held) /\ FactorMet(held)
           /\ StabilityMet(held, sample) -> "PASS"
      [] OTHER -> "FAIL"

Evaluate ==
    /\ phase \in {"died", "ended"}
    /\ tradesFile # "none" /\ summaryFile # "none"
    /\ verdict = NoVerdict
    /\ verdict' = [trades |-> tradesFile, summary |-> summaryFile,
                   result |-> Judged(Holdout(Loaded, summaryFile),
                                     InSample(Loaded, summaryFile))]
    /\ UNCHANGED <<atr, phase, bar, window, episode, position, trades, funnel,
                   tradesFile, summaryFile>>

BreakoutNext ==
    \/ Prefill \/ WriteTrades \/ WriteSummary \/ ReplayDies \/ Evaluate
    \/ \E c \in Closes, reach \in Reaches : ReplayBar(c, reach)

BreakoutSpec == BreakoutInit /\ [][BreakoutNext]_breakoutVars

-----------------------------------------------------------------------------
(* Properties.                                                             *)

\* Every variable has the values its code gives it, and the window, which two
\* loops fill, is the true ranges of the last Lookback bars.
BreakoutTypeOK ==
    /\ phase \in {"start", "replay", "traded", "ended", "died"}
    /\ episode.state \in {"inactive", "active", "frozen"}
    /\ position # NoPosition => position.side \in {"long", "short"} /\ position.risk > 0
    /\ (phase = "replay" /\ bar > FirstEvaluable) =>
          window = SubSeq(atr, bar - Lookback, bar - 1)

\* The funnel adds up at every bar: an episode is live, has expired or was broken
\* out of, and a breakout is a trade, the open position or an ignored signal.
EpisodesAccounted ==
    /\ funnel.started = funnel.expired + funnel.consumed
                        + IF episode.state = "inactive" THEN 0 ELSE 1
    /\ funnel.consumed = funnel.ignored + Len(trades)
                         + IF position = NoPosition THEN 0 ELSE 1

\* "one at a time, no pyramiding" and "initial stop 1.5 x ATR": trades do not
\* overlap, each starts after the warmup, and one that its initial stop ended has
\* lost its risk or more.
TradesApart ==
    /\ \A i \in DOMAIN trades :
          /\ FirstEvaluable < trades[i].entered /\ trades[i].entered < trades[i].exited
          /\ i < Len(trades) => trades[i].exited <= trades[i + 1].entered
          /\ trades[i].reason = "stop" => trades[i].r <= -100
    /\ (trades # <<>> /\ position # NoPosition) =>
          trades[Len(trades)].exited <= position.entered

\* "ratchets only": while a position is open its stop never moves against it, and
\* a trail once activated stays active.
StopRatchets ==
    [][(position # NoPosition /\ position' # NoPosition /\ position'.entered = position.entered) =>
          /\ Sign(position.side) * (position'.stop - position.stop) >= 0
          /\ position.trail => position'.trail]_breakoutVars
=============================================================================
