---------------------------- MODULE TradeOutcome ----------------------------
(***************************************************************************)
(* The programs that decide what became of a signal, and what the signals  *)
(* were worth: resolve_signals.py over ticks ("ticks"), resolve_candles.py *)
(* within a block of candles ("v1"), resolve_candles_v2.py across the      *)
(* blocks ("v2"), then expectancy.py and expectancy_candles.py.  They      *)
(* leave their results in one directory.  A resolver walks the series from *)
(* the bar of a signal, a bar at a step.                                   *)
(***************************************************************************)
EXTENDS Integers, Sequences, FiniteSets

CONSTANTS SeriesSet,    \* the series: sequences of bars
          SignalSet,    \* the signal files: sequences of signals
          GapBars,      \* the bars' time that a gap leaves out
          RequiredN, RequiredWindows, RequiredPercent, WindowBars
                        \* the criteria of the verdict, and the bars' time of an
                        \* independent window

ASSUME OutcomeAssumption ==
    /\ {GapBars, RequiredN, RequiredWindows, RequiredPercent} \subseteq Nat
    /\ WindowBars \in Nat \ {0}

Bar == [gap : BOOLEAN, hits : SUBSET {"up", "down"}, open : {"inside", "up", "down"}]

\* the replays write their signals as they walk the series forward
ASSUME SignalAssumption ==
    /\ SeriesSet \subseteq Seq(Bar)
    /\ SignalSet \subseteq Seq([at : Nat, side : {"long", "short"}])
    /\ \A bars \in SeriesSet, sent \in SignalSet : \A i \in DOMAIN sent :
          sent[i].at <= Len(bars)
    /\ \A sent \in SignalSet : \A i, j \in DOMAIN sent :
          (i < j /\ sent[i].at # 0 /\ sent[j].at # 0) => sent[i].at <= sent[j].at

VARIABLES series,       \* the bars: [gap, hits, open]: whether more than a bar's
                        \* time is before it, the barriers in its range, the side
                        \* its open is past
          signals,      \* the signals: [at, side], at being 0 off the series
          tool,         \* the resolver that runs, "none" between two
          current,      \* number of the signal it has come to
          cursor,       \* the bar it looks at, 0 before the walk
          counts,       \* its counters
          files,        \* what each resolver has left: a sequence of rows
          study         \* what the last expectancy read and found

outcomeVars == <<series, signals, tool, current, cursor, counts, files, study>>

Resolver == {"ticks", "v1", "v2"}
NoFile == << >>
NoCounts == [win |-> 0, loss |-> 0, unresolved |-> 0, ambiguous |-> 0,
             gapThrough |-> 0, absent |-> 0]
NoStudy == [by |-> "none", from |-> "none", taken |-> <<>>, verdict |-> "none"]

OutcomeInit ==
    /\ series \in SeriesSet
    /\ signals \in SignalSet
    /\ tool = "none" /\ current = 0 /\ cursor = 0
    /\ counts = NoCounts
    /\ files = [r \in Resolver |-> NoFile]
    /\ study = NoStudy

-----------------------------------------------------------------------------
(* Resolution.                                                             *)

\* _load_signals() and _load_candles() or _load_ticks()
Load(r) == /\ tool = "none" /\ files[r] = NoFile
           /\ tool' = r /\ current' = 1 /\ cursor' = 0
           /\ counts' = NoCounts
           /\ UNCHANGED <<series, signals, files, study>>

Signal == signals[current]

\* _blocks(): the last bar of the block a bar is in
BlockEnd(bar) ==
    CHOOSE last \in bar..Len(series) :
        /\ \A b \in (bar + 1)..last : ~series[b].gap
        /\ last < Len(series) => series[last + 1].gap

\* a signal whose epoch is not in the series is counted and skipped
SkipAbsent ==
    /\ tool # "none" /\ current <= Len(signals) /\ Signal.at = 0
    /\ counts' = [counts EXCEPT !.absent = @ + 1]
    /\ current' = current + 1
    /\ UNCHANGED <<series, signals, tool, cursor, files, study>>

StartWalk ==
    /\ tool # "none" /\ current <= Len(signals)
    /\ Signal.at # 0 /\ cursor = 0
    /\ cursor' = Signal.at + 1
    /\ UNCHANGED <<series, signals, tool, current, counts, files, study>>

HitTarget(bar) == (IF Signal.side = "long" THEN "up" ELSE "down") \in bar.hits
HitStop(bar) == (IF Signal.side = "long" THEN "down" ELSE "up") \in bar.hits

\* the open after a gap is past a barrier that is hit: a gap-through
Through(bar, hitTarget, hitStop) ==
    LET target == IF Signal.side = "long" THEN "up" ELSE "down" IN
    /\ bar.gap /\ bar.open # "inside"
    /\ \/ hitTarget /\ hitStop
       \/ hitTarget /\ bar.open = target
       \/ hitStop /\ bar.open # target

\* the row of the signal, and its counters
Write(outcome, ambiguous, through) ==
    /\ files' = [files EXCEPT ![tool] = Append(@,
           [signal |-> current, at |-> Signal.at, outcome |-> outcome,
            resolved |-> IF outcome = "unresolved" THEN 0 ELSE cursor,
            ambiguous |-> ambiguous, through |-> through])]
    /\ counts' = [counts EXCEPT
           ![outcome] = @ + 1,
           !.ambiguous = IF ambiguous THEN @ + 1 ELSE @,
           !.gapThrough = IF through THEN @ + 1 ELSE @]
    /\ current' = current + 1
    /\ cursor' = 0
    /\ UNCHANGED <<series, signals, tool, study>>

Walks(r) == tool = r /\ current <= Len(signals) /\ cursor > 0

Passes == /\ cursor' = cursor + 1
          /\ UNCHANGED <<series, signals, tool, current, counts, files, study>>

\* A fault: a bar that hits both barriers is a win.
JudgeTargetFirst(bar, through) ==
    CASE HitTarget(bar) -> Write("win", HitStop(bar), through)
      [] ~HitTarget(bar) /\ HitStop(bar) -> Write("loss", FALSE, through)
      [] OTHER -> Passes

\* a bar that hits both barriers is a loss
Judge(bar, through) ==
    CASE HitTarget(bar) /\ HitStop(bar) -> Write("loss", TRUE, through)
      [] HitTarget(bar) /\ ~HitStop(bar) -> Write("win", FALSE, through)
      [] ~HitTarget(bar) /\ HitStop(bar) -> Write("loss", FALSE, through)
      [] OTHER -> Passes

WalkTicks ==
    /\ Walks("ticks")
    /\ IF cursor > BlockEnd(Signal.at) THEN Write("unresolved", FALSE, FALSE)
                                       ELSE Judge(series[cursor], FALSE)

WalkBlock ==
    /\ Walks("v1")
    /\ IF cursor > BlockEnd(Signal.at) THEN Write("unresolved", FALSE, FALSE)
                                       ELSE Judge(series[cursor], FALSE)

\* A fault: the last bar of the series is not looked at.
WalkSeriesShort ==
    /\ Walks("v2")
    /\ IF cursor >= Len(series) THEN Write("unresolved", FALSE, FALSE)
       ELSE LET bar == series[cursor]
            IN  Judge(bar, Through(bar, HitTarget(bar), HitStop(bar)))

WalkSeries ==
    /\ Walks("v2")
    /\ IF cursor > Len(series) THEN Write("unresolved", FALSE, FALSE)
       ELSE LET bar == series[cursor]
            IN  Judge(bar, Through(bar, HitTarget(bar), HitStop(bar)))

EndResolver ==
    /\ tool # "none" /\ current > Len(signals)
    /\ tool' = "none"
    /\ UNCHANGED <<series, signals, current, cursor, counts, files, study>>

-----------------------------------------------------------------------------
(* Expectancy.                                                             *)

\* resolutions_*.jsonl: the last name in order is taken.  A number of an epoch
\* comes before "candles", and so does the number of v1 before "v2".
LastByName(rs) ==
    CHOOSE r \in rs : \/ r = "v2"
                      \/ r = "v1" /\ "v2" \notin rs
                      \/ r = "ticks" /\ rs = {"ticks"}

Resolved(rows) == SelectSeq(rows, LAMBDA row : row.outcome # "unresolved")

\* one position at a time, over the rows in order: what is not resolved is passed
\* over, and so is a signal of before the end of the trade taken last
OneAtATime(rows) ==
    LET after[i \in 0..Len(rows)] ==
          IF i = 0 THEN [taken |-> <<>>, busyUntil |-> 0]
          ELSE IF rows[i].outcome = "unresolved" \/ rows[i].at < after[i - 1].busyUntil
               THEN after[i - 1]
               ELSE [taken |-> Append(after[i - 1].taken, rows[i]),
                     busyUntil |-> rows[i].resolved]
    IN  after[Len(rows)].taken

Wins(rows) == Len(SelectSeq(rows, LAMBDA row : row.outcome = "win"))

\* the win rate rounded to four decimals, in ten-thousandths
WinRate(rows) == (20000 * Wins(rows) + Len(rows)) \div (2 * Len(rows))

RateMet(rows) == rows # <<>> /\ WinRate(rows) >= 100 * RequiredPercent

\* A fault: a signal is taken whatever is open.
StudiedAll(by, from, verdict) ==
    study' = [by |-> by, from |-> from, verdict |-> IF verdict THEN "PASS" ELSE "FAIL",
              taken |-> Resolved(files[from])]

Studied(by, from, verdict) ==
    study' = [by |-> by, from |-> from, verdict |-> IF verdict THEN "PASS" ELSE "FAIL",
              taken |-> OneAtATime(files[from])]

Expectancy ==
    /\ tool = "none"
    /\ \E r \in Resolver : files[r] # NoFile
    /\ LET from == LastByName({ r \in Resolver : files[r] # NoFile })
           primary == Resolved(files[from])
       IN  Studied("expectancy", from, Len(primary) >= RequiredN /\ RateMet(primary))
    /\ UNCHANGED <<series, signals, tool, current, cursor, counts, files>>

\* the time of a bar, in bars: the closed hours of the gaps are part of it
Epoch(bar) == bar + GapBars * Cardinality({ b \in 2..bar : series[b].gap })

\* the span of the rows, those unresolved too, in independent windows
WindowsMet(rows) ==
    Epoch(rows[Len(rows)].at) - Epoch(rows[1].at) >= RequiredWindows * WindowBars

ExpectancyCandles ==
    /\ tool = "none" /\ files["v2"] # NoFile
    /\ LET rows == files["v2"]
           primary == Resolved(rows)
       IN  Studied("expectancy_candles", "v2",
                   Len(primary) >= RequiredN /\ WindowsMet(rows) /\ RateMet(primary))
    /\ UNCHANGED <<series, signals, tool, current, cursor, counts, files>>

OutcomeNext ==
    \/ \E r \in Resolver : Load(r)
    \/ SkipAbsent \/ StartWalk \/ WalkTicks \/ WalkBlock \/ WalkSeries \/ EndResolver
    \/ Expectancy \/ ExpectancyCandles

OutcomeSpec == OutcomeInit /\ [][OutcomeNext]_outcomeVars

-----------------------------------------------------------------------------
(* Properties.                                                             *)

Rows(r) == { files[r][i] : i \in DOMAIN files[r] }
Reach(r, at) == IF r = "v2" THEN Len(series) ELSE BlockEnd(at)

\* Every variable has the values its code gives it, and the counters of a
\* resolver account for every signal it has passed.
OutcomeTypeOK ==
    /\ tool \in Resolver \cup {"none"}
    /\ current \in 0..(Len(signals) + 1) /\ cursor \in 0..(Len(series) + 1)
    /\ \A r \in Resolver : \A row \in Rows(r) :
          /\ row.outcome \in {"win", "loss", "unresolved"}
          /\ row.signal \in DOMAIN signals
    /\ tool # "none" =>
          /\ counts.win + counts.loss + counts.unresolved + counts.absent = current - 1
          /\ Len(files[tool]) + counts.absent = current - 1

\* A row says what the series says: its bar is the first one, within the reach of
\* its program, that hits a barrier of the signal; it is a win only if it hits the
\* target alone; and an unresolved signal has no such bar.
FirstTouch ==
    \A r \in Resolver : \A row \in Rows(r) :
        LET reach == (row.at + 1)..Reach(r, row.at)
            touches == { b \in reach : series[b].hits # {} }
            target == IF signals[row.signal].side = "long" THEN "up" ELSE "down"
        IN  IF row.outcome = "unresolved" THEN touches = {}
            ELSE /\ row.resolved \in touches
                 /\ \A b \in touches : row.resolved <= b
                 /\ (row.outcome = "win") <=> (series[row.resolved].hits = {target})

\* The amendment only adds outcomes: what v1 resolved v2 resolves alike, and what
\* v2 resolves and v1 did not is resolved past a gap; only such a row can be a
\* gap-through.
LaterRuleExtends ==
    \A old \in Rows("v1"), new \in Rows("v2") : old.signal = new.signal =>
        /\ old.outcome # "unresolved" =>
              new.outcome = old.outcome /\ new.resolved = old.resolved
        /\ (old.outcome = "unresolved" /\ new.outcome # "unresolved") =>
              new.resolved > BlockEnd(old.at)
        /\ new.through => old.outcome = "unresolved"

\* One position at a time: of the trades counted by the second policy none starts
\* before the one before it has ended, and a trade left out starts within one.
NotTwoAtOnce ==
    LET t == study.taken IN
    study.by # "none" =>
        /\ \A i \in 1..(Len(t) - 1) : t[i].resolved <= t[i + 1].at
        /\ \A row \in Rows(study.from) :
              (row.outcome # "unresolved" /\ \A i \in DOMAIN t : t[i] # row) =>
                 \E i \in DOMAIN t : t[i].at <= row.at /\ row.at < t[i].resolved
=============================================================================
