----------------------------- MODULE Study_proofs -----------------------------
(*****************************************************************************)
(* Machine-checked proofs about TradeOutcome, the outcomes of signals whatever *)
(* the series and the signals, and about Screening, the choice of an instrument *)
(* whatever the broker lists and whichever fetches fail.                     *)
(*****************************************************************************)
EXTENDS TradeOutcome, Screening, FoldLemmas

-----------------------------------------------------------------------------
(* What the resolvers know as they walk.                                   *)

OutRow == [signal : Nat, at : Nat, outcome : {"win", "loss", "unresolved"},
           resolved : Nat, ambiguous : BOOLEAN, through : BOOLEAN]

Winning(row) == IF signals[row.signal].side = "long" THEN "up" ELSE "down"
Calm(from, to) == \A b \in from..to : series[b].hits = {}

\* A row of resolver r is about a signal on the series and says what the series
\* says; a gap-through is at a gap.
Truthful(r, row) ==
    /\ row.signal \in DOMAIN signals
    /\ row.at = signals[row.signal].at /\ row.at \in 1..Len(series)
    /\ row.outcome = "unresolved" => Calm(row.at + 1, Reach(r, row.at)) /\ ~row.through
    /\ row.outcome # "unresolved" =>
          /\ row.resolved \in (row.at + 1)..Reach(r, row.at)
          /\ Calm(row.at + 1, row.resolved - 1)
          /\ series[row.resolved].hits # {}
          /\ (row.outcome = "win") <=> (series[row.resolved].hits = {Winning(row)})
          /\ row.through => series[row.resolved].gap

CountName == {"win", "loss", "unresolved", "absent", "ambiguous", "gapThrough"}
Tallies == [win : Nat, loss : Nat, unresolved : Nat, absent : Nat,
           ambiguous : Nat, gapThrough : Nat]

OutData ==
    /\ series \in SeriesSet /\ signals \in SignalSet
    /\ tool \in Resolver \cup {"none"}
    /\ current \in 0..(Len(signals) + 1) /\ (tool # "none" => current # 0)
    /\ counts \in Tallies
    /\ files \in [Resolver -> Seq(OutRow)]

\* A walk is past its signal, within its reach, and has met no barrier.
Walking ==
    /\ cursor \in Nat /\ (tool = "none" => cursor = 0)
    /\ cursor # 0 =>
          /\ current \in DOMAIN signals /\ Signal.at \in 1..Len(series)
          /\ cursor \in (Signal.at + 1)..(Reach(tool, Signal.at) + 1)
          /\ Calm(Signal.at + 1, cursor - 1)

\* The rows are in the order of the signals, of those passed so far.
RowsInOrder ==
    /\ \A r \in Resolver : \A i, j \in DOMAIN files[r] :
          i < j => files[r][i].signal < files[r][j].signal
    /\ tool # "none" => \A i \in DOMAIN files[tool] : files[tool][i].signal < current

AllTruthful == \A r \in Resolver : \A i \in DOMAIN files[r] : Truthful(r, files[r][i])

Counted4 == tool # "none" =>
    /\ counts.win + counts.loss + counts.unresolved + counts.absent = current - 1
    /\ Len(files[tool]) + counts.absent = current - 1

\* What the last expectancy took is what its file gives now: it is not written again.
StudyOK ==
    study.by # "none" =>
        /\ study.from \in Resolver \ {tool} /\ files[study.from] # NoFile
        /\ study.taken = OneAtATime(files[study.from])

OutInv == OutData /\ Walking /\ RowsInOrder /\ AllTruthful /\ Counted4 /\ StudyOK

LEMMA SeriesTyped ==
  ASSUME OutData
  PROVE  /\ series \in Seq(Bar) /\ signals \in Seq([at : Nat, side : {"long", "short"}])
         /\ Len(series) \in Nat /\ Len(signals) \in Nat
         /\ \A i \in DOMAIN signals : signals[i].at \in 0..Len(series)
<1>1. series \in Seq(Bar) /\ signals \in Seq([at : Nat, side : {"long", "short"}])
  BY SignalAssumption DEF OutData
<1>2. Len(series) \in Nat /\ Len(signals) \in Nat
  BY <1>1
<1>3. \A i \in DOMAIN signals : signals[i].at <= Len(series)
  BY SignalAssumption DEF OutData
<1>4. \A i \in DOMAIN signals : signals[i].at \in Nat
  <2> DEFINE Sent == [at : Nat, side : {"long", "short"}]
  <2>1. \A x \in Sent : x.at \in Nat
    OBVIOUS
  <2> HIDE DEF Sent
  <2>2. signals \in Seq(Sent)
    BY <1>1 DEF Sent
  <2> QED
    BY <2>1, <2>2
<1> QED
  BY <1>1, <1>2, <1>3, <1>4

\* A block ends: there is no gap within it.
LEMMA BlockEnds ==
  ASSUME OutData, NEW at \in 1..Len(series)
  PROVE  /\ BlockEnd(at) \in at..Len(series)
         /\ \A b \in (at + 1)..BlockEnd(at) : ~series[b].gap
<1> DEFINE Ends(l) == l < Len(series) => series[l + 1].gap
           S == { l \in at..Len(series) : Ends(l) }
<1>1. Len(series) \in Nat /\ series \in Seq(Bar)
  BY SeriesTyped
<1>2. S \in SUBSET Nat /\ S # {}
  <2>1. Len(series) \in S
    BY <1>1
  <2> QED
    BY <1>1, <2>1
<1>3. PICK last \in S : \A k \in S : last <= k
  <2> HIDE DEF S
  <2> QED
    BY <1>2, LeastNumber
<1>4. ASSUME NEW b \in (at + 1)..last
      PROVE  ~series[b].gap
  <2>1. b - 1 \in at..Len(series) /\ b - 1 < last /\ (b - 1) + 1 = b
    BY <1>1, <1>3
  <2>2. b - 1 \notin S
    <3>1. last \in Nat
      BY <1>2, <1>3
    <3> HIDE DEF S
    <3> QED
      BY <1>3, <2>1, <3>1
  <2> QED
    BY <2>1, <2>2
<1>5. \E l \in at..Len(series) : /\ \A b \in (at + 1)..l : ~series[b].gap
                                 /\ l < Len(series) => series[l + 1].gap
  BY <1>3, <1>4
<1> HIDE DEF S, Ends
<1> QED
  BY <1>5 DEF BlockEnd

LEMMA ReachIn ==
  ASSUME OutData, NEW r \in Resolver, NEW at \in 1..Len(series)
  PROVE  Reach(r, at) \in at..Len(series)
  BY BlockEnds, SeriesTyped DEF Reach

\* What the rows say depends on the series and the signals alone.
LEMMA TruthKept ==
  ASSUME AllTruthful, UNCHANGED <<series, signals, files>>
  PROVE  AllTruthful'
<1>1. \A r, x : Truthful(r, x)' <=> Truthful(r, x)
  BY DEF Truthful, Calm, Reach, BlockEnd, Winning
<1> QED
  BY <1>1 DEF AllTruthful

LEMMA WalkingKept ==
  ASSUME OutInv, UNCHANGED <<series, signals, tool, current, cursor>>
  PROVE  Walking'
<1>1. /\ Signal' = Signal /\ Reach(tool, Signal.at)' = Reach(tool, Signal.at)
      /\ \A a, b : Calm(a, b)' = Calm(a, b)
  BY DEF Signal, Reach, BlockEnd, Calm
<1>2. Calm(Signal.at + 1, cursor - 1)' = Calm(Signal.at + 1, cursor - 1)
  BY <1>1 DEF Calm
<1> QED
  BY <1>1, <1>2 DEF OutInv, Walking

\* A step that writes nothing keeps what is written.
LEMMA DataKept ==
  ASSUME OutInv, UNCHANGED <<series, signals, tool, current, counts, files>>
  PROVE  OutData' /\ RowsInOrder' /\ AllTruthful' /\ Counted4'
<1>1. OutData'
  BY DEF OutInv, OutData
<1>2. RowsInOrder' /\ Counted4'
  BY DEF OutInv, RowsInOrder, Counted4
<1> QED
  BY <1>1, <1>2, TruthKept DEF OutInv

-----------------------------------------------------------------------------
(* The steps.                                                              *)

\* the counters after a row
Tallied(c, o, a, t) == [c EXCEPT ![o] = @ + 1,
                                 !.ambiguous = IF a THEN @ + 1 ELSE @,
                                 !.gapThrough = IF t THEN @ + 1 ELSE @]

LEMMA CountsStep ==
  ASSUME NEW c \in Tallies, NEW o \in {"win", "loss", "unresolved"},
         NEW a, NEW t, NEW d, d = Tallied(c, o, a, t)
  PROVE  /\ d \in Tallies /\ d.absent = c.absent
         /\ d.win + d.loss + d.unresolved + d.absent
               = c.win + c.loss + c.unresolved + c.absent + 1
<1>1. /\ DOMAIN c = CountName /\ c = [n \in CountName |-> c[n]]
      /\ \A n \in CountName : c[n] \in Nat
  BY DEF CountName, Tallies
<1>2. DOMAIN d = CountName /\ d = [n \in CountName |-> d[n]]
  BY <1>1 DEF Tallied
<1>3. d.win = IF o = "win" THEN c.win + 1 ELSE c.win
  BY <1>1 DEF CountName, Tallied
<1>4. d.loss = IF o = "loss" THEN c.loss + 1 ELSE c.loss
  BY <1>1 DEF CountName, Tallied
<1>5. d.unresolved = IF o = "unresolved" THEN c.unresolved + 1 ELSE c.unresolved
  BY <1>1 DEF CountName, Tallied
<1>6. d.absent = c.absent
  BY <1>1 DEF CountName, Tallied
<1>7. d.ambiguous = IF a THEN c.ambiguous + 1 ELSE c.ambiguous
  BY <1>1 DEF CountName, Tallied
<1>8. d.gapThrough = IF t THEN c.gapThrough + 1 ELSE c.gapThrough
  BY <1>1 DEF CountName, Tallied
<1>9. /\ c.win \in Nat /\ c.loss \in Nat /\ c.unresolved \in Nat /\ c.absent \in Nat
      /\ c.ambiguous \in Nat /\ c.gapThrough \in Nat
  BY DEF Tallies
<1>10. /\ d.win \in Nat /\ d.loss \in Nat /\ d.unresolved \in Nat
       /\ d.win + d.loss + d.unresolved = c.win + c.loss + c.unresolved + 1
  <2> DEFINE w == c.win
             l == c.loss
             u == c.unresolved
  <2>1. w \in Nat /\ l \in Nat /\ u \in Nat
    BY <1>9
  <2>2. \/ d.win = w + 1 /\ d.loss = l /\ d.unresolved = u
        \/ d.win = w /\ d.loss = l + 1 /\ d.unresolved = u
        \/ d.win = w /\ d.loss = l /\ d.unresolved = u + 1
    BY <1>3, <1>4, <1>5
  <2> HIDE DEF w, l, u
  <2>3. /\ d.win \in Nat /\ d.loss \in Nat /\ d.unresolved \in Nat
        /\ d.win + d.loss + d.unresolved = w + l + u + 1
    BY <2>1, <2>2
  <2> QED
    BY <2>3 DEF w, l, u
<1>11. d.absent \in Nat /\ d.ambiguous \in Nat /\ d.gapThrough \in Nat
  BY <1>6, <1>7, <1>8, <1>9
<1>12. d \in Tallies
  BY <1>2, <1>10, <1>11 DEF CountName, Tallies
<1>13. \A n, m, k \in Nat : n = m + 1 => n + k = m + k + 1
  OBVIOUS
<1>14. c.win + c.loss + c.unresolved \in Nat
  BY <1>9
<1> QED
  BY <1>6, <1>9, <1>10, <1>12, <1>13, <1>14

\* The row a resolver writes is truthful, and the next signal follows.
LEMMA WriteKept ==
  ASSUME OutInv, tool # "none", cursor # 0,
         NEW outcome \in {"win", "loss", "unresolved"},
         NEW ambiguous \in BOOLEAN, NEW through \in BOOLEAN,
         Write(outcome, ambiguous, through),
         outcome = "unresolved" => cursor = Reach(tool, Signal.at) + 1 /\ ~through,
         outcome # "unresolved" =>
            /\ cursor <= Reach(tool, Signal.at)
            /\ series[cursor].hits # {}
            /\ (outcome = "win") <=>
                  (series[cursor].hits = {IF Signal.side = "long" THEN "up" ELSE "down"})
            /\ through => series[cursor].gap
  PROVE  OutInv'
<1> DEFINE row == [signal |-> current, at |-> Signal.at, outcome |-> outcome,
                   resolved |-> IF outcome = "unresolved" THEN 0 ELSE cursor,
                   ambiguous |-> ambiguous, through |-> through]
           rows == files[tool]
           new == Append(rows, row)
<1>0. /\ OutData /\ Walking /\ RowsInOrder /\ AllTruthful /\ Counted4 /\ StudyOK
      /\ tool \in Resolver /\ current \in Nat /\ cursor \in Nat
  BY SeriesTyped DEF OutInv, OutData, Walking
<1>1. /\ current \in DOMAIN signals /\ Signal.at \in 1..Len(series)
      /\ cursor \in (Signal.at + 1)..(Reach(tool, Signal.at) + 1)
      /\ Calm(Signal.at + 1, cursor - 1)
  BY <1>0 DEF Walking
<1>2. Reach(tool, Signal.at) \in Signal.at..Len(series) /\ Signal.at \in Nat
  BY <1>0, <1>1, ReachIn, SeriesTyped
<1>3. row \in OutRow
  BY <1>0, <1>2 DEF OutRow
<1>4. Truthful(tool, row)
  <2>1. row.signal \in DOMAIN signals /\ row.at = signals[row.signal].at
        /\ row.at \in 1..Len(series)
    BY <1>1 DEF Signal
  <2>2. CASE outcome = "unresolved"
    BY <1>1, <1>2, <2>1, <2>2 DEF Truthful, Calm
  <2>3. CASE outcome # "unresolved"
    <3>1. cursor \in (Signal.at + 1)..Reach(tool, Signal.at)
      BY <1>1, <1>2, <2>3
    <3>2. Winning(row) = IF Signal.side = "long" THEN "up" ELSE "down"
      BY DEF Winning, Signal
    <3>3. /\ row.outcome = outcome /\ row.resolved = cursor /\ row.at = Signal.at
          /\ row.through = through
      BY <2>3
    <3> HIDE DEF row
    <3> QED
      BY <1>1, <2>1, <2>3, <3>1, <3>2, <3>3 DEF Truthful
  <2> QED
    BY <2>2, <2>3
<1>5. row.signal = current
  OBVIOUS
<1> HIDE DEF row
<1>6. /\ files' = [files EXCEPT ![tool] = new]
      /\ current' = current + 1 /\ cursor' = 0
      /\ UNCHANGED <<series, signals, tool, study>>
  BY <1>0 DEF Write, row, OutData
<1>7. rows \in Seq(OutRow) /\ new \in Seq(OutRow) /\ Len(rows) \in Nat
  BY <1>0, <1>3 DEF OutData
<1>8. /\ DOMAIN new = 1..(Len(rows) + 1) /\ Len(new) = Len(rows) + 1
      /\ DOMAIN rows = 1..Len(rows)
      /\ new[Len(rows) + 1] = row
      /\ \A i \in DOMAIN rows : new[i] = rows[i]
  BY <1>3, <1>7
<1>9. /\ files' \in [Resolver -> Seq(OutRow)] /\ files'[tool] = new
      /\ \A r \in Resolver \ {tool} : files'[r] = files[r]
  <2> HIDE DEF new
  <2> QED
    BY <1>0, <1>6, <1>7 DEF OutData
<1>10. /\ counts' \in Tallies
       /\ counts'.win + counts'.loss + counts'.unresolved + counts'.absent
             = counts.win + counts.loss + counts.unresolved + counts.absent + 1
       /\ counts'.absent = counts.absent
  <2>1. counts' = Tallied(counts, outcome, ambiguous, through)
    BY DEF Write, Tallied
  <2>2. counts \in Tallies
    BY <1>0 DEF OutData
  <2>3. PICK d : d = counts'
    OBVIOUS
  <2>4. /\ d \in Tallies /\ d.absent = counts.absent
        /\ d.win + d.loss + d.unresolved + d.absent
              = counts.win + counts.loss + counts.unresolved + counts.absent + 1
    BY <2>1, <2>2, <2>3, CountsStep
  <2> QED
    BY <2>3, <2>4
<1>11. OutData'
  <2>1. current' \in 0..(Len(signals) + 1) /\ current' # 0
    BY <1>0, <1>1, <1>6, SeriesTyped, SMTT(30)
  <2> QED
    BY <1>0, <1>6, <1>9, <1>10, <2>1 DEF OutData
<1>12. Walking'
  BY <1>6 DEF Walking
<1>13. RowsInOrder'
  <2>1. ASSUME NEW i \in DOMAIN new, NEW j \in DOMAIN new, i < j
        PROVE  new[i].signal < new[j].signal
    <3>1. i \in DOMAIN rows
      BY <1>7, <1>8, <2>1
    <3>2. CASE j \in DOMAIN rows
      BY <1>0, <1>8, <2>1, <3>1, <3>2 DEF RowsInOrder
    <3>3. CASE j = Len(rows) + 1
      BY <1>0, <1>5, <1>8, <3>1, <3>3 DEF RowsInOrder
    <3> QED
      BY <1>7, <1>8, <3>2, <3>3
  <2>2. \A i \in DOMAIN new : new[i].signal < current + 1
    <3>0. \A x \in OutRow : x.signal \in Nat
      BY DEF OutRow
    <3>1. \A i \in DOMAIN rows : rows[i].signal \in Nat /\ rows[i].signal < current
      BY <1>0, <1>7, <3>0 DEF RowsInOrder
    <3> QED
      BY <1>0, <1>5, <1>7, <1>8, <3>1
  <2> HIDE DEF new, rows
  <2> QED
    BY <1>0, <1>6, <1>9, <2>1, <2>2 DEF RowsInOrder, rows
<1>14. AllTruthful'
  <2>1. ASSUME NEW r \in Resolver, NEW i \in DOMAIN files'[r]
        PROVE  Truthful(r, files'[r][i])
    <3>1. CASE r # tool
      BY <1>0, <1>9, <2>1, <3>1 DEF AllTruthful
    <3>2. CASE r = tool /\ i \in DOMAIN rows
      <4>1. files'[r][i] = rows[i]
        BY <1>8, <1>9, <3>2
      <4> QED
        BY <1>0, <3>2, <4>1 DEF AllTruthful
    <3>3. CASE r = tool /\ i = Len(rows) + 1
      BY <1>4, <1>8, <1>9, <3>3
    <3> QED
      BY <1>7, <1>8, <1>9, <2>1, <3>1, <3>2, <3>3
  <2>2. \A r, x : Truthful(r, x)' <=> Truthful(r, x)
    BY <1>6 DEF Truthful, Calm, Reach, BlockEnd, Winning
  <2> QED
    BY <2>1, <2>2 DEF AllTruthful
<1>15. Counted4'
  <2>1. Len(files'[tool]) = Len(rows) + 1
    BY <1>8, <1>9
  <2>2. /\ counts.win \in Nat /\ counts.loss \in Nat /\ counts.unresolved \in Nat
        /\ counts.absent \in Nat
    BY <1>0 DEF OutData, Tallies
  <2>3. /\ counts.win + counts.loss + counts.unresolved + counts.absent = current - 1
        /\ Len(rows) + counts.absent = current - 1
    BY <1>0 DEF Counted4
  <2>4. tool' = tool /\ current' - 1 = (current - 1) + 1
    BY <1>0, <1>6
  <2>5. Len(files'[tool']) + counts'.absent = current' - 1
    BY <1>0, <1>7, <1>10, <2>1, <2>2, <2>3, <2>4, SMTT(40)
  <2>6. counts'.win + counts'.loss + counts'.unresolved + counts'.absent = current' - 1
    BY <1>10, <2>3, <2>4
  <2> QED
    BY <2>5, <2>6 DEF Counted4
<1>16. StudyOK'
  BY <1>0, <1>6, <1>9 DEF StudyOK
<1> QED
  BY <1>11, <1>12, <1>13, <1>14, <1>15, <1>16 DEF OutInv

LEMMA BarTyped ==
  ASSUME OutInv, cursor # 0, cursor <= Reach(tool, Signal.at)
  PROVE  /\ series[cursor] \in Bar /\ tool \in Resolver /\ cursor \in 1..Len(series)
         /\ Signal.at \in 1..Len(series)
<1>1. tool \in Resolver /\ Signal.at \in 1..Len(series) /\ cursor \in Nat
  BY DEF OutInv, OutData, Walking
<1>2. Reach(tool, Signal.at) \in Signal.at..Len(series)
  BY <1>1, ReachIn DEF OutInv
<1>3. cursor \in 1..Len(series)
  BY <1>1, <1>2, SeriesTyped DEF OutInv
<1>4. series[cursor] \in Bar
  BY <1>3, SeriesTyped DEF OutInv
<1> QED
  BY <1>1, <1>3, <1>4

\* Looking at a bar within reach.
LEMMA JudgeKept ==
  ASSUME OutInv, tool # "none", cursor # 0, cursor <= Reach(tool, Signal.at),
         NEW through \in BOOLEAN, through => series[cursor].gap,
         Judge(series[cursor], through)
  PROVE  OutInv'
<1> DEFINE bar == series[cursor]
           target == IF Signal.side = "long" THEN "up" ELSE "down"
           other == IF Signal.side = "long" THEN "down" ELSE "up"
<1>1. /\ bar \in Bar /\ tool \in Resolver /\ cursor \in 1..Len(series)
      /\ Signal.at \in 1..Len(series)
  BY BarTyped
<1>2. bar.hits \subseteq {"up", "down"}
  BY <1>1 DEF Bar
<1>3. /\ HitTarget(bar) = (target \in bar.hits) /\ HitStop(bar) = (other \in bar.hits)
      /\ target # other /\ {target, other} = {"up", "down"}
  BY DEF HitTarget, HitStop
<1> HIDE DEF bar, target, other
<1>4. CASE HitTarget(bar) /\ HitStop(bar)
  <2>1. Write("loss", TRUE, through)
    BY <1>4 DEF Judge, bar
  <2>2. bar.hits # {} /\ bar.hits # {target}
    BY <1>3, <1>4
  <2> QED
    BY <2>1, <2>2, WriteKept DEF bar, target
<1>5. CASE HitTarget(bar) /\ ~HitStop(bar)
  <2>1. Write("win", FALSE, through)
    BY <1>5 DEF Judge, bar
  <2>2. bar.hits # {} /\ bar.hits = {target}
    BY <1>2, <1>3, <1>5
  <2> QED
    BY <2>1, <2>2, WriteKept DEF bar, target
<1>6. CASE ~HitTarget(bar) /\ HitStop(bar)
  <2>1. Write("loss", FALSE, through)
    BY <1>6 DEF Judge, bar
  <2>2. bar.hits # {} /\ bar.hits # {target}
    BY <1>3, <1>6
  <2> QED
    BY <2>1, <2>2, WriteKept DEF bar, target
<1>7. CASE ~HitTarget(bar) /\ ~HitStop(bar)
  <2>1. Passes
    BY <1>7 DEF Judge, bar
  <2>2. bar.hits = {}
    BY <1>2, <1>3, <1>7
  <2>3. /\ cursor' = cursor + 1
        /\ UNCHANGED <<series, signals, tool, current, counts, files, study>>
    BY <2>1 DEF Passes
  <2>4. OutData' /\ RowsInOrder' /\ AllTruthful' /\ Counted4' /\ StudyOK'
    BY <2>3, DataKept DEF OutInv, StudyOK
  <2>5. Walking'
    <3>1. /\ Calm(Signal.at + 1, cursor - 1) /\ current \in DOMAIN signals
          /\ cursor \in (Signal.at + 1)..(Reach(tool, Signal.at) + 1)
      BY DEF OutInv, Walking
    <3>2. Reach(tool, Signal.at) \in Nat /\ Signal.at \in Nat /\ cursor \in Nat
      <4>1. Reach(tool, Signal.at) \in Signal.at..Len(series)
        BY <1>1, ReachIn DEF OutInv
      <4> QED
        BY <1>1, <4>1, SeriesTyped DEF OutInv
    <3>3. cursor + 1 \in (Signal.at + 1)..(Reach(tool, Signal.at) + 1)
      BY <3>1, <3>2
    <3>4. Calm(Signal.at + 1, cursor)
      BY <2>2, <3>1, <3>2 DEF Calm, bar
    <3>5. /\ Signal' = Signal /\ Reach(tool, Signal.at)' = Reach(tool, Signal.at)
      BY <2>3 DEF Signal, Reach, BlockEnd
    <3>6. cursor' - 1 = cursor /\ cursor' \in Nat /\ cursor' # 0
      BY <2>3, <3>2
    <3> QED
      <4>1. Calm(Signal.at + 1, cursor - 1)'
        BY <3>4, <3>5, <3>6, <2>3 DEF Calm
      <4> QED
        BY <1>1, <2>3, <3>1, <3>3, <3>5, <3>6, <4>1 DEF Walking
  <2> QED
    BY <2>4, <2>5 DEF OutInv
<1> QED
  BY <1>4, <1>5, <1>6, <1>7

LEMMA WalkKept ==
  ASSUME OutInv, WalkTicks \/ WalkBlock \/ WalkSeries
  PROVE  OutInv'
<1>1. /\ tool \in Resolver /\ cursor # 0 /\ cursor \in Nat
      /\ Signal.at \in 1..Len(series)
      /\ cursor <= Reach(tool, Signal.at) + 1
      /\ Reach(tool, Signal.at) \in Nat
  <2>1. /\ tool \in Resolver /\ cursor # 0 /\ cursor \in Nat
    <3>1. cursor \in Nat /\ cursor > 0
      BY DEF WalkTicks, WalkBlock, WalkSeries, Walks, OutInv, Walking
    <3>2. cursor # 0
      BY <3>1
    <3>3. tool \in Resolver
      BY DEF WalkTicks, WalkBlock, WalkSeries, Walks, Resolver
    <3> QED
      BY <3>1, <3>2, <3>3
  <2>2. Signal.at \in 1..Len(series) /\ cursor <= Reach(tool, Signal.at) + 1
    BY <2>1 DEF OutInv, Walking
  <2>3. Reach(tool, Signal.at) \in Signal.at..Len(series)
    BY <2>1, <2>2, ReachIn DEF OutInv
  <2> QED
    BY <2>1, <2>2, <2>3, SeriesTyped DEF OutInv
<1>2. CASE cursor > Reach(tool, Signal.at)
  <2>1. Write("unresolved", FALSE, FALSE)
    BY <1>2 DEF WalkTicks, WalkBlock, WalkSeries, Walks, Reach
  <2>2. cursor = Reach(tool, Signal.at) + 1
    BY <1>1, <1>2
  <2>3. tool # "none"
    BY <1>1 DEF Resolver
  <2> QED
    BY <1>1, <2>1, <2>2, <2>3, WriteKept
<1>3. CASE cursor <= Reach(tool, Signal.at)
  <2> DEFINE bar == series[cursor]
  <2>1. bar \in Bar /\ bar.gap \in BOOLEAN /\ tool # "none"
    BY <1>1, <1>3, BarTyped DEF Bar, Resolver
  <2>2. ~(cursor > Reach(tool, Signal.at))
    BY <1>1, <1>3
  <2>3. CASE tool \in {"ticks", "v1"}
    <3>1. Judge(bar, FALSE)
      BY <2>2, <2>3 DEF WalkTicks, WalkBlock, WalkSeries, Walks, Reach
    <3> QED
      BY <1>1, <1>3, <2>1, <3>1, JudgeKept
  <2>4. CASE tool = "v2"
    <3> DEFINE t == Through(bar, HitTarget(bar), HitStop(bar))
    <3>1. Judge(bar, t)
      BY <2>2, <2>4 DEF WalkTicks, WalkBlock, WalkSeries, Walks, Reach
    <3>2. t \in BOOLEAN /\ (t => bar.gap)
      BY DEF Through
    <3> HIDE DEF t
    <3> QED
      BY <1>1, <1>3, <2>1, <3>1, <3>2, JudgeKept
  <2> QED
    BY <1>1, <2>3, <2>4 DEF Resolver
<1> QED
  BY <1>1, <1>2, <1>3

-----------------------------------------------------------------------------
(* The other steps of the resolvers, and the studies.                      *)

LEMMA ResolverKept ==
  ASSUME OutInv, (\E r \in Resolver : Load(r)) \/ SkipAbsent \/ StartWalk \/ EndResolver
  PROVE  OutInv'
<1>0. /\ OutData /\ Walking /\ RowsInOrder /\ AllTruthful /\ Counted4 /\ StudyOK
      /\ Len(signals) \in Nat /\ Len(series) \in Nat
  BY SeriesTyped DEF OutInv
<1>1. /\ UNCHANGED <<series, signals, files, study>>
      /\ AllTruthful'
  <2>1. UNCHANGED <<series, signals, files, study>>
    BY DEF Load, SkipAbsent, StartWalk, EndResolver
  <2> QED
    BY <1>0, <2>1, TruthKept
<1>2. ASSUME NEW r \in Resolver, Load(r) PROVE OutInv'
  <2>1. /\ tool = "none" /\ files[r] = <<>> /\ tool' = r /\ current' = 1 /\ cursor' = 0
        /\ counts' = NoCounts
    BY <1>2 DEF Load, NoFile
  <2>2. NoCounts \in Tallies /\ NoCounts.win = 0 /\ NoCounts.loss = 0
        /\ NoCounts.unresolved = 0 /\ NoCounts.absent = 0
    BY DEF NoCounts, Tallies
  <2>3. OutData'
    BY <1>0, <1>1, <2>1, <2>2 DEF OutData
  <2>4. Walking' /\ RowsInOrder' /\ StudyOK'
    BY <1>0, <1>1, <2>1 DEF Walking, RowsInOrder, StudyOK, NoFile
  <2>5. Counted4'
    BY <1>1, <2>1, <2>2 DEF Counted4
  <2> QED
    BY <1>1, <2>3, <2>4, <2>5 DEF OutInv
<1>3. CASE SkipAbsent
  <2>1. /\ tool # "none" /\ current <= Len(signals) /\ Signal.at = 0
        /\ counts' = [counts EXCEPT !.absent = @ + 1]
        /\ current' = current + 1 /\ UNCHANGED <<tool, cursor>>
    BY <1>3 DEF SkipAbsent
  <2>2. cursor = 0 /\ current \in Nat /\ current # 0 /\ tool \in Resolver
    BY <1>0, <2>1 DEF Walking, OutData
  <2>3. /\ counts' \in Tallies /\ counts'.win = counts.win /\ counts'.loss = counts.loss
        /\ counts'.unresolved = counts.unresolved /\ counts'.absent = counts.absent + 1
    <3>1. counts \in Tallies
      BY <1>0 DEF OutData
    <3>2. PICK n : n = counts.absent + 1
      OBVIOUS
    <3>3. n \in Nat /\ counts' = [counts EXCEPT !.absent = n]
      BY <2>1, <3>1, <3>2 DEF Tallies
    <3> QED
      BY <3>1, <3>2, <3>3 DEF Tallies
  <2>4. OutData' /\ Walking'
    BY <1>0, <1>1, <2>1, <2>2, <2>3 DEF OutData, Walking
  <2>5. RowsInOrder'
    <3>1. \A i \in DOMAIN files[tool] : files[tool][i].signal < current + 1
      <4>1. files[tool] \in Seq(OutRow)
        BY <1>0, <2>2 DEF OutData
      <4>2. \A x \in OutRow : x.signal \in Nat
        BY DEF OutRow
      <4>3. \A i \in DOMAIN files[tool] : files[tool][i].signal \in Nat
        BY <4>1, <4>2
      <4> QED
        BY <1>0, <2>1, <2>2, <4>3 DEF RowsInOrder
    <3> QED
      BY <1>0, <1>1, <2>1, <3>1 DEF RowsInOrder
  <2>6. Counted4'
    <3>1. Len(files[tool]) \in Nat
      BY <1>0, <2>2 DEF OutData
    <3>2. /\ counts.win \in Nat /\ counts.loss \in Nat /\ counts.unresolved \in Nat
          /\ counts.absent \in Nat
      BY <1>0 DEF OutData, Tallies
    <3>3. /\ counts.win + counts.loss + counts.unresolved + counts.absent = current - 1
          /\ Len(files[tool]) + counts.absent = current - 1
      BY <1>0, <2>1 DEF Counted4
    <3>4. /\ counts.win + counts.loss + counts.unresolved + (counts.absent + 1)
                = (current + 1) - 1
          /\ Len(files[tool]) + (counts.absent + 1) = (current + 1) - 1
      <4> DEFINE w == counts.win + counts.loss + counts.unresolved
                 a == counts.absent
                 l == Len(files[tool])
                 c == current
      <4>1. w \in Nat /\ a \in Nat /\ l \in Nat /\ c \in Nat
        BY <2>2, <3>1, <3>2
      <4>2. w + a = c - 1 /\ l + a = c - 1
        BY <3>3
      <4> HIDE DEF w, a, l, c
      <4>3. w + (a + 1) = (c + 1) - 1 /\ l + (a + 1) = (c + 1) - 1
        BY <4>1, <4>2
      <4> QED
        BY <4>3 DEF w, a, l, c
    <3> QED
      BY <1>1, <2>1, <2>3, <3>4 DEF Counted4
  <2>7. StudyOK'
    BY <1>0, <1>1, <2>1 DEF StudyOK
  <2> QED
    BY <1>1, <2>4, <2>5, <2>6, <2>7 DEF OutInv
<1>4. CASE StartWalk
  <2>1. /\ tool # "none" /\ current <= Len(signals) /\ Signal.at # 0
        /\ cursor' = Signal.at + 1 /\ UNCHANGED <<tool, current, counts>>
    BY <1>4 DEF StartWalk
  <2>2. current \in DOMAIN signals /\ tool \in Resolver
    BY <1>0, <2>1, SeriesTyped DEF OutData
  <2>3. Signal.at \in 1..Len(series)
    BY <1>0, <2>1, <2>2, SeriesTyped DEF Signal
  <2>4. Reach(tool, Signal.at) \in Signal.at..Len(series)
    BY <1>0, <2>2, <2>3, ReachIn
  <2>5. cursor' \in (Signal.at + 1)..(Reach(tool, Signal.at) + 1) /\ cursor' \in Nat
        /\ cursor' - 1 = Signal.at
    BY <1>0, <2>1, <2>3, <2>4
  <2>6. Signal' = Signal /\ Reach(tool, Signal.at)' = Reach(tool, Signal.at)
    BY <1>1, <2>1 DEF Signal, Reach, BlockEnd
  <2>7. Calm(Signal.at + 1, cursor - 1)'
    <3>1. (Signal.at + 1)..Signal.at = {}
      BY <2>3
    <3> QED
      BY <2>5, <2>6, <3>1 DEF Calm
  <2>8. Walking'
    BY <1>1, <2>1, <2>2, <2>3, <2>5, <2>6, <2>7 DEF Walking
  <2>9. OutData' /\ RowsInOrder' /\ Counted4' /\ StudyOK'
    BY <1>0, <1>1, <2>1 DEF OutData, RowsInOrder, Counted4, StudyOK
  <2> QED
    BY <1>1, <2>8, <2>9 DEF OutInv
<1>5. CASE EndResolver
  <2>1. /\ tool # "none" /\ current > Len(signals) /\ tool' = "none"
        /\ UNCHANGED <<current, cursor, counts>>
    BY <1>5 DEF EndResolver
  <2>2. cursor = 0
    <3>1. current \notin DOMAIN signals
      BY <1>0, <2>1, SeriesTyped DEF OutData
    <3> QED
      BY <1>0, <3>1 DEF Walking
  <2>3. Walking' /\ OutData' /\ RowsInOrder' /\ Counted4' /\ StudyOK'
    BY <1>0, <1>1, <2>1, <2>2 DEF Walking, OutData, RowsInOrder, Counted4, StudyOK, Resolver
  <2> QED
    BY <1>1, <2>3 DEF OutInv
<1> QED
  BY <1>2, <1>3, <1>4, <1>5

LEMMA StudyKept ==
  ASSUME OutInv, Expectancy \/ ExpectancyCandles
  PROVE  OutInv'
<1> DEFINE written == { r \in Resolver : files[r] # NoFile }
<1>1. ASSUME Expectancy PROVE LastByName(written) \in written
  <2>1. written # {} /\ written \subseteq {"ticks", "v1", "v2"}
    BY <1>1 DEF Expectancy, Resolver
  <2>2. \E r \in written : \/ r = "v2"
                           \/ r = "v1" /\ "v2" \notin written
                           \/ r = "ticks" /\ written = {"ticks"}
    BY <2>1
  <2> HIDE DEF written
  <2> QED
    BY <2>2 DEF LastByName
<1>2. \E from \in written : study'.from = from /\ study'.taken = OneAtATime(files[from])
  <2>1. CASE Expectancy
    BY <1>1, <2>1 DEF Expectancy, Studied
  <2>2. CASE ExpectancyCandles
    BY <2>2 DEF ExpectancyCandles, Studied, Resolver
  <2> QED
    BY <2>1, <2>2
<1>3. tool = "none" /\ UNCHANGED <<series, signals, tool, current, cursor, counts, files>>
  BY DEF Expectancy, ExpectancyCandles
<1>4. StudyOK'
  BY <1>2, <1>3 DEF StudyOK, Resolver
<1>5. OutData' /\ Walking' /\ RowsInOrder' /\ AllTruthful' /\ Counted4'
  BY <1>3, DataKept, WalkingKept
<1> QED
  BY <1>4, <1>5 DEF OutInv

LEMMA InitOutcome == OutcomeInit => OutInv
<1> SUFFICES ASSUME OutcomeInit PROVE OutInv
  OBVIOUS
<1>1. /\ files = [r \in Resolver |-> <<>>] /\ tool = "none" /\ current = 0 /\ cursor = 0
      /\ study.by = "none" /\ counts = NoCounts
  BY DEF OutcomeInit, NoFile, NoStudy
<1>2. NoCounts \in Tallies
  BY DEF NoCounts, Tallies
<1>3. Len(signals) \in Nat
  BY SignalAssumption DEF OutcomeInit
<1>4. OutData
  <2>1. series \in SeriesSet /\ signals \in SignalSet
    BY DEF OutcomeInit
  <2>2. files \in [Resolver -> Seq(OutRow)]
    BY <1>1
  <2>3. current \in 0..(Len(signals) + 1)
    BY <1>1, <1>3
  <2> QED
    BY <1>1, <1>2, <2>1, <2>2, <2>3 DEF OutData
<1> QED
  BY <1>1, <1>4 DEF OutInv, Walking, RowsInOrder, AllTruthful, Counted4, StudyOK

LEMMA NextOutcome == OutInv /\ [OutcomeNext]_outcomeVars => OutInv'
<1> SUFFICES ASSUME OutInv, [OutcomeNext]_outcomeVars PROVE OutInv'
  OBVIOUS
<1>1. CASE UNCHANGED outcomeVars
  BY <1>1, DataKept, WalkingKept DEF outcomeVars, OutInv, StudyOK
<1> QED
  BY <1>1, WalkKept, ResolverKept, StudyKept DEF OutcomeNext

LEMMA OutcomeInvariant == OutcomeSpec => []OutInv
  BY InitOutcome, NextOutcome, PTL DEF OutcomeSpec

-----------------------------------------------------------------------------
(* What the rows say.                                                      *)

LEMMA OutInvTypes == OutInv => OutcomeTypeOK
<1> SUFFICES ASSUME OutInv PROVE OutcomeTypeOK
  OBVIOUS
<1>1. OutData /\ Walking /\ AllTruthful /\ Counted4
  BY DEF OutInv
<1>2. Len(series) \in Nat
  BY <1>1, SeriesTyped
<1>3. cursor \in 0..(Len(series) + 1)
  <2>1. CASE cursor = 0
    BY <1>2, <2>1
  <2>2. CASE cursor # 0
    <3>1. /\ Signal.at \in 1..Len(series) /\ tool \in Resolver /\ cursor \in Nat
          /\ cursor <= Reach(tool, Signal.at) + 1
      BY <1>1, <2>2 DEF Walking, OutData
    <3>2. Reach(tool, Signal.at) \in Signal.at..Len(series)
      BY <1>1, <3>1, ReachIn
    <3> QED
      BY <1>2, <3>1, <3>2
  <2> QED
    BY <2>1, <2>2
<1>4. ASSUME NEW r \in Resolver, NEW row \in Rows(r)
      PROVE  row.outcome \in {"win", "loss", "unresolved"} /\ row.signal \in DOMAIN signals
  <2>1. PICK i \in DOMAIN files[r] : row = files[r][i]
    BY DEF Rows
  <2>2. row \in OutRow
    <3>1. files[r] \in Seq(OutRow)
      BY <1>1 DEF OutData
    <3> QED
      BY <2>1, <3>1
  <2> QED
    BY <1>1, <2>1, <2>2 DEF AllTruthful, Truthful, OutRow
<1> QED
  BY <1>1, <1>3, <1>4 DEF OutcomeTypeOK, OutData, Counted4

\* A resolver, whichever it is and however it is interrupted by the end of a block, has
\* the types of its code, and its counters account for every signal it passed.
THEOREM OutcomeTypes == OutcomeSpec => []OutcomeTypeOK
  BY OutcomeInvariant, OutInvTypes, PTL

LEMMA RowTruthful ==
  ASSUME OutInv, NEW r \in Resolver, NEW row \in Rows(r)
  PROVE  /\ row \in OutRow /\ Truthful(r, row) /\ row.at \in 1..Len(series)
         /\ Reach(r, row.at) \in row.at..Len(series) /\ Len(series) \in Nat
<1>1. PICK i \in DOMAIN files[r] : row = files[r][i]
  BY DEF Rows
<1>2. row \in OutRow
  <2>1. files[r] \in Seq(OutRow)
    BY DEF OutInv, OutData
  <2> QED
    BY <1>1, <2>1
<1>3. Truthful(r, row) /\ row.at \in 1..Len(series)
  BY <1>1 DEF OutInv, AllTruthful, Truthful
<1> QED
  BY <1>2, <1>3, ReachIn, SeriesTyped DEF OutInv

\* Whatever the series and the signals: a row tells of the first bar within reach that
\* hits a barrier, and pessimistically of one that hits both.
THEOREM FirstTouchTold == OutcomeSpec => []FirstTouch
<1>1. OutInv => FirstTouch
  <2> SUFFICES ASSUME OutInv, NEW r \in Resolver, NEW row \in Rows(r)
               PROVE  LET reach == (row.at + 1)..Reach(r, row.at)
                          touches == { b \in reach : series[b].hits # {} }
                          target == IF signals[row.signal].side = "long" THEN "up" ELSE "down"
                      IN  IF row.outcome = "unresolved" THEN touches = {}
                          ELSE /\ row.resolved \in touches
                               /\ \A b \in touches : row.resolved <= b
                               /\ (row.outcome = "win") <=> (series[row.resolved].hits = {target})
    BY DEF FirstTouch
  <2>1. /\ row \in OutRow /\ Truthful(r, row) /\ row.at \in Nat
        /\ Reach(r, row.at) \in Nat
    BY RowTruthful
  <2>2. CASE row.outcome = "unresolved"
    BY <2>1, <2>2 DEF Truthful, Calm
  <2>3. CASE row.outcome # "unresolved"
    <3>1. /\ row.resolved \in (row.at + 1)..Reach(r, row.at)
          /\ Calm(row.at + 1, row.resolved - 1)
          /\ series[row.resolved].hits # {}
          /\ (row.outcome = "win") <=> (series[row.resolved].hits = {Winning(row)})
      BY <2>1, <2>3 DEF Truthful
    <3>2. ASSUME NEW b \in (row.at + 1)..Reach(r, row.at), series[b].hits # {},
                 ~(row.resolved <= b)
          PROVE  FALSE
      <4>1. b \in (row.at + 1)..(row.resolved - 1)
        BY <2>1, <3>1, <3>2
      <4> QED
        BY <3>1, <3>2, <4>1 DEF Calm
    <3> QED
      BY <2>3, <3>1, <3>2 DEF Winning
  <2> QED
    BY <2>2, <2>3
<1> QED
  BY <1>1, OutcomeInvariant, PTL

\* The amended rule only adds outcomes, and only past a gap.
THEOREM AmendmentExtends == OutcomeSpec => []LaterRuleExtends
<1>1. OutInv => LaterRuleExtends
  <2> SUFFICES ASSUME OutInv, NEW old \in Rows("v1"), NEW new \in Rows("v2"),
                      old.signal = new.signal
               PROVE  /\ old.outcome # "unresolved" =>
                            new.outcome = old.outcome /\ new.resolved = old.resolved
                      /\ (old.outcome = "unresolved" /\ new.outcome # "unresolved") =>
                            new.resolved > BlockEnd(old.at)
                      /\ new.through => old.outcome = "unresolved"
    BY DEF LaterRuleExtends
  <2> DEFINE at == old.at
             last == BlockEnd(at)
             n == Len(series)
  <2>1. "v1" \in Resolver /\ "v2" \in Resolver
    BY DEF Resolver
  <2>2. /\ old \in OutRow /\ Truthful("v1", old) /\ new \in OutRow /\ Truthful("v2", new)
        /\ at \in 1..n /\ n \in Nat
    BY <2>1, RowTruthful
  <2>3. new.at = at
    BY <2>2 DEF Truthful
  <2>4. Reach("v1", at) = last /\ Reach("v2", at) = n
    BY DEF Reach
  <2>5. last \in at..n /\ \A b \in (at + 1)..last : ~series[b].gap
    BY <2>2, BlockEnds DEF OutInv
  <2>6. Winning(old) = Winning(new)
    BY DEF Winning
  <2> DEFINE x == old.resolved
             y == new.resolved
  <2>7. old.outcome # "unresolved" =>
          /\ x \in (at + 1)..last /\ Calm(at + 1, x - 1) /\ series[x].hits # {}
          /\ (old.outcome = "win") <=> (series[x].hits = {Winning(old)})
    BY <2>2, <2>4 DEF Truthful
  <2>8. new.outcome # "unresolved" =>
          /\ y \in (at + 1)..n /\ Calm(at + 1, y - 1) /\ series[y].hits # {}
          /\ (new.outcome = "win") <=> (series[y].hits = {Winning(new)})
          /\ new.through => series[y].gap
    BY <2>2, <2>3, <2>4 DEF Truthful
  <2>9. /\ old.outcome = "unresolved" => Calm(at + 1, last)
        /\ new.outcome = "unresolved" => Calm(at + 1, n) /\ ~new.through
    BY <2>2, <2>3, <2>4 DEF Truthful
  <2>10. /\ old.outcome \in {"win", "loss", "unresolved"}
         /\ new.outcome \in {"win", "loss", "unresolved"}
    BY <2>2 DEF OutRow
  <2> HIDE DEF at, last, n, x, y
  <2>11. ASSUME old.outcome # "unresolved"
         PROVE  new.outcome = old.outcome /\ x = y /\ ~new.through
    <3>1. x \in (at + 1)..n
      BY <2>2, <2>5, <2>7, <2>11
    <3>2. new.outcome # "unresolved"
      BY <2>7, <2>9, <2>11, <3>1 DEF Calm
    <3>3. ~(x < y)
      <4>1. x < y => x \in (at + 1)..(y - 1)
        BY <2>2, <2>8, <3>1, <3>2
      <4> QED
        BY <2>7, <2>8, <2>11, <3>2, <4>1 DEF Calm
    <3>4. ~(y < x)
      <4>1. y < x => y \in (at + 1)..(x - 1)
        BY <2>2, <2>8, <3>1, <3>2
      <4> QED
        BY <2>7, <2>8, <2>11, <3>2, <4>1 DEF Calm
    <3>5. x = y
      BY <2>2, <2>8, <3>1, <3>2, <3>3, <3>4
    <3>6. new.outcome = old.outcome
      BY <2>6, <2>7, <2>8, <2>10, <2>11, <3>2, <3>5
    <3>7. ~new.through
      BY <2>5, <2>7, <2>8, <2>11, <3>2, <3>5
    <3> QED
      BY <3>5, <3>6, <3>7
  <2>12. ASSUME old.outcome = "unresolved", new.outcome # "unresolved", ~(y > last)
         PROVE  FALSE
    <3>1. y \in (at + 1)..last
      BY <2>2, <2>5, <2>8, <2>12
    <3> QED
      BY <2>8, <2>9, <2>12, <3>1 DEF Calm
  <2> QED
    BY <2>11, <2>12 DEF x, y, last, at
<1> QED
  BY <1>1, OutcomeInvariant, PTL

-----------------------------------------------------------------------------
(* One position at a time.                                                 *)

AfterRow(rows, h, i) ==
    IF i = 0 THEN [taken |-> <<>>, busyUntil |-> 0]
    ELSE IF rows[i].outcome = "unresolved" \/ rows[i].at < h[i - 1].busyUntil
         THEN h[i - 1]
         ELSE [taken |-> Append(h[i - 1].taken, rows[i]), busyUntil |-> rows[i].resolved]
Pass(rows, n, h) == h = [i \in 0..n |-> AfterRow(rows, h, i)]
ThePass(rows) == CHOOSE h : Pass(rows, Len(rows), h)

\* There is a pass over any number of rows.
LEMMA PassExists ==
  ASSUME NEW rows, NEW N \in Nat
  PROVE  \E h : Pass(rows, N, h)
<1> DEFINE Done == { n \in Nat : \E h : Pass(rows, n, h) }
<1>1. 0 \in Done
  <2> DEFINE h == [i \in 0..0 |-> [taken |-> <<>>, busyUntil |-> 0]]
  <2>1. h = [i \in 0..0 |-> AfterRow(rows, h, i)]
    BY DEF AfterRow
  <2> QED
    BY <2>1 DEF Pass
<1>2. ASSUME NEW n \in 0..N, n \in Done, n < N
      PROVE  n + 1 \in Done
  <2>1. PICK h : h = [i \in 0..n |-> AfterRow(rows, h, i)]
    BY <1>2 DEF Pass
  <2> DEFINE g == [i \in 0..(n + 1) |-> IF i \in 0..n THEN h[i] ELSE AfterRow(rows, h, i)]
             k == [i \in 0..(n + 1) |-> AfterRow(rows, g, i)]
  <2>2. ASSUME NEW i \in 0..(n + 1)
        PROVE  g[i] = AfterRow(rows, g, i)
    <3>1. g[i] = AfterRow(rows, h, i)
      BY <2>1
    <3>2. i = 0 \/ (i - 1 \in 0..n /\ i - 1 \in 0..(n + 1))
      OBVIOUS
    <3>3. i # 0 => g[i - 1] = h[i - 1]
      BY <3>2
    <3> HIDE DEF g
    <3> QED
      BY <3>1, <3>3 DEF AfterRow
  <2>3. g = k
    <3>1. \A i \in 0..(n + 1) : g[i] = k[i]
      BY <2>2
    <3>2. g = [i \in 0..(n + 1) |-> g[i]] /\ k = [i \in 0..(n + 1) |-> k[i]]
      OBVIOUS
    <3> HIDE DEF g, k
    <3> QED
      BY <3>1, <3>2
  <2>4. Pass(rows, n + 1, g)
    BY <2>3 DEF Pass, k
  <2> HIDE DEF g
  <2>5. \E f : Pass(rows, n + 1, f)
    BY <2>4
  <2>6. n + 1 \in Nat
    OBVIOUS
  <2> QED
    BY <2>5, <2>6, Zenon
<1>3. N \in Done
  <2> HIDE DEF Done
  <2> QED
    BY <1>1, <1>2, CountUp, SMTT(40)
<1> QED
  BY <1>3

LEMMA TakenByPass ==
  ASSUME NEW rows, Len(rows) \in Nat
  PROVE  Pass(rows, Len(rows), ThePass(rows)) /\ OneAtATime(rows) = ThePass(rows)[Len(rows)].taken
<1>1. Pass(rows, Len(rows), ThePass(rows))
  BY PassExists DEF ThePass
<1> QED
  BY <1>1 DEF OneAtATime, ThePass, Pass, AfterRow

\* What is known of the trades taken among the first i rows, and of busy_until.
Apart(rows, i, t, busy) ==
    /\ t \in Seq(OutRow) /\ busy \in Nat
    /\ busy = IF t = <<>> THEN 0 ELSE t[Len(t)].resolved
    /\ \A k \in DOMAIN t : \E j \in 1..i : t[k] = rows[j]
    /\ \A k \in 1..(Len(t) - 1) : t[k].resolved <= t[k + 1].at
    /\ \A j \in 1..i : rows[j].outcome # "unresolved" =>
          \/ \E k \in DOMAIN t : t[k] = rows[j]
          \/ \E k \in DOMAIN t : t[k].at <= rows[j].at /\ rows[j].at < t[k].resolved

LEMMA TakenApart ==
  ASSUME NEW rows \in Seq(OutRow),
         \A i, j \in DOMAIN rows : i < j => rows[i].at <= rows[j].at
  PROVE  \E busy : Apart(rows, Len(rows), OneAtATime(rows), busy)
<1> DEFINE N == Len(rows)
           h == ThePass(rows)
           Good == { i \in 0..N : Apart(rows, i, h[i].taken, h[i].busyUntil) }
<1>1. N \in Nat /\ DOMAIN rows = 1..N
  OBVIOUS
<1>2. h = [i \in 0..N |-> AfterRow(rows, h, i)]
  BY <1>1, TakenByPass DEF Pass
<1> HIDE DEF h
<1>3. 0 \in Good
  <2>1. h[0].taken = <<>> /\ h[0].busyUntil = 0
    BY <1>1, <1>2 DEF AfterRow
  <2>2. <<>> \in Seq(OutRow) /\ DOMAIN <<>> = {} /\ Len(<<>>) = 0 /\ 1..0 = {} /\ 1..(0 - 1) = {}
    OBVIOUS
  <2>3. Apart(rows, 0, <<>>, 0)
    BY <2>2 DEF Apart
  <2> QED
    BY <1>1, <2>1, <2>3
<1>4. ASSUME NEW i \in 0..N, i \in Good, i < N
      PROVE  i + 1 \in Good
  <2> DEFINE n == i + 1
             t == h[i].taken
             busy == h[i].busyUntil
             row == rows[n]
  <2>1. n \in 1..N /\ n - 1 = i /\ n # 0 /\ n \in 0..N
    BY <1>1, <1>4
  <2>2. h[n] = IF row.outcome = "unresolved" \/ row.at < busy THEN h[i]
               ELSE [taken |-> Append(t, row), busyUntil |-> row.resolved]
    BY <1>2, <2>1 DEF AfterRow
  <2>3. Apart(rows, i, t, busy)
    BY <1>4
  <2>4. row \in OutRow /\ row.at \in Nat /\ row.resolved \in Nat
    <3>1. row \in OutRow
      BY <2>1
    <3> QED
      BY <3>1 DEF OutRow
  <2>5. t \in Seq(OutRow) /\ Len(t) \in Nat /\ DOMAIN t = 1..Len(t)
    BY <2>3 DEF Apart
  <2> HIDE DEF t, busy, row
  <2>6. 1..n = 1..i \cup {n} /\ i \in Nat
    BY <2>1
  <2>7. CASE row.outcome = "unresolved" \/ row.at < busy
    <3>1. ASSUME row.outcome # "unresolved"
          PROVE  \E k \in DOMAIN t : t[k].at <= row.at /\ row.at < t[k].resolved
      <4>1. row.at < busy
        BY <2>7, <3>1
      <4>2. t # <<>> /\ busy = t[Len(t)].resolved
        BY <2>3, <2>4, <4>1 DEF Apart
      <4>3. Len(t) \in DOMAIN t
        BY <2>5, <4>2
      <4>4. PICK j \in 1..i : t[Len(t)] = rows[j]
        BY <2>3, <4>3 DEF Apart
      <4>5. rows[j].at <= row.at
        BY <1>1, <2>1, <2>6, SMTT(30) DEF row
      <4> QED
        BY <4>1, <4>2, <4>3, <4>4, <4>5
    <3>2. Apart(rows, n, t, busy)
      BY <2>3, <2>6, <3>1 DEF Apart, row
    <3>3. h[n].taken = t /\ h[n].busyUntil = busy
      BY <2>2, <2>7 DEF t, busy
    <3> QED
      BY <2>1, <3>2, <3>3
  <2>8. CASE ~(row.outcome = "unresolved" \/ row.at < busy)
    <3> DEFINE u == Append(t, row)
               m == Len(t) + 1
    <3>1. /\ u \in Seq(OutRow) /\ Len(u) = m /\ DOMAIN u = 1..m /\ u[m] = row /\ u # <<>>
          /\ \A k \in DOMAIN t : u[k] = t[k]
          /\ m \in DOMAIN u /\ 1..m = DOMAIN t \cup {m} /\ m \notin DOMAIN t
      BY <2>4, <2>5
    <3> HIDE DEF u, m
    <3>2. \A k \in DOMAIN u : \E j \in 1..n : u[k] = rows[j]
      BY <2>1, <2>3, <2>6, <3>1, SMTT(30) DEF Apart, row
    <3>3. ASSUME NEW k \in 1..(Len(u) - 1) PROVE u[k].resolved <= u[k + 1].at
      <4>1. k \in DOMAIN t /\ u[k] = t[k] /\ k \in Nat /\ Len(t) = m - 1
        BY <2>5, <3>1 DEF m
      <4>2. CASE k + 1 \in DOMAIN t
        <5>1. k \in 1..(Len(t) - 1)
          BY <2>5, <4>1, <4>2
        <5> QED
          BY <2>3, <3>1, <4>1, <4>2, <5>1 DEF Apart
      <4>3. CASE k + 1 \notin DOMAIN t
        <5>1. k + 1 = m /\ k = Len(t) /\ t # <<>>
          BY <2>5, <4>1, <4>3 DEF m
        <5>2. busy = t[k].resolved /\ busy \in Nat
          BY <2>3, <5>1 DEF Apart
        <5> QED
          BY <2>4, <2>8, <3>1, <4>1, <5>1, <5>2
      <4> QED
        BY <4>2, <4>3
    <3>4. ASSUME NEW j \in 1..n, rows[j].outcome # "unresolved"
          PROVE  \/ \E k \in DOMAIN u : u[k] = rows[j]
                 \/ \E k \in DOMAIN u : u[k].at <= rows[j].at /\ rows[j].at < u[k].resolved
      <4>1. CASE j = n
        BY <3>1, <4>1 DEF row
      <4>2. CASE j \in 1..i
        <5>1. DOMAIN t \subseteq DOMAIN u
          BY <3>1
        <5>2. \/ \E k \in DOMAIN t : t[k] = rows[j]
              \/ \E k \in DOMAIN t : t[k].at <= rows[j].at /\ rows[j].at < t[k].resolved
          BY <2>3, <3>4, <4>2 DEF Apart
        <5> QED
          BY <3>1, <5>1, <5>2
      <4> QED
        BY <2>6, <4>1, <4>2
    <3>5. Apart(rows, n, u, row.resolved)
      BY <2>4, <3>1, <3>2, <3>3, <3>4 DEF Apart
    <3>6. h[n].taken = u /\ h[n].busyUntil = row.resolved
      BY <2>2, <2>8 DEF u
    <3> QED
      BY <2>1, <3>5, <3>6
  <2> QED
    BY <2>7, <2>8
<1>5. N \in Good
  <2> HIDE DEF Good, N
  <2>1. \A i \in 0..N : (i \in Good /\ i < N) => i + 1 \in Good
    BY <1>4
  <2>2. \A i \in 0..N : i \in Good
    BY <1>1, <1>3, <2>1, CountUp
  <2> QED
    BY <1>1, <2>2
<1> QED
  BY <1>1, <1>5, TakenByPass DEF h

\* Whatever was resolved, and however often the studies are repeated: the trades counted
\* under the second policy never overlap, and what was left out did.
THEOREM OnePositionAtATime == OutcomeSpec => []NotTwoAtOnce
<1>1. OutInv => NotTwoAtOnce
  <2> SUFFICES ASSUME OutInv, study.by # "none" PROVE NotTwoAtOnce
    BY DEF NotTwoAtOnce
  <2> DEFINE r == study.from
             rows == files[r]
             t == study.taken
  <2>1. r \in Resolver /\ t = OneAtATime(rows)
    BY DEF OutInv, StudyOK
  <2>2. rows \in Seq(OutRow)
    BY <2>1 DEF OutInv, OutData
  <2>3. ASSUME NEW i \in DOMAIN rows, NEW j \in DOMAIN rows, i < j
        PROVE  rows[i].at <= rows[j].at
    <3>1. Truthful(r, rows[i]) /\ Truthful(r, rows[j]) /\ rows[i].signal < rows[j].signal
      BY <2>1, <2>3 DEF OutInv, AllTruthful, RowsInOrder
    <3> HIDE DEF rows
    <3>2. PICK a \in DOMAIN signals, b \in DOMAIN signals :
             /\ a = rows[i].signal /\ b = rows[j].signal
             /\ rows[i].at = signals[a].at /\ rows[j].at = signals[b].at
             /\ signals[a].at # 0 /\ signals[b].at # 0 /\ a < b
      BY <3>1 DEF Truthful
    <3>3. signals[a].at <= signals[b].at
      BY <3>2, SignalAssumption DEF OutInv, OutData
    <3> QED
      BY <3>2, <3>3
  <2> HIDE DEF rows, t
  <2>4. PICK busy : Apart(rows, Len(rows), t, busy)
    BY <2>1, <2>2, <2>3, TakenApart
  <2>5. ASSUME NEW row \in Rows(r), row.outcome # "unresolved", \A i \in DOMAIN t : t[i] # row
        PROVE  \E i \in DOMAIN t : t[i].at <= row.at /\ row.at < t[i].resolved
    <3>1. PICK j \in 1..Len(rows) : row = rows[j]
      BY <2>2 DEF Rows, rows
    <3> QED
      BY <2>4, <2>5, <3>1 DEF Apart
  <2> QED
    BY <2>4, <2>5 DEF NotTwoAtOnce, Apart, t
<1> QED
  BY <1>1, OutcomeInvariant, PTL

-----------------------------------------------------------------------------
(* Elements at some places of a sequence.                                  *)

KeptAt(s, places, h, i) ==
    IF i = 0 THEN <<>>
    ELSE IF i \in places THEN Append(h[i - 1], s[i]) ELSE h[i - 1]
Keeping(s, places, n, h) == h = [i \in 0..n |-> KeptAt(s, places, h, i)]
TheKeeping(s, places) == CHOOSE h : Keeping(s, places, Len(s), h)

LEMMA KeepingExists ==
  ASSUME NEW s, NEW places, NEW N \in Nat
  PROVE  \E h : Keeping(s, places, N, h)
<1> DEFINE Done == { n \in Nat : \E h : Keeping(s, places, n, h) }
<1>1. 0 \in Done
  <2> DEFINE h == [i \in 0..0 |-> <<>>]
  <2>1. h = [i \in 0..0 |-> KeptAt(s, places, h, i)]
    BY DEF KeptAt
  <2> QED
    BY <2>1 DEF Keeping
<1>2. ASSUME NEW n \in 0..N, n \in Done, n < N
      PROVE  n + 1 \in Done
  <2>1. PICK h : h = [i \in 0..n |-> KeptAt(s, places, h, i)]
    BY <1>2 DEF Keeping
  <2> DEFINE g == [i \in 0..(n + 1) |-> IF i \in 0..n THEN h[i] ELSE KeptAt(s, places, h, i)]
             k == [i \in 0..(n + 1) |-> KeptAt(s, places, g, i)]
  <2>2. ASSUME NEW i \in 0..(n + 1)
        PROVE  g[i] = KeptAt(s, places, g, i)
    <3>1. g[i] = KeptAt(s, places, h, i)
      BY <2>1
    <3>2. i = 0 \/ (i - 1 \in 0..n /\ i - 1 \in 0..(n + 1))
      OBVIOUS
    <3>3. i # 0 => g[i - 1] = h[i - 1]
      BY <3>2
    <3> HIDE DEF g
    <3> QED
      BY <3>1, <3>3 DEF KeptAt
  <2>3. g = k
    <3>1. \A i \in 0..(n + 1) : g[i] = k[i]
      BY <2>2
    <3>2. g = [i \in 0..(n + 1) |-> g[i]] /\ k = [i \in 0..(n + 1) |-> k[i]]
      OBVIOUS
    <3> HIDE DEF g, k
    <3> QED
      BY <3>1, <3>2
  <2>4. Keeping(s, places, n + 1, g)
    BY <2>3 DEF Keeping, k
  <2> HIDE DEF g
  <2>5. \E f : Keeping(s, places, n + 1, f)
    BY <2>4, SMTT(40)
  <2>6. n + 1 \in Nat
    OBVIOUS
  <2> QED
    BY <2>5, <2>6, Zenon
<1>3. N \in Done
  <2> HIDE DEF Done
  <2> QED
    BY <1>1, <1>2, CountUp, SMTT(40)
<1> QED
  BY <1>3

LEMMA KeptByKeeping ==
  ASSUME NEW s, NEW places, Len(s) \in Nat
  PROVE  /\ Keeping(s, places, Len(s), TheKeeping(s, places))
         /\ Only(s, places) = TheKeeping(s, places)[Len(s)]
<1>1. Keeping(s, places, Len(s), TheKeeping(s, places))
  BY KeepingExists DEF TheKeeping
<1> QED
  BY <1>1 DEF Only, TheKeeping, Keeping, KeptAt

\* t holds the elements of the first i of s at the places, in order: f says from where
\* each is.
Picked(s, places, i, t, f) ==
    /\ f \in [1..Len(t) -> 1..i]
    /\ \A k \in 1..Len(t) : t[k] = s[f[k]] /\ f[k] \in places
    /\ \A j, k \in 1..Len(t) : j < k => f[j] < f[k]
    /\ \A n \in 1..i : n \in places => \E k \in 1..Len(t) : f[k] = n

LEMMA OnlyPicks ==
  ASSUME NEW T, NEW s \in Seq(T), NEW places
  PROVE  /\ Only(s, places) \in Seq(T)
         /\ \E f : Picked(s, places, Len(s), Only(s, places), f)
<1> DEFINE N == Len(s)
           h == TheKeeping(s, places)
           Good == { i \in 0..N : h[i] \in Seq(T) /\ \E f : Picked(s, places, i, h[i], f) }
<1>1. N \in Nat /\ DOMAIN s = 1..N
  OBVIOUS
<1>2. h = [i \in 0..N |-> KeptAt(s, places, h, i)]
  BY <1>1, KeptByKeeping DEF Keeping
<1> HIDE DEF h
<1>3. 0 \in Good
  <2>1. h[0] = <<>>
    BY <1>1, <1>2 DEF KeptAt
  <2> DEFINE f == [k \in 1..0 |-> k]
  <2>2. Picked(s, places, 0, <<>>, f)
    BY DEF Picked
  <2> HIDE DEF f
  <2>3. \E g : Picked(s, places, 0, h[0], g)
    BY <2>1, <2>2
  <2>4. h[0] \in Seq(T) /\ 0 \in 0..N
    BY <1>1, <2>1
  <2> QED
    BY <2>3, <2>4, Zenon
<1>4. ASSUME NEW i \in 0..N, i \in Good, i < N
      PROVE  i + 1 \in Good
  <2> DEFINE n == i + 1
             t == h[i]
  <2>1. n \in 1..N /\ n - 1 = i /\ n # 0 /\ n \in 0..N /\ i \in Nat /\ 1..n = 1..i \cup {n}
    BY <1>1, <1>4
  <2>2. h[n] = IF n \in places THEN Append(t, s[n]) ELSE t
    BY <1>2, <2>1 DEF KeptAt
  <2>3. t \in Seq(T) /\ Len(t) \in Nat /\ s[n] \in T
    BY <1>1, <1>4, <2>1
  <2>4. PICK f : Picked(s, places, i, t, f)
    BY <1>4
  <2> HIDE DEF t, n
  <2>5. CASE n \notin places
    <3>1. Picked(s, places, n, t, f)
      BY <2>1, <2>4, <2>5 DEF Picked
    <3>2. h[n] = t
      BY <2>2, <2>5
    <3> QED
      BY <2>1, <2>3, <3>1, <3>2 DEF n
  <2>6. CASE n \in places
    <3> DEFINE u == Append(t, s[n])
               m == Len(t) + 1
               g == [k \in 1..m |-> IF k = m THEN n ELSE f[k]]
    <3>1. /\ u \in Seq(T) /\ Len(u) = m /\ u[m] = s[n] /\ m \in Nat
          /\ \A k \in 1..Len(t) : u[k] = t[k]
          /\ 1..m = 1..Len(t) \cup {m}
      BY <2>3
    <3>2. /\ DOMAIN g = 1..m /\ g[m] = n
          /\ \A k \in 1..Len(t) : g[k] = f[k] /\ f[k] \in 1..i
      <4>1. m \in 1..m /\ DOMAIN g = 1..m /\ g[m] = n
        BY <2>3
      <4>2. ASSUME NEW k \in 1..Len(t)
            PROVE  g[k] = f[k] /\ f[k] \in 1..i
        <5>1. k \in 1..m /\ k # m
          BY <2>3
        <5>2. f[k] \in 1..i
          BY <2>4 DEF Picked
        <5> QED
          BY <5>1, <5>2
      <4> QED
        BY <4>1, <4>2
    <3>3. g = [k \in 1..m |-> g[k]]
      OBVIOUS
    <3> HIDE DEF u, m, g
    <3>4. g \in [1..m -> 1..n]
      BY <2>1, <3>1, <3>2, <3>3
    <3>5. \A k \in 1..m : u[k] = s[g[k]] /\ g[k] \in places
      BY <2>4, <2>6, <3>1, <3>2 DEF Picked
    <3>6. ASSUME NEW j \in 1..m, NEW k \in 1..m, j < k
          PROVE  g[j] < g[k]
      <4>1. j \in 1..Len(t)
        BY <2>3, <3>1, <3>6 DEF m
      <4>2. CASE k \in 1..Len(t)
        BY <2>4, <3>2, <3>6, <4>1, <4>2 DEF Picked
      <4>3. CASE k = m
        <5>1. g[j] \in 1..i /\ g[k] = i + 1
          BY <3>2, <4>1, <4>3 DEF n
        <5> QED
          BY <2>1, <5>1
      <4> QED
        BY <3>1, <4>2, <4>3
    <3>7. ASSUME NEW x \in 1..n, x \in places
          PROVE  \E k \in 1..m : g[k] = x
      <4>1. CASE x = n
        BY <3>1, <3>2, <4>1
      <4>2. CASE x \in 1..i
        <5>1. PICK k \in 1..Len(t) : f[k] = x
          BY <2>4, <3>7, <4>2 DEF Picked
        <5> QED
          BY <3>1, <3>2, <5>1
      <4> QED
        BY <2>1, <4>1, <4>2
    <3>8. Picked(s, places, n, u, g)
      BY <3>1, <3>4, <3>5, <3>6, <3>7 DEF Picked
    <3>9. h[n] = u
      BY <2>2, <2>6 DEF u
    <3> QED
      BY <2>1, <3>1, <3>8, <3>9 DEF n
  <2> QED
    BY <2>5, <2>6
<1>5. N \in Good
  <2> HIDE DEF Good, N
  <2>1. \A i \in 0..N : (i \in Good /\ i < N) => i + 1 \in Good
    BY <1>4
  <2>2. \A i \in 0..N : i \in Good
    BY <1>1, <1>3, <2>1, CountUp
  <2> QED
    BY <1>1, <2>2
<1> QED
  BY <1>1, <1>5, KeptByKeeping DEF h

\* What is kept are the elements at the places, each as often as before.
LEMMA OnlyKeeps ==
  ASSUME NEW T, NEW s \in Seq(T), NEW places
  PROVE  LET t == Only(s, places) IN
         /\ t \in Seq(T)
         /\ \A k \in DOMAIN t : \E i \in DOMAIN s : i \in places /\ t[k] = s[i]
         /\ \A i \in DOMAIN s : i \in places => \E k \in DOMAIN t : t[k] = s[i]
         /\ \A j, k \in DOMAIN t : j # k =>
               \E m, n \in DOMAIN s : m # n /\ t[j] = s[m] /\ t[k] = s[n]
<1> DEFINE t == Only(s, places)
<1>1. t \in Seq(T)
  BY OnlyPicks
<1>2. PICK f : Picked(s, places, Len(s), t, f)
  BY OnlyPicks
<1> HIDE DEF t
<1>3. DOMAIN t = 1..Len(t) /\ DOMAIN s = 1..Len(s) /\ Len(s) \in Nat
  BY <1>1
<1>4. \A k \in DOMAIN t : f[k] \in DOMAIN s /\ f[k] \in places /\ t[k] = s[f[k]]
  BY <1>2, <1>3 DEF Picked
<1>5. \A i \in DOMAIN s : i \in places => \E k \in DOMAIN t : t[k] = s[i]
  BY <1>2, <1>3, <1>4 DEF Picked
<1>6. ASSUME NEW j \in DOMAIN t, NEW k \in DOMAIN t, j # k
      PROVE  \E m, n \in DOMAIN s : m # n /\ t[j] = s[m] /\ t[k] = s[n]
  <2>1. j < k \/ k < j
    BY <1>3, <1>6
  <2>2. f[j] # f[k]
    <3>1. f[j] < f[k] \/ f[k] < f[j]
      BY <1>2, <1>3, <2>1 DEF Picked
    <3>2. f[j] \in Nat /\ f[k] \in Nat
      BY <1>3, <1>4
    <3> QED
      BY <3>1, <3>2
  <2> QED
    BY <1>4, <2>2
<1> QED
  BY <1>1, <1>4, <1>5, <1>6 DEF t

-----------------------------------------------------------------------------
(* The instruments that a list of names or of rows is about.               *)

ScrRow == [symbol : Nat, outcome : Outcomes, r : Nat]
Elements(names) == { names[n] : n \in DOMAIN names }
Symbols(rows) == { rows[n].symbol : n \in DOMAIN rows }
Once(names) == \A j, k \in DOMAIN names : j # k => names[j] # names[k]
Distinct(rows) == \A j, k \in DOMAIN rows : j # k => rows[j].symbol # rows[k].symbol

LEMMA ScrFields ==
  \A row \in ScrRow : row.symbol \in Nat /\ row.outcome \in Outcomes /\ row.r \in Nat
  BY DEF ScrRow

LEMMA OnlyOnce ==
  ASSUME NEW T, NEW s \in Seq(T), NEW places, Once(s)
  PROVE  LET t == Only(s, places) IN
         t \in Seq(T) /\ Once(t) /\ Elements(t) \subseteq Elements(s)
<1> DEFINE t == Only(s, places)
<1>1. /\ t \in Seq(T)
      /\ \A k \in DOMAIN t : \E i \in DOMAIN s : i \in places /\ t[k] = s[i]
      /\ \A j, k \in DOMAIN t : j # k =>
            \E m, n \in DOMAIN s : m # n /\ t[j] = s[m] /\ t[k] = s[n]
  BY OnlyKeeps
<1> HIDE DEF t
<1>2. Elements(t) \subseteq Elements(s)
  BY <1>1 DEF Elements
<1>3. Once(t)
  <2> SUFFICES ASSUME NEW j \in DOMAIN t, NEW k \in DOMAIN t, j # k
               PROVE  t[j] # t[k]
    BY DEF Once
  <2>1. PICK m \in DOMAIN s, n \in DOMAIN s : m # n /\ t[j] = s[m] /\ t[k] = s[n]
    BY <1>1
  <2> QED
    BY <2>1 DEF Once
<1> QED
  BY <1>1, <1>2, <1>3 DEF t

\* The rows at some places and the others are all the rows.
LEMMA OnlySplits ==
  ASSUME NEW rows \in Seq(ScrRow), Distinct(rows), NEW places, NEW others,
         places \cup others = DOMAIN rows, places \cap others = {}
  PROVE  LET a == Only(rows, places)
             b == Only(rows, others) IN
         /\ a \in Seq(ScrRow) /\ b \in Seq(ScrRow)
         /\ Distinct(a) /\ Distinct(b)
         /\ Symbols(a) \cap Symbols(b) = {}
         /\ Symbols(a) \cup Symbols(b) = Symbols(rows)
         /\ \A k \in DOMAIN a : \E i \in places : a[k] = rows[i]
<1> DEFINE a == Only(rows, places)
           b == Only(rows, others)
<1>1. /\ a \in Seq(ScrRow)
      /\ \A k \in DOMAIN a : \E i \in DOMAIN rows : i \in places /\ a[k] = rows[i]
      /\ \A i \in DOMAIN rows : i \in places => \E k \in DOMAIN a : a[k] = rows[i]
      /\ \A j, k \in DOMAIN a : j # k =>
            \E m, n \in DOMAIN rows : m # n /\ a[j] = rows[m] /\ a[k] = rows[n]
  BY OnlyKeeps
<1>2. /\ b \in Seq(ScrRow)
      /\ \A k \in DOMAIN b : \E i \in DOMAIN rows : i \in others /\ b[k] = rows[i]
      /\ \A i \in DOMAIN rows : i \in others => \E k \in DOMAIN b : b[k] = rows[i]
      /\ \A j, k \in DOMAIN b : j # k =>
            \E m, n \in DOMAIN rows : m # n /\ b[j] = rows[m] /\ b[k] = rows[n]
  BY OnlyKeeps
<1> HIDE DEF a, b
<1>3. \A m, n \in DOMAIN rows : m # n => rows[m].symbol # rows[n].symbol
  BY DEF Distinct
<1>4. Distinct(a)
  <2> SUFFICES ASSUME NEW j \in DOMAIN a, NEW k \in DOMAIN a, j # k
               PROVE  a[j].symbol # a[k].symbol
    BY DEF Distinct
  <2>1. PICK m \in DOMAIN rows, n \in DOMAIN rows :
               m # n /\ a[j] = rows[m] /\ a[k] = rows[n]
    BY <1>1
  <2> QED
    BY <1>3, <2>1
<1>5. Distinct(b)
  <2> SUFFICES ASSUME NEW j \in DOMAIN b, NEW k \in DOMAIN b, j # k
               PROVE  b[j].symbol # b[k].symbol
    BY DEF Distinct
  <2>1. PICK m \in DOMAIN rows, n \in DOMAIN rows :
               m # n /\ b[j] = rows[m] /\ b[k] = rows[n]
    BY <1>2
  <2> QED
    BY <1>3, <2>1
<1>6. Symbols(a) \cap Symbols(b) = {}
  <2> SUFFICES ASSUME NEW j \in DOMAIN a, NEW k \in DOMAIN b
               PROVE  a[j].symbol # b[k].symbol
    BY DEF Symbols
  <2>1. PICK m \in DOMAIN rows : m \in places /\ a[j] = rows[m]
    BY <1>1
  <2>2. PICK n \in DOMAIN rows : n \in others /\ b[k] = rows[n]
    BY <1>2
  <2> QED
    BY <1>3, <2>1, <2>2
<1>7. Symbols(a) \cup Symbols(b) = Symbols(rows)
  <2>1. \A k \in DOMAIN a : a[k].symbol \in Symbols(rows)
    BY <1>1 DEF Symbols
  <2>2. \A k \in DOMAIN b : b[k].symbol \in Symbols(rows)
    BY <1>2 DEF Symbols
  <2>3. ASSUME NEW i \in DOMAIN rows
        PROVE  rows[i].symbol \in Symbols(a) \cup Symbols(b)
    <3>1. CASE i \in places
      <4>1. PICK k \in DOMAIN a : a[k] = rows[i]
        BY <1>1, <3>1
      <4> QED
        BY <4>1 DEF Symbols
    <3>2. CASE i \in others
      <4>1. PICK k \in DOMAIN b : b[k] = rows[i]
        BY <1>2, <3>2
      <4> QED
        BY <4>1 DEF Symbols
    <3> QED
      BY <3>1, <3>2
  <2>4. Symbols(rows) = { rows[i].symbol : i \in DOMAIN rows }
    BY DEF Symbols
  <2>5. /\ Symbols(a) = { a[k].symbol : k \in DOMAIN a }
        /\ Symbols(b) = { b[k].symbol : k \in DOMAIN b }
    BY DEF Symbols
  <2> QED
    BY ONLY <2>1, <2>2, <2>3, <2>4, <2>5
<1> QED
  BY <1>1, <1>2, <1>4, <1>5, <1>6, <1>7 DEF a, b

\* The first of a list of names, and of a list of rows, and the rest.
LEMMA NamesRest ==
  ASSUME NEW T, NEW names \in Seq(T), names # <<>>, Once(names)
  PROVE  /\ Head(names) \in T /\ Tail(names) \in Seq(T) /\ Once(Tail(names))
         /\ Head(names) \notin Elements(Tail(names))
         /\ Elements(names) = {Head(names)} \cup Elements(Tail(names))
<1> DEFINE t == Tail(names)
<1>1. /\ Head(names) = names[1] /\ t \in Seq(T) /\ Len(t) = Len(names) - 1
      /\ Len(names) \in Nat \ {0} /\ DOMAIN names = 1..Len(names) /\ DOMAIN t = 1..Len(t)
      /\ \A k \in 1..Len(t) : t[k] = names[k + 1]
  OBVIOUS
<1> HIDE DEF t
<1>2. \A k \in DOMAIN t : k + 1 \in DOMAIN names /\ k + 1 # 1 /\ t[k] = names[k + 1]
  BY <1>1
<1>3. \A n \in DOMAIN names : n = 1 \/ (n - 1 \in DOMAIN t /\ t[n - 1] = names[n])
  <2> SUFFICES ASSUME NEW n \in DOMAIN names, n # 1
               PROVE  n - 1 \in DOMAIN t /\ t[n - 1] = names[n]
    OBVIOUS
  <2>1. n - 1 \in 1..Len(t) /\ (n - 1) + 1 = n
    BY <1>1
  <2> QED
    BY <1>1, <2>1
<1>4. 1 \in DOMAIN names /\ names[1] \in T
  BY <1>1
<1>5. Once(t)
  <2> SUFFICES ASSUME NEW j \in DOMAIN t, NEW k \in DOMAIN t, j # k
               PROVE  t[j] # t[k]
    BY DEF Once
  <2>1. j + 1 # k + 1
    BY <1>1
  <2> QED
    BY <1>2, <2>1 DEF Once
<1>6. names[1] \notin Elements(t)
  BY <1>2, <1>4 DEF Once, Elements
<1>7. Elements(names) = {names[1]} \cup Elements(t)
  <2>1. \A n \in DOMAIN names : names[n] \in {names[1]} \cup Elements(t)
    BY <1>3 DEF Elements
  <2>2. \A k \in DOMAIN t : t[k] \in Elements(names)
    BY <1>2 DEF Elements
  <2>3. names[1] \in Elements(names)
    BY <1>4 DEF Elements
  <2> QED
    BY <2>1, <2>2, <2>3 DEF Elements
<1> QED
  BY <1>1, <1>4, <1>5, <1>6, <1>7 DEF t

LEMMA RowsRest ==
  ASSUME NEW rows \in Seq(ScrRow), rows # <<>>, Distinct(rows)
  PROVE  /\ Head(rows) \in ScrRow /\ Head(rows) = rows[1] /\ 1 \in DOMAIN rows
         /\ Tail(rows) \in Seq(ScrRow) /\ Distinct(Tail(rows))
         /\ Head(rows).symbol \notin Symbols(Tail(rows))
         /\ Symbols(rows) = {Head(rows).symbol} \cup Symbols(Tail(rows))
         /\ \A k \in DOMAIN Tail(rows) : \E n \in DOMAIN rows : Tail(rows)[k] = rows[n]
<1> DEFINE t == Tail(rows)
<1>1. /\ Head(rows) = rows[1] /\ t \in Seq(ScrRow) /\ Len(t) = Len(rows) - 1
      /\ Len(rows) \in Nat \ {0} /\ DOMAIN rows = 1..Len(rows) /\ DOMAIN t = 1..Len(t)
      /\ \A k \in 1..Len(t) : t[k] = rows[k + 1]
  OBVIOUS
<1> HIDE DEF t
<1>2. \A k \in DOMAIN t : k + 1 \in DOMAIN rows /\ k + 1 # 1 /\ t[k] = rows[k + 1]
  BY <1>1
<1>3. \A n \in DOMAIN rows : n = 1 \/ (n - 1 \in DOMAIN t /\ t[n - 1] = rows[n])
  <2> SUFFICES ASSUME NEW n \in DOMAIN rows, n # 1
               PROVE  n - 1 \in DOMAIN t /\ t[n - 1] = rows[n]
    OBVIOUS
  <2>1. n - 1 \in 1..Len(t) /\ (n - 1) + 1 = n
    BY <1>1
  <2> QED
    BY <1>1, <2>1
<1>4. 1 \in DOMAIN rows /\ rows[1] \in ScrRow
  BY <1>1
<1>5. Distinct(t)
  <2> SUFFICES ASSUME NEW j \in DOMAIN t, NEW k \in DOMAIN t, j # k
               PROVE  t[j].symbol # t[k].symbol
    BY DEF Distinct
  <2>1. j + 1 # k + 1
    BY <1>1
  <2> QED
    BY <1>2, <2>1 DEF Distinct
<1>6. rows[1].symbol \notin Symbols(t)
  BY <1>2, <1>4 DEF Distinct, Symbols
<1>7. Symbols(rows) = {rows[1].symbol} \cup Symbols(t)
  <2>1. \A n \in DOMAIN rows : rows[n].symbol \in {rows[1].symbol} \cup Symbols(t)
    BY <1>3 DEF Symbols
  <2>2. \A k \in DOMAIN t : t[k].symbol \in Symbols(rows)
    BY <1>2 DEF Symbols
  <2>3. rows[1].symbol \in Symbols(rows)
    BY <1>4 DEF Symbols
  <2> QED
    BY <2>1, <2>2, <2>3 DEF Symbols
<1> QED
  BY <1>1, <1>2, <1>4, <1>5, <1>6, <1>7 DEF t

\* Rows put behind others.
LEMMA RowsJoined ==
  ASSUME NEW a \in Seq(ScrRow), NEW b \in Seq(ScrRow), Distinct(a), Distinct(b),
         Symbols(a) \cap Symbols(b) = {}
  PROVE  /\ a \o b \in Seq(ScrRow) /\ Distinct(a \o b)
         /\ Symbols(a \o b) = Symbols(a) \cup Symbols(b)
         /\ Len(a \o b) = Len(a) + Len(b)
         /\ \A n \in 1..Len(a) : (a \o b)[n] = a[n]
         /\ \A n \in 1..Len(b) : (a \o b)[Len(a) + n] = b[n]
<1> DEFINE c == a \o b
<1>1. /\ c \in Seq(ScrRow) /\ Len(c) = Len(a) + Len(b) /\ Len(a) \in Nat /\ Len(b) \in Nat
      /\ \A n \in 1..Len(a) : c[n] = a[n]
      /\ \A n \in 1..Len(b) : c[Len(a) + n] = b[n]
      /\ DOMAIN a = 1..Len(a) /\ DOMAIN b = 1..Len(b) /\ DOMAIN c = 1..Len(c)
  OBVIOUS
<1> HIDE DEF c
<1>2. \A n \in DOMAIN c :
         \/ n \in DOMAIN a /\ c[n] = a[n]
         \/ n - Len(a) \in DOMAIN b /\ c[n] = b[n - Len(a)]
  <2> SUFFICES ASSUME NEW n \in DOMAIN c, n \notin DOMAIN a
               PROVE  n - Len(a) \in DOMAIN b /\ c[n] = b[n - Len(a)]
    BY <1>1
  <2>1. n - Len(a) \in 1..Len(b) /\ Len(a) + (n - Len(a)) = n
    BY <1>1
  <2> QED
    BY <1>1, <2>1
<1>3. \A n \in DOMAIN c : n \in Nat
  BY <1>1
<1>4. Distinct(c)
  <2> SUFFICES ASSUME NEW j \in DOMAIN c, NEW k \in DOMAIN c, j # k
               PROVE  c[j].symbol # c[k].symbol
    BY DEF Distinct
  <2>1. \A m \in DOMAIN a, n \in DOMAIN b : a[m].symbol # b[n].symbol
    BY DEF Symbols
  <2>2. j - Len(a) # k - Len(a)
    BY <1>1, <1>3
  <2> QED
    BY <1>2, <2>1, <2>2 DEF Distinct
<1>5. Symbols(c) = Symbols(a) \cup Symbols(b)
  <2>1. \A n \in DOMAIN c : c[n].symbol \in Symbols(a) \cup Symbols(b)
    BY <1>2 DEF Symbols
  <2>2. \A n \in DOMAIN a : a[n].symbol \in Symbols(c)
    BY <1>1 DEF Symbols
  <2>3. \A n \in DOMAIN b : b[n].symbol \in Symbols(c)
    <3> SUFFICES ASSUME NEW n \in DOMAIN b
                 PROVE  b[n].symbol \in Symbols(c)
      OBVIOUS
    <3>1. Len(a) + n \in DOMAIN c /\ c[Len(a) + n] = b[n]
      BY <1>1
    <3> QED
      BY <3>1 DEF Symbols
  <2> QED
    BY <2>1, <2>2, <2>3 DEF Symbols
<1> QED
  BY <1>1, <1>4, <1>5 DEF c

LEMMA RowAdded ==
  ASSUME NEW a \in Seq(ScrRow), NEW x \in ScrRow, Distinct(a), x.symbol \notin Symbols(a)
  PROVE  /\ Append(a, x) \in Seq(ScrRow) /\ Distinct(Append(a, x))
         /\ Symbols(Append(a, x)) = Symbols(a) \cup {x.symbol}
         /\ Len(Append(a, x)) = Len(a) + 1
         /\ \A n \in 1..Len(a) : Append(a, x)[n] = a[n]
         /\ Append(a, x)[Len(a) + 1] = x
<1> DEFINE c == Append(a, x)
<1>1. /\ c \in Seq(ScrRow) /\ Len(c) = Len(a) + 1 /\ Len(a) \in Nat
      /\ \A n \in 1..Len(a) : c[n] = a[n]
      /\ c[Len(a) + 1] = x
      /\ DOMAIN a = 1..Len(a) /\ DOMAIN c = 1..Len(c)
  OBVIOUS
<1> HIDE DEF c
<1>2. /\ \A n \in DOMAIN c : n = Len(a) + 1 \/ n \in DOMAIN a
      /\ \A n \in DOMAIN a : n \in DOMAIN c
      /\ Len(a) + 1 \in DOMAIN c
  BY <1>1
<1>3. Distinct(c)
  <2> SUFFICES ASSUME NEW j \in DOMAIN c, NEW k \in DOMAIN c, j # k
               PROVE  c[j].symbol # c[k].symbol
    BY DEF Distinct
  <2>1. \A m \in DOMAIN a : a[m].symbol # x.symbol
    BY DEF Symbols
  <2> QED
    BY <1>1, <1>2, <2>1 DEF Distinct
<1>4. Symbols(c) = Symbols(a) \cup {x.symbol}
  BY <1>1, <1>2 DEF Symbols
<1> QED
  BY <1>1, <1>3, <1>4 DEF c

-----------------------------------------------------------------------------
(* The failures in a row that end a run.                                   *)

\* what may stand among the failures of a screen and among those of a verification
Strict == {"TRANSPORT_FAILURE"}
Lenient == {"TRANSPORT_FAILURE", "NO_DATA"}

Run(rows, last, among) ==
    { k \in 1..last : /\ rows[k].outcome = "TRANSPORT_FAILURE"
                      /\ \A j \in k..last : rows[j].outcome \in among }

Earned(rows, among) ==
    \A n \in DOMAIN rows : rows[n].outcome = "UNSCREENED" =>
        \E last \in 1..(n - 1) :
           /\ \A k \in (last + 1)..n : rows[k].outcome = "UNSCREENED"
           /\ Cardinality(Run(rows, last, among)) >= MaxFailures

LEMMA RunFinite ==
  ASSUME NEW rows, NEW last \in Nat, NEW among
  PROVE  IsFiniteSet(Run(rows, last, among)) /\ Cardinality(Run(rows, last, among)) \in Nat
<1>1. IsFiniteSet(1..last)
  BY FS_Interval
<1>2. Run(rows, last, among) \subseteq 1..last
  BY DEF Run
<1> QED
  BY <1>1, <1>2, FS_Subset, FS_CardinalityType

LEMMA RunSame ==
  ASSUME NEW rows, NEW more, NEW last \in Nat, NEW among,
         \A k \in 1..last : rows[k] = more[k]
  PROVE  Run(rows, last, among) = Run(more, last, among)
<1>1. ASSUME NEW k \in 1..last
      PROVE  k..last \subseteq 1..last
  OBVIOUS
<1> QED
  BY <1>1 DEF Run

\* more has, after the first n rows, one that failed
FailsNext(rows, more, n, m) ==
    /\ m = n + 1 /\ \A k \in 1..n : rows[k] = more[k]
    /\ more[m].outcome = "TRANSPORT_FAILURE"

LEMMA RunFailed ==
  ASSUME NEW rows, NEW more, NEW n \in Nat, NEW m, NEW among,
         FailsNext(rows, more, n, m), "TRANSPORT_FAILURE" \in among
  PROVE  Cardinality(Run(more, m, among)) = Cardinality(Run(rows, n, among)) + 1
<1>1. ASSUME NEW k \in 1..n
      PROVE  k..(n + 1) = (k..n) \cup {n + 1} /\ k..n \subseteq 1..n
  OBVIOUS
<1>2. 1..(n + 1) = (1..n) \cup {n + 1} /\ (n + 1)..(n + 1) = {n + 1} /\ n + 1 \notin 1..n
  OBVIOUS
<1>3. m = n + 1 /\ more[n + 1].outcome = "TRANSPORT_FAILURE"
      /\ \A k \in 1..n : rows[k] = more[k]
  BY DEF FailsNext
<1>4. Run(more, n + 1, among) = Run(rows, n, among) \cup {n + 1}
  BY <1>1, <1>2, <1>3 DEF Run
<1>5. n + 1 \notin Run(rows, n, among)
  BY <1>2 DEF Run
<1>6. IsFiniteSet(Run(rows, n, among))
  BY RunFinite
<1>7. Cardinality(Run(more, n + 1, among)) = Cardinality(Run(rows, n, among)) + 1
  BY <1>4, <1>5, <1>6, FS_AddElement
<1> QED
  BY <1>3, <1>7

\* where a row without data does not end it
LEMMA RunNoData ==
  ASSUME NEW rows, NEW more, NEW n \in Nat, NEW m, m = n + 1, NEW among, "NO_DATA" \in among,
         \A k \in 1..n : rows[k] = more[k], more[m].outcome = "NO_DATA"
  PROVE  Run(more, m, among) = Run(rows, n, among)
<1>1. ASSUME NEW k \in 1..n
      PROVE  k..(n + 1) = (k..n) \cup {n + 1} /\ k..n \subseteq 1..n
  OBVIOUS
<1>2. 1..(n + 1) = (1..n) \cup {n + 1} /\ n + 1 \in (n + 1)..(n + 1) /\ n + 1 \notin 1..n
  OBVIOUS
<1> QED
  BY <1>1, <1>2 DEF Run

LEMMA EarnedMore ==
  ASSUME NEW rows \in Seq(ScrRow), NEW x \in ScrRow, NEW among,
         Earned(rows, among), x.outcome # "UNSCREENED"
  PROVE  Earned(Append(rows, x), among)
<1> DEFINE c == Append(rows, x)
<1>1. /\ Len(rows) \in Nat /\ DOMAIN rows = 1..Len(rows) /\ DOMAIN c = 1..(Len(rows) + 1)
      /\ \A n \in 1..Len(rows) : c[n] = rows[n]
      /\ c[Len(rows) + 1] = x
  OBVIOUS
<1> HIDE DEF c
<1> SUFFICES ASSUME NEW n \in DOMAIN c, c[n].outcome = "UNSCREENED"
             PROVE  \E last \in 1..(n - 1) :
                       /\ \A k \in (last + 1)..n : c[k].outcome = "UNSCREENED"
                       /\ Cardinality(Run(c, last, among)) >= MaxFailures
  BY DEF Earned, c
<1>2. n \in DOMAIN rows /\ rows[n].outcome = "UNSCREENED"
  BY <1>1
<1>3. PICK last \in 1..(n - 1) :
           /\ \A k \in (last + 1)..n : rows[k].outcome = "UNSCREENED"
           /\ Cardinality(Run(rows, last, among)) >= MaxFailures
  BY <1>2 DEF Earned
<1>4. last \in Nat /\ last < n /\ n \in 1..Len(rows)
  BY <1>1, <1>2, <1>3
<1>5. Run(rows, last, among) = Run(c, last, among)
  <2>1. \A k \in 1..last : rows[k] = c[k]
    BY <1>1, <1>4
  <2> QED
    BY <1>4, <2>1, RunSame
<1>6. \A k \in (last + 1)..n : c[k] = rows[k]
  BY <1>1, <1>4
<1> QED
  BY <1>3, <1>5, <1>6

\* rows left unscreened behind enough failures
LEMMA EarnedAbort ==
  ASSUME NEW rows \in Seq(ScrRow), NEW rest \in Seq(ScrRow), NEW among,
         Earned(rows, among), \A n \in DOMAIN rest : rest[n].outcome = "UNSCREENED",
         rows # <<>>, rows[Len(rows)].outcome # "UNSCREENED",
         Cardinality(Run(rows, Len(rows), among)) >= MaxFailures
  PROVE  Earned(rows \o rest, among)
<1> DEFINE c == rows \o rest
           N == Len(rows)
<1>1. /\ N \in Nat \ {0} /\ Len(rest) \in Nat /\ DOMAIN rows = 1..N
      /\ DOMAIN rest = 1..Len(rest) /\ DOMAIN c = 1..(N + Len(rest))
      /\ \A n \in 1..N : c[n] = rows[n]
      /\ \A n \in 1..Len(rest) : c[N + n] = rest[n]
  OBVIOUS
<1> HIDE DEF c, N
<1> SUFFICES ASSUME NEW n \in DOMAIN c, c[n].outcome = "UNSCREENED"
             PROVE  \E last \in 1..(n - 1) :
                       /\ \A k \in (last + 1)..n : c[k].outcome = "UNSCREENED"
                       /\ Cardinality(Run(c, last, among)) >= MaxFailures
  BY DEF Earned, c
<1>2. \A last \in 1..N : Run(rows, last, among) = Run(c, last, among)
  <2> SUFFICES ASSUME NEW last \in 1..N
               PROVE  Run(rows, last, among) = Run(c, last, among)
    OBVIOUS
  <2>1. last \in Nat /\ \A k \in 1..last : rows[k] = c[k]
    BY <1>1
  <2> QED
    BY ONLY <2>1, RunSame
<1>3. CASE n \in 1..N
  <2>1. PICK last \in 1..(n - 1) :
           /\ \A k \in (last + 1)..n : rows[k].outcome = "UNSCREENED"
           /\ Cardinality(Run(rows, last, among)) >= MaxFailures
    BY <1>1, <1>3 DEF Earned
  <2>2. last \in 1..N
    BY <1>1, <1>3
  <2>3. \A k \in (last + 1)..n : c[k] = rows[k]
    BY <1>1, <1>3
  <2> QED
    BY <1>2, <2>1, <2>2, <2>3
<1>4. CASE n \notin 1..N
  <2>1. N \in 1..(n - 1)
    BY <1>1, <1>4
  <2>2. ASSUME NEW k \in (N + 1)..n
        PROVE  c[k].outcome = "UNSCREENED"
    <3>1. k - N \in 1..Len(rest) /\ N + (k - N) = k
      BY <1>1
    <3>2. c[k] = rest[k - N]
      BY <1>1, <3>1
    <3> QED
      BY <1>1, <3>1, <3>2
  <2>3. Cardinality(Run(c, N, among)) >= MaxFailures
    BY <1>1, <1>2 DEF N
  <2> QED
    BY <2>1, <2>2, <2>3
<1> QED
  BY <1>3, <1>4

-----------------------------------------------------------------------------
(* The invariant.                                                          *)

ScrArgs == [list : BOOLEAN, debug : Nat, resume : Nat,
            limit : {<<>>} \cup { <<n>> : n \in Limits }]
ScrListed == {"start", "blocked", "listed", "screening"}
ScrMeasured == {"authorizing", "verifying", "verified", "provisional"}

ScrTypes ==
    /\ listing \in Seq([traits : SUBSET Trait, frx : BOOLEAN, reference : BOOLEAN])
    /\ args \in ScrArgs
    /\ step \in ScrListed \cup ScrMeasured \cup {"screened", "refused"}
    /\ eligible \in Seq(Nat) /\ results \in Seq(ScrRow)
    /\ todo \in Seq(ScrRow) /\ verified \in Seq(ScrRow)
    /\ failures \in 0..MaxFailures /\ attempts \in 0..AuthRetries /\ aborted \in BOOLEAN
    /\ record \in {"none", "complete", "partial"}
    /\ selected \in {0} \cup DOMAIN listing

\* the rows of the screen and the names that are to come
ScreenRows ==
    /\ Elements(eligible) \subseteq DOMAIN listing /\ Symbols(results) \subseteq DOMAIN listing
    /\ Once(eligible) /\ Distinct(results)
    /\ Elements(eligible) \cap Symbols(results) = {}
    /\ Earned(results, Strict)
    /\ (step \notin {"start", "blocked"} /\ NoArgs(args)) =>
          \A s \in DOMAIN listing : Named(s) => s \in Symbols(results) \cup Elements(eligible)

\* how far the screen has come
ScreenPhase ==
    /\ step = "start" => eligible = <<>> /\ results = <<>> /\ failures = 0
    /\ step \notin ScrListed => eligible = <<>>
    /\ step \in ScrListed => record = "none"
    /\ step = "screening" /\ eligible # <<>> =>
          /\ failures < MaxFailures
          /\ failures <= Cardinality(Run(results, Len(results), Strict))

\* the survivors and the rows of their verification
VerifyRows ==
    /\ \A n \in DOMAIN todo : todo[n].outcome = "PASS"
    /\ Symbols(todo) \subseteq DOMAIN listing /\ Symbols(verified) \subseteq DOMAIN listing
    /\ Earned(verified, Lenient)
    /\ step \in ScrMeasured =>
          /\ Symbols(verified) \cup Symbols(todo) = Symbols(Survivors)
          /\ Symbols(verified) \cap Symbols(todo) = {}
          /\ Distinct(verified) /\ Distinct(todo)

\* how far the verification has come
VerifyPhase ==
    /\ step \in ScrListed \cup {"screened"} =>
          todo = <<>> /\ verified = <<>> /\ attempts = 0
    /\ step = "authorizing" => attempts < AuthRetries
    /\ step \in {"authorizing", "verifying"} /\ todo # <<>> =>
          /\ failures < MaxFailures
          /\ failures <= Cardinality(Run(verified, Len(verified), Lenient))
    /\ step \in {"verified", "provisional"} => todo = <<>>

ScrInv == ScrTypes /\ ScreenRows /\ ScreenPhase /\ VerifyRows /\ VerifyPhase

LEMMA ScreenSame ==
  ASSUME ScreenRows, UNCHANGED <<listing, args, eligible, results>>,
         step' \notin {"start", "blocked"} => step \notin {"start", "blocked"}
  PROVE  ScreenRows'
<1>1. \A s : Named(s)' <=> Named(s)
  BY DEF Named
<1>2. listing' = listing /\ args' = args /\ eligible' = eligible /\ results' = results
  OBVIOUS
<1> QED
  BY <1>1, <1>2 DEF ScreenRows

LEMMA VerifySame ==
  ASSUME VerifyRows, UNCHANGED <<listing, todo, verified>>,
         step' \in ScrMeasured => step \in ScrMeasured /\ results' = results
  PROVE  VerifyRows'
<1>1. listing' = listing /\ todo' = todo /\ verified' = verified
  OBVIOUS
<1>2. results' = results => Survivors' = Survivors
  BY DEF Survivors
<1> QED
  BY <1>1, <1>2 DEF VerifyRows

LEMMA EmptyRows ==
  /\ Elements(<<>>) = {} /\ Symbols(<<>>) = {} /\ Once(<<>>) /\ Distinct(<<>>)
  /\ \A among : Earned(<<>>, among)
  BY DEF Elements, Symbols, Once, Distinct, Earned

LEMMA InitScreening == ScreeningInit => ScrInv
<1> SUFFICES ASSUME ScreeningInit
             PROVE  ScrInv
  OBVIOUS
<1> USE DEF ScreeningInit
<1>1. listing \in Seq([traits : SUBSET Trait, frx : BOOLEAN, reference : BOOLEAN])
  BY ListingAssumption
<1>2. args \in ScrArgs
  <2>1. 0..Len(listing) \subseteq Nat
    BY <1>1
  <2>2. PICK A : A = 0..Len(listing)
    OBVIOUS
  <2>3. args \in [list : BOOLEAN, debug : A, resume : A,
                  limit : {<<>>} \cup { <<n>> : n \in Limits }]
    BY <2>2
  <2> QED
    BY <2>1, <2>2, <2>3 DEF ScrArgs
<1>3. ScrTypes
  <2>1. /\ <<>> \in Seq(Nat) /\ <<>> \in Seq(ScrRow)
        /\ 0 \in 0..MaxFailures /\ 0 \in 0..AuthRetries
    BY ScreeningAssumption
  <2> QED
    BY <1>1, <1>2, <2>1 DEF ScrTypes, ScrListed
<1>4. ScreenRows
  <2>1. /\ Elements(eligible) = {} /\ Symbols(results) = {} /\ Once(eligible)
        /\ Distinct(results) /\ Earned(results, Strict) /\ step = "start"
    BY EmptyRows
  <2> QED
    BY ONLY <2>1 DEF ScreenRows
<1>6. VerifyRows
  <2>1. /\ Symbols(todo) = {} /\ Symbols(verified) = {} /\ Earned(verified, Lenient)
        /\ step = "start"
    BY EmptyRows
  <2>2. todo = <<>> /\ \A n \in DOMAIN <<>> : FALSE
    OBVIOUS
  <2>3. \A n \in DOMAIN todo : todo[n].outcome = "PASS"
    BY <2>2
  <2> QED
    BY ONLY <2>1, <2>3 DEF VerifyRows, ScrMeasured
<1>5. ScreenPhase /\ VerifyPhase
  BY ScreeningAssumption DEF ScreenPhase, VerifyPhase, ScrListed
<1> QED
  BY <1>3, <1>4, <1>5, <1>6 DEF ScrInv

-----------------------------------------------------------------------------
(* The funnel.                                                             *)

LEMMA FunnelLists ==
  ASSUME ScrTypes
  PROVE  /\ Eligible \in Seq(DOMAIN listing) /\ Once(Eligible)
         /\ Excluded \in Seq(DOMAIN listing) /\ Once(Excluded)
         /\ Elements(Eligible) = { i \in DOMAIN listing : Named(i) /\ ~IsExcluded(i) }
         /\ Elements(Excluded) = { i \in DOMAIN listing : Named(i) /\ IsExcluded(i) }
<1>1. Len(listing) \in Nat /\ DOMAIN listing = 1..Len(listing)
  BY DEF ScrTypes
<1> DEFINE D == DOMAIN listing
<1>2. Numbers \in Seq(D) /\ DOMAIN Numbers = D /\ \A i \in D : Numbers[i] = i
  BY <1>1 DEF Numbers
<1> HIDE DEF D
<1>3. ASSUME NEW P \in SUBSET D
      PROVE  /\ Only(Numbers, P) \in Seq(D) /\ Once(Only(Numbers, P))
             /\ Elements(Only(Numbers, P)) = P
  <2>1. Once(Numbers)
    BY <1>2 DEF Once
  <2>2. Only(Numbers, P) \in Seq(D) /\ Once(Only(Numbers, P))
    BY <1>2, <2>1, OnlyOnce
  <2> DEFINE t == Only(Numbers, P)
  <2>3. /\ \A k \in DOMAIN t : \E i \in DOMAIN Numbers : i \in P /\ t[k] = Numbers[i]
        /\ \A i \in DOMAIN Numbers : i \in P => \E k \in DOMAIN t : t[k] = Numbers[i]
    BY <1>2, OnlyKeeps, SMTT(30)
  <2> HIDE DEF t
  <2>4. Elements(t) = P
    BY <1>2, <2>3 DEF Elements
  <2> QED
    BY <2>2, <2>4 DEF t
<1>4. /\ { i \in D : Named(i) /\ ~IsExcluded(i) } \in SUBSET D
      /\ { i \in D : Named(i) /\ IsExcluded(i) } \in SUBSET D
  OBVIOUS
<1> DEFINE In == { i \in D : Named(i) /\ ~IsExcluded(i) }
           Out == { i \in D : Named(i) /\ IsExcluded(i) }
<1>5. Eligible = Only(Numbers, In) /\ Excluded = Only(Numbers, Out)
  BY DEF Eligible, Excluded, D
<1> HIDE DEF In, Out
<1>6. /\ Only(Numbers, In) \in Seq(D) /\ Once(Only(Numbers, In))
      /\ Elements(Only(Numbers, In)) = In
      /\ Only(Numbers, Out) \in Seq(D) /\ Once(Only(Numbers, Out))
      /\ Elements(Only(Numbers, Out)) = Out
  BY <1>3, <1>4 DEF In, Out
<1> QED
  BY <1>5, <1>6 DEF D, In, Out

LEMMA Narrowed ==
  ASSUME ScrTypes, NEW T, NEW names \in Seq(T), Once(names)
  PROVE  LET t == Limited(Resumed(Probed(names))) IN
         /\ t \in Seq(T) /\ Once(t) /\ Elements(t) \subseteq Elements(names)
         /\ NoArgs(args) => t = names
<1>1. ASSUME NEW s \in Seq(T), Once(s)
      PROVE  Probed(s) \in Seq(T) /\ Once(Probed(s)) /\ Elements(Probed(s)) \subseteq Elements(s)
  BY <1>1, OnlyOnce DEF Probed
<1>2. ASSUME NEW s \in Seq(T), Once(s)
      PROVE  Resumed(s) \in Seq(T) /\ Once(Resumed(s))
             /\ Elements(Resumed(s)) \subseteq Elements(s)
  BY <1>2, OnlyOnce DEF Resumed
<1>3. ASSUME NEW s \in Seq(T), Once(s)
      PROVE  Limited(s) \in Seq(T) /\ Once(Limited(s))
             /\ Elements(Limited(s)) \subseteq Elements(s)
  <2>1. CASE args.limit \in {<<>>, <<0>>} \/ Len(s) <= args.limit[1]
    BY <1>3, <2>1 DEF Limited
  <2>2. CASE ~(args.limit \in {<<>>, <<0>>} \/ Len(s) <= args.limit[1])
    <3>1. args.limit \in {<<>>} \cup { <<n>> : n \in Limits }
      BY DEF ScrTypes, ScrArgs
    <3>2. PICK n \in Limits : args.limit = <<n>>
      BY <2>2, <3>1
    <3>3. n \in Nat /\ args.limit[1] = n /\ ~(Len(s) <= n)
      BY <2>2, <3>2, ScreeningAssumption
    <3> DEFINE t == SubSeq(s, 1, n)
    <3>4. Limited(s) = t
      BY <2>2, <3>3 DEF Limited
    <3>5. t \in Seq(T) /\ DOMAIN t = 1..n /\ \A k \in 1..n : t[k] = s[k] /\ k \in DOMAIN s
      BY <1>3, <3>3
    <3> HIDE DEF t
    <3>6. Once(t) /\ Elements(t) \subseteq Elements(s)
      BY <1>3, <3>5 DEF Once, Elements
    <3> QED
      BY <3>4, <3>5, <3>6
  <2> QED
    BY <2>1, <2>2
<1>4. NoArgs(args) => Limited(Resumed(Probed(names))) = names
  BY DEF NoArgs, Limited, Resumed, Probed
<1>5. Probed(names) \in Seq(T) /\ Once(Probed(names))
      /\ Elements(Probed(names)) \subseteq Elements(names)
  BY <1>1
<1>6. Resumed(Probed(names)) \in Seq(T) /\ Once(Resumed(Probed(names)))
      /\ Elements(Resumed(Probed(names))) \subseteq Elements(Probed(names))
  BY <1>2, <1>5
<1>7. Limited(Resumed(Probed(names))) \in Seq(T) /\ Once(Limited(Resumed(Probed(names))))
      /\ Elements(Limited(Resumed(Probed(names)))) \subseteq Elements(Resumed(Probed(names)))
  BY <1>3, <1>6
<1> QED
  BY <1>4, <1>5, <1>6, <1>7

\* One row of the same outcome for each of a list of names.
LEMMA RowPerName ==
  ASSUME NEW names \in Seq(DOMAIN listing), ScrTypes, Once(names), NEW outcome \in Outcomes
  PROVE  LET rows == [n \in 1..Len(names) |-> Row(names[n], outcome, 0)] IN
         /\ rows \in Seq(ScrRow) /\ Distinct(rows) /\ Symbols(rows) = Elements(names)
         /\ \A n \in DOMAIN rows : rows[n].outcome = outcome
<1> DEFINE rows == [n \in 1..Len(names) |-> Row(names[n], outcome, 0)]
<1>1. DOMAIN names = 1..Len(names) /\ Len(names) \in Nat /\ DOMAIN rows = 1..Len(names)
  OBVIOUS
<1>2. \A n \in 1..Len(names) : names[n] \in Nat
  <2>1. DOMAIN listing = 1..Len(listing)
    BY DEF ScrTypes
  <2> QED
    BY <2>1
<1>3. \A n \in 1..Len(names) :
         /\ rows[n] \in ScrRow /\ rows[n].symbol = names[n] /\ rows[n].outcome = outcome
  BY <1>2 DEF Row, ScrRow
<1>4. rows = [n \in 1..Len(names) |-> rows[n]]
  OBVIOUS
<1> HIDE DEF rows
<1>5. rows \in Seq(ScrRow)
  BY <1>1, <1>3, <1>4
<1>6. Distinct(rows) /\ Symbols(rows) = Elements(names)
  BY <1>1, <1>3 DEF Distinct, Symbols, Once, Elements
<1> QED
  BY <1>1, <1>3, <1>5, <1>6 DEF rows

LEMMA NamesNumbers ==
  ASSUME ScrTypes, NEW names, Elements(names) \subseteq DOMAIN listing, names \in Seq(Nat)
  PROVE  names \in Seq(DOMAIN listing)
  BY DEF Elements

LEMMA ClassifyKept ==
  ASSUME ScrInv, Classify
  PROVE  ScrInv'
<1> USE DEF ScrInv
<1> DEFINE names == Limited(Resumed(Probed(Eligible)))
           D == DOMAIN listing
<1>1. D = 1..Len(listing) /\ Len(listing) \in Nat /\ D \subseteq Nat
  BY DEF ScrTypes
<1>2. /\ Eligible \in Seq(D) /\ Once(Eligible) /\ Excluded \in Seq(D) /\ Once(Excluded)
      /\ Elements(Eligible) = { i \in D : Named(i) /\ ~IsExcluded(i) }
      /\ Elements(Excluded) = { i \in D : Named(i) /\ IsExcluded(i) }
  BY FunnelLists
<1>3. /\ names \in Seq(D) /\ Once(names) /\ Elements(names) \subseteq Elements(Eligible)
      /\ NoArgs(args) => names = Eligible
  BY <1>2, Narrowed
<1>4. /\ results' \in Seq(ScrRow) /\ Distinct(results')
      /\ Symbols(results') = Elements(Excluded)
      /\ \A n \in DOMAIN results' : results'[n].outcome = "EXCLUDED"
  <2> DEFINE rows == [n \in 1..Len(Excluded) |-> Row(Excluded[n], "EXCLUDED", 0)]
  <2>1. results' = rows
    BY DEF Classify
  <2>2. "EXCLUDED" \in Outcomes
    BY DEF Outcomes
  <2>3. /\ rows \in Seq(ScrRow) /\ Distinct(rows) /\ Symbols(rows) = Elements(Excluded)
        /\ \A n \in DOMAIN rows : rows[n].outcome = "EXCLUDED"
    BY <1>2, <2>2, RowPerName
  <2> HIDE DEF rows
  <2> QED
    BY <2>1, <2>3
<1>5. /\ step = "start" /\ eligible = <<>> /\ results = <<>> /\ failures = 0
      /\ listing' = listing /\ args' = args /\ record' = record /\ todo' = todo
      /\ verified' = verified /\ selected' = selected /\ attempts' = attempts
      /\ failures' = failures /\ aborted' = aborted
  BY DEF Classify, ScreenPhase, screenKept
<1>6. Earned(results', Strict)
  BY <1>4 DEF Earned
<1> HIDE DEF names, D
<1>7. \/ step' = "listed" /\ args.list /\ eligible' = <<>>
      \/ step' = "blocked" /\ eligible' = <<>>
      \/ step' = "screening" /\ eligible' = names
  BY <1>5 DEF Classify, names
<1>8. eligible' \in Seq(Nat) /\ eligible' \in Seq(D)
  <2>1. names \in Seq(Nat)
    BY <1>1, <1>3
  <2>2. <<>> \in Seq(Nat) /\ <<>> \in Seq(D)
    OBVIOUS
  <2> QED
    BY <1>3, <1>7, <2>1, <2>2
<1>9. ScrTypes'
  BY <1>4, <1>5, <1>7, <1>8 DEF ScrTypes, ScrListed
<1>10. ScreenRows'
  <2>1. Once(eligible') /\ Elements(eligible') \subseteq Elements(Eligible)
    BY <1>3, <1>7, EmptyRows
  <2>2. \A s : Named(s)' <=> Named(s)
    BY <1>5 DEF Named
  <2>3. /\ Elements(eligible') \subseteq D /\ Symbols(results') \subseteq D
        /\ Elements(eligible') \cap Symbols(results') = {}
    BY <1>2, <1>4, <2>1
  <2>4. ASSUME step' # "blocked", NoArgs(args), NEW s \in D, Named(s)
        PROVE  s \in Symbols(results') \cup Elements(eligible')
    <3>1. eligible' = Eligible
      BY <1>3, <1>7, <2>4 DEF NoArgs
    <3> QED
      BY <1>2, <1>4, <2>4, <3>1
  <2> QED
    BY <1>4, <1>5, <1>6, <2>1, <2>2, <2>3, <2>4 DEF ScreenRows, D
<1>11. ScreenPhase'
  <2>1. Cardinality(Run(results', Len(results'), Strict)) \in Nat
    <3>1. PICK rows \in Seq(ScrRow) : rows = results'
      BY <1>4
    <3>2. Len(rows) \in Nat
      OBVIOUS
    <3> QED
      BY <3>1, <3>2, RunFinite
  <2>2. 0 < MaxFailures
    BY ScreeningAssumption
  <2>3. record' = "none" /\ failures' = 0
    BY <1>5 DEF ScreenPhase, ScrListed
  <2>4. /\ failures' < MaxFailures
        /\ failures' <= Cardinality(Run(results', Len(results'), Strict))
    <3>1. PICK run : run = Cardinality(Run(results', Len(results'), Strict))
      OBVIOUS
    <3>2. run \in Nat
      BY <2>1, <3>1
    <3>3. failures' < MaxFailures /\ failures' <= run
      BY <2>2, <2>3, <3>2
    <3> QED
      BY <3>1, <3>3
  <2>5. step' \in {"listed", "blocked", "screening"}
    BY <1>7
  <2> QED
    BY <2>3, <2>4, <2>5 DEF ScreenPhase, ScrListed
<1>12. VerifyRows'
  BY <1>5, <1>7, VerifySame DEF ScrMeasured
<1>13. VerifyPhase'
  BY <1>5, <1>7 DEF VerifyPhase, ScrListed
<1> QED
  BY <1>9, <1>10, <1>11, <1>12, <1>13

LEMMA BlockedKept ==
  ASSUME ScrInv, Blocked("start")
  PROVE  ScrInv'
<1> USE DEF ScrInv
<1>1. /\ step = "start" /\ step' = "blocked" /\ eligible' = eligible /\ results' = results
      /\ listing' = listing /\ args' = args /\ record' = record /\ todo' = todo
      /\ verified' = verified /\ selected' = selected /\ attempts' = attempts
      /\ failures' = failures /\ aborted' = aborted
  BY DEF Blocked, screenKept
<1>2. ScrTypes'
  BY <1>1 DEF ScrTypes, ScrListed
<1>3. ScreenRows'
  BY <1>1, ScreenSame
<1>4. ScreenPhase'
  BY <1>1 DEF ScreenPhase, ScrListed
<1>5. VerifyRows'
  BY <1>1, VerifySame DEF ScrMeasured
<1>6. VerifyPhase'
  BY <1>1 DEF VerifyPhase, ScrListed
<1> QED
  BY <1>2, <1>3, <1>4, <1>5, <1>6

-----------------------------------------------------------------------------
(* The screen.                                                             *)

\* what a step of the screen leaves alone
Screened ==
    /\ step = "screening" /\ eligible # <<>>
    /\ UNCHANGED <<step, screenKept>>

LEMMA ScreenedKept ==
  ASSUME ScrInv, Screened
  PROVE  /\ VerifyRows' /\ VerifyPhase'
         /\ \A s : Named(s)' <=> Named(s)
         /\ listing' = listing /\ args' = args /\ step' = step /\ record' = record
         /\ selected' = selected /\ attempts' = attempts
         /\ todo' = todo /\ verified' = verified /\ record = "none"
<1> USE DEF ScrInv
<1>1. /\ step = "screening" /\ step' = step /\ listing' = listing /\ args' = args
      /\ record' = record /\ todo' = todo /\ verified' = verified /\ selected' = selected
      /\ attempts' = attempts
  BY DEF Screened, screenKept
<1>2. record = "none"
  BY <1>1 DEF ScreenPhase, ScrListed
<1>3. VerifyRows'
  BY <1>1, VerifySame DEF ScrMeasured
<1>4. VerifyPhase'
  BY <1>1 DEF VerifyPhase, ScrListed
<1>5. \A s : Named(s)' <=> Named(s)
  BY <1>1 DEF Named
<1> QED
  BY <1>1, <1>2, <1>3, <1>4, <1>5

\* the names that are to come and the row of the first of them
LEMMA CandidateRow ==
  ASSUME ScrInv, Screened, NEW x \in ScrRow, x.symbol = Candidate
  PROVE  LET names == Tail(eligible)
             rows == Append(results, x) IN
         /\ names \in Seq(Nat) /\ Once(names) /\ Elements(names) \subseteq DOMAIN listing
         /\ rows \in Seq(ScrRow) /\ Distinct(rows) /\ Symbols(rows) \subseteq DOMAIN listing
         /\ Elements(names) \cap Symbols(rows) = {}
         /\ Symbols(results) \cup Elements(eligible) = Symbols(rows) \cup Elements(names)
         /\ Len(rows) = Len(results) + 1 /\ Len(results) \in Nat
         /\ \A n \in 1..Len(results) : rows[n] = results[n]
         /\ rows[Len(results) + 1] = x
<1> DEFINE names == Tail(eligible)
           rows == Append(results, x)
<1>1. /\ eligible \in Seq(Nat) /\ eligible # <<>> /\ Once(eligible)
      /\ Elements(eligible) \subseteq DOMAIN listing /\ results \in Seq(ScrRow)
      /\ Distinct(results) /\ Symbols(results) \subseteq DOMAIN listing
      /\ Elements(eligible) \cap Symbols(results) = {}
  BY DEF ScrInv, ScrTypes, ScreenRows, Screened
<1>2. /\ names \in Seq(Nat) /\ Once(names)
      /\ Candidate \notin Elements(names)
      /\ Elements(eligible) = {Candidate} \cup Elements(names)
  BY <1>1, NamesRest DEF Candidate
<1>3. x.symbol \notin Symbols(results)
  BY <1>1, <1>2
<1>4. /\ rows \in Seq(ScrRow) /\ Distinct(rows)
      /\ Symbols(rows) = Symbols(results) \cup {x.symbol}
      /\ Len(rows) = Len(results) + 1
      /\ \A n \in 1..Len(results) : rows[n] = results[n]
      /\ rows[Len(results) + 1] = x
  BY <1>1, <1>3, RowAdded
<1>5. Len(results) \in Nat
  BY <1>1
<1> HIDE DEF names, rows
<1>6. /\ Elements(names) \subseteq DOMAIN listing /\ Symbols(rows) \subseteq DOMAIN listing
      /\ Elements(names) \cap Symbols(rows) = {}
      /\ Symbols(results) \cup Elements(eligible) = Symbols(rows) \cup Elements(names)
  BY <1>1, <1>2, <1>4
<1> QED
  BY <1>2, <1>4, <1>5, <1>6 DEF names, rows

LEMMA CandidateTyped ==
  ASSUME ScrInv, Screened
  PROVE  Candidate \in DOMAIN listing /\ Candidate \in Nat
<1>1. /\ eligible \in Seq(Nat) /\ eligible # <<>> /\ Once(eligible)
      /\ Elements(eligible) \subseteq DOMAIN listing
  BY DEF ScrInv, ScrTypes, ScreenRows, Screened
<1>2. Candidate \in Nat /\ Candidate \in Elements(eligible)
  BY <1>1, NamesRest DEF Candidate
<1> QED
  BY <1>1, <1>2

LEMMA FetchedKept ==
  ASSUME ScrInv, ScreenFetched
  PROVE  ScrInv'
<1>1. Screened
  BY DEF ScreenFetched, Screened
<1>2. /\ eligible' = Tail(eligible) /\ failures' = 0 /\ aborted' = aborted
  BY DEF ScreenFetched
<1>3. PICK x \in ScrRow : /\ x.symbol = Candidate /\ x.outcome # "UNSCREENED"
                          /\ results' = Append(results, x)
  <2>1. ASSUME NEW outcome \in {"NO_DATA", "PASS", "FAIL", "INSUFFICIENT"}, NEW r \in Nat
        PROVE  /\ Row(Candidate, outcome, r) \in ScrRow
               /\ Row(Candidate, outcome, r).symbol = Candidate
               /\ Row(Candidate, outcome, r).outcome # "UNSCREENED"
    BY <1>1, CandidateTyped DEF Row, ScrRow, Outcomes
  <2>2. CASE results' = Append(results, Row(Candidate, "NO_DATA", 0))
    BY <2>1, <2>2
  <2>3. CASE \E a, b \in {"low", "high", "none"} :
               \E r \in IF ScreenVerdict(a, b) = "PASS" THEN Independences ELSE {0} :
                  results' = Append(results, Row(Candidate, ScreenVerdict(a, b), r))
    <3>1. PICK a \in {"low", "high", "none"}, b \in {"low", "high", "none"} :
               \E r \in IF ScreenVerdict(a, b) = "PASS" THEN Independences ELSE {0} :
                  results' = Append(results, Row(Candidate, ScreenVerdict(a, b), r))
      BY <2>3
    <3>2. PICK r \in Nat : results' = Append(results, Row(Candidate, ScreenVerdict(a, b), r))
      BY <3>1, ScreeningAssumption
    <3>3. ScreenVerdict(a, b) \in {"NO_DATA", "PASS", "FAIL", "INSUFFICIENT"}
      BY DEF ScreenVerdict
    <3> QED
      BY <2>1, <3>2, <3>3
  <2> QED
    BY <2>2, <2>3 DEF ScreenFetched
<1> DEFINE rows == Append(results, x)
           names == Tail(eligible)
<1>4. /\ names \in Seq(Nat) /\ Once(names) /\ Elements(names) \subseteq DOMAIN listing
      /\ rows \in Seq(ScrRow) /\ Distinct(rows) /\ Symbols(rows) \subseteq DOMAIN listing
      /\ Elements(names) \cap Symbols(rows) = {}
      /\ Symbols(results) \cup Elements(eligible) = Symbols(rows) \cup Elements(names)
  BY <1>1, <1>3, CandidateRow
<1>5. Earned(rows, Strict)
  <2>1. results \in Seq(ScrRow) /\ Earned(results, Strict)
    BY DEF ScrInv, ScrTypes, ScreenRows
  <2> QED
    BY <1>3, <2>1, EarnedMore
<1>6. results' = rows /\ eligible' = names
  BY <1>2, <1>3
<1> HIDE DEF rows, names
<1>7. /\ VerifyRows' /\ VerifyPhase'
      /\ \A s : Named(s)' <=> Named(s)
      /\ listing' = listing /\ args' = args /\ step' = step /\ record' = record
      /\ selected' = selected /\ attempts' = attempts
      /\ todo' = todo /\ verified' = verified /\ record = "none"
  BY <1>1, ScreenedKept
<1>8. ScrTypes'
  <2>1. 0 \in 0..MaxFailures
    BY ScreeningAssumption
  <2> QED
    BY <1>2, <1>4, <1>6, <1>7, <2>1 DEF ScrInv, ScrTypes
<1>9. ScreenRows'
  BY <1>4, <1>5, <1>6, <1>7 DEF ScrInv, ScreenRows
<1>10. ScreenPhase'
  <2>1. PICK run : run = Cardinality(Run(rows, Len(rows), Strict))
    OBVIOUS
  <2>2. run \in Nat
    <3>1. Len(rows) \in Nat
      BY <1>4
    <3> QED
      BY <2>1, <3>1, RunFinite
  <2>3. failures' < MaxFailures /\ failures' <= run
    BY <1>2, <2>2, ScreeningAssumption
  <2>4. run = Cardinality(Run(results', Len(results'), Strict))
    BY <1>6, <2>1
  <2>5. step' = "screening" /\ record' = "none"
    BY <1>1, <1>7 DEF Screened
  <2> QED
    BY <2>3, <2>4, <2>5 DEF ScreenPhase, ScrListed
<1> QED
  BY <1>7, <1>8, <1>9, <1>10 DEF ScrInv

LEMMA FailedKept ==
  ASSUME ScrInv, ScreenFailed
  PROVE  ScrInv'
<1>1. Screened
  BY DEF ScreenFailed, Screened
<1> DEFINE x == Row(Candidate, "TRANSPORT_FAILURE", 0)
           rows == Append(results, x)
           names == Tail(eligible)
           rest == Unscreened(names)
           N == Len(results)
<1>2. x \in ScrRow /\ x.symbol = Candidate /\ x.outcome = "TRANSPORT_FAILURE"
  BY <1>1, CandidateTyped DEF Row, ScrRow, Outcomes
<1>3. /\ failures' = failures + 1
      /\ \/ /\ failures' >= MaxFailures /\ results' = rows \o rest /\ eligible' = <<>>
            /\ aborted' = TRUE
         \/ /\ ~(failures' >= MaxFailures) /\ results' = rows /\ eligible' = names
            /\ aborted' = aborted
  BY DEF ScreenFailed
<1>4. /\ names \in Seq(Nat) /\ Once(names) /\ Elements(names) \subseteq DOMAIN listing
      /\ rows \in Seq(ScrRow) /\ Distinct(rows) /\ Symbols(rows) \subseteq DOMAIN listing
      /\ Elements(names) \cap Symbols(rows) = {}
      /\ Symbols(results) \cup Elements(eligible) = Symbols(rows) \cup Elements(names)
      /\ Len(rows) = N + 1 /\ N \in Nat
      /\ \A n \in 1..N : rows[n] = results[n]
      /\ rows[N + 1] = x
  <2> HIDE DEF x
  <2> QED
    BY <1>1, <1>2, CandidateRow
<1>5. results \in Seq(ScrRow) /\ Earned(results, Strict)
  BY DEF ScrInv, ScrTypes, ScreenRows
<1> HIDE DEF x
<1>6. Earned(rows, Strict)
  BY <1>2, <1>5, EarnedMore
<1> HIDE DEF rows
<1>7. /\ rest \in Seq(ScrRow) /\ Distinct(rest) /\ Symbols(rest) = Elements(names)
      /\ \A n \in DOMAIN rest : rest[n].outcome = "UNSCREENED"
  <2>1. names \in Seq(DOMAIN listing)
    BY <1>4, NamesNumbers DEF ScrInv
  <2>2. "UNSCREENED" \in Outcomes
    BY DEF Outcomes
  <2> HIDE DEF names
  <2> QED
    BY <1>4, <2>1, <2>2, RowPerName DEF Unscreened, ScrInv
<1> HIDE DEF names, rest
\* the failures that are counted are at the end of the rows
<1>8. PICK run : run = Cardinality(Run(rows, N + 1, Strict))
  OBVIOUS
<1>9. run \in Nat /\ failures + 1 <= run
  <2>1. /\ failures < MaxFailures
        /\ failures <= Cardinality(Run(results, N, Strict))
    BY <1>1 DEF ScrInv, ScreenPhase, Screened
  <2>2. run = Cardinality(Run(results, N, Strict)) + 1
    <3>1. \A k \in 1..N : results[k] = rows[k]
      BY <1>4
    <3>2. rows[N + 1].outcome = "TRANSPORT_FAILURE"
      BY <1>2, <1>4
    <3>3. N \in Nat
      BY <1>4
    <3>4. PICK n \in Nat, m \in Nat, more \in {rows} : n = N /\ m = n + 1 /\ more = rows
      BY <3>3
    <3>5. /\ \A k \in 1..n : results[k] = more[k]
          /\ more[m].outcome = "TRANSPORT_FAILURE"
      BY <3>1, <3>2, <3>4
    <3>6. "TRANSPORT_FAILURE" \in Strict
      BY DEF Strict
    <3>7. n \in Nat /\ FailsNext(results, more, n, m)
      BY <3>4, <3>5 DEF FailsNext
    <3>8. Cardinality(Run(more, m, Strict)) = Cardinality(Run(results, n, Strict)) + 1
      BY ONLY <3>6, <3>7, RunFailed
    <3> QED
      BY <1>8, <3>4, <3>8
  <2>3. PICK before : before = Cardinality(Run(results, N, Strict))
    OBVIOUS
  <2>4. before \in Nat
    <3> HIDE DEF N
    <3> QED
      BY <1>4, <2>3, RunFinite
  <2>5. failures \in Nat
    BY ScreeningAssumption DEF ScrInv, ScrTypes
  <2>6. failures <= before /\ run = before + 1
    BY <2>1, <2>2, <2>3
  <2> QED
    BY <2>4, <2>5, <2>6
<1>10. failures \in Nat /\ failures + 1 <= MaxFailures /\ MaxFailures \in Nat
  BY <1>1, ScreeningAssumption DEF ScrInv, ScrTypes, ScreenPhase, Screened
<1>11. /\ VerifyRows' /\ VerifyPhase'
       /\ \A s : Named(s)' <=> Named(s)
       /\ listing' = listing /\ args' = args /\ step' = step /\ record' = record
       /\ selected' = selected /\ attempts' = attempts
       /\ todo' = todo /\ verified' = verified /\ record = "none"
  BY <1>1, ScreenedKept
<1>12. step' = "screening" /\ record' = "none"
  BY <1>1, <1>11 DEF Screened
<1>13. failures' \in 0..MaxFailures
  BY <1>3, <1>10
<1>14. CASE failures' >= MaxFailures
  <2>1. results' = rows \o rest /\ eligible' = <<>> /\ aborted' = TRUE
    BY <1>3, <1>14
  <2>2. /\ rows \o rest \in Seq(ScrRow) /\ Distinct(rows \o rest)
        /\ Symbols(rows \o rest) = Symbols(rows) \cup Symbols(rest)
    <3>1. Symbols(rows) \cap Symbols(rest) = {}
      BY <1>4, <1>7
    <3> QED
      BY <1>4, <1>7, <3>1, RowsJoined
  <2>3. Earned(rows \o rest, Strict)
    <3>1. rows # <<>>
      BY <1>4
    <3>2. rows[Len(rows)].outcome # "UNSCREENED"
      BY <1>2, <1>4
    <3>3. Cardinality(Run(rows, Len(rows), Strict)) >= MaxFailures
      <4>1. run >= MaxFailures
        BY <1>3, <1>9, <1>10, <1>14
      <4> QED
        BY <1>4, <1>8, <4>1
    <3> QED
      BY <1>4, <1>6, <1>7, <3>1, <3>2, <3>3, EarnedAbort
  <2> DEFINE all == rows \o rest
  <2> HIDE DEF all
  <2>4. /\ results' = all /\ all \in Seq(ScrRow) /\ Distinct(all) /\ Earned(all, Strict)
        /\ Symbols(all) = Symbols(results) \cup Elements(eligible)
    BY <1>4, <1>7, <2>1, <2>2, <2>3 DEF all
  <2>5. <<>> \in Seq(Nat) /\ Elements(<<>>) = {} /\ Once(<<>>)
    BY EmptyRows
  <2>6. ScrTypes'
    BY <1>11, <1>13, <2>1, <2>4, <2>5 DEF ScrInv, ScrTypes
  <2>7. ScreenRows'
    <3>1. Symbols(all) \subseteq DOMAIN listing
      BY <2>4 DEF ScrInv, ScreenRows
    <3>2. Elements(eligible') = {} /\ Once(eligible')
      BY <2>1, <2>5
    <3> QED
      BY <1>11, <2>4, <3>1, <3>2 DEF ScrInv, ScreenRows
  <2>8. ScreenPhase'
    BY <1>12, <2>1 DEF ScreenPhase, ScrListed
  <2> QED
    BY <1>11, <2>6, <2>7, <2>8 DEF ScrInv
<1>15. CASE ~(failures' >= MaxFailures)
  <2>1. results' = rows /\ eligible' = names /\ aborted' = aborted
    BY <1>3, <1>15
  <2>2. ScrTypes'
    BY <1>4, <1>11, <1>13, <2>1 DEF ScrInv, ScrTypes
  <2>3. ScreenRows'
    BY <1>4, <1>6, <1>11, <2>1 DEF ScrInv, ScreenRows
  <2>4. ScreenPhase'
    <3>1. failures' < MaxFailures /\ failures' <= run
      BY <1>3, <1>9, <1>10, <1>15
    <3>2. run = Cardinality(Run(results', Len(results'), Strict))
      BY <1>4, <1>8, <2>1
    <3> QED
      BY <1>12, <3>1, <3>2 DEF ScreenPhase, ScrListed
  <2> QED
    BY <1>11, <2>2, <2>3, <2>4 DEF ScrInv
<1> QED
  BY <1>14, <1>15

LEMMA RecordKept ==
  ASSUME ScrInv, WriteScreen \/ Identify
  PROVE  ScrInv'
<1> USE DEF ScrInv
<1>1. /\ step' = "screened" /\ eligible = <<>> /\ step \in {"screening", "screened"}
      /\ eligible' = eligible /\ results' = results
      /\ listing' = listing /\ args' = args /\ todo' = todo
      /\ verified' = verified /\ selected' = selected /\ attempts' = attempts
      /\ failures' = failures /\ aborted' = aborted
      /\ record' \in {"none", "complete", "partial"}
  <2>1. CASE WriteScreen
    BY <2>1 DEF WriteScreen
  <2>2. CASE Identify
    BY <2>2 DEF Identify, ScrTypes, ScreenPhase, ScrListed
  <2> QED
    BY <2>1, <2>2
<1>2. ScrTypes'
  BY <1>1 DEF ScrTypes, ScrListed
<1>3. ScreenRows'
  BY <1>1, ScreenSame
<1>4. ScreenPhase'
  BY <1>1 DEF ScreenPhase, ScrListed
<1>5. VerifyRows'
  BY <1>1, VerifySame DEF ScrMeasured
<1>6. VerifyPhase'
  BY <1>1 DEF VerifyPhase, ScrListed
<1> QED
  BY <1>2, <1>3, <1>4, <1>5, <1>6

-----------------------------------------------------------------------------
(* The verification.                                                       *)

\* a step that leaves the screen alone
LEMMA ScreenLeft ==
  ASSUME ScrInv, UNCHANGED <<listing, args, eligible, results, record>>,
         step \notin ScrListed, step' \notin ScrListed
  PROVE  /\ ScreenRows' /\ ScreenPhase' /\ Survivors' = Survivors
         /\ listing' = listing /\ args' = args /\ eligible' = eligible
         /\ results' = results /\ record' = record /\ DOMAIN listing \subseteq Nat
<1> USE DEF ScrInv
<1>1. ScreenRows'
  BY ScreenSame DEF ScrListed
<1>2. ScreenPhase'
  BY DEF ScreenPhase, ScrListed
<1>3. Survivors' = Survivors
  BY DEF Survivors
<1>4. DOMAIN listing \subseteq Nat
  <2>1. DOMAIN listing = 1..Len(listing)
    BY DEF ScrTypes
  <2> QED
    BY <2>1
<1> QED
  BY <1>1, <1>2, <1>3, <1>4

LEMMA SurvivorRows ==
  ASSUME ScrInv
  PROVE  /\ Survivors \in Seq(ScrRow) /\ Distinct(Survivors)
         /\ Symbols(Survivors) \subseteq DOMAIN listing
         /\ \A n \in DOMAIN Survivors : Survivors[n].outcome = "PASS"
<1> DEFINE P == { n \in DOMAIN results : results[n].outcome = "PASS" }
<1>1. /\ results \in Seq(ScrRow) /\ Distinct(results)
      /\ Symbols(results) \subseteq DOMAIN listing
  BY DEF ScrInv, ScrTypes, ScreenRows
<1>2. P \in SUBSET DOMAIN results /\ Survivors = Only(results, P)
  BY DEF Survivors
<1>3. \A n \in P : results[n].outcome = "PASS"
  OBVIOUS
<1> HIDE DEF P
<1>4. /\ Survivors \in Seq(ScrRow) /\ Distinct(Survivors)
      /\ Symbols(Survivors) \subseteq Symbols(results)
      /\ \A k \in DOMAIN Survivors : \E i \in P : Survivors[k] = results[i]
  <2>1. PICK S \in Seq(ScrRow) : S = results /\ Distinct(S) /\ P \in SUBSET DOMAIN S
    BY <1>1, <1>2
  <2>2. PICK others : others = DOMAIN S \ P
    OBVIOUS
  <2>3. P \cup others = DOMAIN S /\ P \cap others = {}
    BY <2>1, <2>2
  <2> DEFINE a == Only(S, P)
             b == Only(S, others)
  <2>4. /\ a \in Seq(ScrRow) /\ b \in Seq(ScrRow) /\ Distinct(a) /\ Distinct(b)
        /\ Symbols(a) \cap Symbols(b) = {}
        /\ Symbols(a) \cup Symbols(b) = Symbols(S)
        /\ \A k \in DOMAIN a : \E i \in P : a[k] = S[i]
    BY <2>1, <2>3, OnlySplits
  <2>5. Survivors = a
    BY <1>2, <2>1
  <2> HIDE DEF a, b
  <2> QED
    BY <2>1, <2>4, <2>5
<1> QED
  BY <1>1, <1>3, <1>4

LEMMA PlanKept ==
  ASSUME ScrInv, Plan
  PROVE  ScrInv'
<1> USE DEF ScrInv
<1> DEFINE R == ReadyAt
           left == Only(Survivors, DOMAIN Survivors \ R)
           right == Only(Survivors, R)
           rows == [n \in DOMAIN left |-> NotVerifiable(left[n])]
<1>1. /\ step = "screened"
      /\ listing' = listing /\ args' = args /\ eligible' = eligible /\ results' = results
      /\ record' = record /\ attempts' = attempts /\ selected' = selected
  BY DEF Plan, verifyKept
<1>2. \/ /\ step' = "authorizing" /\ todo' = right /\ verified' = rows
         /\ failures' = 0 /\ aborted' = FALSE
      \/ /\ step' = "refused" /\ todo' = todo /\ verified' = verified
         /\ failures' = failures /\ aborted' = aborted
  BY DEF Plan
<1>3. /\ ScreenRows' /\ ScreenPhase' /\ Survivors' = Survivors
      /\ DOMAIN listing \subseteq Nat
  BY <1>1, <1>2, ScreenLeft DEF ScrListed
<1>4. /\ Survivors \in Seq(ScrRow) /\ Distinct(Survivors)
      /\ Symbols(Survivors) \subseteq DOMAIN listing
      /\ \A n \in DOMAIN Survivors : Survivors[n].outcome = "PASS"
  BY SurvivorRows
<1>5. R \in SUBSET DOMAIN Survivors
  BY DEF ReadyAt
<1> HIDE DEF R
<1>6. /\ right \in Seq(ScrRow) /\ left \in Seq(ScrRow) /\ Distinct(right) /\ Distinct(left)
      /\ Symbols(right) \cap Symbols(left) = {}
      /\ Symbols(right) \cup Symbols(left) = Symbols(Survivors)
      /\ \A k \in DOMAIN right : \E i \in R : right[k] = Survivors[i]
  <2>1. PICK S \in Seq(ScrRow) : S = Survivors /\ Distinct(S) /\ R \in SUBSET DOMAIN S
    BY <1>4, <1>5
  <2>4. PICK others : others = DOMAIN S \ R
    OBVIOUS
  <2>5. R \cup others = DOMAIN S /\ R \cap others = {}
    BY <2>1, <2>4
  <2> DEFINE a == Only(S, R)
             b == Only(S, others)
  <2>2. /\ a \in Seq(ScrRow) /\ b \in Seq(ScrRow) /\ Distinct(a) /\ Distinct(b)
        /\ Symbols(a) \cap Symbols(b) = {}
        /\ Symbols(a) \cup Symbols(b) = Symbols(S)
        /\ \A k \in DOMAIN a : \E i \in R : a[k] = S[i]
    BY <2>1, <2>5, OnlySplits
  <2>3. right = a /\ left = b
    BY <2>1, <2>4
  <2> HIDE DEF a, b, left, right
  <2> QED
    BY <2>1, <2>2, <2>3
<1> HIDE DEF left, right
<1>7. /\ rows \in Seq(ScrRow) /\ Symbols(rows) = Symbols(left) /\ Distinct(rows)
      /\ \A n \in DOMAIN rows : rows[n].outcome = "NOT_VERIFIABLE"
  <2>1. DOMAIN left = 1..Len(left) /\ Len(left) \in Nat /\ DOMAIN rows = DOMAIN left
    BY <1>6
  <2>2. \A n \in DOMAIN left : left[n] \in ScrRow
    BY <1>6, <2>1
  <2>3. ASSUME NEW n \in DOMAIN left
        PROVE  /\ rows[n] \in ScrRow /\ rows[n].symbol = left[n].symbol
               /\ rows[n].outcome = "NOT_VERIFIABLE"
    <3>1. left[n].symbol \in Nat /\ left[n].r \in Nat
      BY <2>2, <2>3, ScrFields
    <3>2. rows[n] = [symbol |-> left[n].symbol, outcome |-> "NOT_VERIFIABLE",
                     r |-> left[n].r]
      BY <2>3 DEF NotVerifiable, Row
    <3> HIDE DEF rows
    <3> QED
      BY <3>1, <3>2 DEF ScrRow, Outcomes
  <2>4. rows = [n \in 1..Len(left) |-> rows[n]]
    BY <2>1
  <2> HIDE DEF rows
  <2>5. rows \in Seq(ScrRow)
    BY <2>1, <2>3, <2>4
  <2>6. Symbols(rows) = Symbols(left) /\ Distinct(rows)
    BY <1>6, <2>1, <2>3 DEF Symbols, Distinct
  <2> QED
    BY <2>1, <2>3, <2>5, <2>6
<1> HIDE DEF rows
<1>8. CASE step' = "refused"
  <2>1. /\ todo' = todo /\ verified' = verified /\ failures' = failures
        /\ aborted' = aborted
    BY <1>2, <1>8
  <2>2. ScrTypes'
    BY <1>1, <1>8, <2>1 DEF ScrTypes
  <2>3. VerifyRows'
    BY <1>1, <1>8, <2>1, VerifySame DEF ScrMeasured
  <2>4. VerifyPhase'
    BY <1>8 DEF VerifyPhase, ScrListed
  <2> QED
    BY <1>3, <2>2, <2>3, <2>4
<1>9. CASE step' = "authorizing"
  <2>1. todo' = right /\ verified' = rows /\ failures' = 0 /\ aborted' = FALSE
    BY <1>2, <1>9
  <2>2. 0 \in 0..MaxFailures /\ 0 < MaxFailures /\ 0 < AuthRetries
    BY ScreeningAssumption
  <2>3. ScrTypes'
    BY <1>1, <1>6, <1>7, <1>9, <2>1, <2>2 DEF ScrTypes, ScrMeasured
  <2>4. VerifyRows'
    <3>1. Earned(rows, Lenient)
      BY <1>7 DEF Earned
    <3>2. \A n \in DOMAIN right : right[n].outcome = "PASS"
      BY <1>4, <1>5, <1>6
    <3>3. Symbols(right) \subseteq DOMAIN listing /\ Symbols(rows) \subseteq DOMAIN listing
      BY <1>4, <1>6, <1>7
    <3> QED
      BY <1>1, <1>3, <1>6, <1>7, <2>1, <3>1, <3>2, <3>3 DEF VerifyRows
  <2>5. VerifyPhase'
    <3>1. PICK run : run = Cardinality(Run(rows, Len(rows), Lenient))
      OBVIOUS
    <3>2. run \in Nat
      <4>1. Len(rows) \in Nat
        BY <1>7
      <4> QED
        BY <3>1, <4>1, RunFinite
    <3>3. failures' < MaxFailures /\ failures' <= run
      BY <2>1, <2>2, <3>2
    <3>4. run = Cardinality(Run(verified', Len(verified'), Lenient))
      BY <2>1, <3>1
    <3>5. attempts' < AuthRetries
      BY <1>1, <2>2 DEF VerifyPhase
    <3> QED
      BY <1>9, <3>3, <3>4, <3>5 DEF VerifyPhase, ScrListed
  <2> QED
    BY <1>3, <2>3, <2>4, <2>5
<1> QED
  BY <1>2, <1>8, <1>9

LEMMA AuthorizeKept ==
  ASSUME ScrInv, Authorize
  PROVE  ScrInv'
<1> USE DEF ScrInv
<1>1. /\ step = "authorizing" /\ attempts' = attempts + 1
      /\ \/ step' \in {"verifying", "refused"}
         \/ step' = "authorizing" /\ attempts' < AuthRetries
      /\ listing' = listing /\ args' = args /\ eligible' = eligible /\ results' = results
      /\ record' = record /\ selected' = selected /\ failures' = failures
      /\ aborted' = aborted /\ todo' = todo /\ verified' = verified
  BY DEF Authorize, verifyKept
<1>2. /\ ScreenRows' /\ ScreenPhase' /\ Survivors' = Survivors
  BY <1>1, ScreenLeft DEF ScrListed
<1>3. attempts' \in 0..AuthRetries
  BY <1>1, ScreeningAssumption DEF ScrTypes, VerifyPhase
<1>4. ScrTypes'
  BY <1>1, <1>3 DEF ScrTypes, ScrMeasured
<1>5. VerifyRows'
  BY <1>1, VerifySame DEF ScrMeasured
<1>6. VerifyPhase'
  BY <1>1 DEF VerifyPhase, ScrListed
<1> QED
  BY <1>2, <1>4, <1>5, <1>6

\* what a survivor's verification leaves alone
Verifying ==
    /\ step = "verifying" /\ todo # <<>>
    /\ UNCHANGED <<step, attempts, selected, verifyKept>>

LEMMA VerifyingKept ==
  ASSUME ScrInv, Verifying
  PROVE  /\ ScreenRows' /\ ScreenPhase' /\ Survivors' = Survivors
         /\ listing' = listing /\ args' = args /\ eligible' = eligible
         /\ results' = results /\ record' = record /\ step = "verifying"
         /\ step' = "verifying" /\ attempts' = attempts /\ selected' = selected
         /\ todo \in Seq(ScrRow) /\ todo # <<>> /\ Distinct(todo)
         /\ verified \in Seq(ScrRow) /\ Distinct(verified) /\ Earned(verified, Lenient)
         /\ Symbols(verified) \cap Symbols(todo) = {}
         /\ Symbols(verified) \cup Symbols(todo) = Symbols(Survivors)
         /\ Symbols(todo) \subseteq DOMAIN listing
         /\ Symbols(verified) \subseteq DOMAIN listing
         /\ \A n \in DOMAIN todo : todo[n].outcome = "PASS"
         /\ failures \in Nat /\ failures < MaxFailures /\ MaxFailures \in Nat
         /\ failures <= Cardinality(Run(verified, Len(verified), Lenient))
<1> USE DEF ScrInv
<1>1. /\ step = "verifying" /\ step' = step /\ todo # <<>>
      /\ attempts' = attempts /\ selected' = selected /\ listing' = listing
      /\ args' = args /\ eligible' = eligible /\ results' = results /\ record' = record
  BY DEF Verifying, verifyKept
<1>2. ScreenRows' /\ ScreenPhase' /\ Survivors' = Survivors
  BY <1>1, ScreenLeft DEF ScrListed
<1>3. todo \in Seq(ScrRow) /\ verified \in Seq(ScrRow) /\ failures \in Nat
  BY ScreeningAssumption DEF ScrTypes
<1>4. /\ Distinct(todo) /\ Distinct(verified) /\ Earned(verified, Lenient)
      /\ Symbols(verified) \cap Symbols(todo) = {}
      /\ Symbols(verified) \cup Symbols(todo) = Symbols(Survivors)
      /\ Symbols(todo) \subseteq DOMAIN listing
      /\ Symbols(verified) \subseteq DOMAIN listing
      /\ \A n \in DOMAIN todo : todo[n].outcome = "PASS"
  BY <1>1 DEF VerifyRows, ScrMeasured
<1>5. /\ failures < MaxFailures /\ MaxFailures \in Nat
      /\ failures <= Cardinality(Run(verified, Len(verified), Lenient))
  BY <1>1, ScreeningAssumption DEF VerifyPhase
<1> QED
  BY <1>1, <1>2, <1>3, <1>4, <1>5

\* the survivors that are to come and the row of the first of them
LEMMA SurvivorRow ==
  ASSUME ScrInv, Verifying, NEW x \in ScrRow, x.symbol = Head(todo).symbol
  PROVE  LET left == Tail(todo)
             rows == Append(verified, x) IN
         /\ left \in Seq(ScrRow) /\ Distinct(left)
         /\ rows \in Seq(ScrRow) /\ Distinct(rows)
         /\ Symbols(rows) \cap Symbols(left) = {}
         /\ Symbols(rows) \cup Symbols(left) = Symbols(Survivors)
         /\ Symbols(rows) \subseteq DOMAIN listing /\ Symbols(left) \subseteq DOMAIN listing
         /\ \A n \in DOMAIN left : left[n].outcome = "PASS"
         /\ Len(rows) = Len(verified) + 1 /\ Len(verified) \in Nat
         /\ \A n \in 1..Len(verified) : rows[n] = verified[n]
         /\ rows[Len(verified) + 1] = x
<1> DEFINE left == Tail(todo)
           rows == Append(verified, x)
<1>1. /\ todo \in Seq(ScrRow) /\ todo # <<>> /\ Distinct(todo)
      /\ verified \in Seq(ScrRow) /\ Distinct(verified)
      /\ Symbols(verified) \cap Symbols(todo) = {}
      /\ Symbols(verified) \cup Symbols(todo) = Symbols(Survivors)
      /\ Symbols(todo) \subseteq DOMAIN listing
      /\ Symbols(verified) \subseteq DOMAIN listing
      /\ \A n \in DOMAIN todo : todo[n].outcome = "PASS"
  BY VerifyingKept
<1>2. /\ left \in Seq(ScrRow) /\ Distinct(left) /\ x.symbol \notin Symbols(left)
      /\ Symbols(todo) = {x.symbol} \cup Symbols(left)
      /\ \A k \in DOMAIN left : \E n \in DOMAIN todo : left[k] = todo[n]
  BY <1>1, RowsRest
<1>3. x.symbol \notin Symbols(verified)
  BY <1>1, <1>2
<1>4. /\ rows \in Seq(ScrRow) /\ Distinct(rows)
      /\ Symbols(rows) = Symbols(verified) \cup {x.symbol}
      /\ Len(rows) = Len(verified) + 1
      /\ \A n \in 1..Len(verified) : rows[n] = verified[n]
      /\ rows[Len(verified) + 1] = x
  BY <1>1, <1>3, RowAdded
<1>5. Len(verified) \in Nat
  BY <1>1
<1> HIDE DEF left, rows
<1>6. /\ Symbols(rows) \cap Symbols(left) = {}
      /\ Symbols(rows) \cup Symbols(left) = Symbols(Survivors)
      /\ Symbols(rows) \subseteq DOMAIN listing /\ Symbols(left) \subseteq DOMAIN listing
  BY <1>1, <1>2, <1>4
<1>7. \A n \in DOMAIN left : left[n].outcome = "PASS"
  BY <1>1, <1>2
<1> QED
  BY <1>2, <1>4, <1>5, <1>6, <1>7 DEF left, rows

\* the first of the survivors, as a row
LEMMA HeadTyped ==
  ASSUME ScrInv, Verifying
  PROVE  Head(todo) \in ScrRow /\ Head(todo).symbol \in Nat /\ Head(todo).r \in Nat
<1>1. Head(todo) \in ScrRow
  BY VerifyingKept, RowsRest
<1> QED
  BY <1>1, ScrFields

LEMMA MeasureKept ==
  ASSUME ScrInv, Measure
  PROVE  ScrInv'
<1>1. Verifying /\ aborted' = aborted /\ todo' = Tail(todo)
  BY DEF Measure, Verifying
<1>2. PICK outcome \in {"PASS", "FAIL", "INSUFFICIENT", "NO_DATA"} :
         /\ verified' = Append(verified, Row(Head(todo).symbol, outcome, Head(todo).r))
         /\ failures' = IF outcome = "NO_DATA" THEN failures ELSE 0
  BY DEF Measure
<1>3. PICK x \in ScrRow : /\ x.symbol = Head(todo).symbol /\ x.outcome = outcome
                          /\ verified' = Append(verified, x)
  <2> DEFINE x == Row(Head(todo).symbol, outcome, Head(todo).r)
  <2>1. x \in ScrRow /\ x.symbol = Head(todo).symbol /\ x.outcome = outcome
    BY <1>1, HeadTyped DEF Row, ScrRow, Outcomes
  <2> HIDE DEF x
  <2>2. verified' = Append(verified, x)
    BY <1>2 DEF x
  <2> QED
    BY <2>1, <2>2
<1> DEFINE rows == Append(verified, x)
           left == Tail(todo)
           N == Len(verified)
<1>4. /\ left \in Seq(ScrRow) /\ Distinct(left)
      /\ rows \in Seq(ScrRow) /\ Distinct(rows)
      /\ Symbols(rows) \cap Symbols(left) = {}
      /\ Symbols(rows) \cup Symbols(left) = Symbols(Survivors)
      /\ Symbols(rows) \subseteq DOMAIN listing /\ Symbols(left) \subseteq DOMAIN listing
      /\ \A n \in DOMAIN left : left[n].outcome = "PASS"
      /\ Len(rows) = N + 1 /\ N \in Nat
      /\ \A n \in 1..N : rows[n] = verified[n]
      /\ rows[N + 1] = x
  BY <1>1, <1>3, SurvivorRow
<1>5. /\ ScreenRows' /\ ScreenPhase' /\ Survivors' = Survivors
      /\ listing' = listing /\ args' = args /\ eligible' = eligible
      /\ results' = results /\ record' = record
      /\ step' = "verifying" /\ attempts' = attempts /\ selected' = selected
      /\ verified \in Seq(ScrRow) /\ Earned(verified, Lenient)
      /\ failures \in Nat /\ failures < MaxFailures /\ MaxFailures \in Nat
      /\ failures <= Cardinality(Run(verified, N, Lenient))
  BY <1>1, VerifyingKept
<1>6. Earned(rows, Lenient)
  BY <1>3, <1>5, EarnedMore
<1>7. verified' = rows /\ todo' = left
  BY <1>1, <1>3
<1> HIDE DEF rows, left
<1>8. failures' \in Nat /\ failures' < MaxFailures
  BY <1>2, <1>5
<1>9. ScrTypes'
  <2>1. failures' \in 0..MaxFailures
    BY <1>5, <1>8
  <2> QED
    BY <1>1, <1>4, <1>5, <1>7, <2>1 DEF ScrInv, ScrTypes, ScrMeasured
<1>10. VerifyRows'
  BY <1>4, <1>5, <1>6, <1>7 DEF VerifyRows
<1>11. VerifyPhase'
  <2>1. PICK run : run = Cardinality(Run(rows, N + 1, Lenient))
    OBVIOUS
  <2>2. run \in Nat
    <3>1. N + 1 \in Nat
      BY <1>4
    <3> HIDE DEF N
    <3> QED
      BY <2>1, <3>1, RunFinite
  <2>3. failures' <= run
    <3>1. CASE outcome # "NO_DATA"
      BY <1>2, <2>2, <3>1
    <3>2. CASE outcome = "NO_DATA"
      <4>1. PICK n \in Nat, m \in Nat : n = N /\ m = n + 1
        BY <1>4
      <4>2. /\ \A k \in 1..n : verified[k] = rows[k]
            /\ rows[m].outcome = "NO_DATA"
        BY <1>3, <1>4, <3>2, <4>1
      <4>3. "NO_DATA" \in Lenient
        BY DEF Lenient
      <4>4. Run(rows, m, Lenient) = Run(verified, n, Lenient)
        BY <4>1, <4>2, <4>3, RunNoData
      <4>5. run = Cardinality(Run(verified, N, Lenient))
        BY <2>1, <4>1, <4>4
      <4> QED
        BY <1>2, <1>5, <3>2, <4>5
    <3> QED
      BY <3>1, <3>2
  <2>4. run = Cardinality(Run(verified', Len(verified'), Lenient))
    BY <1>4, <1>7, <2>1
  <2> QED
    BY <1>5, <1>8, <2>3, <2>4 DEF VerifyPhase, ScrListed
<1> QED
  BY <1>5, <1>9, <1>10, <1>11 DEF ScrInv

LEMMA RowRemade ==
  ASSUME NEW row \in ScrRow, NEW o \in Outcomes
  PROVE  LET x == [row EXCEPT !.outcome = o] IN
         x \in ScrRow /\ x.symbol = row.symbol /\ x.outcome = o
  BY DEF ScrRow

LEMMA MeasureFailedKept ==
  ASSUME ScrInv, MeasureFailed
  PROVE  ScrInv'
<1>1. Verifying
  BY DEF MeasureFailed, Verifying
<1> DEFINE x == [Head(todo) EXCEPT !.outcome = "TRANSPORT_FAILURE"]
           rows == Append(verified, x)
           left == Tail(todo)
           rest == [n \in 1..Len(left) |-> [left[n] EXCEPT !.outcome = "UNSCREENED"]]
           N == Len(verified)
<1>2. x \in ScrRow /\ x.symbol = Head(todo).symbol /\ x.outcome = "TRANSPORT_FAILURE"
  <2>1. Head(todo) \in ScrRow /\ "TRANSPORT_FAILURE" \in Outcomes
    BY <1>1, HeadTyped DEF Outcomes
  <2> QED
    BY <2>1, RowRemade
<1>3. /\ failures' = failures + 1
      /\ \/ /\ failures' >= MaxFailures /\ verified' = rows \o rest /\ todo' = <<>>
            /\ aborted' = TRUE
         \/ /\ ~(failures' >= MaxFailures) /\ verified' = rows /\ todo' = left
            /\ aborted' = aborted
  BY DEF MeasureFailed
<1> HIDE DEF x
<1>4. /\ left \in Seq(ScrRow) /\ Distinct(left)
      /\ rows \in Seq(ScrRow) /\ Distinct(rows)
      /\ Symbols(rows) \cap Symbols(left) = {}
      /\ Symbols(rows) \cup Symbols(left) = Symbols(Survivors)
      /\ Symbols(rows) \subseteq DOMAIN listing /\ Symbols(left) \subseteq DOMAIN listing
      /\ \A n \in DOMAIN left : left[n].outcome = "PASS"
      /\ Len(rows) = N + 1 /\ N \in Nat
      /\ \A n \in 1..N : rows[n] = verified[n]
      /\ rows[N + 1] = x
  BY <1>1, <1>2, SurvivorRow
<1>5. /\ ScreenRows' /\ ScreenPhase' /\ Survivors' = Survivors
      /\ listing' = listing /\ args' = args /\ eligible' = eligible
      /\ results' = results /\ record' = record
      /\ step' = "verifying" /\ attempts' = attempts /\ selected' = selected
      /\ verified \in Seq(ScrRow) /\ Earned(verified, Lenient)
      /\ failures \in Nat /\ failures < MaxFailures /\ MaxFailures \in Nat
      /\ failures <= Cardinality(Run(verified, N, Lenient))
  BY <1>1, VerifyingKept
<1>6. Earned(rows, Lenient)
  BY <1>2, <1>5, EarnedMore
<1> HIDE DEF rows, left
<1>7. /\ rest \in Seq(ScrRow) /\ Distinct(rest) /\ Symbols(rest) = Symbols(left)
      /\ \A n \in DOMAIN rest : rest[n].outcome = "UNSCREENED"
  <2>1. DOMAIN left = 1..Len(left) /\ Len(left) \in Nat /\ DOMAIN rest = 1..Len(left)
    BY <1>4
  <2>2. ASSUME NEW n \in 1..Len(left)
        PROVE  /\ rest[n] \in ScrRow /\ rest[n].symbol = left[n].symbol
               /\ rest[n].outcome = "UNSCREENED"
    <3>1. left[n] \in ScrRow /\ "UNSCREENED" \in Outcomes
      BY <1>4, <2>1 DEF Outcomes
    <3> DEFINE y == [left[n] EXCEPT !.outcome = "UNSCREENED"]
    <3>2. y \in ScrRow /\ y.symbol = left[n].symbol /\ y.outcome = "UNSCREENED"
      BY <3>1, RowRemade
    <3>3. rest[n] = y
      BY <2>2
    <3> HIDE DEF y, rest
    <3> QED
      BY <3>2, <3>3
  <2>3. rest = [n \in 1..Len(left) |-> rest[n]]
    OBVIOUS
  <2> HIDE DEF rest
  <2>4. rest \in Seq(ScrRow)
    BY <2>1, <2>2, <2>3
  <2>5. Distinct(rest) /\ Symbols(rest) = Symbols(left)
    BY <1>4, <2>1, <2>2, SMTT(30) DEF Distinct, Symbols
  <2> QED
    BY <2>1, <2>2, <2>4, <2>5
<1> HIDE DEF rest
<1>8. PICK run : run = Cardinality(Run(rows, N + 1, Lenient))
  OBVIOUS
<1>9. run \in Nat /\ failures + 1 <= run
  <2>1. run = Cardinality(Run(verified, N, Lenient)) + 1
    <3>1. PICK n \in Nat, m \in Nat, more \in {rows} : n = N /\ m = n + 1 /\ more = rows
      BY <1>4
    <3>2. /\ \A k \in 1..n : verified[k] = more[k]
          /\ more[m].outcome = "TRANSPORT_FAILURE"
      BY <1>2, <1>4, <3>1
    <3>3. "TRANSPORT_FAILURE" \in Lenient
      BY DEF Lenient
    <3>4. n \in Nat /\ FailsNext(verified, more, n, m)
      BY <3>1, <3>2 DEF FailsNext
    <3>5. Cardinality(Run(more, m, Lenient)) = Cardinality(Run(verified, n, Lenient)) + 1
      BY ONLY <3>3, <3>4, RunFailed
    <3> QED
      BY <1>8, <3>1, <3>5
  <2>2. PICK before : before = Cardinality(Run(verified, N, Lenient))
    OBVIOUS
  <2>3. before \in Nat
    <3>1. N \in Nat
      BY <1>4
    <3> HIDE DEF N
    <3> QED
      BY <2>2, <3>1, RunFinite
  <2>4. failures <= before /\ run = before + 1
    BY <1>5, <2>1, <2>2
  <2> QED
    BY <1>5, <2>3, <2>4
<1>10. failures' \in 0..MaxFailures
  BY <1>3, <1>5
<1>11. CASE failures' >= MaxFailures
  <2>1. verified' = rows \o rest /\ todo' = <<>> /\ aborted' = TRUE
    BY <1>3, <1>11
  <2>2. /\ rows \o rest \in Seq(ScrRow) /\ Distinct(rows \o rest)
        /\ Symbols(rows \o rest) = Symbols(rows) \cup Symbols(rest)
    <3>1. Symbols(rows) \cap Symbols(rest) = {}
      BY <1>4, <1>7
    <3> QED
      BY <1>4, <1>7, <3>1, RowsJoined
  <2>3. Earned(rows \o rest, Lenient)
    <3>1. rows # <<>>
      BY <1>4
    <3>2. rows[Len(rows)].outcome # "UNSCREENED"
      BY <1>2, <1>4
    <3>3. Cardinality(Run(rows, Len(rows), Lenient)) >= MaxFailures
      <4>1. run >= MaxFailures
        BY <1>3, <1>5, <1>9, <1>11
      <4> QED
        BY <1>4, <1>8, <4>1
    <3> QED
      BY <1>4, <1>6, <1>7, <3>1, <3>2, <3>3, EarnedAbort
  <2> DEFINE all == rows \o rest
  <2> HIDE DEF all
  <2>4. /\ verified' = all /\ all \in Seq(ScrRow) /\ Distinct(all) /\ Earned(all, Lenient)
        /\ Symbols(all) = Symbols(Survivors)
    BY <1>4, <1>7, <2>1, <2>2, <2>3 DEF all
  <2>5. <<>> \in Seq(ScrRow) /\ Symbols(todo') = {} /\ Distinct(todo')
    BY <2>1, EmptyRows
  <2>6. ScrTypes'
    BY <1>5, <1>10, <2>1, <2>4, <2>5 DEF ScrInv, ScrTypes, ScrMeasured
  <2>7. VerifyRows'
    <3>1. Symbols(all) \subseteq DOMAIN listing
      BY <1>4, <2>4
    <3>2. \A n \in DOMAIN todo' : todo'[n].outcome = "PASS"
      <4>1. \A n \in DOMAIN <<>> : FALSE
        OBVIOUS
      <4> QED
        BY <2>1, <4>1
    <3> QED
      BY <1>5, <2>4, <2>5, <3>1, <3>2 DEF VerifyRows
  <2>8. VerifyPhase'
    BY <1>5, <2>1 DEF VerifyPhase, ScrListed
  <2> QED
    BY <1>5, <2>6, <2>7, <2>8 DEF ScrInv
<1>12. CASE ~(failures' >= MaxFailures)
  <2>1. verified' = rows /\ todo' = left /\ aborted' = aborted
    BY <1>3, <1>12
  <2>2. ScrTypes'
    BY <1>4, <1>5, <1>10, <2>1 DEF ScrInv, ScrTypes, ScrMeasured
  <2>3. VerifyRows'
    BY <1>4, <1>5, <1>6, <2>1 DEF VerifyRows
  <2>4. VerifyPhase'
    <3>1. failures' < MaxFailures /\ failures' <= run
      BY <1>3, <1>5, <1>9, <1>12
    <3>2. run = Cardinality(Run(verified', Len(verified'), Lenient))
      BY <1>4, <1>8, <2>1
    <3> QED
      BY <1>5, <3>1, <3>2 DEF VerifyPhase, ScrListed
  <2> QED
    BY <1>5, <2>2, <2>3, <2>4 DEF ScrInv
<1> QED
  BY <1>11, <1>12

\* Of the rows that pass one has the lowest figure and is the first that has it.
LEMMA RankedExists ==
  ASSUME verified \in Seq(ScrRow), Passers # {}
  PROVE  \E n \in Passers : Ranked(n)
<1> DEFINE Figures == { verified[n].r : n \in Passers }
<1>1. Passers \subseteq DOMAIN verified /\ DOMAIN verified = 1..Len(verified)
  BY DEF Passers
<1>2. \A n \in DOMAIN verified : verified[n].r \in Nat /\ n \in Nat
  <2>1. \A n \in DOMAIN verified : verified[n] \in ScrRow /\ n \in Nat
    BY <1>1
  <2> QED
    BY <2>1, ScrFields
<1>3. PICK r \in Figures : \A f \in Figures : r <= f
  <2>1. Figures \in SUBSET Nat /\ Figures # {}
    BY <1>1, <1>2
  <2> HIDE DEF Figures
  <2> QED
    BY <2>1, LeastNumber
<1> DEFINE Lowest == { n \in Passers : verified[n].r = r }
<1>4. PICK n \in Lowest : \A k \in Lowest : n <= k
  <2>1. Lowest \in SUBSET Nat /\ Lowest # {}
    BY <1>1, <1>2
  <2> HIDE DEF Lowest
  <2> QED
    BY <2>1, LeastNumber
<1>5. n \in Passers /\ verified[n].r = r
  BY <1>4
<1>6. ASSUME NEW k \in Passers
      PROVE  verified[n].r < verified[k].r \/ (verified[n].r = verified[k].r /\ n <= k)
  <2>1. r <= verified[k].r
    BY <1>3
  <2>2. verified[k].r = r => n <= k
    BY <1>4
  <2>3. r \in Nat /\ verified[k].r \in Nat
    BY <1>1, <1>2, <1>5
  <2> QED
    BY <1>5, <2>1, <2>2, <2>3
<1> QED
  BY <1>5, <1>6 DEF Ranked

LEMMA WriteVerificationKept ==
  ASSUME ScrInv, WriteVerification
  PROVE  ScrInv'
<1> USE DEF ScrInv
<1>1. /\ step = "verifying" /\ todo = <<>> /\ step' \in {"verified", "provisional"}
      /\ listing' = listing /\ args' = args /\ eligible' = eligible /\ results' = results
      /\ record' = record /\ attempts' = attempts /\ failures' = failures
      /\ aborted' = aborted /\ todo' = todo /\ verified' = verified
  BY DEF WriteVerification, verifyKept
<1>2. /\ ScreenRows' /\ ScreenPhase' /\ Survivors' = Survivors
  BY <1>1, ScreenLeft DEF ScrListed
<1>3. selected' \in {0} \cup DOMAIN listing
  <2>1. CASE Passers = {}
    BY <2>1 DEF WriteVerification
  <2>2. CASE Passers # {}
    <3> DEFINE best == CHOOSE n \in Passers : Ranked(n)
    <3>1. best \in Passers
      BY <2>2, RankedExists DEF ScrTypes
    <3>2. selected' = verified[best].symbol
      BY <2>2 DEF WriteVerification
    <3> HIDE DEF best
    <3>3. verified[best].symbol \in Symbols(verified)
      BY <3>1 DEF Passers, Symbols
    <3> QED
      BY <3>2, <3>3 DEF VerifyRows
  <2> QED
    BY <2>1, <2>2
<1>4. ScrTypes'
  BY <1>1, <1>3 DEF ScrTypes, ScrMeasured
<1>5. VerifyRows'
  BY <1>1, VerifySame DEF ScrMeasured
<1>6. VerifyPhase'
  BY <1>1 DEF VerifyPhase, ScrListed
<1> QED
  BY <1>2, <1>4, <1>5, <1>6

-----------------------------------------------------------------------------
(* The theorems.                                                           *)

LEMMA NextScreening == ScrInv /\ [ScreeningNext]_screeningVars => ScrInv'
<1> SUFFICES ASSUME ScrInv, [ScreeningNext]_screeningVars
             PROVE  ScrInv'
  OBVIOUS
<1>1. CASE Blocked("start")
  BY <1>1, BlockedKept
<1>2. CASE Classify
  BY <1>2, ClassifyKept
<1>3. CASE ScreenFetched
  BY <1>3, FetchedKept
<1>4. CASE ScreenFailed
  BY <1>4, FailedKept
<1>5. CASE WriteScreen \/ Identify
  BY <1>5, RecordKept
<1>6. CASE Plan
  BY <1>6, PlanKept
<1>7. CASE Authorize
  BY <1>7, AuthorizeKept
<1>8. CASE Measure
  BY <1>8, MeasureKept
<1>9. CASE MeasureFailed
  BY <1>9, MeasureFailedKept
<1>10. CASE WriteVerification
  BY <1>10, WriteVerificationKept
<1>11. CASE UNCHANGED screeningVars
  <2>1. /\ listing' = listing /\ args' = args /\ eligible' = eligible /\ results' = results
        /\ record' = record /\ attempts' = attempts /\ failures' = failures
        /\ aborted' = aborted /\ todo' = todo /\ verified' = verified
        /\ selected' = selected /\ step' = step
    BY <1>11 DEF screeningVars
  <2>2. ScreenRows'
    BY <2>1, ScreenSame DEF ScrInv
  <2>3. VerifyRows'
    BY <2>1, VerifySame DEF ScrInv
  <2> QED
    BY <2>1, <2>2, <2>3 DEF ScrInv, ScrTypes, ScreenPhase, VerifyPhase
<1> QED
  BY <1>1, <1>2, <1>3, <1>4, <1>5, <1>6, <1>7, <1>8, <1>9, <1>10, <1>11
     DEF ScreeningNext

LEMMA ScreeningInvariant == ScreeningSpec => []ScrInv
<1> QED
  BY InitScreening, NextScreening, PTL DEF ScreeningSpec

LEMMA ScrInvTypes == ScrInv => ScreeningTypeOK
<1> SUFFICES ASSUME ScrInv
             PROVE  ScreeningTypeOK
  OBVIOUS
<1>1. ASSUME NEW rows \in Seq(ScrRow), Symbols(rows) \subseteq DOMAIN listing,
             NEW n \in DOMAIN rows
      PROVE  IsRow(rows[n])
  <2>1. rows[n] \in ScrRow
    OBVIOUS
  <2>2. rows[n].symbol \in DOMAIN listing
    BY <1>1 DEF Symbols
  <2> QED
    BY <2>1, <2>2, ScrFields DEF IsRow
<1>2. \A n \in DOMAIN eligible : eligible[n] \in DOMAIN listing
  BY DEF ScrInv, ScreenRows, Elements
<1>3. \A n \in DOMAIN results : IsRow(results[n])
  BY <1>1 DEF ScrInv, ScrTypes, ScreenRows
<1>4. \A n \in DOMAIN todo : IsRow(todo[n]) /\ todo[n].outcome = "PASS"
  BY <1>1 DEF ScrInv, ScrTypes, VerifyRows
<1>5. \A n \in DOMAIN verified : IsRow(verified[n])
  BY <1>1 DEF ScrInv, ScrTypes, VerifyRows
<1> QED
  BY <1>2, <1>3, <1>4, <1>5 DEF ScrInv, ScrTypes, ScreeningTypeOK

\* Every variable of the choice of an instrument has its type: the rows are about
\* instruments listed, and what is selected is one of them.
THEOREM ScreeningTypes == ScreeningSpec => []ScreeningTypeOK
  BY ScreeningInvariant, ScrInvTypes, PTL

\* how many rows an instrument has where none has two
LEMMA RowsCounted ==
  ASSUME NEW rows, Distinct(rows), NEW s
  PROVE  Cardinality(RowsOf(rows, s)) = IF s \in Symbols(rows) THEN 1 ELSE 0
<1>1. CASE s \in Symbols(rows)
  <2>1. PICK n \in DOMAIN rows : rows[n].symbol = s
    BY <1>1 DEF Symbols
  <2>2. RowsOf(rows, s) = {n}
    BY <2>1 DEF RowsOf, Distinct
  <2> QED
    BY <1>1, <2>2, FS_Singleton
<1>2. CASE s \notin Symbols(rows)
  <2>1. RowsOf(rows, s) = {}
    BY <1>2 DEF RowsOf, Symbols
  <2> QED
    BY <1>2, <2>1, FS_EmptySet
<1> QED
  BY <1>1, <1>2

\* No instrument is lost or counted twice by a failure, an abort, a resumption or a
\* limit, whatever the broker lists, and a run is cut short only by failures in a row.
THEOREM EveryCandidateCounted == ScreeningSpec => []EveryCandidateOnce
<1>1. ScrInv => OneRowEach
  <2> SUFFICES ASSUME ScrInv
               PROVE  OneRowEach
    OBVIOUS
  <2>1. ASSUME NEW s \in DOMAIN listing
        PROVE  /\ Cardinality(RowsOf(results, s)) <= 1
               /\ (step # "blocked" /\ record # "none" /\ NoArgs(args) /\ Named(s)) =>
                     Cardinality(RowsOf(results, s)) = 1
    <3>1. Cardinality(RowsOf(results, s)) = IF s \in Symbols(results) THEN 1 ELSE 0
      BY RowsCounted DEF ScrInv, ScreenRows
    <3>2. ASSUME record # "none", NoArgs(args), Named(s)
          PROVE  s \in Symbols(results)
      <4>1. step \notin ScrListed
        BY <3>2 DEF ScrInv, ScreenPhase
      <4>2. Elements(eligible) = {}
        BY <4>1, EmptyRows DEF ScrInv, ScreenPhase
      <4> QED
        BY <3>2, <4>1, <4>2 DEF ScrInv, ScreenRows, ScrListed
    <3> QED
      BY <3>1, <3>2
  <2>2. ASSUME step \in {"verified", "provisional"}, NEW s \in DOMAIN listing
        PROVE  Cardinality(RowsOf(verified, s)) = Cardinality(RowsOf(Survivors, s))
    <3>1. Distinct(verified) /\ Distinct(Survivors)
      BY <2>2, SurvivorRows DEF ScrInv, VerifyRows, ScrMeasured
    <3>2. Symbols(verified) = Symbols(Survivors)
      <4>1. Symbols(todo) = {}
        BY <2>2, EmptyRows DEF ScrInv, VerifyPhase
      <4> QED
        BY <2>2, <4>1 DEF ScrInv, VerifyRows, ScrMeasured
    <3> QED
      BY <3>1, <3>2, RowsCounted
  <2> QED
    BY <2>1, <2>2 DEF OneRowEach
<1>2. ScrInv => AbortIsEarned
  <2> SUFFICES ASSUME ScrInv,
                      NEW rows \in {results, verified}, NEW n \in DOMAIN rows,
                      rows[n].outcome = "UNSCREENED"
               PROVE  \E last \in 1..(n - 1) :
                         /\ \A k \in (last + 1)..n : rows[k].outcome = "UNSCREENED"
                         /\ Cardinality({ k \in 1..last :
                               /\ rows[k].outcome = "TRANSPORT_FAILURE"
                               /\ \A j \in k..last :
                                     \/ rows[j].outcome = "TRANSPORT_FAILURE"
                                     \/ rows[j].outcome = "NO_DATA" /\ rows # results })
                            >= MaxFailures
    BY DEF AbortIsEarned
  <2> DEFINE Failed(last) == { k \in 1..last :
                /\ rows[k].outcome = "TRANSPORT_FAILURE"
                /\ \A j \in k..last : \/ rows[j].outcome = "TRANSPORT_FAILURE"
                                      \/ rows[j].outcome = "NO_DATA" /\ rows # results }
  <2>1. CASE rows = results
    <3>1. PICK last \in 1..(n - 1) :
             /\ \A k \in (last + 1)..n : rows[k].outcome = "UNSCREENED"
             /\ Cardinality(Run(rows, last, Strict)) >= MaxFailures
      BY <2>1 DEF ScrInv, ScreenRows, Earned
    <3>2. Failed(last) = Run(rows, last, Strict)
      BY <2>1 DEF Run, Strict
    <3> QED
      BY <3>1, <3>2
  <2>2. CASE rows # results
    <3>1. rows = verified
      BY <2>2
    <3>2. PICK last \in 1..(n - 1) :
             /\ \A k \in (last + 1)..n : rows[k].outcome = "UNSCREENED"
             /\ Cardinality(Run(rows, last, Lenient)) >= MaxFailures
      BY <3>1 DEF ScrInv, VerifyRows, Earned
    <3>3. Failed(last) = Run(rows, last, Lenient)
      BY <2>2 DEF Run, Lenient
    <3> QED
      BY <3>2, <3>3
  <2> QED
    BY <2>1, <2>2
<1> QED
  BY <1>1, <1>2, ScreeningInvariant, PTL DEF EveryCandidateOnce
===============================================================================
