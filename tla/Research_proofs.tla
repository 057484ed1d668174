--------------------------- MODULE Research_proofs ----------------------------
(*****************************************************************************)
(* Machine-checked proofs about the rest of the research: that the history   *)
(* paged backwards by HistoryPager has no hole, for any market, window, step *)
(* and number of requests; that the replay of Breakout accounts for its      *)
(* episodes, keeps its trades apart and only ever ratchets a stop, for any   *)
(* series and parameters; and that the four parts of the research keep their *)
(* types, each with the others beside it.                                    *)
(*****************************************************************************)
EXTENDS MCResearch, Study_proofs

-----------------------------------------------------------------------------
(* What a program knows while it pages.                                    *)

\* Every bar between the oldest and the newest kept is kept.
Whole == \A b \in market : oldest <= b /\ b <= newest => b \in stored

\* The next page ends before the oldest bar kept, and there is none between.
Below(e) == e < oldest /\ \A b \in market : ~(e < b /\ b < oldest)

PagerInv ==
    /\ PagerTypeOK /\ NoHole /\ ExhaustedIsTrue
    /\ stage \in {"start", "blocked", "paging"} => stop = "none"
    /\ stage = "start" => stored = {} /\ (latest <=> pager \in {"candles", "ticks"})
    /\ (stage = "paging" /\ latest) => stored = {} /\ pager \in {"candles", "ticks"}
    /\ (stage = "paging" /\ ~latest /\ pager \in {"candles", "ticks"}) => stored # {}
    /\ (stage = "paging" /\ ~latest /\ stored # {} /\ ~refused) => Below(end)

\* The constants are the integers they stand for.
LEMMA Steps ==
  /\ Granularity \in Nat /\ Granularity > 0 /\ Window \in Nat /\ Window > 0
  /\ Day \in Nat /\ Day > 0 /\ Day <= Window
  /\ Target \in Nat /\ TickCap \in Nat /\ TickCap >= 2
  /\ From \in Nat /\ Clocks \subseteq Nat
<1>1. /\ Granularity \in Nat \ {0} /\ Window \in Nat \ {0} /\ Day \in Nat \ {0}
      /\ Day <= Window
  BY StepAssumption
<1>2. Target \in Nat /\ TickCap \in Nat \ {0, 1} /\ From \in Nat /\ Clocks \subseteq Nat
  BY PagerAssumption
<1> QED
  BY <1>1, <1>2

\* The bars of a market are natural numbers, finitely many, and apart.
LEMMA Market ==
  ASSUME PagerTypeOK
  PROVE  /\ market \subseteq Nat /\ IsFiniteSet(market) /\ clock \in Nat
         /\ \A a, b \in market : a < b => b - a >= Granularity
<1>1. market \in Markets /\ clock \in Clocks
  BY DEF PagerTypeOK
<1>2. market \subseteq Nat /\ IsFiniteSet(market)
  BY <1>1, MarketAssumption
<1>3. \A a, b \in market : a < b => b - a >= Granularity
  BY <1>1, GridAssumption
<1> QED
  BY <1>1, <1>2, <1>3, Steps

-----------------------------------------------------------------------------
(* A batch that is kept.                                                   *)

Made == { b \in market : b <= clock }

\* Keeping a batch of bars that were made keeps the types.
LEMMA KeepTypes ==
  ASSUME PagerTypeOK, UNCHANGED <<market, clock>>,
         NEW batch \in SUBSET Made, NEW first \in batch, NEW last \in batch,
         Spans(batch, first, last), Keep(batch, first, last)
  PROVE  /\ stored' \subseteq { b \in market' : b <= clock' } /\ stored' # {}
         /\ oldest' \in Nat /\ newest' \in Nat
         /\ Spans(stored', oldest', newest')
<1>1. /\ market \subseteq Nat /\ clock \in Nat
      /\ stored \subseteq Made /\ oldest \in Nat /\ newest \in Nat
      /\ stored # {} => Spans(stored, oldest, newest)
  BY Market DEF PagerTypeOK, Made
<1>2. first \in Nat /\ last \in Nat /\ batch \subseteq Nat /\ stored \subseteq Nat
  BY <1>1 DEF Made
<1>3. stored' = stored \cup batch
  BY DEF Keep
<1>4. stored' \subseteq { b \in market' : b <= clock' } /\ stored' # {}
  BY <1>1, <1>3 DEF Made
<1>5. oldest' \in Nat /\ newest' \in Nat
  BY <1>1, <1>2 DEF Keep
<1>6. \A b \in batch : first <= b /\ b <= last
  BY DEF Spans
<1>7. CASE stored = {}
  BY <1>3, <1>4, <1>5, <1>6, <1>7 DEF Spans, Keep
<1>8. CASE stored # {}
  <2>1. oldest \in stored /\ newest \in stored /\ \A b \in stored : oldest <= b /\ b <= newest
    BY <1>1, <1>8 DEF Spans
  <2>2. oldest' \in stored' /\ newest' \in stored'
    BY <1>3, <2>1 DEF Keep
  <2>3. /\ oldest' <= oldest /\ oldest' <= first
        /\ newest <= newest' /\ last <= newest'
    <3>1. /\ newest' = IF last > newest THEN last ELSE newest
          /\ oldest' = IF first < oldest THEN first ELSE oldest
      BY <1>8 DEF Keep
    <3> QED
      BY <1>1, <1>2, <3>1
  <2>4. \A b \in stored' : oldest' <= b /\ b <= newest'
    <3>1. ASSUME NEW b \in stored PROVE oldest' <= b /\ b <= newest'
      BY <1>1, <1>2, <1>5, <2>1, <2>3
    <3>2. ASSUME NEW b \in batch PROVE oldest' <= b /\ b <= newest'
      BY <1>1, <1>2, <1>5, <1>6, <2>3
    <3> QED
      BY <1>3, <3>1, <3>2
  <2> QED
    BY <1>4, <1>5, <2>2, <2>4 DEF Spans
<1> QED
  BY <1>7, <1>8

\* A batch without a hole, from right below what is kept or the oldest bar again,
\* leaves none.
LEMMA KeepWhole ==
  ASSUME PagerTypeOK, UNCHANGED <<market, clock>>,
         NEW batch \in SUBSET Made, NEW first \in batch, NEW last \in batch,
         Spans(batch, first, last), Keep(batch, first, last),
         \A b \in Made : first <= b /\ b <= last => b \in batch,
         stored # {} => /\ Whole
                        /\ \/ last < oldest /\ \A b \in market : ~(last < b /\ b < oldest)
                           \/ first = oldest /\ last = oldest
  PROVE  Whole' /\ Below(first - 1)'
<1>1. /\ market \subseteq Nat /\ clock \in Nat
      /\ stored \subseteq Made /\ oldest \in Nat /\ newest \in Nat
      /\ stored # {} => Spans(stored, oldest, newest)
  BY Market DEF PagerTypeOK, Made
<1>2. first \in Nat /\ last \in Nat /\ first \in market /\ last <= clock
  BY <1>1 DEF Made
<1>3. stored' = stored \cup batch /\ first <= last
  BY DEF Keep, Spans
<1>4. CASE stored = {}
  <2>1. oldest' = first /\ newest' = last
    BY <1>4 DEF Keep
  <2>2. \A b \in market : first <= b /\ b <= last => b \in Made
    BY <1>1, <1>2 DEF Made
  <2> QED
    BY <1>1, <1>2, <1>3, <2>1, <2>2 DEF Whole, Below
<1>5. CASE stored # {}
  <2>1. /\ oldest \in stored /\ newest \in stored /\ oldest <= newest
        /\ oldest <= clock /\ newest <= clock
    BY <1>1, <1>5 DEF Spans, Made
  <2>2. Whole
    BY <1>5
  <2>3. CASE first = oldest /\ last = oldest
    <3>1. oldest' = oldest /\ newest' = newest
      BY <1>1, <1>2, <1>5, <2>1, <2>3 DEF Keep
    <3> QED
      BY <1>1, <1>2, <1>3, <2>2, <2>3, <3>1 DEF Whole, Below
  <2>4. CASE last < oldest /\ \A b \in market : ~(last < b /\ b < oldest)
    <3>1. oldest' = first /\ newest' = newest
      BY <1>1, <1>2, <1>3, <1>5, <2>1, <2>4 DEF Keep
    <3>2. ASSUME NEW b \in market, first <= b, b <= newest PROVE b \in stored'
      <4>1. CASE oldest <= b
        BY <1>3, <2>2, <3>2, <4>1 DEF Whole
      <4>2. CASE b <= last
        <5>1. b \in Made
          BY <1>1, <1>2, <4>2 DEF Made
        <5> QED
          BY <1>3, <3>2, <4>2, <5>1
      <4> QED
        BY <1>1, <1>2, <2>4, <4>1, <4>2
    <3>3. first - 1 < first /\ \A b \in market : ~(first - 1 < b /\ b < first)
      BY <1>1, <1>2
    <3> QED
      BY <3>1, <3>2, <3>3 DEF Whole, Below
  <2> QED
    BY <1>5, <2>3, <2>4
<1> QED
  BY <1>4, <1>5

-----------------------------------------------------------------------------
(* The answers of the server.                                              *)

LEMMA Asked ==
  ASSUME PagerInv PROVE AskedEnd \in Int /\ end \in Int /\ (latest => AskedEnd = clock)
  BY Market DEF PagerInv, PagerTypeOK, AskedEnd

\* An answer of candles has been made, and has every bar between its ends.
LEMMA CandlesFull ==
  ASSUME PagerInv, NEW first \in Candles, NEW last \in Candles
  PROVE  /\ Candles \in SUBSET Made
         /\ \A b \in Made : first <= b /\ b <= last => b \in Candles
<1>1. AskedEnd \in Int /\ Window \in Nat /\ market \subseteq Nat /\ clock \in Nat
  BY Asked, Steps, Market DEF PagerInv
<1>2. \A b : b \in Candles <=> /\ b \in market /\ AskedEnd - Window <= b
                               /\ b <= AskedEnd /\ b <= clock
  BY DEF Candles, Bars
<1>3. Candles \in SUBSET Made
  BY <1>2 DEF Made
<1>4. ASSUME NEW b \in Made, first <= b, b <= last PROVE b \in Candles
  <2>1. b \in Int /\ b \in market /\ b <= clock /\ first \in Int /\ last \in Int
    <3>1. b \in market /\ b <= clock
      BY DEF Made
    <3>2. first \in market /\ last \in market
      BY <1>2
    <3> QED
      BY <1>1, <3>1, <3>2
  <2>2. AskedEnd - Window <= first /\ last <= AskedEnd
    BY <1>2
  <2>3. AskedEnd - Window <= b /\ b <= AskedEnd
    BY <1>1, <1>4, <2>1, <2>2
  <2> QED
    BY <1>2, <2>1, <2>3
<1> QED
  BY <1>3, <1>4

\* It comes from right below what is kept, or is the oldest bar kept, unless its
\* newest is later than was asked for.
LEMMA CandlesBelow ==
  ASSUME PagerInv, stage = "paging", NEW first \in Candles, NEW last \in Candles,
         Spans(Candles, first, last), ~Substituted(last), stored # {}, ~refused
  PROVE  /\ Whole
         /\ \/ last < oldest /\ \A b \in market : ~(last < b /\ b < oldest)
            \/ first = oldest /\ last = oldest
<1>1. /\ market \subseteq Nat /\ clock \in Nat /\ end \in Int /\ AskedEnd \in Int
      /\ \A a, b \in market : a < b => b - a >= Granularity
      /\ Granularity \in Nat /\ Window \in Nat
  BY Market, Asked, Steps DEF PagerInv
<1>2. Whole
  BY DEF PagerInv, NoHole, Whole
<1>3. ~latest /\ Below(end) /\ oldest \in stored /\ stored \subseteq Made
  BY DEF PagerInv, PagerTypeOK, Spans, Made
<1>4. /\ oldest \in market /\ oldest <= clock /\ end < oldest
      /\ \A b \in market : ~(end < b /\ b < oldest)
  BY <1>3 DEF Below, Made
<1>5. \A b : b \in Candles <=> /\ b \in market /\ AskedEnd - Window <= b
                               /\ b <= AskedEnd /\ b <= clock
  BY DEF Candles, Bars
<1>6. /\ first \in market /\ last \in market /\ first <= last
      /\ first \in Nat /\ last \in Nat /\ oldest \in Nat
  BY <1>1, <1>4, <1>5 DEF Spans
<1>7. last <= end + Granularity
  BY <1>1, <1>3, <1>6 DEF Substituted
<1>8. CASE PastBoundary
  <2>1. end < first /\ end < last
    BY <1>6, <1>8 DEF PastBoundary
  <2>2. oldest <= first
    BY <1>1, <1>4, <1>6, <2>1
  <2>3. ~(oldest < last)
    <3>1. oldest < last => last - oldest >= Granularity
      BY <1>1, <1>4, <1>6
    <3> QED
      BY <1>1, <1>4, <1>6, <1>7, <3>1
  <2> QED
    BY <1>2, <1>6, <2>2, <2>3
<1>9. CASE ~PastBoundary
  <2>1. AskedEnd = end
    BY <1>3, <1>9 DEF AskedEnd
  <2>2. last <= end /\ end - Window <= first
    BY <1>5, <2>1
  <2>3. ASSUME NEW b \in market, last < b, b < oldest PROVE FALSE
    <3>1. b \in Nat /\ b <= end
      BY <1>1, <1>4, <2>3
    <3>2. end - Window <= b /\ b <= clock
      BY <1>1, <1>4, <1>6, <2>2, <2>3, <3>1
    <3>3. b \in Candles
      BY <1>5, <2>1, <3>1, <3>2
    <3>4. b <= last
      BY <3>3 DEF Spans
    <3> QED
      BY <1>6, <2>3, <3>1, <3>4
  <2>4. last < oldest
    BY <1>1, <1>4, <1>6, <2>2
  <2> QED
    BY <1>2, <2>3, <2>4
<1> QED
  BY <1>8, <1>9

\* An empty answer leaves nothing between a step back and what is kept.
LEMMA EmptyBelow ==
  ASSUME PagerInv, stage = "paging", Candles = {}, ~latest, stored # {}, ~refused
  PROVE  Below(end - Day)
<1>1. /\ market \subseteq Nat /\ clock \in Nat /\ end \in Int
      /\ Window \in Nat /\ Day \in Nat /\ Day > 0 /\ Day <= Window
  BY Market, Asked, Steps DEF PagerInv
<1>2. Below(end) /\ oldest \in Made
  BY DEF PagerInv, PagerTypeOK, Spans, Made
<1>3. oldest \in Nat /\ oldest <= clock /\ end < oldest
  BY <1>1, <1>2 DEF Below, Made
<1>4. ASSUME NEW b \in market, end - Day < b, b < oldest PROVE FALSE
  <2>1. b \in Nat /\ b <= end
    BY <1>1, <1>2, <1>4 DEF Below
  <2>2. ~PastBoundary
    BY <1>1, <2>1 DEF PastBoundary
  <2>3. AskedEnd = end
    BY <2>2 DEF AskedEnd
  <2>4. end - Window <= b /\ b <= clock
    BY <1>1, <1>3, <1>4, <2>1
  <2>5. b \in Candles
    BY <2>1, <2>3, <2>4 DEF Candles, Bars
  <2> QED
    BY <2>5
<1> QED
  BY <1>1, <1>3, <1>4 DEF Below

\* An answer whose newest bar is later than was asked for comes from past the first
\* bar there is.
LEMMA SubstitutedPast ==
  ASSUME PagerInv, stage = "paging", NEW last \in Candles, Substituted(last),
         stored # {}, ~refused
  PROVE  \A b \in market : oldest <= b
<1>1. /\ market \subseteq Nat /\ clock \in Nat /\ end \in Int /\ AskedEnd \in Int
      /\ Granularity \in Nat
  BY Market, Asked, Steps DEF PagerInv
<1>2. ~latest /\ last > end + Granularity
  BY DEF Substituted
<1>3. last \in Nat /\ last <= AskedEnd
  BY <1>1 DEF Candles, Bars
<1>4. PastBoundary
  BY <1>1, <1>2, <1>3 DEF AskedEnd
<1>5. Below(end) /\ oldest \in Nat
  BY <1>2 DEF PagerInv, PagerTypeOK
<1> QED
  BY <1>1, <1>4, <1>5 DEF Below, PastBoundary

\* An answer of ticks has been made, and has every tick from its first on.
LEMMA TicksFull ==
  ASSUME PagerInv, NEW first \in Ticks
  PROVE  /\ Ticks \in SUBSET Made
         /\ \A b \in Bars(0, AskedEnd) : first <= b => b \in Ticks
         /\ \A b \in Bars(0, AskedEnd) : b \in Nat /\ b \in Made /\ b <= AskedEnd
<1>1. /\ AskedEnd \in Int /\ market \subseteq Nat /\ clock \in Nat /\ TickCap \in Nat
      /\ IsFiniteSet(market)
  BY Asked, Steps, Market DEF PagerInv
<1>2. \A b \in Bars(0, AskedEnd) : b \in Nat /\ b \in Made /\ b <= AskedEnd
  BY <1>1 DEF Bars, Made
<1>3. Ticks \in SUBSET Made
  BY <1>2 DEF Ticks
<1>4. ASSUME NEW b \in Bars(0, AskedEnd), first <= b PROVE b \in Ticks
  <2> DEFINE above(x) == Bars(x + 1, AskedEnd)
  <2>1. first \in Bars(0, AskedEnd) /\ Cardinality(above(first)) < TickCap
    BY DEF Ticks
  <2>2. above(b) \subseteq above(first)
    <3>1. b \in Nat /\ first \in Nat
      BY <1>2, <2>1
    <3>2. ASSUME NEW y \in above(b) PROVE y \in above(first)
      <4>1. y \in market /\ b + 1 <= y /\ y <= AskedEnd /\ y <= clock
        BY DEF Bars
      <4>2. first + 1 <= y
        BY <1>1, <1>4, <3>1, <4>1
      <4> QED
        BY <4>1, <4>2 DEF Bars
    <3> QED
      BY <3>2
  <2>3. IsFiniteSet(above(first))
    <3>1. above(first) \in SUBSET market
      BY DEF Bars
    <3> HIDE DEF above
    <3> QED
      BY <1>1, <3>1, FS_Subset
  <2> HIDE DEF above
  <2>4. IsFiniteSet(above(b)) /\ Cardinality(above(b)) <= Cardinality(above(first))
    BY <2>2, <2>3, FS_Subset
  <2>5. Cardinality(above(b)) \in Nat /\ Cardinality(above(first)) \in Nat
    BY <2>3, <2>4, FS_CardinalityType
  <2>6. Cardinality(above(b)) < TickCap
    BY <1>1, <2>1, <2>4, <2>5
  <2> QED
    BY <1>4, <2>6 DEF Ticks, above
<1> QED
  BY <1>2, <1>3, <1>4

LEMMA TicksBelow ==
  ASSUME PagerInv, stage = "paging", NEW first \in Ticks, NEW last \in Ticks,
         Spans(Ticks, first, last), ~(~latest /\ first >= end), stored # {}, ~refused
  PROVE  /\ Whole
         /\ last < oldest /\ \A b \in market : ~(last < b /\ b < oldest)
<1>1. /\ market \subseteq Nat /\ clock \in Nat /\ end \in Int /\ AskedEnd \in Int
  BY Market, Asked DEF PagerInv
<1>2. Whole
  BY DEF PagerInv, NoHole, Whole
<1>3. ~latest /\ Below(end) /\ oldest \in stored /\ stored \subseteq Made
  BY DEF PagerInv, PagerTypeOK, Spans, Made
<1>4. /\ oldest \in Nat /\ oldest <= clock /\ end < oldest
      /\ \A b \in market : ~(end < b /\ b < oldest)
  BY <1>1, <1>3 DEF Below, Made
<1>5. first \in Bars(0, AskedEnd) /\ last \in Bars(0, AskedEnd) /\ first <= last
  BY DEF Ticks, Spans
<1>6. first \in Nat /\ last \in Nat /\ last <= AskedEnd /\ first \in market
  BY <1>1, <1>5 DEF Bars
<1>7. AskedEnd = end
  BY <1>1, <1>3, <1>6 DEF AskedEnd, PastBoundary
<1>8. ASSUME NEW b \in market, last < b, b < oldest PROVE FALSE
  <2>1. b \in Nat /\ b <= end /\ b <= clock
    BY <1>1, <1>4, <1>8
  <2>2. b \in Bars(0, AskedEnd)
    BY <1>7, <2>1 DEF Bars
  <2>3. first <= b
    BY <1>5, <1>6, <1>8, <2>1
  <2>4. b \in Ticks
    BY <2>2, <2>3, TicksFull
  <2> QED
    BY <1>6, <1>8, <2>1, <2>4 DEF Spans
<1>9. last < oldest
  BY <1>1, <1>4, <1>6, <1>7
<1> QED
  BY <1>2, <1>8, <1>9

\* An answer of ticks that is not older than was asked for comes from the first
\* tick there is.
LEMMA TicksExhausted ==
  ASSUME PagerInv, stage = "paging", NEW first \in Ticks, NEW last \in Ticks,
         Spans(Ticks, first, last), ~latest, first >= end, stored # {}, ~refused
  PROVE  (\A b \in market : oldest <= b) \/ (\A b \in market : first <= b)
<1>1. /\ market \subseteq Nat /\ clock \in Nat /\ end \in Int /\ AskedEnd \in Int
      /\ TickCap \in Nat /\ TickCap >= 2 /\ oldest \in Nat
  BY Market, Asked, Steps DEF PagerInv, PagerTypeOK
<1>2. Below(end)
  BY DEF PagerInv
<1>3. first \in Nat /\ first <= AskedEnd /\ first \in market /\ first <= clock
  BY <1>1 DEF Ticks, Bars
<1>4. CASE PastBoundary
  BY <1>1, <1>2, <1>4 DEF PastBoundary, Below
<1>5. CASE ~PastBoundary
  <2>1. AskedEnd = end /\ first = end
    BY <1>1, <1>3, <1>5 DEF AskedEnd
  <2>2. ASSUME NEW b \in market, b < first PROVE FALSE
    <3> DEFINE gaps == { end - y : y \in { x \in market : x < end } }
    <3>1. end - b \in gaps
      BY <2>1, <2>2
    <3>2. gaps \in SUBSET Nat /\ gaps # {}
      <4>1. ASSUME NEW y \in market, y < end PROVE end - y \in Nat
        BY ONLY <1>1, <4>1, y \in market
      <4> QED
        BY ONLY <3>1, <4>1
    <3>3. PICK n \in gaps : \A k \in gaps : n <= k
      <4> HIDE DEF gaps
      <4> QED
        BY <3>2, LeastNumber
    <3>4. PICK g \in market : g < end /\ n = end - g
      BY <3>3
    <3>5. g \in Nat /\ end \in Nat
      BY <1>1, <1>3, <2>1
    <3>6. ASSUME NEW y \in Bars(g + 1, AskedEnd) PROVE y = end
      <4>1. y \in market /\ y \in Nat /\ g + 1 <= y /\ y <= end
        BY <1>1, <2>1 DEF Bars
      <4>2. CASE y < end
        <5>1. end - y \in gaps
          BY <4>1, <4>2
        <5>2. n <= end - y
          BY <3>3, <5>1
        <5> QED
          BY <3>4, <3>5, <4>1, <5>2
      <4> QED
        BY <3>5, <4>1, <4>2
    <3>7. end \in Bars(g + 1, AskedEnd)
      BY <1>3, <2>1, <3>4, <3>5 DEF Bars
    <3>8. Bars(g + 1, AskedEnd) = {end}
      BY <3>6, <3>7
    <3>9. Cardinality({end}) = 1
      BY FS_Singleton
    <3>10. g \in Bars(0, AskedEnd)
      BY <1>1, <1>3, <2>1, <3>4, <3>5 DEF Bars
    <3>11. g \in Ticks
      BY <1>1, <3>8, <3>9, <3>10 DEF Ticks
    <3>12. first <= g
      BY <3>11 DEF Spans
    <3> QED
      BY <2>1, <3>4, <3>5, <3>12
  <2> QED
    BY <1>1, <1>3, <2>2
<1> QED
  BY <1>4, <1>5

-----------------------------------------------------------------------------
(* The steps.                                                              *)

LEMMA InitPager == PagerInit => PagerInv
<1> SUFFICES ASSUME PagerInit PROVE PagerInv
  OBVIOUS
<1>1. /\ stage = "start" /\ stored = {} /\ stop = "none" /\ refused = FALSE
      /\ end = From /\ oldest = 0 /\ newest = 0 /\ streak = 0 /\ requests = 0
      /\ pager \in Pager /\ market \in Markets /\ clock \in Clocks
      /\ latest = (pager \in {"candles", "ticks"})
  BY DEF PagerInit
<1>2. PagerTypeOK
  <2>1. latest \in BOOLEAN
    <3>1. (pager \in {"candles", "ticks"}) \in BOOLEAN
      OBVIOUS
    <3> QED
      BY <1>1, <3>1, Zenon
  <2>2. end \in Int
    BY <1>1, Steps
  <2>3. stored \subseteq { b \in market : b <= clock }
    BY <1>1
  <2>4. oldest \in Nat /\ newest \in Nat /\ streak \in Nat /\ requests \in Nat
    BY <1>1
  <2>5. refused \in BOOLEAN
    BY <1>1, Zenon
  <2>6. stored # {} => Spans(stored, oldest, newest)
    BY <1>1
  <2>7. stage \in {"start", "blocked", "paging", "done", "written"}
    BY <1>1
  <2> QED
    BY <1>1, <2>1, <2>2, <2>3, <2>4, <2>5, <2>6, <2>7, Zenon DEF PagerTypeOK
<1>3. NoHole /\ ExhaustedIsTrue
  BY <1>1 DEF NoHole, ExhaustedIsTrue
<1> QED
  BY <1>1, <1>2, <1>3 DEF PagerInv

\* A step that keeps no bar, and goes on or stops with an end that is known.
LEMMA NothingKept ==
  ASSUME PagerInv, stage = "paging", UNCHANGED <<pager, market, clock, kept>>,
         streak' \in Nat, requests' \in Nat, refused' \in BOOLEAN, refused => refused',
         \/ /\ stage' = "done" /\ UNCHANGED <<end, latest>>
            /\ stop' \in {"substitution", "no_progress"} =>
                 (stored # {} /\ ~refused => \A b \in market : oldest <= b)
         \/ /\ stage' = "paging" /\ stop' = stop /\ ~latest /\ latest' = FALSE
            /\ end' = end - Day
            /\ (stored # {} /\ ~refused') => Below(end - Day)
  PROVE  PagerInv'
<1>1. PagerTypeOK /\ NoHole /\ stop = "none"
  BY DEF PagerInv
<1>2. /\ pager' = pager /\ market' = market /\ clock' = clock
      /\ stored' = stored /\ oldest' = oldest /\ newest' = newest
  BY DEF kept
<1>3. PagerTypeOK'
  <2>1. end \in Int /\ latest \in BOOLEAN
    BY <1>1 DEF PagerTypeOK
  <2>2. latest' \in BOOLEAN
    BY <2>1, Zenon
  <2>3. end' \in Int
    BY <2>1, Steps
  <2>4. stage' \in {"start", "blocked", "paging", "done", "written"}
    OBVIOUS
  <2>5. /\ stored' \subseteq { b \in market' : b <= clock' }
        /\ stored' # {} => Spans(stored', oldest', newest')
    BY <1>1, <1>2 DEF PagerTypeOK
  <2> QED
    BY <1>1, <1>2, <2>2, <2>3, <2>4, <2>5 DEF PagerTypeOK
<1>4. NoHole'
  <2> SUFFICES ASSUME stored' # {}, ~refused'
               PROVE  \A b \in market' : oldest' <= b /\ b <= newest' => b \in stored'
    BY DEF NoHole
  <2>1. stored # {} /\ ~refused
    BY <1>2
  <2> QED
    BY <1>1, <1>2, <2>1 DEF NoHole
<1>5. ExhaustedIsTrue'
  <2> SUFFICES ASSUME stop' \in {"substitution", "no_progress"}, stored' # {}, ~refused'
               PROVE  \A b \in market' : oldest' <= b
    BY DEF ExhaustedIsTrue
  <2> QED
    BY <1>1, <1>2
<1>6. /\ stage' \notin {"start", "blocked"}
      /\ stage' = "paging" => stop' = "none" /\ ~latest' /\ ~latest
      /\ (stage' = "paging" /\ stored # {} /\ ~refused') => Below(end - Day) /\ end' = end - Day
  BY <1>1
<1>7. (stage' = "paging" /\ pager \in {"candles", "ticks"}) => stored # {}
  BY <1>6 DEF PagerInv
<1>8. (stage' = "paging" /\ stored' # {} /\ ~refused') => Below(end)'
  BY <1>2, <1>6 DEF Below
<1> QED
  BY <1>2, <1>3, <1>4, <1>5, <1>6, <1>7, <1>8 DEF PagerInv

\* A step that keeps a batch without a hole, and goes on from before it or stops.
LEMMA BatchKept ==
  ASSUME PagerInv, stage = "paging", UNCHANGED <<pager, market, clock, refused>>,
         streak' \in Nat, requests' \in Nat,
         NEW batch \in SUBSET Made, NEW first \in batch, NEW last \in batch,
         Spans(batch, first, last), Keep(batch, first, last),
         (stored = {} \/ ~refused) => Whole' /\ Below(first - 1)',
         \/ /\ stage' = "done" /\ UNCHANGED <<end, latest>>
            /\ stop' \notin {"substitution", "no_progress"}
         \/ stage' = "paging" /\ stop' = stop /\ latest' = FALSE /\ end' = first - 1
  PROVE  PagerInv'
<1>1. PagerTypeOK /\ stop = "none"
  BY DEF PagerInv
<1>2. /\ stored' \subseteq { b \in market' : b <= clock' } /\ stored' # {}
      /\ oldest' \in Nat /\ newest' \in Nat
      /\ Spans(stored', oldest', newest')
  BY <1>1, KeepTypes
<1>3. first \in Nat
  BY <1>1, Market DEF Made
<1>4. PagerTypeOK'
  <2>1. end \in Int /\ latest \in BOOLEAN
    BY <1>1 DEF PagerTypeOK
  <2>2. latest' \in BOOLEAN
    BY <2>1, Zenon
  <2>3. end' \in Int
    BY <1>3, <2>1
  <2>4. stage' \in {"start", "blocked", "paging", "done", "written"}
    OBVIOUS
  <2> QED
    BY <1>1, <1>2, <2>2, <2>3, <2>4 DEF PagerTypeOK
<1>5. NoHole'
  BY DEF NoHole, Whole
<1>6. ExhaustedIsTrue'
  BY <1>1 DEF ExhaustedIsTrue
<1>7. (stage' = "paging" /\ ~refused') => Below(end)'
  BY DEF Below
<1>8. /\ stage' \notin {"start", "blocked"}
      /\ stage' = "paging" => stop' = "none" /\ ~latest'
  BY <1>1
<1> QED
  BY <1>2, <1>4, <1>5, <1>6, <1>7, <1>8 DEF PagerInv

\* A page that is asked for and answered.
LEMMA Answered ==
  ASSUME PagerInv, NEW p \in Pager, Asks(p)
  PROVE  /\ stage = "paging" /\ pager = p /\ requests' \in Nat
         /\ streak \in Nat /\ streak + 1 \in Nat /\ refused \in BOOLEAN
         /\ UNCHANGED <<pager, market, clock>>
BY DEF PagerInv, PagerTypeOK, Asks

\* Asking again with no batch keeps what is known.
LEMMA EmptyKept ==
  ASSUME PagerInv, NEW p \in Pager, Asks(p), UNCHANGED kept,
         streak' = streak + 1, refused' \in BOOLEAN, refused => refused',
         Candles = {} \/ refused', ~latest, AsksAgain(end - Day)
  PROVE  PagerInv'
<1>1. (stored # {} /\ ~refused') => Below(end - Day)
  BY Answered, EmptyBelow
<1>2. stage' = "paging" /\ stop' = stop /\ latest' = FALSE /\ end' = end - Day
  BY Answered DEF AsksAgain
<1> QED
  BY <1>1, <1>2, Answered, NothingKept

\* Stopping with no batch, for another reason than the end of the history.
LEMMA StopKept ==
  ASSUME PagerInv, NEW p \in Pager, Asks(p), UNCHANGED kept,
         streak' \in Nat, refused' \in BOOLEAN, refused => refused',
         NEW reason, reason \notin {"substitution", "no_progress"}, Stops(reason)
  PROVE  PagerInv'
<1>1. /\ stage' = "done" /\ UNCHANGED <<end, latest>>
      /\ stop' \notin {"substitution", "no_progress"}
  BY DEF Stops
<1> QED
  BY <1>1, Answered, NothingKept

\* Stopping at an answer that is later than was asked for.
LEMMA SubstitutionKept ==
  ASSUME PagerInv, NEW p \in Pager, Asks(p), UNCHANGED <<kept, refused>>, streak' = 0,
         NEW last \in Candles, Substituted(last), Stops("substitution")
  PROVE  PagerInv'
<1>1. stage' = "done" /\ UNCHANGED <<end, latest>>
  BY DEF Stops
<1>2. stored # {} /\ ~refused => \A b \in market : oldest <= b
  BY Answered, SubstitutedPast
<1> QED
  BY <1>1, <1>2, Answered, NothingKept

\* Keeping an answer of candles.
LEMMA CandlesKept ==
  ASSUME PagerInv, NEW p \in Pager, Asks(p), UNCHANGED refused, streak' = 0,
         NEW first \in Candles, NEW last \in Candles, Spans(Candles, first, last),
         ~Substituted(last), Keep(Candles, first, last),
         NEW reason, reason \notin {"substitution", "no_progress"},
         Stops(reason) \/ AsksAgain(first - 1)
  PROVE  PagerInv'
<1>1. /\ Candles \in SUBSET Made
      /\ \A b \in Made : first <= b /\ b <= last => b \in Candles
  BY CandlesFull
<1>2. PagerTypeOK
  BY DEF PagerInv
<1>3. (stored # {} /\ ~refused) =>
        /\ Whole
        /\ \/ last < oldest /\ \A b \in market : ~(last < b /\ b < oldest)
           \/ first = oldest /\ last = oldest
  BY Answered, CandlesBelow
<1>4. UNCHANGED <<pager, market, clock>> /\ stage = "paging" /\ requests' \in Nat
  BY Answered
<1>5. PICK batch \in SUBSET Made : batch = Candles
  BY <1>1
<1>6. /\ first \in batch /\ last \in batch /\ Spans(batch, first, last)
      /\ Keep(batch, first, last)
      /\ \A b \in Made : first <= b /\ b <= last => b \in batch
  BY <1>1, <1>5
<1>7. (stored = {} \/ ~refused) => Whole' /\ Below(first - 1)'
  BY <1>2, <1>3, <1>4, <1>6, KeepWhole
<1>8. \/ /\ stage' = "done" /\ UNCHANGED <<end, latest>>
         /\ stop' \notin {"substitution", "no_progress"}
      \/ stage' = "paging" /\ stop' = stop /\ latest' = FALSE /\ end' = first - 1
  BY <1>4 DEF Stops, AsksAgain
<1> QED
  BY <1>4, <1>6, <1>7, <1>8, BatchKept

\* Keeping an answer of ticks that is older than was asked for.
LEMMA TicksKept ==
  ASSUME PagerInv, Asks("ticks"), UNCHANGED <<streak, refused>>,
         NEW first \in Ticks, NEW last \in Ticks, Spans(Ticks, first, last),
         Keep(Ticks, first, last), ~(~latest /\ first >= end),
         Stops("target_reached") \/ AsksAgain(first - 1)
  PROVE  PagerInv'
<1>1. /\ UNCHANGED <<pager, market, clock>> /\ stage = "paging"
      /\ requests' \in Nat /\ streak' \in Nat
  BY Answered DEF Pager
<1>2. /\ Ticks \in SUBSET Made
      /\ \A b \in Bars(0, AskedEnd) : first <= b => b \in Ticks
  BY TicksFull
<1>3. PagerTypeOK /\ AskedEnd \in Int /\ clock \in Nat /\ market \subseteq Nat
  BY Asked, Market DEF PagerInv
<1>4. ASSUME NEW b \in Made, first <= b, b <= last PROVE b \in Ticks
  <2>1. last \in Int /\ last <= AskedEnd /\ b \in market /\ b <= clock /\ b \in Nat
    BY <1>3 DEF Ticks, Bars, Made
  <2>2. b <= AskedEnd
    BY <1>3, <1>4, <2>1
  <2>3. b \in Bars(0, AskedEnd)
    BY <2>1, <2>2 DEF Bars
  <2> QED
    BY <1>2, <1>4, <2>3
<1>5. (stored # {} /\ ~refused) =>
        Whole /\ last < oldest /\ \A b \in market : ~(last < b /\ b < oldest)
  BY <1>1, TicksBelow
<1>6. PICK batch \in SUBSET Made : batch = Ticks
  BY <1>2
<1>7. /\ first \in batch /\ last \in batch /\ Spans(batch, first, last)
      /\ Keep(batch, first, last)
      /\ \A b \in Made : first <= b /\ b <= last => b \in batch
  BY <1>4, <1>6
<1>8. (stored = {} \/ ~refused) => Whole' /\ Below(first - 1)'
  BY <1>1, <1>3, <1>5, <1>7, KeepWhole
<1>9. \/ /\ stage' = "done" /\ UNCHANGED <<end, latest>>
         /\ stop' \notin {"substitution", "no_progress"}
      \/ stage' = "paging" /\ stop' = stop /\ latest' = FALSE /\ end' = first - 1
  BY <1>1 DEF Stops, AsksAgain
<1> QED
  BY <1>1, <1>7, <1>8, <1>9, BatchKept

\* Keeping an answer of ticks that is not older, and stopping.
LEMMA ProgressKept ==
  ASSUME PagerInv, Asks("ticks"), UNCHANGED <<streak, refused>>,
         NEW first \in Ticks, NEW last \in Ticks, Spans(Ticks, first, last),
         Keep(Ticks, first, last), ~latest, first >= end, Stops("no_progress")
  PROVE  PagerInv'
<1>1. /\ UNCHANGED <<pager, market, clock>> /\ stage = "paging" /\ pager = "ticks"
      /\ requests' \in Nat /\ streak' \in Nat /\ refused' \in BOOLEAN
  BY Answered DEF Pager
<1>2. PagerTypeOK /\ stored # {}
  BY <1>1 DEF PagerInv
<1>3. PICK batch \in SUBSET Made : batch = Ticks
  BY TicksFull
<1>4. /\ first \in batch /\ last \in batch /\ Spans(batch, first, last)
      /\ Keep(batch, first, last)
  BY <1>3
<1>5. /\ stored' \subseteq { b \in market' : b <= clock' } /\ stored' # {}
      /\ oldest' \in Nat /\ newest' \in Nat
      /\ Spans(stored', oldest', newest')
  BY <1>1, <1>2, <1>4, KeepTypes
<1>6. stage' = "done" /\ stop' = "no_progress" /\ UNCHANGED <<end, latest>>
  BY DEF Stops
<1>7. PagerTypeOK'
  <2>1. end' \in Int /\ latest' \in BOOLEAN
    BY <1>2, <1>6 DEF PagerTypeOK
  <2>2. stage' \in {"start", "blocked", "paging", "done", "written"}
    BY <1>6
  <2> QED
    BY <1>1, <1>2, <1>5, <2>1, <2>2 DEF PagerTypeOK
<1>8. ExhaustedIsTrue'
  <2> SUFFICES ASSUME ~refused PROVE \A b \in market : oldest' <= b
    BY <1>1 DEF ExhaustedIsTrue
  <2>1. (\A b \in market : oldest <= b) \/ (\A b \in market : first <= b)
    BY <1>1, <1>2, TicksExhausted
  <2>2. oldest' <= oldest /\ oldest' <= first
    <3>1. oldest' = IF first < oldest THEN first ELSE oldest
      BY <1>2 DEF Keep
    <3>2. oldest \in Nat /\ first \in Nat
      BY <1>2, <1>3, <1>4, Market DEF PagerTypeOK, Made
    <3> QED
      BY <3>1, <3>2
  <2>3. market \subseteq Nat /\ oldest \in Nat /\ first \in Nat
    BY <1>2, <1>3, <1>4, Market DEF PagerTypeOK, Made
  <2> QED
    BY <1>5, <2>1, <2>2, <2>3
<1>9. NoHole'
  BY <1>6 DEF NoHole
<1> QED
  BY <1>6, <1>7, <1>8, <1>9 DEF PagerInv

\* What a full page does, whatever ends the fetch.
AnyFullPage(p, reason) ==
    /\ Asks(p) /\ streak' = 0 /\ UNCHANGED refused
    /\ \E first, last \in Candles :
         /\ Spans(Candles, first, last)
         /\ \/ Substituted(last) /\ Stops("substitution") /\ UNCHANGED kept
            \/ /\ ~Substituted(last)
               /\ Keep(Candles, first, last)
               /\ Stops(reason) \/ AsksAgain(first - 1)

\* A page of the screen or of the programs that match a reference.
LEMMA PageKept ==
  ASSUME PagerInv, NEW p \in {"screen", "offset", "provenance"},
         NEW reason, reason \notin {"substitution", "no_progress"},
         EmptyPage(p) \/ FailedPage(p) \/ AnyFullPage(p, reason)
  PROVE  PagerInv'
<1>1. p \in Pager
  BY DEF Pager
<1>2. CASE EmptyPage(p)
  <2>1. /\ Asks(p) /\ Candles = {} /\ streak' = streak + 1
        /\ UNCHANGED <<kept, refused>>
        /\ Stops("consecutive_empty") \/ AsksAgain(end - Day)
    BY <1>2 DEF EmptyPage
  <2>2. streak' \in Nat /\ refused' \in BOOLEAN /\ pager = p /\ stage = "paging"
    BY <1>1, <2>1, Answered
  <2>3. ~latest
    BY <2>2 DEF PagerInv
  <2> QED
    BY <1>1, <2>1, <2>2, <2>3, StopKept, EmptyKept
<1>3. CASE FailedPage(p)
  <2>1. /\ Asks(p) /\ Stops("transport") /\ UNCHANGED <<kept, streak, refused>>
    BY <1>3 DEF FailedPage
  <2>2. streak' \in Nat /\ refused' \in BOOLEAN
    BY <1>1, <2>1, Answered
  <2> QED
    BY <1>1, <2>1, <2>2, StopKept
<1>4. CASE AnyFullPage(p, reason)
  <2>1. Asks(p) /\ streak' = 0 /\ UNCHANGED refused
    BY <1>4 DEF AnyFullPage
  <2>2. PICK first \in Candles, last \in Candles :
          /\ Spans(Candles, first, last)
          /\ \/ Substituted(last) /\ Stops("substitution") /\ UNCHANGED kept
             \/ /\ ~Substituted(last)
                /\ Keep(Candles, first, last)
                /\ Stops(reason) \/ AsksAgain(first - 1)
    BY <1>4 DEF AnyFullPage
  <2> QED
    BY <1>1, <2>1, <2>2, SubstitutionKept, CandlesKept
<1> QED
  BY <1>2, <1>3, <1>4

LEMMA NextPager == PagerInv /\ [PagerNext]_pagerVars => PagerInv'
<1> SUFFICES ASSUME PagerInv, [PagerNext]_pagerVars PROVE PagerInv'
  OBVIOUS
<1> USE DEF Pager
<1>1. CASE UNCHANGED pagerVars
  BY <1>1 DEF PagerInv, PagerTypeOK, NoHole, ExhaustedIsTrue, Below, Spans, pagerVars, kept
<1>2. CASE StartFetch
  <2>1. /\ UNCHANGED <<pager, market, clock, end, latest, stored, oldest, newest>>
        /\ UNCHANGED <<streak, requests, refused, stop>>
        /\ stage = "start" /\ stage' \in {"blocked", "paging"}
    BY <1>2 DEF StartFetch, kept
  <2>2. stored = {} /\ (latest <=> pager \in {"candles", "ticks"})
    BY <2>1 DEF PagerInv
  <2>3. PagerTypeOK'
    BY <2>1 DEF PagerInv, PagerTypeOK, Spans
  <2>4. NoHole' /\ ExhaustedIsTrue'
    BY <2>1, <2>2 DEF NoHole, ExhaustedIsTrue
  <2> QED
    BY <2>1, <2>2, <2>3, <2>4 DEF PagerInv
<1>3. CASE NewBar
  <2>1. /\ UNCHANGED <<pager, market, stage, end, latest, stored, oldest, newest>>
        /\ UNCHANGED <<streak, requests, refused, stop>>
        /\ clock' = clock + Granularity /\ clock' \in Clocks
    BY <1>3 DEF NewBar, kept
  <2>2. clock \in Nat /\ clock' \in Nat /\ clock <= clock' /\ market \subseteq Nat
    BY <2>1, Steps, Market DEF PagerInv
  <2>3. stored' \subseteq { b \in market' : b <= clock' }
    BY <2>1, <2>2 DEF PagerInv, PagerTypeOK
  <2>4. PagerTypeOK'
    BY <2>1, <2>3 DEF PagerInv, PagerTypeOK, Spans
  <2> QED
    BY <2>1, <2>4 DEF PagerInv, NoHole, ExhaustedIsTrue, Below
<1>4. CASE CandlesNoFrame
  BY <1>4, Answered, StopKept DEF CandlesNoFrame
<1>5. ASSUME NEW error \in BOOLEAN, CandlesEmpty(error) PROVE PagerInv'
  <2>1. /\ Asks("candles") /\ UNCHANGED kept /\ streak' = streak + 1
        /\ error \/ Candles = {}
        /\ refused' = (refused \/ error)
    BY <1>5 DEF CandlesEmpty
  <2>2. refused' \in BOOLEAN /\ (refused => refused') /\ (Candles = {} \/ refused')
    BY <2>1, Zenon
  <2>3. \/ Stops("consecutive_empty") \/ Stops("empty_at_latest")
        \/ ~latest /\ AsksAgain(end - Day)
    BY <1>5 DEF CandlesEmpty
  <2> QED
    BY <2>1, <2>2, <2>3, Answered, StopKept, EmptyKept
<1>6. CASE CandlesBatch
  <2>1. Asks("candles") /\ streak' = 0 /\ UNCHANGED refused
    BY <1>6 DEF CandlesBatch
  <2>2. PICK first \in Candles, last \in Candles :
          /\ Spans(Candles, first, last)
          /\ \/ Substituted(last) /\ Stops("substitution") /\ UNCHANGED kept
             \/ /\ ~Substituted(last)
                /\ Keep(Candles, first, last)
                /\ Stops("target_reached") \/ AsksAgain(first - 1)
    BY <1>6 DEF CandlesBatch
  <2> QED
    BY <2>1, <2>2, SubstitutionKept, CandlesKept
<1>7. CASE TicksBatch
  <2>1. Asks("ticks") /\ UNCHANGED <<streak, refused>>
    BY <1>7 DEF TicksBatch
  <2>2. PICK first \in Ticks, last \in Ticks :
          /\ Spans(Ticks, first, last)
          /\ Keep(Ticks, first, last)
          /\ \/ ~latest /\ first >= end /\ Stops("no_progress")
             \/ /\ ~(~latest /\ first >= end)
                /\ Stops("target_reached") \/ AsksAgain(first - 1)
    BY <1>7 DEF TicksBatch
  <2> QED
    BY <2>1, <2>2, TicksKept, ProgressKept
<1>8. CASE TicksUnusable
  BY <1>8, Answered, StopKept DEF TicksUnusable
<1>9. CASE ScreenPage
  <2>1. EmptyPage("screen") \/ FailedPage("screen") \/ AnyFullPage("screen", "sufficient")
    BY <1>9 DEF ScreenPage, FullPage, AnyFullPage
  <2> QED
    BY <2>1, PageKept
<1>10. CASE OffsetPage
  <2>1. EmptyPage("offset") \/ FailedPage("offset") \/ AnyFullPage("offset", "covered")
    BY <1>10 DEF OffsetPage, FullPage, AnyFullPage
  <2> QED
    BY <2>1, PageKept
<1>11. CASE ProvenancePage
  <2>1. EmptyPage("provenance") \/ FailedPage("provenance") \/ AnyFullPage("provenance", "covered")
    BY <1>11 DEF ProvenancePage, FullPage, AnyFullPage
  <2> QED
    BY <2>1, PageKept
<1>12. CASE OutOfRequests
  <2>1. /\ stage = "paging" /\ UNCHANGED <<pager, market, clock, kept>>
        /\ UNCHANGED <<streak, requests, refused, end, latest>>
        /\ stage' = "done" /\ stop' = "max_requests"
    BY <1>12 DEF OutOfRequests, Stops
  <2>2. streak' \in Nat /\ requests' \in Nat /\ refused' \in BOOLEAN
    BY <2>1 DEF PagerInv, PagerTypeOK
  <2> QED
    BY <2>1, <2>2, NothingKept
<1>13. CASE WriteSeries
  <2>1. /\ UNCHANGED <<pager, market, clock, end, latest, stored, oldest, newest>>
        /\ UNCHANGED <<streak, requests, refused, stop>>
        /\ stage' = "written"
    BY <1>13 DEF WriteSeries, kept
  <2>2. PagerTypeOK'
    BY <2>1 DEF PagerInv, PagerTypeOK, Spans
  <2>3. NoHole' /\ ExhaustedIsTrue'
    BY <2>1 DEF PagerInv, NoHole, ExhaustedIsTrue
  <2> QED
    BY <2>1, <2>2, <2>3 DEF PagerInv
<1> QED
  BY <1>1, <1>2, <1>3, <1>4, <1>5, <1>6, <1>7, <1>8, <1>9, <1>10, <1>11, <1>12, <1>13
     DEF PagerNext

-----------------------------------------------------------------------------

LEMMA FetchTyped == PagerSpec => []PagerInv
BY InitPager, NextPager, PTL DEF PagerSpec

\* No bar is missed: every bar between the oldest and the newest kept is kept
\* (NoHole of HistoryPager), whatever the market, the window and the step back.
THEOREM NothingMissed == PagerSpec => []NoHole
<1>1. PagerInv => NoHole
  BY DEF PagerInv
<1> QED
  BY <1>1, FetchTyped, PTL

\* A history reported as exhausted is: the oldest bar kept is the first there is
\* (ExhaustedIsTrue of HistoryPager: the defence against substituted data).
THEOREM ExhaustedMeansExhausted == PagerSpec => []ExhaustedIsTrue
<1>1. PagerInv => ExhaustedIsTrue
  BY DEF PagerInv
<1> QED
  BY <1>1, FetchTyped, PTL

-----------------------------------------------------------------------------
(* The replay of the breakout: its records.                                *)

Positions == [entered : Nat, side : {"long", "short"}, entry : Int, atr : Nat \ {0},
              risk : Nat \ {0}, stop : Int, trail : BOOLEAN]
TradeRows == [entered : Nat, exited : Nat, side : {"long", "short"}, entry : Int,
         risk : Nat \ {0}, r : Int, reason : {"stop", "trail"}]
Episodes == [state : {"inactive", "active", "frozen"}, high : Int, low : Int, left : Int]
Counts == [started : Nat, expired : Nat, consumed : Nat, ignored : Nat]

LEMMA Parameters ==
  /\ \A s \in AtrSeries : s \in Seq(Nat \ {0})
  /\ Closes \subseteq Int /\ Reaches \subseteq Nat
  /\ AtrPeriod \in Nat \ {0} /\ Lookback \in Nat \ {0} /\ StopAtr \in Nat \ {0}
  /\ TrailAtr \in Nat \ {0} /\ ExpiryBars \in Nat \ {0} /\ ActivateR \in Nat
  /\ FirstEvaluable \in Nat
BY BreakoutAssumption DEF FirstEvaluable

\* A position is opened at its close, its stop a multiple of the range away.
LEMMA OpenedTyped ==
  ASSUME NEW side \in {"long", "short"}, NEW c \in Int, bar \in Nat, atr[bar] \in Nat \ {0}
  PROVE  /\ Opened(side, c) \in Positions /\ Opened(side, c) # NoPosition
         /\ Opened(side, c).entered = bar /\ Opened(side, c).trail = FALSE
         /\ Opened(side, c).stop =
              Opened(side, c).entry - Sign(Opened(side, c).side) * Opened(side, c).risk
<1>1. PICK risk : risk = StopAtr * atr[bar]
  OBVIOUS
<1>2. risk \in Nat \ {0}
  BY <1>1, Parameters
<1>3. Sign(side) * risk \in Int
  BY <1>2 DEF Sign
<1>4. Opened(side, c) = [entered |-> bar, side |-> side, entry |-> c, atr |-> atr[bar],
                         risk |-> risk, stop |-> c - Sign(side) * risk, trail |-> FALSE]
  BY <1>1 DEF Opened
<1>5. Opened(side, c) \in Positions
  BY <1>2, <1>3, <1>4 DEF Positions
<1>6. Opened(side, c) # NoPosition
  BY <1>4 DEF NoPosition
<1> QED
  BY <1>4, <1>5, <1>6

\* The result of a position in hundredths of its risk.
LEMMA InRTyped ==
  ASSUME NEW p \in Positions, NEW c \in Int
  PROVE  /\ Gain(p, c) \in Int /\ InR(p, c) \in Int
         /\ Gain(p, c) <= -p.risk => InR(p, c) <= -100
<1>1. p.side \in {"long", "short"} /\ p.entry \in Int /\ p.risk \in Nat \ {0}
  BY DEF Positions
<1>2. Gain(p, c) \in Int
  BY <1>1 DEF Gain, Sign
<1>3. PICK g \in Int, k \in Nat \ {0} : g = Gain(p, c) /\ k = p.risk
  BY <1>1, <1>2
<1>4. (g * 100) \div k \in Int
  BY <1>3
<1>5. g <= -k => (g * 100) \div k <= -100
  BY <1>3, <1>4
<1> QED
  BY <1>2, <1>3, <1>4, <1>5 DEF InR

\* A position is managed: its stop only ratchets, and a stop that is not trailed
\* stays where it was put.
LEMMA ManagedTyped ==
  ASSUME NEW p \in Positions, NEW c \in Int
  PROVE  /\ Managed(p, c) \in Positions /\ Managed(p, c) # NoPosition
         /\ Managed(p, c).entered = p.entered /\ Managed(p, c).side = p.side
         /\ Managed(p, c).entry = p.entry /\ Managed(p, c).risk = p.risk
         /\ Sign(p.side) * (Managed(p, c).stop - p.stop) >= 0
         /\ p.trail => Managed(p, c).trail
         /\ ~Managed(p, c).trail => Managed(p, c).stop = p.stop
<1>1. /\ p.side \in {"long", "short"} /\ p.entry \in Int /\ p.risk \in Nat \ {0}
      /\ p.atr \in Nat \ {0} /\ p.stop \in Int /\ p.trail \in BOOLEAN /\ p.entered \in Nat
  BY DEF Positions
<1>2. PICK t \in BOOLEAN : t = (p.trail \/ InR(p, c) >= ActivateR)
  OBVIOUS
<1>3. PICK d : d = c - Sign(p.side) * TrailAtr * p.atr
  OBVIOUS
<1>4. d \in Int
  <2>1. Sign(p.side) \in Int
    BY DEF Sign
  <2>2. Sign(p.side) * TrailAtr \in Int
    BY <2>1, Parameters
  <2>3. Sign(p.side) * TrailAtr * p.atr \in Int
    BY <1>1, <2>2
  <2> QED
    BY <1>3, <2>3
<1>5. PICK s \in Int : s = IF t /\ Sign(p.side) * (d - p.stop) > 0 THEN d ELSE p.stop
  BY <1>1, <1>4
<1>6. Managed(p, c) = [p EXCEPT !.trail = t, !.stop = s]
  BY <1>2, <1>3, <1>5 DEF Managed
<1>7. /\ Managed(p, c) \in Positions /\ Managed(p, c).trail = t /\ Managed(p, c).stop = s
      /\ Managed(p, c).entered = p.entered /\ Managed(p, c).side = p.side
      /\ Managed(p, c).entry = p.entry /\ Managed(p, c).risk = p.risk
  BY <1>1, <1>6 DEF Positions
<1>8. Managed(p, c) # NoPosition
  BY <1>7 DEF Positions, NoPosition
<1>9. Sign(p.side) * (s - p.stop) >= 0
  BY <1>1, <1>4, <1>5 DEF Sign
<1>10. p.trail => t
  BY <1>2
<1> QED
  BY <1>5, <1>7, <1>8, <1>9, <1>10

\* An episode stays one.
LEMMA EpisodeTyped ==
  ASSUME episode \in Episodes, NEW quiet \in BOOLEAN, NEW c \in Int, NEW reach \in Nat
  PROVE  /\ EpisodeAt(quiet, c, reach) \in Episodes
         /\ episode.state = "inactive" =>
              EpisodeAt(quiet, c, reach).state = IF quiet THEN "active" ELSE "inactive"
         /\ episode.state # "inactive" => EpisodeAt(quiet, c, reach).state # "inactive"
<1>1. /\ episode.state \in {"inactive", "active", "frozen"}
      /\ episode.high \in Int /\ episode.low \in Int /\ episode.left \in Int
  BY DEF Episodes
<1>2. CASE episode.state = "inactive" /\ quiet
  BY <1>2 DEF EpisodeAt, Episodes
<1>3. CASE episode.state = "active" /\ quiet
  <2>1. PICK h \in Int, l \in Int :
          h = Larger(episode.high, c + reach) /\ l = Smaller(episode.low, c - reach)
    BY <1>1 DEF Larger, Smaller
  <2>2. EpisodeAt(quiet, c, reach) = [episode EXCEPT !.high = h, !.low = l]
    BY <1>3, <2>1 DEF EpisodeAt
  <2> QED
    BY <1>3, <2>2 DEF Episodes
<1>4. CASE episode.state = "active" /\ ~quiet
  <2>1. EpisodeAt(quiet, c, reach) = [episode EXCEPT !.state = "frozen", !.left = ExpiryBars]
    BY <1>4 DEF EpisodeAt
  <2>2. ExpiryBars \in Int
    BY Parameters
  <2>3. EpisodeAt(quiet, c, reach) \in Episodes
    BY <2>1, <2>2 DEF Episodes
  <2>4. EpisodeAt(quiet, c, reach).state = "frozen"
    BY <2>1 DEF Episodes
  <2> QED
    BY <1>4, <2>3, <2>4
<1>5. CASE episode.state = "frozen" \/ (episode.state = "inactive" /\ ~quiet)
  BY <1>1, <1>5 DEF EpisodeAt, Episodes
<1> QED
  BY <1>1, <1>2, <1>3, <1>4, <1>5

-----------------------------------------------------------------------------
(* The replay of the breakout: its steps.                                  *)

BreakoutTypes ==
    /\ atr \in Seq(Nat \ {0}) /\ bar \in Nat \ {0}
    /\ phase \in {"start", "replay", "traded", "ended", "died"}
    /\ episode \in Episodes /\ trades \in Seq(TradeRows) /\ funnel \in Counts
    /\ position # NoPosition => position \in Positions

\* What an open position remembers of its entry.
PositionKnown ==
    position # NoPosition =>
        /\ FirstEvaluable < position.entered /\ position.entered < bar
        /\ ~position.trail => position.stop = position.entry - Sign(position.side) * position.risk

BreakoutInv ==
    /\ BreakoutTypes /\ EpisodesAccounted /\ TradesApart /\ PositionKnown
    /\ \A i \in DOMAIN trades : trades[i].exited < bar
    /\ phase = "start" => position = NoPosition /\ episode.state = "inactive" /\ trades = <<>>
    /\ phase = "replay" => bar >= FirstEvaluable
    /\ (phase = "replay" /\ bar = FirstEvaluable) => episode.state = "inactive"

LEMMA InitBreakout == BreakoutInit => BreakoutInv
<1> SUFFICES ASSUME BreakoutInit PROVE BreakoutInv
  OBVIOUS
<1>1. /\ atr \in Seq(Nat \ {0}) /\ phase = "start" /\ bar = 1 /\ trades = <<>>
      /\ episode = NoEpisode /\ position = NoPosition
      /\ funnel = [started |-> 0, expired |-> 0, consumed |-> 0, ignored |-> 0]
  BY Parameters DEF BreakoutInit
<1>2. episode \in Episodes /\ episode.state = "inactive"
  BY <1>1 DEF NoEpisode, Episodes
<1>3. funnel \in Counts /\ trades \in Seq(TradeRows)
  BY <1>1 DEF Counts
<1>4. BreakoutTypes
  BY <1>1, <1>2, <1>3 DEF BreakoutTypes
<1>5. EpisodesAccounted /\ TradesApart /\ PositionKnown
  BY <1>1, <1>2 DEF EpisodesAccounted, TradesApart, PositionKnown
<1> QED
  BY <1>1, <1>2, <1>4, <1>5 DEF BreakoutInv

\* What a bar does to the position, the trades and the counts.
LEMMA BarShape ==
  ASSUME BreakoutInv, NEW c \in Closes, NEW reach \in Reaches, ReplayBar(c, reach)
  PROVE  /\ phase = "replay" /\ phase' = "replay" /\ UNCHANGED atr
         /\ bar' = bar + 1 /\ atr[bar] \in Nat \ {0}
         /\ \E quiet, hit, broken, expired \in BOOLEAN, side \in {"long", "short", "none"} :
              /\ hit => /\ position # NoPosition /\ Hit(Managed(position, c), c)
                        /\ trades' = Append(trades, Trade(Managed(position, c), c))
              /\ ~hit => trades' = trades
              /\ broken <=> side # "none"
              /\ position' = IF broken /\ (hit \/ position = NoPosition) THEN Opened(side, c)
                             ELSE IF hit \/ position = NoPosition THEN NoPosition
                             ELSE Managed(position, c)
              /\ broken => EpisodeAt(quiet, c, reach).state = "frozen" /\ ~expired
              /\ expired => EpisodeAt(quiet, c, reach).state = "frozen"
              /\ broken \/ expired => episode' = NoEpisode
              /\ ~(broken \/ expired) =>
                   /\ episode' \in Episodes
                   /\ episode'.state = EpisodeAt(quiet, c, reach).state
              /\ funnel' = Counted(episode.state = "inactive" /\ quiet, expired, broken,
                                   broken /\ ~(hit \/ position = NoPosition))
<1>1. /\ phase = "replay" /\ phase' = "replay" /\ UNCHANGED atr /\ bar' = bar + 1
      /\ bar <= Len(atr) /\ bar \in Nat \ {0} /\ atr \in Seq(Nat \ {0})
  BY DEF ReplayBar, BreakoutInv, BreakoutTypes
<1>2. atr[bar] \in Nat \ {0}
  BY <1>1
<1> DEFINE quiet == Qualifies(window', atr[bar])
           managed == IF position = NoPosition THEN NoPosition ELSE Managed(position, c)
           hit == managed # NoPosition /\ Hit(managed, c)
           rest == IF hit THEN NoPosition ELSE managed
           e == EpisodeAt(quiet, c, reach)
           side == BreakoutSide(e, c)
           broken == side # "none"
           expired == e.state = "frozen" /\ ~broken /\ e.left <= 1
<1>3. /\ trades' = IF hit THEN Append(trades, Trade(managed, c)) ELSE trades
      /\ position' = IF broken /\ rest = NoPosition THEN Opened(side, c) ELSE rest
      /\ episode' = IF broken \/ expired THEN NoEpisode
                    ELSE IF e.state = "frozen" THEN [e EXCEPT !.left = @ - 1] ELSE e
      /\ funnel' = Counted(episode.state = "inactive" /\ quiet, expired, broken,
                           broken /\ rest # NoPosition)
  BY DEF ReplayBar
<1>4. quiet \in BOOLEAN /\ hit \in BOOLEAN /\ broken \in BOOLEAN /\ expired \in BOOLEAN
  BY DEF Qualifies
<1>5. side \in {"long", "short", "none"} /\ (broken => e.state = "frozen")
  BY DEF BreakoutSide
<1>6. position # NoPosition =>
        position \in Positions /\ Managed(position, c) # NoPosition
  BY ManagedTyped, Parameters DEF BreakoutInv, BreakoutTypes
<1>7. hit => position # NoPosition /\ managed = Managed(position, c) /\ Hit(managed, c)
  OBVIOUS
<1>8. /\ rest = IF hit \/ position = NoPosition THEN NoPosition ELSE Managed(position, c)
      /\ rest # NoPosition <=> ~(hit \/ position = NoPosition)
  BY <1>6
<1>9. e \in Episodes
  BY <1>4, EpisodeTyped, Parameters DEF BreakoutInv, BreakoutTypes
<1> HIDE DEF quiet, managed, hit, rest, e, side, broken, expired
<1>10. ~(broken \/ expired) => episode' \in Episodes /\ episode'.state = e.state
  <2>1. e.left - 1 \in Int
    BY <1>9 DEF Episodes
  <2>2. [e EXCEPT !.left = @ - 1] = [e EXCEPT !.left = e.left - 1]
    BY <1>9 DEF Episodes
  <2>3. /\ [e EXCEPT !.left = e.left - 1] \in Episodes
        /\ [e EXCEPT !.left = e.left - 1].state = e.state
    BY <1>9, <2>1 DEF Episodes
  <2> QED
    BY <1>3, <1>9, <2>2, <2>3
<1>11. PICK q, h, b, x \in BOOLEAN, s \in {"long", "short", "none"} :
         q = quiet /\ h = hit /\ b = broken /\ x = expired /\ s = side
  BY <1>4, <1>5
<1>12. /\ broken <=> side # "none"
       /\ expired => e.state = "frozen" /\ ~broken
  BY DEF broken, expired
<1>13. /\ h => /\ position # NoPosition /\ Hit(Managed(position, c), c)
               /\ trades' = Append(trades, Trade(Managed(position, c), c))
       /\ ~h => trades' = trades
  BY <1>3, <1>7, <1>11
<1>14. /\ b <=> s # "none"
       /\ position' = IF b /\ (h \/ position = NoPosition) THEN Opened(s, c)
                      ELSE IF h \/ position = NoPosition THEN NoPosition
                      ELSE Managed(position, c)
  <2>1. position' = IF b /\ rest = NoPosition THEN Opened(s, c) ELSE rest
    BY <1>3, <1>11
  <2>2. /\ rest = IF h \/ position = NoPosition THEN NoPosition ELSE Managed(position, c)
        /\ rest # NoPosition <=> ~(h \/ position = NoPosition)
    BY <1>8, <1>11
  <2> QED
    BY <1>11, <1>12, <2>1, <2>2
<1>15. /\ b => EpisodeAt(q, c, reach).state = "frozen" /\ ~x
       /\ x => EpisodeAt(q, c, reach).state = "frozen"
       /\ b \/ x => episode' = NoEpisode
       /\ ~(b \/ x) => /\ episode' \in Episodes
                       /\ episode'.state = EpisodeAt(q, c, reach).state
  BY <1>3, <1>5, <1>10, <1>11, <1>12 DEF e
<1>16. funnel' = Counted(episode.state = "inactive" /\ q, x, b,
                         b /\ ~(h \/ position = NoPosition))
  BY <1>3, <1>8, <1>11
<1> QED
  BY <1>1, <1>2, <1>13, <1>14, <1>15, <1>16

\* A position that is hit becomes a trade that ends at this bar.
LEMMA TradeTyped ==
  ASSUME BreakoutInv, NEW c \in Int, position # NoPosition, Hit(Managed(position, c), c)
  PROVE  LET t == Trade(Managed(position, c), c) IN
         /\ t \in TradeRows /\ t.entered = position.entered /\ t.exited = bar
         /\ t.reason = "stop" => t.r <= -100
<1>1. position \in Positions /\ bar \in Nat
  BY DEF BreakoutInv, BreakoutTypes
<1>2. PICK m \in Positions : m = Managed(position, c)
  BY <1>1, ManagedTyped
<1>3. /\ m.entered = position.entered /\ m.side = position.side
      /\ m.entry = position.entry /\ m.risk = position.risk
      /\ position.trail => m.trail
      /\ ~m.trail => m.stop = position.stop
  BY <1>1, <1>2, ManagedTyped
<1>4. /\ m.entered \in Nat /\ m.side \in {"long", "short"} /\ m.entry \in Int
      /\ m.risk \in Nat \ {0} /\ m.stop \in Int /\ m.trail \in BOOLEAN
  BY DEF Positions
<1>5. InR(m, c) \in Int /\ (Gain(m, c) <= -m.risk => InR(m, c) <= -100)
  BY <1>2, InRTyped
<1>6. ~m.trail => Gain(m, c) <= -m.risk
  <2> SUFFICES ASSUME ~m.trail PROVE Gain(m, c) <= -m.risk
    OBVIOUS
  <2>1. m.stop = m.entry - Sign(m.side) * m.risk
    BY <1>3 DEF BreakoutInv, PositionKnown
  <2>2. Sign(m.side) * (c - m.stop) <= 0
    BY <1>2 DEF Hit
  <2> QED
    BY <1>4, <2>1, <2>2 DEF Gain, Sign
<1>7. Trade(m, c) = [entered |-> m.entered, exited |-> bar, side |-> m.side, entry |-> m.entry,
                     risk |-> m.risk, r |-> InR(m, c),
                     reason |-> IF m.trail THEN "trail" ELSE "stop"]
  BY DEF Trade
<1>8. Trade(m, c) \in TradeRows
  BY <1>1, <1>4, <1>5, <1>7 DEF TradeRows
<1> QED
  BY <1>2, <1>3, <1>5, <1>6, <1>7, <1>8

LEMMA BarKept ==
  ASSUME BreakoutInv, NEW c \in Closes, NEW reach \in Reaches, ReplayBar(c, reach)
  PROVE  /\ BreakoutInv'
         /\ (position # NoPosition /\ position' # NoPosition
              /\ position'.entered = position.entered) =>
              /\ Sign(position.side) * (position'.stop - position.stop) >= 0
              /\ position.trail => position'.trail
<1>1. c \in Int /\ reach \in Nat
  BY Parameters
<1>2. /\ phase = "replay" /\ phase' = "replay" /\ UNCHANGED atr
      /\ bar' = bar + 1 /\ atr[bar] \in Nat \ {0}
  BY BarShape
<1>3. PICK quiet, hit, broken, expired \in BOOLEAN, side \in {"long", "short", "none"} :
         /\ hit => /\ position # NoPosition /\ Hit(Managed(position, c), c)
                   /\ trades' = Append(trades, Trade(Managed(position, c), c))
         /\ ~hit => trades' = trades
         /\ broken <=> side # "none"
         /\ position' = IF broken /\ (hit \/ position = NoPosition) THEN Opened(side, c)
                        ELSE IF hit \/ position = NoPosition THEN NoPosition
                        ELSE Managed(position, c)
         /\ broken => EpisodeAt(quiet, c, reach).state = "frozen" /\ ~expired
         /\ expired => EpisodeAt(quiet, c, reach).state = "frozen"
         /\ broken \/ expired => episode' = NoEpisode
         /\ ~(broken \/ expired) =>
              /\ episode' \in Episodes
              /\ episode'.state = EpisodeAt(quiet, c, reach).state
         /\ funnel' = Counted(episode.state = "inactive" /\ quiet, expired, broken,
                              broken /\ ~(hit \/ position = NoPosition))
  BY BarShape
<1> DEFINE opens == broken /\ (hit \/ position = NoPosition)
           stays == ~(hit \/ position = NoPosition)
<1>4. /\ atr \in Seq(Nat \ {0}) /\ bar \in Nat \ {0} /\ FirstEvaluable \in Nat
      /\ episode \in Episodes /\ trades \in Seq(TradeRows) /\ funnel \in Counts
      /\ position # NoPosition => position \in Positions
      /\ bar >= FirstEvaluable
      /\ bar = FirstEvaluable => episode.state = "inactive"
      /\ \A i \in DOMAIN trades : trades[i].exited < bar
      /\ TradesApart /\ EpisodesAccounted /\ PositionKnown
  BY <1>2, Parameters DEF BreakoutInv, BreakoutTypes
<1>5. broken => bar > FirstEvaluable
  BY <1>1, <1>3, <1>4, EpisodeTyped
<1>6. opens => /\ position' \in Positions /\ position' # NoPosition
               /\ position'.entered = bar /\ position'.trail = FALSE
               /\ position'.stop = position'.entry - Sign(position'.side) * position'.risk
  BY <1>1, <1>2, <1>3, <1>4, OpenedTyped
<1>7. stays => /\ position # NoPosition
               /\ position' \in Positions /\ position' # NoPosition
               /\ position'.entered = position.entered /\ position'.side = position.side
               /\ position'.entry = position.entry /\ position'.risk = position.risk
               /\ Sign(position.side) * (position'.stop - position.stop) >= 0
               /\ position.trail => position'.trail
               /\ ~position'.trail => position'.stop = position.stop
  BY <1>1, <1>3, <1>4, ManagedTyped
<1>8. (~opens /\ ~stays) => position' = NoPosition
  BY <1>3
<1>9. ~(opens /\ stays)
  OBVIOUS
<1> DEFINE t == Trade(Managed(position, c), c)
<1>10. hit => /\ t \in TradeRows /\ t.entered = position.entered /\ t.exited = bar
              /\ t.reason = "stop" => t.r <= -100
              /\ trades' = Append(trades, t) /\ position # NoPosition /\ ~stays
  BY <1>1, <1>3, TradeTyped
<1> HIDE DEF opens, stays, t
<1>11. BreakoutTypes'
  <2>1. bar' \in Nat \ {0} /\ atr' \in Seq(Nat \ {0})
    BY <1>2, <1>4
  <2>2. episode' \in Episodes
    BY <1>3 DEF NoEpisode, Episodes
  <2>3. trades' \in Seq(TradeRows)
    <3>1. CASE hit
      <4>1. trades \in Seq(TradeRows) /\ t \in TradeRows
        BY <1>4, <1>10, <3>1
      <4>2. Append(trades, t) \in Seq(TradeRows)
        BY ONLY <4>1
      <4> QED
        BY <1>10, <3>1, <4>2
    <3>2. CASE ~hit
      <4>1. trades' = trades
        BY <1>3, <3>2
      <4> QED
        BY <1>4, <4>1
    <3> QED
      BY <3>1, <3>2
  <2>4. funnel' \in Counts
    BY <1>3, <1>4, SMTT(30) DEF Counted, One, Counts
  <2>5. position' # NoPosition => position' \in Positions
    BY <1>6, <1>7, <1>8
  <2> QED
    BY <1>2, <2>1, <2>2, <2>3, <2>4, <2>5 DEF BreakoutTypes
<1>12. PositionKnown'
  <2>1. CASE opens
    BY <1>2, <1>4, <1>5, <1>6, <2>1 DEF PositionKnown, opens
  <2>2. CASE stays
    <3>1. /\ FirstEvaluable < position.entered /\ position.entered < bar
          /\ ~position.trail =>
               position.stop = position.entry - Sign(position.side) * position.risk
      BY <1>4, <1>7, <2>2 DEF PositionKnown
    <3>2. position.entered \in Nat
      BY <1>4, <1>7, <2>2 DEF Positions
    <3> QED
      BY <1>2, <1>4, <1>7, <2>2, <3>1, <3>2 DEF PositionKnown
  <2> QED
    BY <1>8, <2>1, <2>2 DEF PositionKnown
<1>13. EpisodesAccounted'
  <2>1. /\ funnel.started \in Nat /\ funnel.expired \in Nat
        /\ funnel.consumed \in Nat /\ funnel.ignored \in Nat
    BY <1>4 DEF Counts
  <2>2. /\ funnel'.started = funnel.started + One(episode.state = "inactive" /\ quiet)
        /\ funnel'.expired = funnel.expired + One(expired)
        /\ funnel'.consumed = funnel.consumed + One(broken)
        /\ funnel'.ignored = funnel.ignored + One(broken /\ stays)
    BY <1>3 DEF Counted, stays
  <2>3. episode'.state = "inactive" <=>
          \/ broken \/ expired
          \/ episode.state = "inactive" /\ ~quiet
    <3>1. /\ episode.state = "inactive" =>
               EpisodeAt(quiet, c, reach).state = IF quiet THEN "active" ELSE "inactive"
          /\ episode.state # "inactive" => EpisodeAt(quiet, c, reach).state # "inactive"
      BY <1>1, <1>4, EpisodeTyped
    <3>2. CASE broken \/ expired
      BY <1>3, <3>2 DEF NoEpisode
    <3>3. CASE ~(broken \/ expired)
      BY <1>3, <3>1, <3>3
    <3> QED
      BY <3>2, <3>3
  <2>4. (broken \/ expired) => ~(episode.state = "inactive")
    BY <1>1, <1>3, <1>4, EpisodeTyped
  <2>5. ~(broken /\ expired)
    BY <1>3
  <2>6. funnel.started = funnel.expired + funnel.consumed
                         + IF episode.state = "inactive" THEN 0 ELSE 1
    BY <1>4 DEF EpisodesAccounted
  <2>7. funnel'.started = funnel'.expired + funnel'.consumed
                          + IF episode'.state = "inactive" THEN 0 ELSE 1
    BY <2>1, <2>2, <2>3, <2>4, <2>5, <2>6 DEF One
  <2>8. /\ Len(trades) \in Nat
        /\ Len(trades') = Len(trades) + IF hit THEN 1 ELSE 0
    BY <1>3, <1>4, <1>10
  <2>9. funnel.consumed = funnel.ignored + Len(trades)
                          + IF position = NoPosition THEN 0 ELSE 1
    BY <1>4 DEF EpisodesAccounted
  <2>10. position' = NoPosition <=> ~opens /\ ~stays
    BY <1>6, <1>7, <1>8
  <2>11. funnel'.consumed = funnel'.ignored + Len(trades')
                            + IF position' = NoPosition THEN 0 ELSE 1
    <3>1. CASE hit
      <4>1. position # NoPosition /\ ~stays /\ (opens <=> broken)
        BY <1>10, <3>1 DEF opens
      <4>2. /\ Len(trades') = Len(trades) + 1
            /\ position' = NoPosition <=> ~broken
        BY <2>8, <2>10, <3>1, <4>1
      <4>3. funnel'.consumed = funnel.consumed + IF broken THEN 1 ELSE 0
        BY <2>2 DEF One
      <4>4. funnel'.ignored = funnel.ignored
        BY <2>1, <2>2, <4>1 DEF One
      <4> QED
        BY <2>1, <2>8, <2>9, <4>1, <4>2, <4>3, <4>4, SMTT(30)
    <3>2. CASE ~hit
      <4>1. /\ stays <=> position # NoPosition
            /\ opens <=> broken /\ position = NoPosition
        BY <3>2 DEF opens, stays
      <4>2. /\ Len(trades') = Len(trades)
            /\ position' = NoPosition <=> position = NoPosition /\ ~broken
        BY <2>8, <2>10, <3>2, <4>1
      <4>3. funnel'.consumed = funnel.consumed + IF broken THEN 1 ELSE 0
        BY <2>2 DEF One
      <4>4. funnel'.ignored =
              funnel.ignored + IF broken /\ position # NoPosition THEN 1 ELSE 0
        BY <2>2, <4>1 DEF One
      <4>5. CASE position = NoPosition
        BY <2>1, <2>8, <2>9, <4>2, <4>3, <4>4, <4>5
      <4>6. CASE position # NoPosition
        BY <2>1, <2>8, <2>9, <4>2, <4>3, <4>4, <4>6
      <4> QED
        BY <4>5, <4>6
    <3> QED
      BY <3>1, <3>2
  <2> QED
    BY <2>7, <2>11 DEF EpisodesAccounted
<1>14. \A i \in DOMAIN trades' : trades'[i].exited < bar'
  <2> SUFFICES ASSUME NEW i \in DOMAIN trades' PROVE trades'[i].exited < bar'
    OBVIOUS
  <2>1. CASE i \in DOMAIN trades
    <3>1. trades'[i] = trades[i]
      <4>1. CASE hit
        <5>1. trades' = Append(trades, t) /\ t \in TradeRows
          BY <1>10, <4>1
        <5> QED
          BY <1>4, <2>1, <5>1
      <4>2. CASE ~hit
        BY <1>3, <4>2
      <4> QED
        BY <4>1, <4>2
    <3>2. trades[i] \in TradeRows
      BY <1>4, <2>1
    <3>3. trades[i].exited \in Nat
      BY <3>2 DEF TradeRows
    <3>4. trades[i].exited < bar
      BY <1>4, <2>1
    <3> QED
      BY <1>2, <1>4, <3>1, <3>3, <3>4
  <2>2. CASE i \notin DOMAIN trades
    <3>1. trades'[i] = t /\ hit
      BY <1>3, <1>4, <1>10, <2>2
    <3> QED
      BY <1>2, <1>4, <1>10, <3>1
  <2> QED
    BY <2>1, <2>2
<1>15. TradesApart'
  <2>1. CASE ~hit
    <3>1. trades' = trades
      BY <1>3, <2>1
    <3>2. (trades # <<>> /\ position' # NoPosition) =>
            trades[Len(trades)].exited <= position'.entered
      <4>1. CASE opens
        <5>1. trades # <<>> => /\ Len(trades) \in DOMAIN trades
                               /\ trades[Len(trades)].exited \in Nat
          <6>1. trades # <<>> => /\ Len(trades) \in DOMAIN trades
                                 /\ trades[Len(trades)] \in TradeRows
            BY <1>4
          <6> QED
            BY <6>1 DEF TradeRows
        <5> QED
          BY <1>4, <1>6, <4>1, <5>1
      <4>2. CASE stays
        BY <1>4, <1>7, <4>2 DEF TradesApart
      <4> QED
        BY <1>8, <4>1, <4>2
    <3> QED
      BY <1>4, <3>1, <3>2 DEF TradesApart
  <2>2. CASE hit
    <3>1. /\ t \in TradeRows /\ t.entered = position.entered /\ t.exited = bar
          /\ t.reason = "stop" => t.r <= -100
          /\ trades' = Append(trades, t) /\ position # NoPosition /\ ~stays
      BY <1>10, <2>2
    <3>2. FirstEvaluable < position.entered /\ position.entered < bar
      BY <1>4, <3>1 DEF PositionKnown
    <3>3. ASSUME NEW i \in DOMAIN trades'
          PROVE  /\ FirstEvaluable < trades'[i].entered /\ trades'[i].entered < trades'[i].exited
                 /\ i < Len(trades') => trades'[i].exited <= trades'[i + 1].entered
                 /\ trades'[i].reason = "stop" => trades'[i].r <= -100
      <4>1. CASE i = Len(trades')
        <5>1. trades'[i] = t
          BY <1>4, <3>1, <4>1
        <5> QED
          BY <3>1, <3>2, <4>1, <5>1
      <4>2. CASE i # Len(trades')
        <5>1. i \in DOMAIN trades /\ trades'[i] = trades[i] /\ trades # <<>>
          BY <1>4, <3>1, <4>2
        <5>2. /\ FirstEvaluable < trades[i].entered /\ trades[i].entered < trades[i].exited
              /\ trades[i].reason = "stop" => trades[i].r <= -100
          BY <1>4, <5>1 DEF TradesApart
        <5>3. trades'[i].exited <= trades'[i + 1].entered
          <6>1. CASE i = Len(trades)
            <7>1. trades[i].exited <= position.entered
              BY <1>4, <3>1, <5>1, <6>1 DEF TradesApart
            <7>2. trades'[i + 1] = t
              BY <1>4, <3>1, <6>1
            <7> QED
              BY <3>1, <5>1, <7>1, <7>2
          <6>2. CASE i # Len(trades)
            <7>1. i < Len(trades) /\ trades'[i + 1] = trades[i + 1]
              BY <1>4, <3>1, <5>1, <6>2
            <7> QED
              BY <1>4, <5>1, <7>1 DEF TradesApart
          <6> QED
            BY <6>1, <6>2
        <5> QED
          BY <5>1, <5>2, <5>3
      <4> QED
        BY <4>1, <4>2
    <3>4. position' # NoPosition => trades'[Len(trades')].exited <= position'.entered
      <4>1. trades'[Len(trades')] = t
        BY <1>4, <3>1
      <4> QED
        BY <1>4, <1>6, <1>8, <3>1, <4>1
    <3> QED
      BY <3>3, <3>4 DEF TradesApart
  <2> QED
    BY <2>1, <2>2
<1>16. bar' >= FirstEvaluable /\ bar' # FirstEvaluable
  BY <1>2, <1>4
<1>17. BreakoutInv'
  BY <1>2, <1>11, <1>12, <1>13, <1>14, <1>15, <1>16, Parameters DEF BreakoutInv, FirstEvaluable
<1>18. (position # NoPosition /\ position' # NoPosition
         /\ position'.entered = position.entered) => stays
  <2>1. position # NoPosition => position.entered \in Nat /\ position.entered < bar
    BY <1>4 DEF PositionKnown, Positions
  <2> QED
    BY <1>4, <1>6, <1>8, <2>1
<1> QED
  BY <1>7, <1>17, <1>18

\* A step of the program that is not a bar moves neither trade nor position.
LEMMA QuietStep ==
  ASSUME BreakoutInv, UNCHANGED <<atr, episode, position, trades, funnel>>,
         phase' \in {"replay", "traded", "ended", "died"},
         \/ bar' = bar /\ (phase' = "replay" => phase = "replay")
         \/ phase = "start" /\ bar' = FirstEvaluable
  PROVE  BreakoutInv'
<1>1. BreakoutTypes /\ EpisodesAccounted /\ TradesApart /\ PositionKnown
  BY DEF BreakoutInv
<1>2. FirstEvaluable \in Nat \ {0}
  BY Parameters DEF FirstEvaluable
<1>3. BreakoutTypes' /\ EpisodesAccounted' /\ TradesApart'
  BY <1>1, <1>2 DEF BreakoutTypes, EpisodesAccounted, TradesApart, Sign
<1>4. CASE bar' = bar /\ (phase' = "replay" => phase = "replay")
  BY <1>1, <1>3, <1>4 DEF BreakoutInv, PositionKnown
<1>5. CASE phase = "start" /\ bar' = FirstEvaluable
  BY <1>2, <1>3, <1>5 DEF BreakoutInv, PositionKnown
<1> QED
  BY <1>4, <1>5

Ratchets ==
    (position # NoPosition /\ position' # NoPosition /\ position'.entered = position.entered) =>
        /\ Sign(position.side) * (position'.stop - position.stop) >= 0
        /\ position.trail => position'.trail

LEMMA NextBreakout == BreakoutInv /\ [BreakoutNext]_breakoutVars => BreakoutInv' /\ Ratchets
<1> SUFFICES ASSUME BreakoutInv, [BreakoutNext]_breakoutVars PROVE BreakoutInv' /\ Ratchets
  OBVIOUS
<1>1. ASSUME UNCHANGED position PROVE Ratchets
  <2> SUFFICES ASSUME position # NoPosition
               PROVE  Sign(position.side) * (position'.stop - position.stop) >= 0
    BY <1>1 DEF Ratchets
  <2>1. position \in Positions
    BY DEF BreakoutInv, BreakoutTypes
  <2> QED
    BY <1>1, <2>1 DEF Positions, Sign
<1>2. CASE UNCHANGED breakoutVars
  <2>1. BreakoutInv'
    BY <1>2 DEF BreakoutInv, BreakoutTypes, EpisodesAccounted, TradesApart, PositionKnown,
                breakoutVars
  <2> QED
    BY <1>1, <1>2, <2>1 DEF breakoutVars
<1>3. CASE Prefill
  BY <1>1, <1>3, QuietStep DEF Prefill
<1>4. CASE WriteTrades
  BY <1>1, <1>4, QuietStep DEF WriteTrades
<1>5. CASE WriteSummary
  BY <1>1, <1>5, QuietStep DEF WriteSummary
<1>6. CASE ReplayDies
  BY <1>1, <1>6, QuietStep DEF ReplayDies
<1>7. CASE Evaluate
  <2>1. /\ UNCHANGED <<atr, phase, bar, episode, position, trades, funnel>>
        /\ phase \in {"died", "ended"}
    BY <1>7 DEF Evaluate
  <2> QED
    BY <1>1, <2>1, QuietStep
<1>8. CASE \E c \in Closes, reach \in Reaches : ReplayBar(c, reach)
  BY <1>8, BarKept DEF Ratchets
<1> QED
  BY <1>2, <1>3, <1>4, <1>5, <1>6, <1>7, <1>8 DEF BreakoutNext

LEMMA ReplayTyped == BreakoutSpec => []BreakoutInv
<1>1. BreakoutInv /\ [BreakoutNext]_breakoutVars => BreakoutInv'
  BY NextBreakout
<1> QED
  BY InitBreakout, <1>1, PTL DEF BreakoutSpec

\* The funnel of the replay adds up at every bar, whatever the series and the
\* parameters (EpisodesAccounted of Breakout).
THEOREM FunnelAddsUp == BreakoutSpec => []EpisodesAccounted
<1>1. BreakoutInv => EpisodesAccounted
  BY DEF BreakoutInv
<1> QED
  BY <1>1, ReplayTyped, PTL

\* One position at a time, none in the warmup, and an initial stop costs the risk
\* or more (TradesApart of Breakout).
THEOREM OneAtOnce == BreakoutSpec => []TradesApart
<1>1. BreakoutInv => TradesApart
  BY DEF BreakoutInv
<1> QED
  BY <1>1, ReplayTyped, PTL

\* The stop of an open position never moves against it and a trail stays active
\* (StopRatchets of Breakout: "ratchets only").
THEOREM OnlyRatchets == BreakoutSpec => StopRatchets
<1>1. BreakoutInv /\ [BreakoutNext]_breakoutVars => [Ratchets]_breakoutVars
  BY NextBreakout
<1>2. BreakoutSpec => [][Ratchets]_breakoutVars
  BY <1>1, ReplayTyped, PTL DEF BreakoutSpec
<1> QED
  BY <1>2, PTL DEF StopRatchets, Ratchets
-----------------------------------------------------------------------------
(* The replay of the breakout: its window.                                 *)

\* A part of a sequence with the next element, and without its first.
LEMMA Slide ==
  ASSUME NEW T, NEW s \in Seq(T), NEW a \in Nat \ {0}, NEW b \in Nat, a <= b + 1, b <= Len(s)
  PROVE  /\ SubSeq(s, a, b) \in Seq(T) /\ Len(SubSeq(s, a, b)) = b + 1 - a
         /\ b < Len(s) => Append(SubSeq(s, a, b), s[b + 1]) = SubSeq(s, a, b + 1)
         /\ a <= b => Tail(SubSeq(s, a, b)) = SubSeq(s, a + 1, b)
<1>1. SubSeq(s, a, b) \in Seq(T) /\ Len(SubSeq(s, a, b)) = b + 1 - a
  OBVIOUS
<1>2. ASSUME b < Len(s)
      PROVE  Append(SubSeq(s, a, b), s[b + 1]) = SubSeq(s, a, b + 1)
  BY <1>1, <1>2
<1>3. ASSUME a <= b
      PROVE  Tail(SubSeq(s, a, b)) = SubSeq(s, a + 1, b)
  BY <1>1, <1>3
<1> QED
  BY <1>1, <1>2, <1>3

\* The window after a bar, from the windows before it.
FilledAt(h, b) ==
    IF b = 0 THEN <<>>
    ELSE IF HasAtr(b) THEN Bounded(Append(h[b - 1], atr[b])) ELSE h[b - 1]
Filling(n, h) == h = [b \in 0..n |-> FilledAt(h, b)]
TheFilling(n) == CHOOSE h : Filling(n, h)

LEMMA FillingExists ==
  ASSUME NEW N \in Nat
  PROVE  \E h : Filling(N, h)
<1> DEFINE Done == { n \in Nat : \E h : Filling(n, h) }
<1>1. 0 \in Done
  <2> DEFINE h == [b \in 0..0 |-> <<>>]
  <2>1. h = [b \in 0..0 |-> FilledAt(h, b)]
    BY DEF FilledAt
  <2> QED
    BY <2>1 DEF Filling
<1>2. ASSUME NEW n \in 0..N, n \in Done, n < N
      PROVE  n + 1 \in Done
  <2>1. PICK h : h = [b \in 0..n |-> FilledAt(h, b)]
    BY <1>2 DEF Filling
  <2> DEFINE g == [b \in 0..(n + 1) |-> IF b \in 0..n THEN h[b] ELSE FilledAt(h, b)]
             k == [b \in 0..(n + 1) |-> FilledAt(g, b)]
  <2>2. ASSUME NEW b \in 0..(n + 1)
        PROVE  g[b] = FilledAt(g, b)
    <3>1. g[b] = FilledAt(h, b)
      BY <2>1
    <3>2. b = 0 \/ (b - 1 \in 0..n /\ b - 1 \in 0..(n + 1))
      OBVIOUS
    <3>3. b # 0 => g[b - 1] = h[b - 1]
      BY <3>2
    <3> HIDE DEF g
    <3> QED
      BY <3>1, <3>3 DEF FilledAt
  <2>3. g = k
    <3>1. \A b \in 0..(n + 1) : g[b] = k[b]
      BY <2>2
    <3>2. g = [b \in 0..(n + 1) |-> g[b]] /\ k = [b \in 0..(n + 1) |-> k[b]]
      OBVIOUS
    <3> HIDE DEF g, k
    <3> QED
      BY <3>1, <3>2
  <2>4. Filling(n + 1, g)
    BY <2>3 DEF Filling, k
  <2> HIDE DEF g
  <2>5. \E f : Filling(n + 1, f)
    BY <2>4
  <2>6. n + 1 \in Nat
    OBVIOUS
  <2> QED
    BY <2>5, <2>6, Zenon
<1>3. N \in Done
  <2> HIDE DEF Done
  <2> QED
    BY <1>1, <1>2, CountUp
<1> QED
  BY <1>3

LEMMA FilledByFilling ==
  ASSUME NEW last \in Nat
  PROVE  /\ Filling(last, TheFilling(last))
         /\ Filled(last) = TheFilling(last)[last]
<1>1. Filling(last, TheFilling(last))
  BY FillingExists DEF TheFilling
<1> QED
  BY <1>1 DEF Filled, TheFilling, Filling, FilledAt

\* The warmup leaves the window with the true ranges of the first Lookback bars that
\* have one.
LEMMA WarmupFills ==
  ASSUME atr \in Seq(Nat \ {0}), FirstEvaluable <= Len(atr)
  PROVE  Filled(FirstEvaluable) = SubSeq(atr, AtrPeriod + 1, FirstEvaluable)
<1> DEFINE N == FirstEvaluable
           h == TheFilling(N)
           Good == { b \in 0..N : h[b] = IF b <= AtrPeriod THEN <<>>
                                         ELSE SubSeq(atr, AtrPeriod + 1, b) }
<1>1. /\ AtrPeriod \in Nat \ {0} /\ Lookback \in Nat \ {0}
      /\ N = AtrPeriod + Lookback /\ N \in Nat /\ Len(atr) \in Nat /\ N <= Len(atr)
  BY Parameters DEF FirstEvaluable
<1>2. h = [b \in 0..N |-> FilledAt(h, b)]
  BY <1>1, FilledByFilling DEF Filling
<1> HIDE DEF h, N
<1>3. 0 \in Good
  BY <1>1, <1>2 DEF FilledAt
<1>4. ASSUME NEW b \in 0..N, b \in Good, b < N
      PROVE  b + 1 \in Good
  <2> DEFINE n == b + 1
  <2>1. /\ n \in 0..N /\ n \in Nat \ {0} /\ n - 1 = b /\ b \in Nat
        /\ n <= Len(atr) /\ n <= AtrPeriod + Lookback
    BY <1>1, <1>4
  <2>2. h[n] = IF HasAtr(n) THEN Bounded(Append(h[b], atr[n])) ELSE h[b]
    <3> HIDE DEF n
    <3> QED
      BY <1>2, <2>1 DEF FilledAt
  <2>3. h[b] = IF b <= AtrPeriod THEN <<>> ELSE SubSeq(atr, AtrPeriod + 1, b)
    BY <1>4
  <2> HIDE DEF n
  <2>4. CASE n <= AtrPeriod
    <3>1. ~HasAtr(n) /\ b <= AtrPeriod
      BY <1>1, <2>1, <2>4 DEF HasAtr
    <3> QED
      BY <2>1, <2>2, <2>3, <2>4, <3>1 DEF n
  <2>5. CASE n > AtrPeriod
    <3>1. HasAtr(n) /\ ~(n <= AtrPeriod)
      BY <1>1, <2>1, <2>5 DEF HasAtr
    <3>2. /\ SubSeq(atr, AtrPeriod + 1, b) \in Seq(Nat \ {0})
          /\ Append(SubSeq(atr, AtrPeriod + 1, b), atr[n]) = SubSeq(atr, AtrPeriod + 1, n)
          /\ Len(SubSeq(atr, AtrPeriod + 1, n)) = n - AtrPeriod
      <4>1. AtrPeriod + 1 \in Nat \ {0} /\ AtrPeriod + 1 <= b + 1 /\ b <= Len(atr) /\ b < Len(atr)
            /\ AtrPeriod + 1 <= n + 1
        BY <1>1, <2>1, <2>5
      <4>2. b + 1 = n
        BY <2>1
      <4>3. Append(SubSeq(atr, AtrPeriod + 1, b), atr[n]) = SubSeq(atr, AtrPeriod + 1, n)
        <5>1. PICK a : a = AtrPeriod + 1
          OBVIOUS
        <5>2. a \in Nat \ {0} /\ a <= b + 1 /\ b < Len(atr) /\ b <= Len(atr)
          BY <4>1, <5>1
        <5>3. Append(SubSeq(atr, a, b), atr[b + 1]) = SubSeq(atr, a, b + 1)
          BY <2>1, <5>2, Slide
        <5> QED
          BY <4>2, <5>1, <5>3
      <4>4. SubSeq(atr, AtrPeriod + 1, b) \in Seq(Nat \ {0})
        BY <2>1, <4>1, Slide
      <4>5. Len(SubSeq(atr, AtrPeriod + 1, n)) = n + 1 - (AtrPeriod + 1)
        BY <2>1, <4>1, Slide
      <4>6. n + 1 - (AtrPeriod + 1) = n - AtrPeriod
        BY <1>1, <2>1
      <4> QED
        BY <4>3, <4>4, <4>5, <4>6
    <3>3. Bounded(SubSeq(atr, AtrPeriod + 1, n)) = SubSeq(atr, AtrPeriod + 1, n)
      BY <1>1, <2>1, <3>2 DEF Bounded
    <3>4. Append(h[b], atr[n]) = SubSeq(atr, AtrPeriod + 1, n)
      <4>1. CASE b <= AtrPeriod
        <5>1. b = AtrPeriod
          BY <1>1, <2>1, <2>5, <4>1
        <5>2. SubSeq(atr, AtrPeriod + 1, b) = <<>>
          BY <1>1, <5>1
        <5> QED
          BY <2>3, <3>2, <4>1, <5>2
      <4>2. CASE ~(b <= AtrPeriod)
        BY <2>3, <3>2, <4>2
      <4> QED
        BY <4>1, <4>2
    <3> QED
      BY <2>1, <2>2, <3>1, <3>3, <3>4 DEF n
  <2> QED
    BY <1>1, <2>1, <2>4, <2>5
<1>5. N \in Good
  <2> HIDE DEF Good
  <2>1. \A b \in 0..N : (b \in Good /\ b < N) => b + 1 \in Good
    BY <1>4
  <2>2. \A b \in 0..N : b \in Good
    BY <1>1, <1>3, <2>1, CountUp
  <2> QED
    BY <1>1, <2>2
<1>6. h[N] = SubSeq(atr, AtrPeriod + 1, N)
  <2>1. ~(N <= AtrPeriod)
    BY <1>1
  <2> QED
    BY <1>5, <2>1
<1> QED
  BY <1>1, <1>6, FilledByFilling DEF h, N

\* The window at a bar: of the warmup when it is the first to be judged, and the
\* true ranges of the Lookback bars before it after that.
WindowKept ==
    phase = "replay" =>
        /\ (bar = FirstEvaluable /\ bar <= Len(atr)) =>
              window = SubSeq(atr, AtrPeriod + 1, FirstEvaluable)
        /\ bar > FirstEvaluable =>
              bar <= Len(atr) + 1 /\ window = SubSeq(atr, bar - Lookback, bar - 1)

LEMMA NextWindow == BreakoutInv /\ WindowKept /\ [BreakoutNext]_breakoutVars => WindowKept'
<1> SUFFICES ASSUME BreakoutInv, WindowKept, [BreakoutNext]_breakoutVars PROVE WindowKept'
  OBVIOUS
<1>1. /\ AtrPeriod \in Nat \ {0} /\ Lookback \in Nat \ {0}
      /\ FirstEvaluable = AtrPeriod + Lookback
      /\ atr \in Seq(Nat \ {0}) /\ Len(atr) \in Nat /\ bar \in Nat \ {0}
  BY Parameters DEF FirstEvaluable, BreakoutInv, BreakoutTypes
<1>2. CASE UNCHANGED <<atr, phase, bar, window>>
  BY <1>2 DEF WindowKept
<1>3. CASE phase' # "replay"
  BY <1>3 DEF WindowKept
<1>4. CASE Prefill
  <2>1. bar' = FirstEvaluable /\ UNCHANGED atr
        /\ (FirstEvaluable <= Len(atr) => window' = Filled(FirstEvaluable))
    <3>1. FirstEvaluable <= Len(atr) => ~(Len(atr) < FirstEvaluable)
      BY <1>1
    <3> QED
      BY <1>4, <3>1 DEF Prefill
  <2>2. FirstEvaluable <= Len(atr) => window' = SubSeq(atr, AtrPeriod + 1, FirstEvaluable)
    BY <1>1, <2>1, WarmupFills
  <2>3. ~(bar' > FirstEvaluable)
    BY <1>1, <2>1
  <2> QED
    BY <2>1, <2>2, <2>3 DEF WindowKept
<1>5. CASE \E c \in Closes, reach \in Reaches : ReplayBar(c, reach)
  <2>1. /\ phase = "replay" /\ bar <= Len(atr) /\ bar' = bar + 1 /\ UNCHANGED atr
        /\ window' = IF bar > FirstEvaluable THEN Bounded(Append(window, atr[bar])) ELSE window
    BY <1>5 DEF ReplayBar
  <2>2. bar >= FirstEvaluable
    BY <2>1 DEF BreakoutInv
  <2>3. bar' > FirstEvaluable /\ bar' # FirstEvaluable /\ bar' - 1 = bar
        /\ bar' - Lookback = bar + 1 - Lookback /\ bar' <= Len(atr) + 1
    BY <1>1, <2>1, <2>2
  <2>4. CASE bar = FirstEvaluable
    <3>1. window' = SubSeq(atr, AtrPeriod + 1, FirstEvaluable)
      BY <1>1, <2>1, <2>4 DEF WindowKept
    <3>2. AtrPeriod + 1 = bar + 1 - Lookback
      BY <1>1, <2>4
    <3>3. window' = SubSeq(atr, bar' - Lookback, bar' - 1)
      BY <2>3, <2>4, <3>1, <3>2
    <3> QED
      BY <2>1, <2>3, <3>3 DEF WindowKept
  <2>5. CASE bar > FirstEvaluable
    <3> DEFINE a == bar - Lookback
               b == bar - 1
    <3>1. window = SubSeq(atr, a, b)
      BY <2>1, <2>5 DEF WindowKept
    <3>2. /\ a \in Nat \ {0} /\ b \in Nat /\ a <= b /\ b < Len(atr) /\ b + 1 = bar
          /\ a <= b + 1 /\ a <= bar + 1 /\ bar + 1 - a = Lookback + 1 /\ bar \in Nat
          /\ a + 1 = bar' - Lookback
      BY <1>1, <2>1, <2>5
    <3> HIDE DEF a, b
    <3>3. Append(window, atr[bar]) = SubSeq(atr, a, bar)
      <4>1. Append(SubSeq(atr, a, b), atr[b + 1]) = SubSeq(atr, a, b + 1)
        BY <1>1, <3>2, Slide
      <4> QED
        BY <3>1, <3>2, <4>1
    <3>4. /\ Len(SubSeq(atr, a, bar)) = bar + 1 - a
          /\ Tail(SubSeq(atr, a, bar)) = SubSeq(atr, a + 1, bar)
      <4>1. a <= bar
        BY <1>1, <3>2
      <4> QED
        BY <1>1, <2>1, <3>2, <4>1, Slide
    <3>5. Len(SubSeq(atr, a, bar)) > Lookback
      BY <1>1, <3>2, <3>4
    <3>6. window' = SubSeq(atr, a + 1, bar)
      BY <2>1, <2>5, <3>3, <3>4, <3>5 DEF Bounded
    <3>7. window' = SubSeq(atr, bar' - Lookback, bar' - 1)
      BY <2>3, <3>2, <3>6
    <3> QED
      BY <2>1, <2>3, <3>7 DEF WindowKept
  <2> QED
    BY <1>1, <2>2, <2>4, <2>5
<1>6. CASE WriteTrades \/ WriteSummary \/ ReplayDies
  BY <1>3, <1>6 DEF WriteTrades, WriteSummary, ReplayDies
<1>7. CASE Evaluate
  BY <1>2, <1>7 DEF Evaluate
<1>8. CASE UNCHANGED breakoutVars
  BY <1>2, <1>8 DEF breakoutVars
<1> QED
  BY <1>4, <1>5, <1>6, <1>7, <1>8 DEF BreakoutNext

ReplayInv == BreakoutInv /\ WindowKept

LEMMA ReplayInvTypes == ReplayInv => BreakoutTypeOK
<1> SUFFICES ASSUME ReplayInv PROVE BreakoutTypeOK
  OBVIOUS
<1>1. BreakoutTypes /\ WindowKept
  BY DEF ReplayInv, BreakoutInv
<1>2. episode.state \in {"inactive", "active", "frozen"}
  BY <1>1 DEF BreakoutTypes, Episodes
<1>3. position # NoPosition => position.side \in {"long", "short"} /\ position.risk > 0
  BY <1>1 DEF BreakoutTypes, Positions
<1> QED
  BY <1>1, <1>2, <1>3 DEF BreakoutTypes, WindowKept, BreakoutTypeOK

LEMMA InitReplay == BreakoutInit => ReplayInv
<1>1. BreakoutInit => WindowKept
  BY DEF BreakoutInit, WindowKept
<1> QED
  BY <1>1, InitBreakout DEF ReplayInv

LEMMA NextReplay == ReplayInv /\ [BreakoutNext]_breakoutVars => ReplayInv'
  BY NextBreakout, NextWindow DEF ReplayInv

\* The types of the replay, and that its window, which two loops fill, is at every bar
\* the true ranges of the last Lookback bars (BreakoutTypeOK of Breakout).
THEOREM WindowIsTheLastBars == BreakoutSpec => []BreakoutTypeOK
<1>1. BreakoutSpec => []ReplayInv
  BY InitReplay, NextReplay, PTL DEF BreakoutSpec
<1> QED
  BY <1>1, ReplayInvTypes, PTL
-----------------------------------------------------------------------------
(* The four parts, one of them at work and the others as they started.     *)

PartsInv == PagerInv /\ OutInv /\ ReplayInv /\ ScrInv

LEMMA InitParts == ResearchInit => PartsInv
<1> SUFFICES ASSUME ResearchInit PROVE PartsInv
  OBVIOUS
<1>1. PagerInit /\ OutcomeInit /\ BreakoutInit /\ ScreeningInit
  BY DEF ResearchInit, PagerIdle, OutcomeIdle, BreakoutIdle, ScreeningIdle
<1> QED
  BY <1>1, InitPager, InitOutcome, InitReplay, InitScreening DEF PartsInv

LEMMA NextParts == PartsInv /\ [ResearchNext]_researchVars => PartsInv'
<1> SUFFICES ASSUME PartsInv, [ResearchNext]_researchVars PROVE PartsInv'
  OBVIOUS
<1>1. [PagerNext]_pagerVars /\ [OutcomeNext]_outcomeVars
  BY DEF ResearchNext, researchVars
<1>2. [BreakoutNext]_breakoutVars /\ [ScreeningNext]_screeningVars
  BY DEF ResearchNext, researchVars
<1> QED
  BY <1>1, <1>2, NextPager, NextOutcome, NextReplay, NextScreening DEF PartsInv

\* The programs of the research keep the types of their modules, each with the others
\* beside it, and the replay its window (ResearchTypeOK of MCResearch).
THEOREM ResearchTypes == ResearchSpec => []ResearchTypeOK
<1>1. PartsInv => ResearchTypeOK
  BY OutInvTypes, ReplayInvTypes, ScrInvTypes DEF PartsInv, PagerInv, ResearchTypeOK
<1> QED
  BY <1>1, InitParts, NextParts, PTL DEF ResearchSpec
===============================================================================
