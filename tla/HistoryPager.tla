---------------------------- MODULE HistoryPager ----------------------------
(***************************************************************************)
(* The five programs that page the broker's history backwards: candles     *)
(* (fetch_candles.py), ticks (fetch_history.py), the candidates of the     *)
(* screen (screen_candidates.py) and the two that match a reference file   *)
(* (identify_reference_offset.py, provenance_check.py).  Each asks for the *)
(* bars up to "end", keeps them, and asks again from before the oldest,    *)
(* while new bars keep being made.                                         *)
(***************************************************************************)
EXTENDS Integers, FiniteSets

CONSTANTS Markets,      \* the histories: sets of the epochs that have a bar
          Refs,         \* the reference series: sets of epochs
          Granularity,  \* seconds of a bar
          Window,       \* seconds an answer reaches back (count * granularity)
          Day,          \* WEEKEND_STEP_SECONDS
          TickCap,      \* TICKS_PER_REQUEST
          MaxEmpty,     \* MAX_CONSECUTIVE_EMPTY
          MaxRequests,  \* MAX_REQUESTS, MAX_PAGES
          Target,       \* the span wanted
          Needed,       \* MIN_MATCHED_RETURNS
          From, BackTo, \* the first end and the oldest epoch of a matched fetch
          Clocks        \* the time a fetch starts, and the latest it ends

ASSUME MarketAssumption == \A m \in Markets : m \subseteq Nat /\ IsFiniteSet(m)
ASSUME StepAssumption == /\ {Granularity, Window, Day} \subseteq Nat \ {0}
                         /\ Day <= Window
\* bars are a granularity apart or more
ASSUME GridAssumption == \A m \in Markets : \A a, b \in m : a < b => b - a >= Granularity
ASSUME PagerAssumption == /\ {MaxEmpty, MaxRequests, Target, Needed} \subseteq Nat
                          /\ TickCap \in Nat \ {0, 1}
                          /\ {From, BackTo} \subseteq Nat /\ Clocks \subseteq Nat

VARIABLES pager,        \* the program
          market,       \* every bar of the instrument, those to come too
          clock,        \* the server's time
          stage,        \* "start", "blocked", "paging", "done" or "written"
          end, latest,  \* end_param, "latest" until the first batch
          stored,       \* epochs of the bars kept
          oldest, newest, \* of the bars kept
          streak,       \* empty_streak
          requests,     \* requests_made
          refused,      \* an API error was taken for an empty answer
          stop          \* stop_reason

kept == <<stored, oldest, newest>>
pagerVars == <<pager, market, clock, stage, end, latest, kept, streak, requests, refused, stop>>

Pager == {"candles", "ticks", "screen", "offset", "provenance"}

PagerInit ==
    /\ pager \in Pager
    /\ market \in Markets
    /\ clock \in Clocks
    /\ stage = "start"
    /\ end = From
    /\ latest = (pager \in {"candles", "ticks"})
    /\ stored = {} /\ oldest = 0 /\ newest = 0
    /\ streak = 0 /\ requests = 0
    /\ refused = FALSE
    /\ stop = "none"

-----------------------------------------------------------------------------
(* The server.                                                             *)

Bars(from, to) == { b \in market : from <= b /\ b <= to /\ b <= clock }

\* past the boundary of its history the server gives current data
PastBoundary == ~latest /\ \A b \in market : end < b

AskedEnd == IF latest \/ PastBoundary THEN clock ELSE end

\* an answer of candles is what there is in a window of time; one of ticks,
\* the last TickCap
Candles == Bars(AskedEnd - Window, AskedEnd)
Ticks == { b \in Bars(0, AskedEnd) : Cardinality(Bars(b + 1, AskedEnd)) < TickCap }

NewBar == /\ stage = "paging"
          /\ clock + Granularity \in Clocks
          /\ clock' = clock + Granularity
          /\ UNCHANGED <<pager, market, stage, end, latest, kept, streak, requests, refused, stop>>

-----------------------------------------------------------------------------
(* The steps of a fetch.                                                   *)

\* LIVE_TRADING, a missing token, a refused login or a real account stop a
\* fetch before it asks for anything
StartFetch ==
    /\ stage = "start"
    /\ stage' \in {"blocked", "paging"}
    /\ UNCHANGED <<pager, market, clock, end, latest, kept, streak, requests, refused, stop>>

\* a page is asked for and its answer handled
Asks(p) ==
    /\ stage = "paging" /\ pager = p
    /\ requests < MaxRequests
    /\ requests' = requests + 1
    /\ UNCHANGED <<pager, market, clock>>

Stops(reason) == stage' = "done" /\ stop' = reason /\ UNCHANGED <<end, latest>>

\* A fault: the end is stepped back by a bar for nothing.
AsksTooEarly(e) == end' = e - Granularity /\ latest' = FALSE /\ UNCHANGED <<stage, stop>>

AsksAgain(e) == end' = e /\ latest' = FALSE /\ UNCHANGED <<stage, stop>>

Spans(batch, first, last) ==
    /\ {first, last} \subseteq batch
    /\ \A b \in batch : first <= b /\ b <= last

Keep(batch, first, last) ==
    /\ stored' = stored \cup batch
    /\ newest' = IF stored = {} \/ last > newest THEN last ELSE newest
    /\ oldest' = IF stored = {} \/ first < oldest THEN first ELSE oldest

\* A fault: the slack of a bar is taken from the end.
SubstitutedNearEnd(last) == ~latest /\ last > end - Granularity

\* the newest bar of an answer is later than what was asked for
Substituted(last) == ~latest /\ last > end + Granularity

\* fetch(): no frame; an empty answer, which an error is taken for; a batch
CandlesNoFrame == /\ Asks("candles")
                  /\ Stops("no_response_frame")
                  /\ UNCHANGED <<kept, streak, refused>>

CandlesEmpty(error) ==
    /\ Asks("candles")
    /\ error \/ Candles = {}
    /\ refused' = (refused \/ error)
    /\ streak' = streak + 1
    /\ IF streak' >= MaxEmpty THEN Stops("consecutive_empty")
       ELSE IF latest THEN Stops("empty_at_latest")
       ELSE AsksAgain(end - Day)
    /\ UNCHANGED kept

CandlesBatch ==
    /\ Asks("candles")
    /\ streak' = 0
    /\ UNCHANGED refused
    /\ \E first, last \in Candles :
         /\ Spans(Candles, first, last)
         /\ \/ Substituted(last) /\ Stops("substitution") /\ UNCHANGED kept
            \/ /\ ~Substituted(last)
               /\ Keep(Candles, first, last)
               /\ IF newest' - oldest' >= Target THEN Stops("target_reached")
                                                 ELSE AsksAgain(first - 1)

\* fetch() of ticks keeps a batch before it looks whether the batch is older
TicksBatch ==
    /\ Asks("ticks")
    /\ \E first, last \in Ticks :
         /\ Spans(Ticks, first, last)
         /\ Keep(Ticks, first, last)
         /\ IF ~latest /\ first >= end THEN Stops("no_progress")
            ELSE IF newest' - oldest' >= Target THEN Stops("target_reached")
            ELSE AsksAgain(first - 1)
    /\ UNCHANGED <<streak, refused>>

TicksUnusable == /\ Asks("ticks")
                 /\ Stops("unusable")
                 /\ UNCHANGED <<kept, streak, refused>>

\* _matched_returns(): a return for every two neighbouring bars of both series
MatchedReturns(series, ref) ==
    { b \in series \cap ref : b + Granularity \in series \cap ref }
Enough(series) == \A ref \in Refs : Cardinality(MatchedReturns(series, ref)) >= Needed

\* an empty page of the other three; one more than enough ends the fetch
EmptyPage(p) ==
    /\ Asks(p)
    /\ Candles = {}
    /\ streak' = streak + 1
    /\ IF streak' >= MaxEmpty THEN Stops("consecutive_empty") ELSE AsksAgain(end - Day)
    /\ UNCHANGED <<kept, refused>>

\* an error or no frame ends the fetch with a note, or raises
FailedPage(p) == /\ Asks(p)
                 /\ Stops("transport")
                 /\ UNCHANGED <<kept, streak, refused>>

\* the screen asks until every reference has enough matched returns, the others
\* until the reference is covered
Satisfied(p, series, first) == \/ p = "screen" /\ Enough(series)
                               \/ p # "screen" /\ first <= BackTo

FullPage(p, reason) ==
    /\ Asks(p)
    /\ streak' = 0
    /\ UNCHANGED refused
    /\ \E first, last \in Candles :
         /\ Spans(Candles, first, last)
         /\ \/ Substituted(last) /\ Stops("substitution") /\ UNCHANGED kept
            \/ /\ ~Substituted(last)
               /\ Keep(Candles, first, last)
               /\ IF Satisfied(p, stored', first) THEN Stops(reason) ELSE AsksAgain(first - 1)

\* _fetch_window()
ScreenPage == \/ EmptyPage("screen") \/ FailedPage("screen")
              \/ FullPage("screen", "sufficient")

\* fetch_deriv() of either program
OffsetPage == \/ EmptyPage("offset") \/ FailedPage("offset")
              \/ FullPage("offset", "covered")

ProvenancePage == \/ EmptyPage("provenance") \/ FailedPage("provenance")
                  \/ FullPage("provenance", "covered")

OutOfRequests == /\ stage = "paging"
                 /\ requests = MaxRequests
                 /\ Stops("max_requests")
                 /\ UNCHANGED <<pager, market, clock, kept, streak, requests, refused>>

\* nothing is written of an empty fetch, nor of one that raised
WriteSeries ==
    /\ stage = "done" /\ pager \in {"candles", "ticks"}
    /\ stored # {}
    /\ stage' = "written"
    /\ UNCHANGED <<pager, market, clock, end, latest, kept, streak, requests, refused, stop>>

PagerNext ==
    \/ StartFetch \/ NewBar \/ CandlesNoFrame \/ CandlesBatch
    \/ \E error \in BOOLEAN : CandlesEmpty(error)
    \/ TicksBatch \/ TicksUnusable
    \/ ScreenPage \/ OffsetPage \/ ProvenancePage
    \/ OutOfRequests \/ WriteSeries

PagerSpec == PagerInit /\ [][PagerNext]_pagerVars

-----------------------------------------------------------------------------
(* Properties.                                                             *)

\* Every variable has the values its code gives it, and the bars kept have been
\* made, the oldest and the newest among them.
PagerTypeOK ==
    /\ pager \in Pager /\ market \in Markets /\ clock \in Clocks
    /\ stage \in {"start", "blocked", "paging", "done", "written"}
    /\ end \in Int /\ latest \in BOOLEAN
    /\ stored \subseteq { b \in market : b <= clock }
    /\ oldest \in Nat /\ newest \in Nat
    /\ stored # {} => Spans(stored, oldest, newest)
    /\ streak \in Nat /\ requests \in Nat /\ refused \in BOOLEAN

\* No bar is missed: between the oldest and the newest bar kept, every bar that
\* was made is kept, through closed days, pages that came back empty and the
\* current data the server gives past its boundary -- unless the candles pager
\* took an error for an empty answer, or the ticks pager kept current data.
NoHole ==
    (stored # {} /\ ~refused /\ stop # "no_progress") =>
        \A b \in market : oldest <= b /\ b <= newest => b \in stored

\* What current data in place of older, or a batch that is not older, is taken for
\* is true: the oldest bar kept is the first there is.  A stop on consecutive empty
\* answers also reports the end of the history; it is a guess, which a gap of
\* MaxEmpty days makes wrong, and is no part of this property.
ExhaustedIsTrue ==
    (stop \in {"substitution", "no_progress"} /\ stored # {} /\ ~refused) =>
        \A b \in market : oldest <= b
=============================================================================
