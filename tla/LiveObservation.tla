--------------------------- MODULE LiveObservation --------------------------
(***************************************************************************)
(* One live observation session: the loop of run_live (engine/runner.py)   *)
(* with its feed (engine/feed/live_readonly.py), its strategy              *)
(* (engine/strategy/) and its file (engine/emit/jsonl_writer.py), over the *)
(* market data channel.                                                    *)
(*                                                                         *)
(* A tick has its number for an epoch; prices gives its mid price.  The    *)
(* loop is cut where an interrupt makes a difference: before the request,  *)
(* while it waits for the answer, with a new close in the buffer, with a   *)
(* signal not yet written, and with a signal written and not yet counted.  *)
(***************************************************************************)
EXTENDS OtpChannel, FiniteSets

CONSTANTS
  Paths,           \* the courses the market may take: functions from ticks to prices
  Epochless,       \* ticks that reach the feed without an epoch
  ClockOffsets,    \* how far the local clock may be ahead of the market's
  Strategy,        \* "reference_ma" or "ema_cross"
  Fast, Slow,      \* the periods of the strategy
  Warmup,          \* WARMUP_CLOSES
  BufferMax,       \* BUFFER_MAXLEN
  MaxSignals,      \* max_signals
  MaxPolls         \* max_polls, 0 for none

ASSUME ObservationAssumption ==
  /\ Paths \subseteq [1..MaxTicks -> Nat]
  /\ Epochless \subseteq 1..MaxTicks
  /\ ClockOffsets \subseteq Nat
  /\ Strategy \in {"reference_ma", "ema_cross"}
  /\ Fast \in Nat \ {0} /\ Slow \in Nat /\ Fast < Slow
  /\ Warmup \in Nat
  /\ BufferMax \in Nat /\ Slow <= BufferMax
  /\ MaxSignals \in Nat \ {0}
  /\ MaxPolls \in 0..MaxRequests

VARIABLES
  prices,          \* the course the market takes
  pc,              \* where the session is
  closes,          \* LiveReadonlyFeed._closes
  lastEpoch,       \* LiveReadonlyFeed._last_epoch
  seen, rejected, duplicate,     \* the counters of the feed
  lastSign,        \* EmaCross._last_sign
  polls, emitted, failures,      \* the counters of run_live
  lastTs,          \* last_emitted_ts, 0 for minus infinity
  signal,          \* the signal being written and counted
  stoppedBy,       \* stopped_by
  file,            \* the lines of the session file
  torn,            \* the last line has no end
  accepted,        \* history: the ticks behind the closes, oldest first
  lost             \* history: crossings found since the last signal that is a line

feedVars == <<closes, lastEpoch, seen, rejected, duplicate, accepted>>
outVars == <<emitted, failures, lastTs, signal, file, torn, lost>>
vars == <<channelVars, prices, pc, feedVars, lastSign, polls, outVars, stoppedBy>>

Directions == {"long", "short"}
Times == Nat
Signal == [ts : Times, dir : Directions]
NoSignal == [ts |-> 0]

\* gap: history, the crossings lost since the line before.
Line == [ts : Times, dir : Directions, gap : Nat]
Garbage == [gap |-> 0]

InLoop == {"poll", "quote", "evaluate", "append", "count"}
Ended == {"done", "died"}

TypeOK ==
  /\ ChannelTypeOK
  /\ prices \in Paths
  /\ pc \in {"connect", "close", "summary"} \cup InLoop \cup Ended
  /\ closes \in Seq(Nat) /\ Len(closes) <= BufferMax
  /\ lastEpoch \in Times
  /\ seen \in Nat /\ rejected \in Nat /\ duplicate \in Nat
  /\ lastSign \in Directions \cup {"unknown"}
  /\ polls \in Nat /\ emitted \in Nat /\ failures \in Nat
  /\ lastTs \in Times
  /\ signal \in Signal \cup {NoSignal}
  /\ stoppedBy \in {"max_signals", "max_polls", "manual_stop"}
  /\ file \in Seq(Line \cup {Garbage})
  /\ torn \in BOOLEAN
  /\ accepted \in Seq(1..MaxTicks)
  /\ lost \in Nat

Init ==
  /\ ChannelInit
  /\ prices \in Paths
  /\ pc = "connect"
  /\ closes = <<>> /\ lastEpoch = 0 /\ accepted = <<>>
  /\ seen = 0 /\ rejected = 0 /\ duplicate = 0
  /\ lastSign = "unknown"
  /\ polls = 0 /\ emitted = 0 /\ failures = 0
  /\ lastTs = 0
  /\ signal = NoSignal
  /\ stoppedBy = "max_signals"
  /\ file = <<>> /\ torn = FALSE /\ lost = 0

-----------------------------------------------------------------------------
(* The strategies. _ema with period p over s, in integers: an average over  *)
(* n prices is Ema(s, p) divided by (p + 1)^(n - 1).                        *)

Ema(s, p) ==
  LET e[i \in 1..Len(s)] ==
        IF i = 1 THEN s[1] ELSE 2 * s[i] * (p + 1)^(i - 2) + (p - 1) * e[i - 1]
  IN e[Len(s)]

Relation(s) ==
  LET fast == Ema(s, Fast) * (Slow + 1)^(Len(s) - 1)
      slow == Ema(s, Slow) * (Fast + 1)^(Len(s) - 1)
  IN CASE fast > slow -> "long"
       [] fast < slow -> "short"
       [] OTHER -> "flat"

\* What evaluate() computes from the buffer: nothing while it is short of the
\* slow period, or while the averages are equal.
Sign == IF Len(closes) < Slow THEN "flat" ELSE Relation(closes)

\* A fault: the relation before the newest close is computed again, from a
\* window that is not the one it was computed from then.
CrossesRebuilt ==
  /\ Len(closes) > Slow
  /\ Relation(SubSeq(closes, 1, Len(closes) - 1)) \notin {"flat", Sign}

Crosses == lastSign \notin {"unknown", Sign}

Decides ==
  /\ Sign # "flat"
  /\ Strategy = "ema_cross" => Crosses

Remember ==
  lastSign' = IF Strategy = "ema_cross" /\ Sign # "flat" THEN Sign ELSE lastSign

-----------------------------------------------------------------------------
(* The feed: one poll is one quote and at most one close.                   *)

Quiet == UNCHANGED <<prices, lastSign, outVars, stoppedBy>>

\* adapter.connect(): accounts, identity and the address of the socket; a
\* failure raises out of run_live (Die).
Connect ==
  /\ pc = "connect"
  /\ pc' = "poll"
  /\ Quiet
  /\ UNCHANGED <<channelVars, feedVars, polls>>

MayPoll ==
  /\ pc = "poll"
  /\ emitted < MaxSignals
  /\ MaxPolls = 0 \/ polls < MaxPolls

\* A fault: a poll that is sent is not counted.
PollAskUncounted ==
  /\ MayPoll
  /\ Ask("ticks_history")
  /\ pc' = "quote"
  /\ Quiet
  /\ UNCHANGED <<feedVars, polls>>

PollAsk ==
  /\ MayPoll
  /\ Ask("ticks_history")
  /\ polls' = polls + 1
  /\ pc' = "quote"
  /\ Quiet
  /\ UNCHANGED feedVars

Reject ==
  /\ seen' = seen + 1
  /\ rejected' = rejected + 1
  /\ pc' = "poll"
  /\ Quiet
  /\ UNCHANGED <<closes, lastEpoch, duplicate, accepted>>

\* No socket can be opened, or the socket is dead.
PollRefused ==
  /\ MayPoll
  /\ \/ ws = "none" /\ UNCHANGED channelVars
     \/ AskDead
  /\ polls' = polls + 1
  /\ Reject

\* get_quote gives None: an error, no answer, or an answer without a tick.
PollNothing ==
  /\ pc = "quote"
  /\ \/ GiveUp
     \/ Receive /\ TickOf(Head(inbox)) = 0
  /\ Reject
  /\ UNCHANGED polls

IsReread(t) == t \notin Epochless /\ closes # <<>> /\ t = lastEpoch

PollDuplicate ==
  /\ pc = "quote"
  /\ Receive
  /\ TickOf(Head(inbox)) # 0
  /\ IsReread(TickOf(Head(inbox)))
  /\ seen' = seen + 1
  /\ duplicate' = duplicate + 1
  /\ pc' = "poll"
  /\ Quiet
  /\ UNCHANGED <<closes, lastEpoch, rejected, accepted, polls>>

\* A fault: a list in place of the deque.
Listed(c) == Append(closes, c)

\* A deque with a maximum length.
Buffered(c) ==
  IF Len(closes) < BufferMax THEN Append(closes, c) ELSE Append(Tail(closes), c)

ReceiptTimes == {market + a : a \in ClockOffsets}

PollAccept ==
  /\ pc = "quote"
  /\ Receive
  /\ LET t == TickOf(Head(inbox)) IN
       /\ t # 0
       /\ ~IsReread(t)
       /\ closes' = Buffered(prices[t])
       /\ lastEpoch' \in IF t \in Epochless THEN ReceiptTimes ELSE {t}
       /\ accepted' = Append(accepted, t)
  /\ seen' = seen + 1
  /\ pc' = IF Len(closes') >= Warmup THEN "evaluate" ELSE "poll"
  /\ Quiet
  /\ UNCHANGED <<rejected, duplicate, polls>>

-----------------------------------------------------------------------------
(* From a new close to a line of the file.                                  *)

\* A fault: a timestamp may stand still.
AdvancesOrStays == lastEpoch >= lastTs

Advances == lastEpoch > lastTs

\* evaluate(): the strategy remembers the sign whether or not the signal it
\* decides on goes on from here.
EvaluateSilent ==
  /\ pc = "evaluate"
  /\ ~Decides
  /\ Remember
  /\ pc' = "poll"
  /\ UNCHANGED <<channelVars, prices, feedVars, polls, outVars, stoppedBy>>

EvaluateBehind ==
  /\ pc = "evaluate"
  /\ Decides
  /\ ~Advances
  /\ Remember
  /\ lost' = lost + 1
  /\ pc' = "poll"
  /\ UNCHANGED <<channelVars, prices, feedVars, polls, stoppedBy>>
  /\ UNCHANGED <<emitted, failures, lastTs, signal, file, torn>>

EvaluateSignal ==
  /\ pc = "evaluate"
  /\ Decides
  /\ Advances
  /\ Remember
  /\ signal' = [ts |-> lastEpoch, dir |-> Sign]
  /\ pc' = "append"
  /\ UNCHANGED <<channelVars, prices, feedVars, polls, stoppedBy>>
  /\ UNCHANGED <<emitted, failures, lastTs, file, torn, lost>>

\* append() writes one line, or finds the end of a line an earlier failure left
\* without its end, and writes on that one.
AppendLine ==
  /\ pc = "append"
  /\ IF torn
       THEN UNCHANGED file /\ lost' = lost + 1
       ELSE /\ file' = Append(file, [ts |-> signal.ts, dir |-> signal.dir, gap |-> lost])
            /\ lost' = 0
  /\ torn' = FALSE
  /\ pc' = "count"
  /\ UNCHANGED <<channelVars, prices, feedVars, lastSign, polls, stoppedBy>>
  /\ UNCHANGED <<emitted, failures, lastTs, signal>>

\* A fault: a failed write is reported as a success.
AppendFailsUnseen ==
  /\ pc = "append"
  /\ lost' = lost + 1
  /\ pc' = "count"
  /\ UNCHANGED <<channelVars, prices, feedVars, lastSign, polls, stoppedBy>>
  /\ UNCHANGED <<emitted, failures, lastTs, signal, file, torn>>

\* append() fails before it has written anything, or after a part of the line.
AppendFails ==
  /\ pc = "append"
  /\ \/ UNCHANGED <<file, torn>>
     \/ torn' = TRUE /\ file' = IF torn THEN file ELSE Append(file, Garbage)
  /\ failures' = failures + 1
  /\ lost' = lost + 1
  /\ signal' = NoSignal
  /\ pc' = "poll"
  /\ UNCHANGED <<channelVars, prices, feedVars, lastSign, polls, stoppedBy, emitted, lastTs>>

Count ==
  /\ pc = "count"
  /\ emitted' = emitted + 1
  /\ lastTs' = signal.ts
  /\ signal' = NoSignal
  /\ pc' = "poll"
  /\ UNCHANGED <<channelVars, prices, feedVars, lastSign, polls, stoppedBy>>
  /\ UNCHANGED <<failures, file, torn, lost>>

-----------------------------------------------------------------------------
(* The end of a session.                                                    *)

\* A fault: max_polls is looked at first.
FinishOnPolls ==
  /\ pc = "poll"
  /\ ~MayPoll
  /\ stoppedBy' = IF MaxPolls # 0 /\ polls >= MaxPolls THEN "max_polls" ELSE stoppedBy
  /\ pc' = "close"
  /\ UNCHANGED <<channelVars, prices, feedVars, lastSign, polls, outVars>>

\* The loop is over: its condition first, then max_polls.
Finish ==
  /\ pc = "poll"
  /\ ~MayPoll
  /\ stoppedBy' = IF emitted < MaxSignals THEN "max_polls" ELSE stoppedBy
  /\ pc' = "close"
  /\ UNCHANGED <<channelVars, prices, feedVars, lastSign, polls, outVars>>

\* Ctrl+C inside the try, while a request is on its way as well.
Interrupt ==
  /\ pc \in InLoop
  /\ stoppedBy' = "manual_stop"
  /\ pc' = "close"
  /\ call' = NoCall
  /\ UNCHANGED <<market, ws, reqId, pending, streaming, inbox, read, punctual>>
  /\ UNCHANGED <<prices, feedVars, lastSign, polls, outVars>>

\* Ctrl+C in poll(), with the tick counted as seen and as nothing else yet.
InterruptTick ==
  /\ pc = "quote"
  /\ Receive \/ GiveUp
  /\ seen' = seen + 1
  /\ stoppedBy' = "manual_stop"
  /\ pc' = "close"
  /\ UNCHANGED <<prices, closes, lastEpoch, rejected, duplicate, accepted>>
  /\ UNCHANGED <<lastSign, polls, outVars>>

\* feed.disconnect() in the finally.
Disconnect ==
  /\ pc = "close"
  /\ Close
  /\ pc' = "summary"
  /\ UNCHANGED <<prices, feedVars, lastSign, polls, outVars, stoppedBy>>

\* The summary file: the counters as they are.
WriteSummary ==
  /\ pc = "summary"
  /\ pc' = "done"
  /\ UNCHANGED <<channelVars, prices, feedVars, lastSign, polls, outVars, stoppedBy>>

\* The process ends without a summary: connect() or the summary raised, or it
\* was interrupted a second time or killed.
Die ==
  /\ pc \notin Ended
  /\ pc' = "died"
  /\ UNCHANGED <<channelVars, prices, feedVars, lastSign, polls, outVars, stoppedBy>>

Poll == PollAsk \/ PollRefused \/ PollNothing \/ PollDuplicate \/ PollAccept
Evaluate == EvaluateSilent \/ EvaluateBehind \/ EvaluateSignal
Emit == AppendLine \/ AppendFails \/ Count
Session == Connect \/ Poll \/ Evaluate \/ Emit \/ Finish \/ Disconnect \/ WriteSummary

\* The market, the server and the network, while the session runs.
World ==
  /\ pc \notin Ended
  /\ MarketTick \/ Answer \/ Drop
  /\ UNCHANGED <<prices, pc, feedVars, lastSign, polls, outVars, stoppedBy>>

Next == Session \/ Interrupt \/ InterruptTick \/ Die \/ World

Spec == Init /\ [][Next]_vars

\* The session is one thread: every call it makes returns, recv() and sleep()
\* by their timeouts. Nothing is assumed of the world or of the operator.
FairSpec == Spec /\ WF_vars(Session)

-----------------------------------------------------------------------------
(* Properties.                                                              *)

\* The signals in the file, by their places.
Lines == {i \in DOMAIN file : file[i] # Garbage}

\* Every signal in the file is later than the ones before it, with a clock of
\* its own for ticks that have none, late answers and failed writes.
TimestampsIncrease ==
  \A i, j \in Lines : i < j => file[i].ts < file[j].ts

Follows(i, j) == i < j /\ \A k \in Lines : k <= i \/ j <= k

\* A crossing strategy alternates: two signals in a row have the same direction
\* only when an odd number of crossings between them was lost.
SignalsAlternate ==
  Strategy = "ema_cross" =>
    \A i, j \in Lines :
      Follows(i, j) => ((file[i].dir = file[j].dir) <=> (file[j].gap % 2 = 1))

\* Every poll that got an answer is a tick seen, and every tick seen is a
\* close or is counted as skipped; one poll at most is missing from the
\* counters, while it waits or when it was interrupted.
TicksAccounted ==
  /\ rejected + duplicate + Len(accepted) <= seen
  /\ seen <= polls
  /\ polls <= rejected + duplicate + Len(accepted) + 1
  /\ polls # rejected + duplicate + Len(accepted) =>
       pc = "quote" \/ stoppedBy = "manual_stop" \/ pc = "died"

\* signals_emitted is the number of signals in the file: at most one more is
\* there when the session was interrupted, and at most one fewer for each
\* failed write.
FileMatchesCount ==
  /\ Cardinality(Lines) <= emitted + 1
  /\ Cardinality(Lines) = emitted + 1 =>
       pc = "count" \/ stoppedBy = "manual_stop" \/ pc = "died"
  /\ pc # "count" => emitted <= Cardinality(Lines) + failures
  /\ emitted <= MaxSignals

\* The reason in the summary is why the session ended.
StoppedForReason ==
  pc \in {"close", "summary", "done"} =>
    CASE stoppedBy = "max_signals" -> emitted = MaxSignals
      [] stoppedBy = "max_polls" -> polls = MaxPolls /\ emitted < MaxSignals
      [] OTHER -> TRUE

\* Closes come from the market in its order, and a tick that has an epoch is
\* one close, however often it is read and however late.
EpochIsOneClose ==
  \A i, j \in DOMAIN accepted :
    i < j =>
      /\ accepted[i] <= accepted[j]
      /\ accepted[i] = accepted[j] => accepted[i] \in Epochless

\* With a bound on its polls a session ends.
SessionEnds == MaxPolls > 0 => <>(pc \in Ended)

\* What append() says it returns: "True on success". A signal that is counted
\* is a line of the file.
CountedIsLine == pc \in InLoop /\ pc # "count" => emitted <= Cardinality(Lines)
=============================================================================
