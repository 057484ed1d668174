# APEX ULTRA: a TLA+ verification project

APEX ULTRA observes a market and never trades with real money. An engine turns
market data into signals; a bridge validates, numbers and hashes them; a shadow
session counts the signals it would have traded over an observation period of 14
days and 500 opportunities; a Deriv adapter gives read-only quotes and, in demo
programs, executes on virtual accounts. This directory holds the TLA+ model of that
code: what is modelled, what TLC checks of it on small instances, and what TLAPS
proves of it for all of them.

## Inventory

| part | where | state | operations | hard because |
|---|---|---|---|---|
| shadow launcher | `testing/shadow/shadow_launcher.py` | session state, progress, seen ids, alert threshold | `start` (with resume), `pump_once`, `heartbeat`, `stop`, `status`, `run` | crash between saves, resume over a bridge that has forgotten, calls in any order |
| signal bridge | `adapters/apex_signal_adapter.py`, `signal_source.py`, `signal_schema.py`, `infrastructure/signal_contract.py` | source position or queue, number of the last trace id, duplicate keys | `next_signal`, `push` | per-process memory against ids that outlive it |
| recorder and view | `infrastructure/broker/deriv/shadow.py` | integrity counters, missed count, events | `record`, `record_missed`, read-only passthroughs | hash of a raw payload against a translated one |
| session store, alerts | `adapters/shadow_ops.py`, `infrastructure/shadow_telemetry.py` | one record per session id | `save`, `load`, `fire` | a save may fail silently |
| live observation | `engine/` | price buffer, last epoch, sign of the last crossover, counters, session file | `poll`, `evaluate`, `append`, `run_live` | stale and duplicate ticks, state that advances before a failure |
| OTP transport | `infrastructure/broker/deriv/rest_transport.py`, `rest_shadow_adapter.py` | one socket, the account chosen | `authorize`, `get_tick`, `subscribe_ticks`, `close` | no matching of answers with requests |
| Deriv adapter | `deriv_adapter.py`, `deriv_transport.py` | connection state, account kind, contracts tracked | `connect`, `submitOrder`, `closePosition`, `submit_intent`, `heartbeat` | answers lost after the broker acted |
| connection safety, monitor | `safety.py`, `connection_monitor.py` | connection state, attempts, background thread | `heartbeat`, `reconnect`, `run_background` | exceptions one layer does not expect |
| demo broker, mock | `demo_broker_adapter.py`, `transport.py`, `mock_broker.py` | positions, orders, faults | as the Deriv adapter | faults before or after the booking, reversals, answers of a proxy |
| burn-in | `testing/burn_in/`, `testing/shadow/shadow_burn_in.py` | trades, equity, stop conditions | `run`, `resume` | stop conditions that are not reached |
| contract selection and mapping | `contract_selection.py`, `contract_verification.py`, `execution_mapping.py`, `config_loader.py` | none | pure functions | two functions that read one answer by rules of their own |
| paging of history | `tools/fetch_candles.py`, `fetch_history.py`, the fetches of `screen_candidates.py`, `identify_reference_offset.py`, `provenance_check.py` | end of the next page, bars kept, empty answers in a row | a page and its answer | closed days, empty pages, current data given past the start of the history |
| outcome of signals | `tools/resolve_*.py`, `expectancy*.py` | bar looked at, counters, result files | a bar of a walk, a study | first touch, gaps, trades that overlap |
| breakout replay | `tools/backtest_compression_breakout.py`, `evaluate_phase47.py` | window, episode, position, trades, two files | a bar, the files, the verdict | several things at one bar, files of two runs |
| choice of an instrument | `tools/screen_candidates.py`, `identify_reference_offset.py`, `provenance_check.py` | candidates left, rows, failures in a row, records | a candidate, a record | aborts, resumptions, records of one program read by another |
| drivers | `testing/preflight`, `testing/smoke`, `testing/diagnostics`, `testing/broker_validation` | none | fixed sequences of calls | they only compose the others |

The launcher owns a bridge, a recorder and a view; the bridge owns a source; the
view wraps a Deriv adapter, which owns a transport. Everything is called from one
thread but two things: the engine pushes into the live queue, and a monitor may run
in the background over the adapter that places orders. What survives a process is the
session store, the files of the engine and the records of the research programs, which
run one after another over one directory.

What makes each part correct, and where it is stated, is in the sections below; the
hazards, with the source line where each bites and the property that watches it, are
in `PROJECT.json`. Where the code itself does what a hazard describes, no property can
hold against it, and the entry says so instead: a signal consumed without a quote, a
session without signals whose summary is overwritten, a rejection over HTTP of an order
that was carried out.

## Modules

| module | role |
|---|---|
| `SignalBridge` | the bridge and its two sources over an append-only sequence `emitted`; the ids, keys and hashes of the signal contract |
| `ShadowSession` | a session across the processes that run it: launcher, recorder, view and store, over `SignalBridge` |
| `OpportunityLedger` | abstract: entries counted once, saved whole, brought back as saved |
| `MCShadowSession` | instances of `ShadowSession` for TLC |
| `ShadowSession_proofs` | what the bridge gives out and the theorems of the session, proved |
| `OtpChannel` | one socket between a caller and the market data server: requests, answers, subscriptions, timeouts, drops |
| `QuoteReader` | abstract: ticks are read in the order of the market |
| `LiveObservation` | one session of `run_live`: feed, strategies, emitter and counters, over `OtpChannel` |
| `MCLiveObservation` | instances of `LiveObservation` for TLC |
| `LiveObservation_proofs` | the channel implements the reader, and what a session leaves behind, proved |
| `SessionFiles` | the paths, files and summaries of many sessions |
| `SessionFiles_proofs` | who shares a file, proved |
| `BrokerOrders` | abstract: an order is carried out at most once, and what its caller is told agrees with it |
| `DerivBroker` | the Deriv adapter over the simulator or a web socket, with the monitor in a thread beside it |
| `DemoBroker` | the generic adapter over its simulator or HTTP, and the mock |
| `ContractGate` | from the configuration to a verified contract: account, selection, spec, verification, mapping |
| `MCDerivBroker`, `MCContractGate`, `MCBrokers` | their instances; `MCBrokers` puts the three beside each other |
| `DerivBroker_proofs` | orders, contracts and the position of the Deriv adapter, proved |
| `Brokers_proofs` | the generic broker, the gate and the three beside each other, proved |
| `HistoryPager` | the five programs that page the broker's history backwards |
| `TradeOutcome` | the three resolvers and the two studies of their results |
| `Breakout` | the replay of the compression breakout and its evaluation |
| `Screening` | the screen, the identification of a clock, the verification, and their records |
| `MCHistoryPager`, `MCTradeOutcome`, `MCBreakout`, `MCScreening`, `MCResearch` | their instances; `MCResearch` puts the four beside each other |
| `Study_proofs` | the outcomes of signals and the choice of an instrument, proved |
| `Research_proofs` | the pager and the replay, and the four beside each other, proved |
| `FoldLemmas` | sums over finite sets and functions defined by recursion, for the proofs |

`LiveObservation` extends `OtpChannel` and takes its steps as its own: a poll is an
`Ask("ticks_history")` followed by a `Receive` or a `GiveUp`, and the market, the
server and the network move in between (`World`). `ShadowSession` extends
`SignalBridge` in the same way. `SessionFiles` looks at the same `run_live` from
outside, as many processes over one directory. `DerivBroker` and `DemoBroker` implement
the same `BrokerOrders`. In `MCBrokers` and `MCResearch` the parts share nothing: one of
them moves in each behaviour, from all its initial states, while the others rest in one
of theirs, so that one run checks them all at the cost of their sum.

### How the model corresponds to the code: the shadow session

`emitted` is every signal the source was ever given; a position in it is the
identity of an emission. The code has no such identity: it has `signal_id` and the
duplicate key, and the properties compare the two with positions. `cursor` is
`ReplayJournalSignalAdapter._i`, and in live mode what has left the queue;
`seq` and `seenKeys` are `_seq` and `_seen` of the bridge. One call of
`next_signal()` is one step: it passes over malformed and duplicate entries
(`Deliver`, `Exhaust`), giving a number to every valid entry without an id of its
own, duplicates included, as the code does before it looks for duplicates.

`ShadowSession` has one action for each outcome of an operation. `start()` is
`StartBlocked` or `StartRunning`: both restore first, as the code does, then any
gate may block. `pump_once()` is `PumpIdle`, `PumpSkip`, `PumpMissed` or
`PumpRecord`; the last includes the recorder, the progress, the alert and the save
that is due. `heartbeat()` changes modelled state only when it is lost
(`HeartbeatLost`: one reconnection, then a save). `stop()` saves in any state.
`Crash` ends the process at any point between two operations and loses all but the
store; `Launch` starts a process over the same store, with resume or without;
`Relaunch` builds a second launcher over the bridge of a process that goes on.
`counted`, `missed`, `dropped`, `alerted`, `unsaved`, `begun` and `born` are history
variables: no guard of an action that models code reads them, but for the record of
what was dropped.

Data is reduced to what the properties tell apart. A signal is a timestamp in days
and a content; a content may be malformed, may carry an id of its own (`Traced`), and may
hold an integer where a float is expected: in its timestamp, score or risk (`NotFloat`),
which the translation makes floats, or in a price (`NotFloatPrice`), which it forwards as
it is. One instrument is observed, so symbols are left out. The duplicate key is the day
and `KeyFields`, what the key takes of a content: two signals that differ in their prices
or their risk have one key. The hash is a record of what it is computed from. A signal of
the live source is stamped with today or any earlier day (`Emit`): the engine uses the
epoch of a tick or the time of its receipt, and `push()` takes what it is given.

### How the model corresponds to the code: live observation

A tick is its number in the market. `OtpChannel` keeps the socket as the frames that
have arrived (`inbox`) and the requests the server has not acted on (`pending`).
`_ws_roundtrip` is `Ask` and then `Receive` until the call has its frames, meets an
error or runs out of time; `Receive` takes the next frame whatever it is, as the code
does, which never looks at `req_id`. `GiveUp` is a `recv()` that raises. Neither
closes the socket, and `_ensure_ws` opens one only where there is none (`ws` is
`"none"`), so that after `Drop` every request is `AskDead` until `close()`.
`subscribe_ticks` ends with `_ws_forget_all` (`EndCall`), which throws one frame away.
What the server answers, and when, is left open, but for its order.

`LiveObservation` cuts the loop of `run_live` at the points where an interrupt shows in
what the session leaves behind (`pc`). `PollAsk`, `PollRefused`, `PollNothing`,
`PollDuplicate` and `PollAccept` are one iteration up to `poll()`'s result;
`EvaluateSilent`, `EvaluateBehind` and `EvaluateSignal` are the strategy and the check
of the timestamp; `AppendLine`, `AppendFails` and `Count` are the emitter and the
counters. `ema_cross` remembers its sign in `lastSign` and advances it when it finds a
crossing; `reference_ma` remembers nothing. The two averages are computed exactly, in
integers: their common denominators are multiplied out. The code uses floating point;
the properties depend on the sign of a difference only. `prices`, the course of the
market, is chosen once. A tick in `Epochless` reaches the feed without an epoch and gets
the time of receipt, which may be ahead of the market (`ClockOffsets`). A line of the
file records its timestamp, its direction and `gap`, the crossings lost since the line
before; a write that stops within a line leaves `Garbage` and a file that does not end
with a line (`torn`), on which the next line is written and lost.

In `SessionFiles` a path is a day and a number. `Start` is `next_session_path` and
`run_live` up to its loop; `Write` is any number of successful `append()`s; `End`
writes the summary over what is there. Numbers beyond the three digits of the pattern
are one more than `MaxNumber`, which the search does not see.

### How the model corresponds to the code: brokers

A call of the Deriv adapter is cut in two: `Call` sends the request the operation has come
to (`job[t].next`), and the broker acts on it at once; in a later step a `Returns` action
gives the answer to the caller and does what the code does with it. Between the two the
other thread, the monitor, may read the socket: `AnswerLost` stands for an answer that is
late, lost with the link, or read by the other thread, which skips what is not its own.
`call()` also takes a frame without a `req_id` for its answer; the model has no such
frame, because every request carries one and the server is taken to repeat it. Over the
simulator an answer comes within the call and is never lost; its faults (`faults`) are
looked at in the order of `_buy`. `connect()` is `Dial`, `AuthorizeReturns` and
`ConnectPingReturns`, one request each, and `reconnect()` the same with a number of the
attempt. `tracked` is `_open_contracts` and `isVirtual` is `_is_virtual`, with `unset` for
None. An order is its side, its symbol and its status; contracts are numbered in the order
the broker booked them.

`DemoBroker` takes an order in three steps (`DemoSubmit`, `DemoHandle`, `DemoAnswer`).
Its `pos.basis` stands for the average price: the fills blended in it. Over HTTP the
broker's act and the answer are independent, but for a fill, which is told only if there
was one; the same goes for `closePosition()` (`DemoCloseHttp`), where the broker holds the
sum of its fills (`Held`). The mock and the simulator are one action where their code does
the same.

`ContractGate` has the functions as operators (`Choice`, `AccountVerified`, `Selected`,
`Verified`, `MappingValid`, `Proposal`) and the order in which the gate programs call
them as actions. An answer to `contracts_for` is its symbol, its stake limits and its
entries by contract type; a limit fits the intent, does not, or is absent.

### How the model corresponds to the code: research

`HistoryPager` asks and handles a page in one step. `market` is every bar there will ever
be, `clock` which of them have been made: `NewBar` makes one between two pages. The screen
matches a candidate with each of several reference series (`Refs`). The server answers
past the start of its history with current data (`PastBoundary`), as the comments of the
programs say. `ExhaustedIsTrue` is about the end of the history as it is seen there; that
several empty answers in a row also end a fetch is a guess of the programs, which a long
closure makes wrong, and is not part of it. `Asks`, `Keep`, `AsksAgain` and `Stops` are
the steps the five loops share; what differs is the empty page, the end of the fetch, and
that ticks are kept before they are looked at.

`TradeOutcome` walks a series a bar at a step. A bar is which barriers of the signal are
in its range, whether a gap is before it and which side its open is past. `files` are the
results by the name they are found by, `study` what the last study took of them. A win rate
is rounded to four decimals before it is compared, as are the metrics of `Breakout`, and a
span of time has the closed hours of its gaps in it (`Epoch`, with `GapBars` to a gap).

In `Breakout` a bar is one step, in the order of the loop: window, position, episode,
breakout. The true ranges are chosen once, closes and reaches bar by bar. Two actions write the
two files, so that the program can end between them (`ReplayDies`).

`Screening` has one action for a candidate that was fetched and one for one that was not,
in either program; which correlation it finds is left open.

Faults used to test the properties stand beside the definition they replace, marked
`A fault:`; no specification uses them.

## Runs

Deadlock is not checked: launches, days, ticks, requests, polls, orders and pages are
bounded, and a session or a program that has ended stops.

| run | what it shows |
|---|---|
| `replay_session` | A replayed journal, up to three launchers, crashes, failed saves, link drops: `NoSignalDropped`, `IntegrityAccounted`, `CrashLosesLessThanABatch`, `DurableProgressKept`, and the refinement `ImplementsLedger`. |
| `live_session` | The engine pushing while the session runs, with two launchers and signals stamped with today or earlier: `PassMeansObserved`, `PassLostToLateSignal`. |
| `live_resume_drop` | Violated: after a restart new signals get ids that are already seen, and are dropped. |
| `otp_channel` | Requests of three kinds over one socket, with errors, late answers, pushed ticks left behind, drops and `close()`: `AnswersMatchCalls`, `CallsEnd`, and the refinement `ImplementsReader`. |
| `observation` | A crossover session over that channel, with failed and torn writes, interrupts, deaths and a tick without an epoch: `TimestampsIncrease`, `SignalsAlternate`, `FileMatchesCount`, `StoppedForReason`, `SessionEnds`. |
| `torn_line` | Violated: after a torn write `append()` returns True for a signal that is not a line. |
| `session_files` | Four sessions, at once and one after another, over midnight and up to the last number: `OnlyMeetingSessionsMix`, `SummaryStays`. |
| `deriv_orders` | Orders through the Deriv adapter over either transport, with the monitor beside it: what the caller is told agrees with what the broker did (`ImplementsOrders`), no contract it was told of is forgotten (`OpenContractsKept`), and the simulated position is the sum of the open contracts (`PositionIsOpenContracts`). |
| `brokers` | The generic broker (`PositionIsFills`, the refinement `DemoImplementsOrders`), the gate (`OnlyVirtualPasses`, `SelectionVerifies`) and a small Deriv adapter under fairness (`OperationsEnd`). |
| `real_traded` | Violated: an authorization whose answer is lost leaves a real account unknown, and an order is placed on it. |
| `research` | Paging without a hole (`NoHole`, `ExhaustedIsTrue`), outcomes of signals (`FirstTouch`, `LaterRuleExtends`, `NotTwoAtOnce`), the replay of the breakout (`EpisodesAccounted`, `TradesApart`), the choice of an instrument (`EveryCandidateOnce`). |
| `complete_screen` | Violated: a screen with a candidate that was never fetched is recorded as complete. |

Every passing run also checks the type invariant of its module or of its parts.

The violated properties are what the runbook, the docstrings and the comments of the
code say; `PROJECT.json` quotes the lines. Other behaviours of the model that a reader of
the code may not expect, and that no run states: after a restart a live signal that the
engine emits again is counted again; a replayed journal brings a session to PASS on the
day it starts; an untouched signal whose timestamp, score or risk is an integer fails its
integrity check; a live signal stamped days late withdraws a PASS, and a first signal
stamped before the session began lets PASS come early; a
call after a timeout is given the late answer of the call before; two sessions that start
before either has emitted share a file.

The properties that fail for the live source hold for the replay source, and the other
way round: `DistinctOpportunities` (proved, see below) and `NoSignalDropped` rest on a
journal that is read again from its start, and `PassMeansObserved` on an engine that stamps
no signal with a day to come, which a journal may. Late stamps are part of both live
properties: `PassMeansObserved` excepts a session whose first signal is from before its
creation, and `PassLostToLateSignal` says that nothing but a late stamp takes a PASS back.

The stale tick and the order of ticks belong together. A call that times out shifts
every answer after it by one call, for as long as the socket lives, yet ticks still
come in the order of the market, because every frame comes from one socket in order
and the server answers as of now. That order is what the feed rests on: its test for
a re-read looks at the newest close only, and `EpochIsOneClose` shows that this is
enough for ticks that have an epoch.

Bounds. Four entries are enough for a duplicate (with another price, in the second
journal), a malformed entry, an id of the source's own, an integer timestamp, an integer
price and a timestamp that runs backwards, with
two opportunities to a batch and a PASS at two opportunities one day apart. Three
launchers give a crash before the first save, a resume, and a resume of the resume;
two suffice in the live runs because a lost queue shows in the first restart. Two
days are enough to reach MIN_DAYS and to fall short of it. The violation runs use
the same constants.

In `otp_channel` three requests and three ticks are enough for a call that times out,
one that takes its answer and one that follows; a stream of two frames can be cut short
between them. In `observation` the periods are 1 and 2, so that three closes can cross
twice, and the buffer holds three, so that it slides within five ticks and a relation
computed again from it can differ from the one remembered; five polls leave room for a
re-read, an error and two signals; the two courses of the market turn at different
places and one begins with equal averages. In `session_files` four sessions, two numbers
and one midnight let the numbers of a day run out.

In `deriv_orders` two orders are enough for a contract that is replaced by a later one of
its symbol and for a sale that fails and is tried again; beside the monitor there is one
order, with any number of heartbeats and reconnections of two attempts, since the threads
meet in one call at a time. One fault of the simulator is set at a time, at any moment. In
`brokers` three orders of the generic broker open, reverse and flatten a position, with
one close more than orders, and the answers to `contracts_for` range over every flag,
category, multiplier range and stake limit of a multiplier, with a turbo, an option and a
missing leg beside it; the Deriv part has one order, because `OperationsEnd` is about one
operation. In `research` the history is any set of bars at seven times, which has closed
days of every length up to the window and beyond, and a new bar may be made once; two
reference series have different bars; the series of `TradeOutcome` are all those of four
bars of seven kinds; a replay has nine bars, six of them of any range, so that an episode
freezes, expires or is broken out of while a position is open (the evaluation reaches each
verdict but PASS in it); a listing has up to seven instruments, and three failures in a
row end a run.

Fairness. `otp_channel` assumes only that a caller waiting on `recv()` gets a frame or
an exception (`WF` of `Receive \/ GiveUp`): `settimeout` bounds every wait. `observation`
assumes that the thread of the session goes on (`WF` of `Session`), for the same reason
and because `sleep()` returns. Nothing is assumed of the market, the server, the network
or the operator. `brokers` assumes that a thread within a call goes on (`WF` of `Step`):
requests have a time limit and the pauses of `reconnect()` are sleeps; nothing is assumed
of the answers, so that `OperationsEnd` holds of a broker that never answers. The sessions
of the launcher and the research programs have no fairness: their properties are
safety properties, and an operator need not call anything.

## Proofs

`ShadowSession_proofs` proves of the bridge, for any journal, that the id of the next signal is a
function of the journal and its position alone (`NextIdIsReplayId`), that what the
bridge delivers is the first entry with its key (`NextIsFirst`), and that two first
entries share an id only if the source gave them the same one (`ReplayIdsDiffer`).
They rest on `BridgeInv`: the number of the last id is how many entries up to the
cursor took one, and the keys seen are the keys of the valid entries up to the cursor.

It proves of the session from them, for every value of the constants:

* `TypeCorrect`: `TypeOK` is invariant.
* `CountingCorrect`: `CountingInv` is invariant. `NoDoubleCount` alone is not
  inductive: that a delivered entry is not yet in `counted` needs the seen ids to be
  exactly the ids of the entries counted or missed, in memory and in the stored
  record alike (`Backed`), and ids to be functions of the journal (`BridgeInv`).
  `CountsOnce`, `ReplayCountsDistinctSignals` and `ReplayDropsNothing` follow.
* `DurableProgress`: a resuming launcher that has started never takes back stored
  progress, because it is never behind the store (`RestoredInv`).
* `LivePassMeansObserved`: with the live source a PASS takes MIN_DAYS, or the first signal
  counted is from before the session, because no timestamp the session or its record knows
  lies ahead of today (`LiveClock`).
* `PassIsLostToLateSignals`: with either source a PASS is taken back by nothing but a signal
  stamped less than MIN_DAYS after the first one. A restore is the hard case: one that
  brings back as many opportunities brings back the same window (`SameWindow`).
* `LosesLessThanABatch`: while saves succeed, a crash forgets less than one batch, counted
  from what the session resumed with.
* `MismatchesAccounted`: the integrity counters are those of the opportunities that fail
  the check, each named by an alert.
* `SessionImplementsLedger`: each step counts one new entry, saves the ledger whole,
  restores the saved one, loses the live one, or stutters.

`LiveObservation_proofs` proves of the channel, for any stream count and any number of
ticks and requests:

* `ChannelTypes`: `ChannelTypeOK` is invariant.
* `AnswersMatch`: until a call is late or subscribes, a frame in the socket answers the
  call that waits. It rests on `Punctual`: what is on its way belongs to that call too,
  and a call that wants one answer has at most one, on its way or arrived.
* `ChannelImplementsReader`: every tick given out is at least as new as the one before.
  It rests on `InOrder`: the ticks in the socket are sorted, and none is older than the
  newest one taken out or newer than the market.

It proves of the session, for every course of the market, both strategies with any
periods, any clock and any ticks without an epoch:

* `SessionTypes`: `TypeOK` is invariant, together with the order of the channel, which
  every step keeps because it is a step of the channel, none, or an abandoned call
  (`StepMoves`).
* `ClosesCorrect`: `EpochIsOneClose` is invariant. It rests on the order of the channel
  and on `EpochInv`: the newest close is no newer than the newest tick read, and if its
  tick has an epoch it is the one the feed compares with.
* `TimestampsCorrect`: no line is later than `last_emitted_ts` and a signal on its way to
  the file is (`TimesInv`).
* `DirectionsCorrect`: the sign in memory is the direction of the last line, turned once
  for each crossing lost since (`AlternateInv`). The averages themselves stay folded: the
  argument needs only that a relation is one of three.
* `TicksCorrect` and `CountsCorrect`: the counters match the polls, the closes and the
  lines. A failed write can take one later signal with it, which is why `CountInv` counts
  an unfinished line as one failure not yet spent (`Broken`).

`SessionFiles_proofs` proves, for any sessions, days and digits, `SessionsKeepApart` and
`SummaryIsKept`. The invariant is `FilesInv`: the files of a day are numbered without a
gap, so that the search gives a number with no file; a session's number is next to a
file; and of two sessions that have one path and never met, one ended without a signal
(`OneIsSilent`).

`DerivBroker_proofs` proves, for any number of orders, faults and attempts:

* `BrokerTypes`: `TypeOK` is invariant, with what each operation may ask for (`Follows`)
  and that only the main thread has to do with orders (`Threads`).
* `OrdersImplemented`: the refinement of `BrokerOrders`. It rests on `Agrees`: the order
  under way is the last and not yet told; it is not carried out while its proposal is
  open, its request unsent or refused, and it is once the answer to its buy or sale is
  there. The proof first reduces every action to one of a few shapes (`OffOrders`,
  `BeginsClose`, `EndsClose`, `Places`, `Carries`, `Tells`), and every step of the order
  book to one of them.
* `ContractsKept`: `OpenContractsKept`. It rests on `Books`: what is tracked for a symbol
  is a contract of that symbol, the contract of an answered buy is the newest, and a
  contract that is being sold is still the one tracked.
* `PositionFollowsContracts`: `PositionIsOpenContracts`, which is inductive beside the
  types: a booking adds the number of the new contract to the set that is summed, a sale
  takes one out, and everything else leaves the contracts and the position alone.

`Brokers_proofs` proves of the gate, for any lists of accounts and answers, `VirtualOnly`
(a gate past the check of the account goes on with the account it checked) and
`SelectionIsVerified` (what `Qualifying` asks of a multiplier pair is at least what
`Verified` asks of its spec); and of the generic broker, for any number of orders and any
share of a partial fill:

* `DemoOrdersImplemented`: the refinement of `BrokerOrders`. It rests on `DemoAgrees`: an
  order that waits for its answer is the last one and was not told of; it is not carried
  out while it is pending or, but over HTTP, when the answer is a rejection, and it is
  when the answer is a fill.
* `PositionFollowsFills`: `PositionIsFills`, inductive beside the types. A fill in the
  direction of the position keeps the fill that opened it in `pos.basis`, because the sum
  of the fills before an earlier one does not change; so does one that reduces or reverses
  it, since the code keeps the average price until the position is flat, and the fill after
  that starts the basis anew.
* `BrokersTypes`: `BrokersTypeOK` of the three parts run together. The types of the gate
  need `SelectionInv`: a spec past its selection is one that the answer holds.

`FoldLemmas` has what these sums rest on. The library's induction theorems cannot be
instantiated here, so induction is used in the form of a set: a set of natural numbers
that has 0 and the successor of each of its members has them all (`CountUp`), because a
set with a member has a least one (`LeastNumber`). A function defined by recursion is
then written as any function that satisfies its equation (`Sums`); one exists by
`CountUp` (`SumsExist`) and the one the model uses is it (`SumIsTheSums`); what follows
is that a sum is an integer and what one more or one less element makes of it
(`SumWith`, `SumWithout`). `OneAtATime`, `Only` and `Filled` are treated alike.

`Study_proofs` proves, for any signals, series and choice of gaps:

* `OutcomeTypes`, `FirstTouchTold` and `AmendmentExtends`. The invariant is `OutInv`: what
  a resolver has passed since the bar of the signal touched nothing (`Walking`), the rows
  of a file are in the order of the signals and each says what the series says
  (`RowsInOrder`, `AllTruthful`), and the counters sum to the signals passed.
  `LaterRuleExtends` compares two files written by two programs: it follows because the
  first touch within a block is the first one in the series as well.
* `OnePositionAtATime`: `NotTwoAtOnce`, of the sample both studies take, by induction on
  the rows the function `OneAtATime` has passed (`Apart`).

and for any listing, arguments and failures:

* `ScreeningTypes` and `EveryCandidateCounted`. The invariant is `ScrInv`: the rows written
  and the candidates left make up the list between them, and none is in it twice
  (`ScreenRows`, `VerifyRows`); the failures in a row counted by a program are no more
  than the rows at the end of its record that say so (`Run`), so that rows left
  unscreened follow `MaxFailures` of them (`Earned`).

`Research_proofs` proves of the pager, for any market, window, step, limits
and number of requests: `NothingMissed` and `ExhaustedMeansExhausted`. The invariant is
`PagerInv`: the next page ends before the oldest bar kept and no bar is between the two
(`Below`). An empty answer keeps it because a step back is no longer than the window; an
answer whose newest bar is a bar later than was asked for can only come from past the
start of the history, because bars are a bar apart (`GridAssumption`); ticks need
`TickCap` to be two or more, so that an answer that begins at its very end shows that
there is nothing before it. Of the replay, for any series and parameters, it proves
`FunnelAddsUp`, `OneAtOnce` and `OnlyRatchets`. The invariant is `BreakoutInv`: no episode
before the second evaluated bar, an open position was entered before the bar to come, and
its stop is where it was put until it is trailed (`PositionKnown`). `WindowIsTheLastBars`
adds that the window the replay looks at is the last `Lookback` bars (`BreakoutTypeOK`):
two loops fill it, and the invariant is that the first leaves the bars of the warmup and
that the second then slides it by one (`WindowKept`). `ResearchTypes` is `ResearchTypeOK`
of the four parts run together.

The assumptions are those of the modules (`ChannelAssumption`, `ObservationAssumption`,
`FilesAssumption`, `ContentsAssumption`, `SourceAssumption`, `SessionAssumption`,
`OrderAssumption`, `BoundAssumption`, `StakeAssumption`, `DemoAssumption`,
`AnswerAssumption`, `LoginAssumption`, `PreferredAssumption`, `MarketAssumption`,
`StepAssumption`, `GridAssumption`, `PagerAssumption`, `OutcomeAssumption`,
`SignalAssumption`, `ListingAssumption`, `ScreeningAssumption`, `BreakoutAssumption`): that
bounds are natural numbers, periods and windows positive, and inputs of the shape the code
reads. `LivePassMeansObserved` is about the live source, `Backed` and
what follows from it about a journal; `ReplayDropsNothing` also assumes that no id a source
supplies has the form of one the bridge makes.

Every invariant and action property that a passing run checks is stated by a theorem. Only
model-checked is liveness (`CallsEnd`, `SessionEnds`, `OperationsEnd`), which is beyond the
prover, and so is `ENABLED`.

## Plan

Done: the shadow session over the bridge; the live observation over the channel; session
files; the brokers, the monitor and the gate; the research programs. What is left:

1. The loop of the launcher's `run()`, with its stop request, over `ShadowSession`.
2. The expiry of a one-time password: `ContractGate`'s authorize composed with
   `OtpChannel`.
3. The monitor over the generic adapter, and the burn-in over either.
4. Proofs: that the parts of `MCBrokers` and `MCResearch` keep their safety properties in
   the composition as well (`BrokersTypes` and `ResearchTypes` have the pattern); what a
   study reports of the rows it takes (`RateMet`, `WindowsMet`) against the rows of a file.

## Not modelled

Of the live session: the conviction, regime, bracket and other descriptive fields of a
signal, which decide nothing; `run_once`.

Of the brokers: prices, balances, latencies and what a read returns; the statistics of the
monitor; frames without a `req_id`. The burn-in campaign: its stop conditions compare
floating-point statistics of a random feed, and its orders are those of `DemoBroker`. Of
the research: correlations and other statistics (a choice in the model), `replay_candles`
and `replay_signals` (the strategies of `LiveObservation` over a file),
`probe_epoch_alignment`, `ceiling_btc_reversion` and the capture of an OAuth token (one
computation and a print).

The drivers under `testing/` (fixed sequences of calls that print), the validation gates
of the engine (tests of the repository), printing, report exporters
and latency samples. The null source appears as a `start()` that is blocked.
