---------------------------- MODULE ShadowSession ---------------------------
(***************************************************************************)
(* One shadow session across the processes that run it: RealShadowLauncher *)
(* of testing/shadow/shadow_launcher.py over the bridge of SignalBridge,   *)
(* the recorder and broker view of infrastructure/broker/deriv/shadow.py   *)
(* and the SessionStore of adapters/shadow_ops.py.                         *)
(*                                                                         *)
(* The operator calls start(), pump_once(), heartbeat() and stop() in any  *)
(* order (run() is one such order); the process may crash between any two  *)
(* calls, a later one may resume the session from the stored record, the   *)
(* broker link may drop at any time, and a save may fail silently.         *)
(*                                                                         *)
(* `counted', `missed', `dropped' and `alerted' are history variables: the *)
(* positions in `emitted' behind the counters and sets the code keeps.     *)
(* Left out: counters and event lists nothing reads back (heartbeats,      *)
(* connection events, latency), and the events of the recorder, which are  *)
(* not restored on resume.                                                 *)
(***************************************************************************)
EXTENDS SignalBridge

CONSTANTS
  MinOpportunities,  \* MIN_OPPORTUNITIES
  MinDays,           \* MIN_DAYS
  PersistEvery,      \* opportunities between two saves
  SaveOutcomes,      \* whether a save may succeed, fail, or both
  MaxLaunches,       \* bound: launchers built for the session
  NoDay, NoRecord    \* None

\* The records a save may write about a session that saw the positions P.
Records(P) ==
  [state : {"CREATED", "RUNNING", "STOPPED", "BLOCKED", "COMPLETE"},
   verdict : {"BLOCKED", "PASS", "EXTEND"}, opportunities : Nat,
   firstDay : Days \cup {NoDay}, lastDay : Days \cup {NoDay},
   passed : Nat, failed : Nat, seenIds : SUBSET TraceIds,
   counted : SUBSET P, missed : SUBSET P]

ASSUME SessionAssumption ==
  /\ MinOpportunities \in Nat \ {0}
  /\ MinDays \in Nat \ {0}
  /\ PersistEvery \in Nat \ {0}
  /\ SaveOutcomes \subseteq BOOLEAN
  /\ MaxLaunches \in Nat
  /\ NoDay \notin Nat
  /\ NoRecord \notin Records(1..MaxEmitted)

VARIABLES
  state,             \* the launcher's SessionState; OFF when there is no process
  resume,            \* the launcher was built with resume=True
  begun,             \* history: start() was called on the launcher
  link,              \* the broker view: none, or its socket up or down
  opportunities, firstDay, lastDay,   \* ShadowProgress
  passed, failed,    \* ShadowRecorder.integrity_passed and integrity_failed
  failedSeen,        \* _integrity_failed_seen
  seenIds,           \* _seen_ids
  store,             \* the record in the SessionStore
  unsaved,           \* history: the last save failed
  counted, missed,   \* history: positions counted, and consumed without a quote
  dropped,           \* history: new signals skipped as already seen
  alerted,           \* history: positions INTEGRITY_FAILURE alerts named
  now, born,         \* the wall clock, and the day the session was created
  launches

progressVars == <<opportunities, firstDay, lastDay, passed, failed, failedSeen,
                  seenIds, counted, missed>>
storeVars == <<store, unsaved>>
clockVars == <<now, born, launches>>
vars == <<bridgeVars, progressVars, storeVars, clockVars,
          state, resume, begun, link, dropped, alerted>>

-----------------------------------------------------------------------------
(* ShadowProgress and status()                                             *)

\* A fault: the first day counts as a whole one.
DaysInclusive ==
  IF firstDay = NoDay \/ lastDay = NoDay \/ lastDay < firstDay
  THEN 0 ELSE lastDay - firstDay + 1

ObservedDays ==
  IF firstDay = NoDay \/ lastDay = NoDay \/ lastDay < firstDay
  THEN 0 ELSE lastDay - firstDay

\* A fault: the target of opportunities is compared for equality.
CompleteOnce ==
  /\ opportunities = MinOpportunities
  /\ ObservedDays >= MinDays

Complete ==
  /\ opportunities >= MinOpportunities
  /\ ObservedDays >= MinDays

Status ==
  IF state = "BLOCKED" THEN "BLOCKED" ELSE IF Complete THEN "PASS" ELSE "EXTEND"

\* _to_record(): what a save writes, and the history that goes with it.
Record ==
  [state |-> state, verdict |-> Status, opportunities |-> opportunities,
   firstDay |-> firstDay, lastDay |-> lastDay, passed |-> passed,
   failed |-> failed, seenIds |-> seenIds, counted |-> counted, missed |-> missed]

\* A fault: the record is rewritten in place, and a failed save leaves none.
PersistInPlace ==
  \E saved \in SaveOutcomes :
    /\ store' = IF saved THEN Record' ELSE NoRecord
    /\ unsaved' = ~saved

\* _persist(): an atomic replacement of the stored record.  A save that
\* raises is suppressed and leaves the old record in place.
Persist ==
  \E saved \in SaveOutcomes :
    /\ store' = IF saved THEN Record' ELSE store
    /\ unsaved' = ~saved

-----------------------------------------------------------------------------
(* The launcher object                                                     *)

BlankProgress ==
  /\ opportunities' = 0
  /\ firstDay' = NoDay
  /\ lastDay' = NoDay
  /\ passed' = 0
  /\ failed' = 0
  /\ failedSeen' = 0
  /\ seenIds' = {}
  /\ counted' = {}
  /\ missed' = {}

NewLauncher(r) ==
  /\ launches < MaxLaunches
  /\ launches' = launches + 1
  /\ born' = IF launches = 0 THEN now ELSE born
  /\ state' = "CREATED"
  /\ resume' = r
  /\ begun' = FALSE
  /\ link' = "none"
  /\ BlankProgress
  /\ UNCHANGED <<storeVars, now, dropped, alerted>>

\* A new process builds a source, a bridge and a launcher.
Launch(r) ==
  /\ state = "OFF"
  /\ NewBridge
  /\ NewLauncher(r)

\* The same process builds another launcher over the bridge it has.
Relaunch(r) ==
  /\ state \in {"STOPPED", "COMPLETE", "BLOCKED"}
  /\ NewLauncher(r)
  /\ UNCHANGED bridgeVars

RestoreWith(count, ids, mismatches) ==
  IF resume /\ store # NoRecord
  THEN /\ opportunities' = count
       /\ firstDay' = store.firstDay
       /\ lastDay' = store.lastDay
       /\ passed' = store.passed
       /\ failed' = store.failed
       /\ failedSeen' = mismatches
       /\ seenIds' = ids
       /\ counted' = store.counted
       /\ missed' = store.missed
  ELSE UNCHANGED progressVars

\* Faults: the seen ids, or the alerts already raised, are forgotten.
RestoreWithoutIds == RestoreWith(store.opportunities, {}, store.failed)
RestoreWithoutAlerts == RestoreWith(store.opportunities, store.seenIds, 0)

Restore == RestoreWith(store.opportunities, store.seenIds, store.failed)

\* start(): the restore comes before the gates (LIVE_TRADING, preflight, a
\* source), the connection and the virtual-account check, any of which blocks.
StartBlocked ==
  /\ state # "OFF"
  /\ Restore
  /\ state' = "BLOCKED"
  /\ begun' = TRUE
  /\ link' \in {link, "up", "down"}
  /\ UNCHANGED <<bridgeVars, storeVars, clockVars, resume, dropped, alerted>>

StartRunning ==
  /\ state # "OFF"
  /\ Restore
  /\ state' = "RUNNING"
  /\ begun' = TRUE
  /\ link' = "up"
  /\ UNCHANGED <<bridgeVars, clockVars, resume, dropped, alerted>>
  /\ Persist

\* A lost heartbeat: one reconnection attempt, then a save.  (A heartbeat that
\* is answered changes none of these variables.)
HeartbeatLost ==
  /\ state # "OFF"
  /\ link # "none"
  /\ link' \in {"up", "down"}
  /\ UNCHANGED <<bridgeVars, progressVars, clockVars, state, resume, begun, dropped, alerted>>
  /\ Persist

-----------------------------------------------------------------------------
(* pump_once(), by outcome                                                 *)

PumpIdle ==
  /\ state = "RUNNING"
  /\ Exhaust
  /\ UNCHANGED <<progressVars, storeVars, clockVars, state, resume, begun, link, dropped, alerted>>

\* Emissions the launcher may take for one signal: same key, or same own id.
SameSignal(p, q) ==
  \/ DedupKey(emitted[p]) = DedupKey(emitted[q])
  \/ emitted[p].content \in Traced /\ emitted[p].content = emitted[q].content

\* The id was seen before: consumed, and not an opportunity.
PumpSkip(p) ==
  /\ state = "RUNNING"
  /\ Deliver(p)
  /\ IdOfNext(p) \in seenIds
  /\ dropped' = IF \E q \in counted \cup missed : SameSignal(p, q)
                THEN dropped ELSE dropped \cup {p}
  /\ UNCHANGED <<progressVars, storeVars, clockVars, state, resume, begun, link, alerted>>

\* No quote: the id stays seen, the signal is not an opportunity.
PumpMissed(p) ==
  /\ state = "RUNNING"
  /\ Deliver(p)
  /\ IdOfNext(p) \notin seenIds
  /\ seenIds' = seenIds \cup {IdOfNext(p)}
  /\ missed' = missed \cup {p}
  /\ link' \in {l \in {"up", "down"} : link = "down" => l = "down"}
  /\ UNCHANGED <<storeVars, clockVars, state, resume, begun, opportunities, firstDay, lastDay,
                 passed, failed, failedSeen, counted, dropped, alerted>>

\* ShadowRecorder.record(): the recorder hashes the translated signal and
\* compares with the hash the bridge took of the raw one.
Intact(s) == SignalHash(s, TRUE) = SignalHash(s, FALSE)

RecordOpportunity(p) ==
  /\ passed' = IF Intact(emitted[p]) THEN passed + 1 ELSE passed
  /\ failed' = IF Intact(emitted[p]) THEN failed ELSE failed + 1
  /\ opportunities' = opportunities + 1
  /\ firstDay' = IF firstDay = NoDay THEN emitted[p].ts ELSE firstDay
  /\ lastDay' = emitted[p].ts
  /\ counted' = counted \cup {p}

AlertIntegrity(p) ==
  IF failed' > failedSeen
  THEN failedSeen' = failed' /\ alerted' = alerted \cup {p}
  ELSE UNCHANGED <<failedSeen, alerted>>

\* A fault: only intact opportunities bring a save nearer.
SaveDueByPassed == passed' % PersistEvery = 0

SaveDue == opportunities' % PersistEvery = 0

PumpRecord(p) ==
  /\ state = "RUNNING"
  /\ Deliver(p)
  /\ link = "up"
  /\ IdOfNext(p) \notin seenIds
  /\ seenIds' = seenIds \cup {IdOfNext(p)}
  /\ RecordOpportunity(p)
  /\ AlertIntegrity(p)
  /\ UNCHANGED <<clockVars, state, resume, begun, link, missed, dropped>>
  /\ IF SaveDue THEN Persist ELSE UNCHANGED storeVars

-----------------------------------------------------------------------------
\* stop(): disconnects, settles the state and saves.
Stop ==
  /\ state # "OFF"
  /\ state' = IF Complete THEN "COMPLETE" ELSE "STOPPED"
  /\ link' = IF link = "none" THEN "none" ELSE "down"
  /\ UNCHANGED <<bridgeVars, progressVars, clockVars, resume, begun, dropped, alerted>>
  /\ Persist

Crash ==
  /\ state # "OFF"
  /\ state' = "OFF"
  /\ link' = "none"
  /\ resume' = FALSE
  /\ begun' = FALSE
  /\ BlankProgress
  /\ UNCHANGED <<bridgeVars, storeVars, clockVars, dropped, alerted>>

LinkDrop ==
  /\ link = "up"
  /\ link' = "down"
  /\ UNCHANGED <<bridgeVars, progressVars, storeVars, clockVars,
                 state, resume, begun, dropped, alerted>>

\* The engine stamps a signal with the epoch of its last tick, or the time it
\* read it: today, or an earlier day, also one before the last signal's.
Emit(s) ==
  /\ state # "OFF"
  /\ s.ts <= now
  /\ Push(s)
  /\ UNCHANGED <<progressVars, storeVars, clockVars, state, resume, begun, link, dropped, alerted>>

Midnight ==
  /\ now < MaxDay
  /\ now' = now + 1
  /\ UNCHANGED <<bridgeVars, progressVars, storeVars, born, launches,
                 state, resume, begun, link, dropped, alerted>>

Init ==
  /\ BridgeInit
  /\ state = "OFF" /\ resume = FALSE /\ begun = FALSE /\ link = "none"
  /\ opportunities = 0 /\ firstDay = NoDay /\ lastDay = NoDay
  /\ passed = 0 /\ failed = 0 /\ failedSeen = 0
  /\ seenIds = {} /\ counted = {} /\ missed = {}
  /\ store = NoRecord /\ unsaved = FALSE
  /\ dropped = {} /\ alerted = {}
  /\ now = 0 /\ born = 0 /\ launches = 0

Next ==
  \/ \E r \in BOOLEAN : Launch(r) \/ Relaunch(r)
  \/ StartBlocked \/ StartRunning \/ HeartbeatLost
  \/ PumpIdle
  \/ \E p \in Deliverable : PumpSkip(p) \/ PumpMissed(p) \/ PumpRecord(p)
  \/ Stop \/ Crash \/ LinkDrop \/ Midnight
  \/ \E s \in Signal : Emit(s)

Spec == Init /\ [][Next]_vars

-----------------------------------------------------------------------------
(* Properties                                                              *)

ProgressTypeOK ==
  /\ opportunities \in Nat /\ passed \in Nat /\ failed \in Nat /\ failedSeen \in Nat
  /\ firstDay \in Days \cup {NoDay} /\ lastDay \in Days \cup {NoDay}
  /\ seenIds \subseteq TraceIds
  /\ counted \subseteq Positions /\ missed \subseteq Positions

StoreTypeOK ==
  /\ store \in Records(Positions) \cup {NoRecord}
  /\ unsaved \in BOOLEAN

ControlTypeOK ==
  /\ state \in {"OFF", "CREATED", "RUNNING", "STOPPED", "BLOCKED", "COMPLETE"}
  /\ resume \in BOOLEAN /\ begun \in BOOLEAN
  /\ link \in {"none", "up", "down"}
  /\ dropped \subseteq Positions /\ alerted \subseteq Positions
  /\ now \in Days /\ born \in Days /\ launches \in Nat

\* The variables of the bridge, the launcher, the recorder and the store have
\* the types the code gives them, and history names emitted positions only.
TypeOK == BridgeTypeOK /\ ProgressTypeOK /\ StoreTypeOK /\ ControlTypeOK

\* Opportunities are never double-counted: in memory and in the stored record
\* the counter equals the number of distinct emissions it stands for, however
\* often the process crashed and start() restored the session.
NoDoubleCount ==
  /\ opportunities = Cardinality(counted)
  /\ store # NoRecord => store.opportunities = Cardinality(store.counted)

\* No two counted opportunities are the same signal: the duplicate check of the
\* bridge and the seen ids of the launcher together survive a restart.
DistinctOpportunities ==
  \A p, q \in counted : p # q => DedupKey(emitted[p]) # DedupKey(emitted[q])

\* pump_once() skips a signal as already seen only if the session did see it.
NoSignalDropped == dropped = {}

\* What the two guarantees above rest on.  In a replay the ids and the first
\* occurrences are functions of the journal alone, so that every process finds
\* the ones the record remembers; from the live source nothing comes twice.
Backed(c, m, ids) ==
  IF Replaying
  THEN /\ c \cup m \subseteq FirstOccurrences
       /\ ids = {ReplayId(p) : p \in c \cup m}
  ELSE c \subseteq 1..cursor

\* The inductive invariant of the counting: the bridge is where the journal
\* puts it, and the ids in memory and in the stored record are exactly those
\* of the signals counted or missed.
CountingInv ==
  /\ BridgeInv
  /\ NoDoubleCount
  /\ Backed(counted, missed, seenIds)
  /\ store # NoRecord => Backed(store.counted, store.missed, store.seenIds)

\* A mismatch of the integrity hash is reported for exactly the opportunities
\* that have one, across restarts: the counters of the recorder agree with
\* them and INTEGRITY_FAILURE has named each of them and no other.
IntegrityAccounted ==
  LET mismatched == {p \in counted : ~Intact(emitted[p])} IN
  /\ failed = Cardinality(mismatched)
  /\ passed + failed = opportunities
  /\ counted \cap alerted = mismatched

\* While saves succeed, a crash of a running session forgets fewer
\* opportunities than one batch of pump_once().
CrashLosesLessThanABatch ==
  state = "RUNNING" /\ ~unsaved =>
    /\ store # NoRecord
    /\ opportunities - store.opportunities \in 0..(PersistEvery - 1)

\* A PASS, shown or stored, comes only after the observation period: that many
\* days have gone by since the session was created, unless the first signal it
\* counted was stamped before that day.
PassMeansObserved ==
  /\ Status = "PASS" => now - born >= MinDays \/ firstDay < born
  /\ store # NoRecord /\ store.verdict = "PASS" =>
       now - born >= MinDays \/ store.firstDay < born

\* PASS is withdrawn only by a late signal, one stamped less than MinDays after
\* the first: no save, stop, reconnection, repeated start() or later signal
\* takes it back while the session keeps its opportunities and is not blocked.
PassLostToLateSignal ==
  [][Status = "PASS" /\ Status' # "PASS" /\ opportunities' >= opportunities
       /\ state' # "BLOCKED"
       => \E p \in counted' \ counted : emitted[p].ts < firstDay + MinDays]_vars

StoredProgressFalls ==
  /\ store # NoRecord
  /\ store' = NoRecord \/ store'.opportunities < store.opportunities

\* A save never takes back stored progress, unless the launcher was built
\* without resume or saves before its start() has restored the record.
DurableProgressKept ==
  [][StoredProgressFalls => ~resume \/ ~begun]_vars

\* The session implements a ledger in which every entry is counted once, that
\* is saved whole and comes back as it was saved.
Ledger == INSTANCE OpportunityLedger
            WITH Entries <- 1..MaxEmitted,
                 live <- counted, tally <- opportunities,
                 saved <- IF store = NoRecord THEN {} ELSE store.counted,
                 savedTally <- IF store = NoRecord THEN 0 ELSE store.opportunities

ImplementsLedger == Ledger!Spec
=============================================================================
