------------------------- MODULE ShadowSession_proofs -------------------------
(*****************************************************************************)
(* Machine-checked proofs about ShadowSession and the SignalBridge under it, *)
(* for every value of their constants that the assumptions allow.            *)
(*****************************************************************************)
EXTENDS ShadowSession, FiniteSetTheorems, TLAPS

-----------------------------------------------------------------------------
(* Types                                                                   *)

\* A range of positions holds finitely many numbered signals, so every number
\* the bridge assigns is a natural number.
LEMMA NumberedIsFinite ==
  ASSUME NEW lo \in Nat, NEW hi \in Nat
  PROVE  /\ IsFiniteSet(Numbered(lo, hi))
         /\ Cardinality(Numbered(lo, hi)) \in Nat
<1>1. IsFiniteSet((lo + 1)..hi)
  BY FS_Interval
<1>2. Numbered(lo, hi) \subseteq (lo + 1)..hi
  BY DEF Numbered
<1>3. IsFiniteSet(Numbered(lo, hi))
  BY <1>1, <1>2, FS_Subset
<1> QED
  BY <1>3, FS_CardinalityType

\* Positions are natural numbers, and finitely many.
LEMMA PositionsAreFinite ==
  ASSUME BridgeTypeOK
  PROVE  /\ Len(emitted) \in Nat
         /\ IsFiniteSet(Positions)
         /\ \A S \in SUBSET Positions : IsFiniteSet(S)
<1>1. Len(emitted) \in Nat
  BY DEF BridgeTypeOK
<1>2. IsFiniteSet(1..Len(emitted))
  BY <1>1, FS_Interval
<1> QED
  BY <1>1, <1>2, FS_Subset DEF Positions

\* The position the bridge delivers is past the cursor and inside the journal.
LEMMA NextIsAhead ==
  ASSUME BridgeTypeOK, NEW p \in Deliverable
  PROVE  /\ p \in Positions /\ p \in Nat /\ p > cursor
         /\ emitted[p] \in Signal
         /\ SeqAt(p) \in Nat
         /\ IdOfNext(p) \in TraceIds
<1>1. cursor \in Nat /\ Len(emitted) \in Nat
  BY DEF BridgeTypeOK
<1>2. p \in (cursor + 1)..Len(emitted)
  BY DEF Deliverable
<1>3. p \in Positions /\ p \in Nat /\ p > cursor
  BY <1>1, <1>2 DEF Positions
<1>4. emitted[p] \in Signal
  BY <1>3 DEF BridgeTypeOK, Positions
<1>5. SeqAt(p) \in Nat
  <2>1. Cardinality(Numbered(cursor, p)) \in Nat
    BY <1>1, <1>3, NumberedIsFinite
  <2> QED
    BY <2>1 DEF SeqAt, BridgeTypeOK
<1>6. IdOfNext(p) \in TraceIds
  BY <1>4, <1>5 DEF IdOfNext, TraceId, TraceIds, Signal
<1> QED
  BY <1>3, <1>4, <1>5, <1>6

LEMMA DeliverType ==
  ASSUME BridgeTypeOK, NEW p, Deliver(p)
  PROVE  BridgeTypeOK'
<1>1. p \in Deliverable
  BY DEF Deliver, IsNext
<1>2. p \in Positions /\ p \in Nat /\ emitted[p] \in Signal /\ SeqAt(p) \in Nat
  BY <1>1, NextIsAhead
<1>3. DedupKey(emitted[p]) \in DedupKeys
  BY <1>2, ContentsAssumption DEF DedupKey, DedupKeys, Signal
<1> QED
  BY <1>2, <1>3 DEF BridgeTypeOK, Deliver, TakeUpTo, Positions

LEMMA ExhaustType ==
  ASSUME BridgeTypeOK, Exhaust
  PROVE  BridgeTypeOK'
<1>1. cursor \in Nat /\ Len(emitted) \in Nat
  BY DEF BridgeTypeOK
<1>2. SeqAt(Len(emitted)) \in Nat
  <2>1. Cardinality(Numbered(cursor, Len(emitted))) \in Nat
    BY <1>1, NumberedIsFinite
  <2> QED
    BY <2>1 DEF SeqAt, BridgeTypeOK
<1> QED
  BY <1>1, <1>2 DEF BridgeTypeOK, Exhaust, TakeUpTo

LEMMA PushType ==
  ASSUME BridgeTypeOK, NEW s \in Signal, Push(s)
  PROVE  /\ BridgeTypeOK'
         /\ Positions \subseteq Positions'
<1>1. Len(emitted) \in Nat /\ emitted \in Seq(Signal)
  BY DEF BridgeTypeOK
<1>2. emitted' \in Seq(Signal) /\ Len(emitted') = Len(emitted) + 1
  BY <1>1 DEF Push
<1>3. Len(emitted') <= MaxEmitted
  BY <1>1, <1>2, SourceAssumption DEF Push
<1> QED
  BY <1>1, <1>2, <1>3 DEF BridgeTypeOK, Push, Positions

LEMMA NewBridgeType ==
  ASSUME BridgeTypeOK, NewBridge
  PROVE  BridgeTypeOK'
<1>1. Len(emitted) \in Nat
  BY DEF BridgeTypeOK
<1> QED
  BY <1>1 DEF BridgeTypeOK, NewBridge

-----------------------------------------------------------------------------
(* What a replay rests on                                                  *)

\* Numbering a range of positions in two parts gives the same numbers.
LEMMA NumberedSplits ==
  ASSUME NEW lo \in Nat, NEW hi \in Nat, lo <= hi
  PROVE  Cardinality(Numbered(0, hi)) =
           Cardinality(Numbered(0, lo)) + Cardinality(Numbered(lo, hi))
<1>1. /\ Numbered(0, hi) = Numbered(0, lo) \cup Numbered(lo, hi)
      /\ Numbered(0, lo) \cap Numbered(lo, hi) = {}
  BY DEF Numbered
<1>2. /\ IsFiniteSet(Numbered(0, lo)) /\ Cardinality(Numbered(0, lo)) \in Nat
      /\ IsFiniteSet(Numbered(lo, hi)) /\ Cardinality(Numbered(lo, hi)) \in Nat
  BY NumberedIsFinite
<1>3. Cardinality(Numbered(0, hi)) =
        Cardinality(Numbered(0, lo)) + Cardinality(Numbered(lo, hi))
          - Cardinality(Numbered(0, lo) \cap Numbered(lo, hi))
  BY <1>1, <1>2, FS_Union
<1>4. Cardinality(Numbered(0, lo) \cap Numbered(lo, hi)) = 0
  BY <1>1, FS_EmptySet
<1> QED
  BY <1>2, <1>3, <1>4

\* In a replay the id of the next signal is the one its position has in any
\* process that reads the journal.
LEMMA NextIdIsReplayId ==
  ASSUME BridgeTypeOK, BridgeInv, Replaying, NEW p \in Deliverable
  PROVE  /\ SeqAt(p) = Cardinality(Numbered(0, p))
         /\ IdOfNext(p) = ReplayId(p)
<1>1. p \in Nat /\ p > cursor /\ cursor \in Nat
  BY NextIsAhead DEF BridgeTypeOK
<1>2. Cardinality(Numbered(0, p)) =
        Cardinality(Numbered(0, cursor)) + Cardinality(Numbered(cursor, p))
  BY <1>1, NumberedSplits
<1> QED
  BY <1>2 DEF BridgeInv, SeqAt, IdOfNext, ReplayId

\* In a replay the next signal is the first occurrence of its key.
LEMMA NextIsFirst ==
  ASSUME BridgeTypeOK, BridgeInv, Replaying, NEW p, IsNext(p)
  PROVE  p \in FirstOccurrences
<1>1. p \in Deliverable /\ \A q \in Deliverable : p <= q
  BY DEF IsNext
<1>2. /\ p \in Positions /\ p \in Nat /\ p > cursor
      /\ cursor \in Nat /\ Len(emitted) \in Nat
  BY <1>1, NextIsAhead DEF BridgeTypeOK
<1>3. Valid(emitted[p]) /\ DedupKey(emitted[p]) \notin seenKeys
  BY <1>1 DEF Deliverable
<1>4. ASSUME NEW q \in 1..(p - 1), Valid(emitted[q])
      PROVE  DedupKey(emitted[q]) \in seenKeys
  <2>1. CASE q <= cursor
    BY <1>2, <1>4, <2>1 DEF BridgeInv, ValidUpTo
  <2>2. CASE q > cursor
    <3>1. q \in (cursor + 1)..Len(emitted)
      BY <1>2, <2>2 DEF Positions
    <3>2. q \notin Deliverable
      BY <1>1, <1>2
    <3> QED
      BY <1>4, <3>1, <3>2 DEF Deliverable
  <2> QED
    BY <1>2, <2>1, <2>2
<1> QED
  BY <1>2, <1>3, <1>4 DEF FirstOccurrences

\* Delivering a signal keeps the memory of a replaying bridge what it must be.
LEMMA DeliverInv ==
  ASSUME BridgeTypeOK, BridgeInv, NEW p, Deliver(p)
  PROVE  BridgeInv'
<1> SUFFICES ASSUME Replaying PROVE BridgeInv'
  BY DEF BridgeInv
<1>1. IsNext(p) /\ p \in Deliverable /\ \A q \in Deliverable : p <= q
  BY DEF Deliver, IsNext
<1>2. p \in Positions /\ p \in Nat /\ p > cursor /\ cursor \in Nat /\ Len(emitted) \in Nat
  BY <1>1, NextIsAhead DEF BridgeTypeOK
<1>3. cursor' = p /\ seq' = SeqAt(p) /\ emitted' = emitted
  BY DEF Deliver, TakeUpTo
<1>4. seq' = Cardinality(Numbered(0, cursor))'
  BY <1>1, <1>3, NextIdIsReplayId DEF Numbered
<1>5. \A q \in ValidUpTo(p) : DedupKey(emitted[q]) \in seenKeys \cup {DedupKey(emitted[p])}
  <2> TAKE q \in ValidUpTo(p)
  <2>1. q \in 1..p /\ Valid(emitted[q])
    BY DEF ValidUpTo
  <2>2. CASE q <= cursor
    BY <1>2, <2>1, <2>2 DEF BridgeInv, ValidUpTo
  <2>3. CASE q > cursor /\ q # p
    <3>1. q \in (cursor + 1)..Len(emitted) /\ q \notin Deliverable
      BY <1>1, <1>2, <2>1, <2>3 DEF Positions
    <3> QED
      BY <2>1, <3>1 DEF Deliverable
  <2> QED
    BY <1>2, <2>1, <2>2, <2>3
<1>6. ValidUpTo(cursor) \subseteq ValidUpTo(p) /\ p \in ValidUpTo(p)
  BY <1>1, <1>2 DEF ValidUpTo, Deliverable
<1>7. seenKeys \cup {DedupKey(emitted[p])} = {DedupKey(emitted[q]) : q \in ValidUpTo(p)}
  BY <1>5, <1>6 DEF BridgeInv
<1>8. seenKeys' = {DedupKey(emitted[q]) : q \in ValidUpTo(cursor)}'
  BY <1>3, <1>7 DEF Deliver, ValidUpTo
<1> QED
  BY <1>4, <1>8 DEF BridgeInv

\* So does running out of signals.
LEMMA ExhaustInv ==
  ASSUME BridgeTypeOK, BridgeInv, Exhaust
  PROVE  BridgeInv'
<1> SUFFICES ASSUME Replaying PROVE BridgeInv'
  BY DEF BridgeInv
<1> DEFINE n == Len(emitted)
<1>1. n \in Nat /\ cursor \in Nat /\ cursor <= n
  BY DEF BridgeTypeOK
<1>2. cursor' = n /\ seq' = SeqAt(n) /\ emitted' = emitted /\ seenKeys' = seenKeys
  BY DEF Exhaust, TakeUpTo
<1>3. Cardinality(Numbered(0, n)) =
        Cardinality(Numbered(0, cursor)) + Cardinality(Numbered(cursor, n))
  BY <1>1, NumberedSplits
<1>4. seq' = Cardinality(Numbered(0, cursor))'
  BY <1>2, <1>3 DEF BridgeInv, SeqAt, Numbered
<1>5. \A q \in ValidUpTo(n) : DedupKey(emitted[q]) \in seenKeys
  <2> TAKE q \in ValidUpTo(n)
  <2>1. q \in 1..n /\ Valid(emitted[q])
    BY DEF ValidUpTo
  <2>2. CASE q <= cursor
    BY <1>1, <2>1, <2>2 DEF BridgeInv, ValidUpTo
  <2>3. CASE q > cursor
    BY <1>1, <2>1, <2>3 DEF Exhaust, Deliverable
  <2> QED
    BY <1>1, <2>1, <2>2, <2>3
<1>6. ValidUpTo(cursor) \subseteq ValidUpTo(n)
  BY <1>1 DEF ValidUpTo
<1>7. seenKeys = {DedupKey(emitted[q]) : q \in ValidUpTo(n)}
  BY <1>5, <1>6 DEF BridgeInv
<1>8. seenKeys' = {DedupKey(emitted[q]) : q \in ValidUpTo(cursor)}'
  BY <1>2, <1>7 DEF ValidUpTo
<1> QED
  BY <1>4, <1>8 DEF BridgeInv

\* A new bridge has read nothing.
LEMMA FreshInv ==
  ASSUME cursor = 0, seq = 0, seenKeys = {}
  PROVE  BridgeInv
<1>1. Numbered(0, 0) = {} /\ ValidUpTo(0) = {}
  BY DEF Numbered, ValidUpTo
<1> QED
  BY <1>1, FS_EmptySet DEF BridgeInv

LEMMA NewBridgeInv ==
  ASSUME BridgeTypeOK, NewBridge
  PROVE  BridgeInv'
<1>1. CASE Replaying
  <2>1. cursor' = 0 /\ seq' = 0 /\ seenKeys' = {}
    BY <1>1 DEF NewBridge
  <2>2. Numbered(0, 0)' = {} /\ ValidUpTo(0)' = {}
    BY DEF Numbered, ValidUpTo
  <2> QED
    BY <2>1, <2>2, FS_EmptySet DEF BridgeInv
<1>2. CASE ~Replaying
  BY <1>2 DEF BridgeInv
<1> QED
  BY <1>1, <1>2

\* Two positions of a replay have the same id only if they are the same, or
\* carry the same id of their own.
LEMMA ReplayIdsDiffer ==
  ASSUME BridgeTypeOK, NEW p \in FirstOccurrences, NEW q \in FirstOccurrences,
         ReplayId(p) = ReplayId(q), Contents \cap (Days \X Nat) = {}
  PROVE  \/ p = q
         \/ emitted[p].content \in Traced /\ emitted[p].content = emitted[q].content
<1>1. /\ p \in Nat /\ q \in Nat /\ Len(emitted) \in Nat
      /\ p \in Positions /\ q \in Positions
      /\ Valid(emitted[p]) /\ Valid(emitted[q])
  BY DEF FirstOccurrences, Positions, BridgeTypeOK
<1>2. emitted[p] \in Signal /\ emitted[q] \in Signal
  BY <1>1 DEF BridgeTypeOK, Positions
<1>3. ASSUME NEW x \in Nat, NEW y \in Nat, x < y, y \in Positions,
             Valid(emitted[y]), emitted[y].content \notin Traced
      PROVE  Cardinality(Numbered(0, x)) < Cardinality(Numbered(0, y))
  <2>1. y \in Numbered(x, y)
    BY <1>3 DEF Numbered, TakesNumber, Positions
  <2>2. /\ Cardinality(Numbered(0, x)) \in Nat
        /\ IsFiniteSet(Numbered(x, y)) /\ Cardinality(Numbered(x, y)) \in Nat
    BY <1>3, NumberedIsFinite
  <2>3. Cardinality(Numbered(x, y)) # 0
    BY <2>1, <2>2, FS_EmptySet
  <2>4. Cardinality(Numbered(0, y)) =
          Cardinality(Numbered(0, x)) + Cardinality(Numbered(x, y))
    BY <1>3, NumberedSplits
  <2> QED
    BY <2>2, <2>3, <2>4
<1>4. Cardinality(Numbered(0, p)) \in Nat /\ Cardinality(Numbered(0, q)) \in Nat
  BY <1>1, NumberedIsFinite
<1>5. CASE emitted[p].content \in Traced
  <2>1. ReplayId(p) = emitted[p].content /\ emitted[p].content \in Contents
    BY <1>2, <1>5 DEF ReplayId, TraceId, Signal
  <2>2. emitted[q].content \in Traced
    <3> SUFFICES ASSUME emitted[q].content \notin Traced PROVE FALSE
      OBVIOUS
    <3>1. ReplayId(q) \in Days \X Nat
      BY <1>2, <1>4 DEF ReplayId, TraceId, Signal
    <3> QED
      BY <2>1, <3>1
  <2> QED
    BY <1>5, <2>1, <2>2 DEF ReplayId, TraceId
<1>6. CASE emitted[p].content \notin Traced
  <2>1. ReplayId(p) = <<emitted[p].ts, Cardinality(Numbered(0, p))>>
    BY <1>6 DEF ReplayId, TraceId
  <2>2. emitted[q].content \notin Traced
    <3> SUFFICES ASSUME emitted[q].content \in Traced PROVE FALSE
      OBVIOUS
    <3>1. ReplayId(q) \in Contents
      BY <1>2 DEF ReplayId, TraceId, Signal
    <3>2. ReplayId(p) \in Days \X Nat
      BY <1>2, <1>4, <2>1 DEF Signal
    <3> QED
      BY <3>1, <3>2
  <2>3. Cardinality(Numbered(0, p)) = Cardinality(Numbered(0, q))
    BY <2>1, <2>2 DEF ReplayId, TraceId
  <2>4. ~(p < q) /\ ~(q < p)
    BY <1>1, <1>3, <1>4, <1>6, <2>2, <2>3
  <2> QED
    BY <1>1, <2>4
<1> QED
  BY <1>5, <1>6

-----------------------------------------------------------------------------
(* Type correctness                                                        *)

\* What a save writes is a session record.
LEMMA PersistType ==
  ASSUME TypeOK, Persist, ProgressTypeOK', emitted' = emitted,
         state' \in {"CREATED", "RUNNING", "STOPPED", "BLOCKED", "COMPLETE"}
  PROVE  StoreTypeOK'
<1>1. Record' \in Records(Positions)'
  BY DEF ProgressTypeOK, Record, Records, Status
<1>2. Records(Positions)' = Records(Positions)
  BY DEF Records, Positions
<1>3. unsaved' \in BOOLEAN /\ (store' = Record' \/ store' = store)
  BY SessionAssumption DEF Persist
<1> QED
  BY <1>1, <1>2, <1>3 DEF TypeOK, StoreTypeOK

LEMMA RestoreType ==
  ASSUME TypeOK, Restore, emitted' = emitted
  PROVE  ProgressTypeOK'
<1>1. CASE resume /\ store # NoRecord
  <2>1. store \in Records(Positions)
    BY <1>1 DEF TypeOK, StoreTypeOK
  <2> QED
    BY <1>1, <2>1 DEF Restore, RestoreWith, Records, ProgressTypeOK, Positions
<1>2. CASE ~(resume /\ store # NoRecord)
  BY <1>2 DEF Restore, RestoreWith, TypeOK, ProgressTypeOK, progressVars, Positions
<1> QED
  BY <1>1, <1>2

LEMMA BlankType ==
  ASSUME BlankProgress
  PROVE  ProgressTypeOK'
BY DEF BlankProgress, ProgressTypeOK

LEMMA NewLauncherType ==
  ASSUME TypeOK, NEW r \in BOOLEAN, NewLauncher(r), emitted' = emitted
  PROVE  ProgressTypeOK' /\ StoreTypeOK' /\ ControlTypeOK'
<1>1. ProgressTypeOK'
  BY BlankType DEF NewLauncher
<1>2. StoreTypeOK'
  BY DEF NewLauncher, TypeOK, StoreTypeOK, storeVars, Records, Positions
<1>3. resume' \in BOOLEAN /\ begun' \in BOOLEAN
  BY DEF NewLauncher
<1>4. now' \in Days /\ born' \in Days /\ launches' \in Nat
  BY DEF NewLauncher, TypeOK, ControlTypeOK
<1>5. /\ state' = "CREATED" /\ link' = "none"
      /\ dropped' = dropped /\ alerted' = alerted /\ Positions' = Positions
  BY DEF NewLauncher, Positions
<1> QED
  BY <1>1, <1>2, <1>3, <1>4, <1>5 DEF TypeOK, ControlTypeOK

\* Every reachable state of a session has the types of TypeOK.
THEOREM TypeCorrect == Spec => []TypeOK
<1>1. Init => TypeOK
  <2> SUFFICES ASSUME Init PROVE TypeOK
    OBVIOUS
  <2>1. emitted \in Seq(Signal) /\ Len(emitted) <= MaxEmitted
    <3>1. CASE Replaying
      BY <3>1, SourceAssumption DEF Init, BridgeInit
    <3>2. CASE ~Replaying
      BY <3>2, SourceAssumption DEF Init, BridgeInit
    <3> QED
      BY <3>1, <3>2
  <2>2. BridgeTypeOK
    BY <2>1 DEF Init, BridgeInit, BridgeTypeOK
  <2>3. 0 \in Days
    BY SourceAssumption DEF Days
  <2>4. ProgressTypeOK
    BY DEF Init, ProgressTypeOK
  <2>5. StoreTypeOK
    BY DEF Init, StoreTypeOK
  <2>6. ControlTypeOK
    BY <2>3 DEF Init, ControlTypeOK
  <2> QED
    BY <2>2, <2>4, <2>5, <2>6 DEF TypeOK
<1>2. TypeOK /\ [Next]_vars => TypeOK'
  <2> SUFFICES ASSUME TypeOK, [Next]_vars PROVE TypeOK'
    OBVIOUS
  <2> USE DEF TypeOK
  <2>1. ASSUME NEW r \in BOOLEAN, Launch(r) PROVE TypeOK'
    <3>1. BridgeTypeOK' /\ emitted' = emitted
      BY <2>1, NewBridgeType DEF Launch, NewBridge
    <3> QED
      BY <2>1, <3>1, NewLauncherType DEF Launch
  <2>2. ASSUME NEW r \in BOOLEAN, Relaunch(r) PROVE TypeOK'
    <3>1. BridgeTypeOK' /\ emitted' = emitted
      BY <2>2 DEF Relaunch, bridgeVars, BridgeTypeOK
    <3> QED
      BY <2>2, <3>1, NewLauncherType DEF Relaunch
  <2>3. CASE StartBlocked
    <3>1. BridgeTypeOK' /\ emitted' = emitted
      BY <2>3 DEF StartBlocked, bridgeVars, BridgeTypeOK
    <3>2. ProgressTypeOK'
      BY <2>3, <3>1, RestoreType DEF StartBlocked
    <3>3. StoreTypeOK' /\ ControlTypeOK'
      BY <2>3, <3>1 DEF StartBlocked, StoreTypeOK, ControlTypeOK, storeVars, clockVars,
         Records, Positions
    <3> QED
      BY <3>1, <3>2, <3>3
  <2>4. CASE StartRunning
    <3>1. BridgeTypeOK' /\ emitted' = emitted
      BY <2>4 DEF StartRunning, bridgeVars, BridgeTypeOK
    <3>2. ProgressTypeOK'
      BY <2>4, <3>1, RestoreType DEF StartRunning
    <3>3. StoreTypeOK'
      BY <2>4, <3>1, <3>2, PersistType DEF StartRunning
    <3>4. ControlTypeOK'
      BY <2>4, <3>1 DEF StartRunning, ControlTypeOK, clockVars, Positions
    <3> QED
      BY <3>1, <3>2, <3>3, <3>4
  <2>5. CASE HeartbeatLost
    <3>1. BridgeTypeOK' /\ emitted' = emitted
      BY <2>5 DEF HeartbeatLost, bridgeVars, BridgeTypeOK
    <3>2. ProgressTypeOK'
      BY <2>5, <3>1 DEF HeartbeatLost, progressVars, ProgressTypeOK, Positions
    <3>3. StoreTypeOK'
      BY <2>5, <3>1, <3>2, PersistType DEF HeartbeatLost, ControlTypeOK
    <3>4. ControlTypeOK'
      BY <2>5, <3>1 DEF HeartbeatLost, ControlTypeOK, clockVars, Positions
    <3> QED
      BY <3>1, <3>2, <3>3, <3>4
  <2>6. CASE PumpIdle
    <3>1. BridgeTypeOK' /\ emitted' = emitted
      BY <2>6, ExhaustType DEF PumpIdle, Exhaust, TakeUpTo
    <3> QED
      BY <2>6, <3>1 DEF PumpIdle, progressVars, storeVars, clockVars, ProgressTypeOK,
         StoreTypeOK, ControlTypeOK, Records, Positions
  <2>7. ASSUME NEW p \in Deliverable, PumpSkip(p) PROVE TypeOK'
    <3>1. BridgeTypeOK' /\ emitted' = emitted
      BY <2>7, DeliverType DEF PumpSkip, Deliver, TakeUpTo
    <3>2. p \in Positions /\ Positions' = Positions
      BY <3>1, NextIsAhead DEF Positions
    <3>3. ProgressTypeOK' /\ StoreTypeOK'
      BY <2>7, <3>1 DEF PumpSkip, progressVars, storeVars, ProgressTypeOK, StoreTypeOK,
         Records, Positions
    <3>4. ControlTypeOK'
      BY <2>7, <3>2 DEF PumpSkip, clockVars, ControlTypeOK
    <3> QED
      BY <3>1, <3>3, <3>4
  <2>8. ASSUME NEW p \in Deliverable, PumpMissed(p) PROVE TypeOK'
    <3>1. BridgeTypeOK' /\ emitted' = emitted
      BY <2>8, DeliverType DEF PumpMissed, Deliver, TakeUpTo
    <3>2. /\ p \in Positions /\ Positions' = Positions
          /\ IdOfNext(p) \in TraceIds
      BY <3>1, NextIsAhead DEF Positions
    <3>3. ProgressTypeOK'
      BY <2>8, <3>2 DEF PumpMissed, ProgressTypeOK
    <3>4. StoreTypeOK'
      BY <2>8, <3>2 DEF PumpMissed, storeVars, StoreTypeOK, Records
    <3>5. ControlTypeOK'
      BY <2>8, <3>2 DEF PumpMissed, clockVars, ControlTypeOK
    <3> QED
      BY <3>1, <3>3, <3>4, <3>5
  <2>9. ASSUME NEW p \in Deliverable, PumpRecord(p) PROVE TypeOK'
    <3>1. BridgeTypeOK' /\ emitted' = emitted
      BY <2>9, DeliverType DEF PumpRecord, Deliver, TakeUpTo
    <3>2. /\ p \in Positions /\ Positions' = Positions
          /\ emitted[p] \in Signal /\ IdOfNext(p) \in TraceIds
      BY <3>1, NextIsAhead DEF Positions
    <3>3. passed' \in Nat /\ failed' \in Nat /\ opportunities' \in Nat
      BY <2>9 DEF PumpRecord, RecordOpportunity, ProgressTypeOK
    <3>4. failedSeen' \in Nat /\ alerted' \subseteq Positions
      BY <2>9, <3>2, <3>3 DEF PumpRecord, AlertIntegrity, ProgressTypeOK, ControlTypeOK
    <3>5. firstDay' \in Days \cup {NoDay} /\ lastDay' \in Days \cup {NoDay}
      BY <2>9, <3>2 DEF PumpRecord, RecordOpportunity, ProgressTypeOK, Signal
    <3>6. ProgressTypeOK'
      BY <2>9, <3>2, <3>3, <3>4, <3>5 DEF PumpRecord, RecordOpportunity, ProgressTypeOK
    <3>7. StoreTypeOK'
      <4>1. CASE Persist
        BY <2>9, <3>1, <3>6, <4>1, PersistType DEF PumpRecord
      <4>2. CASE UNCHANGED storeVars
        BY <3>2, <4>2 DEF storeVars, StoreTypeOK, Records
      <4> QED
        BY <2>9, <4>1, <4>2 DEF PumpRecord
    <3>8. ControlTypeOK'
      BY <2>9, <3>2, <3>4 DEF PumpRecord, clockVars, ControlTypeOK
    <3> QED
      BY <3>1, <3>6, <3>7, <3>8
  <2>10. CASE Stop
    <3>1. BridgeTypeOK' /\ emitted' = emitted
      BY <2>10 DEF Stop, bridgeVars, BridgeTypeOK
    <3>2. ProgressTypeOK'
      BY <2>10, <3>1 DEF Stop, progressVars, ProgressTypeOK, Positions
    <3>3. StoreTypeOK'
      BY <2>10, <3>1, <3>2, PersistType DEF Stop
    <3>4. ControlTypeOK'
      BY <2>10, <3>1 DEF Stop, ControlTypeOK, clockVars, Positions
    <3> QED
      BY <3>1, <3>2, <3>3, <3>4
  <2>11. CASE Crash
    <3>1. BridgeTypeOK' /\ emitted' = emitted
      BY <2>11 DEF Crash, bridgeVars, BridgeTypeOK
    <3>2. ProgressTypeOK'
      BY <2>11, BlankType DEF Crash
    <3>3. StoreTypeOK'
      BY <2>11, <3>1 DEF Crash, storeVars, StoreTypeOK, Records, Positions
    <3>4. ControlTypeOK'
      BY <2>11, <3>1 DEF Crash, clockVars, ControlTypeOK, Positions
    <3> QED
      BY <3>1, <3>2, <3>3, <3>4
  <2>12. CASE LinkDrop
    BY <2>12 DEF LinkDrop, bridgeVars, progressVars, storeVars, clockVars, BridgeTypeOK,
       ProgressTypeOK, StoreTypeOK, ControlTypeOK, Records, Positions
  <2>13. CASE Midnight
    <3>1. now' \in Days
      BY <2>13, SourceAssumption DEF Midnight, ControlTypeOK, Days
    <3> QED
      BY <2>13, <3>1 DEF Midnight, bridgeVars, progressVars, storeVars, BridgeTypeOK,
         ProgressTypeOK, StoreTypeOK, ControlTypeOK, Records, Positions
  <2>14. ASSUME NEW s \in Signal, Emit(s) PROVE TypeOK'
    <3>1. BridgeTypeOK' /\ Positions \subseteq Positions'
      BY <2>14, PushType DEF Emit
    <3>2. ProgressTypeOK' /\ ControlTypeOK'
      BY <2>14, <3>1 DEF Emit, progressVars, clockVars, ProgressTypeOK, ControlTypeOK
    <3>3. \A rec \in Records(Positions) : rec \in Records(Positions)'
      BY <3>1 DEF Records
    <3>4. StoreTypeOK'
      BY <2>14, <3>3 DEF Emit, storeVars, StoreTypeOK
    <3> QED
      BY <3>1, <3>2, <3>4
  <2>15. CASE UNCHANGED vars
    BY <2>15 DEF vars, bridgeVars, progressVars, storeVars, clockVars, BridgeTypeOK,
       ProgressTypeOK, StoreTypeOK, ControlTypeOK, Records, Positions
  <2> QED
    BY <2>1, <2>2, <2>3, <2>4, <2>5, <2>6, <2>7, <2>8, <2>9, <2>10, <2>11, <2>12,
       <2>13, <2>14, <2>15 DEF Next
<1> QED
  BY <1>1, <1>2, PTL DEF Spec

-----------------------------------------------------------------------------
(* Counting                                                                *)

InMemory ==
  /\ opportunities = Cardinality(counted)
  /\ Backed(counted, missed, seenIds)

InStore ==
  store # NoRecord =>
    /\ store.opportunities = Cardinality(store.counted)
    /\ Backed(store.counted, store.missed, store.seenIds)

LEMMA CountingParts == CountingInv <=> BridgeInv /\ InMemory /\ InStore
BY DEF CountingInv, NoDoubleCount, InMemory, InStore

\* The journal does not change under a reader, and the cursor of the live
\* source does not move back.
Onward ==
  /\ emitted' = emitted
  /\ cursor' \in Nat
  /\ ~Replaying => cursor' >= cursor

\* What the journal says of ids and first occurrences does not change.
LEMMA JournalKept ==
  ASSUME emitted' = emitted
  PROVE  /\ FirstOccurrences' = FirstOccurrences
         /\ \A p : ReplayId(p)' = ReplayId(p)
BY DEF FirstOccurrences, Positions, ReplayId, Numbered

LEMMA LivePrefix ==
  ASSUME TypeOK, Onward, ~Replaying
  PROVE  1..cursor \subseteq 1..cursor'
<1>1. cursor \in Nat
  BY DEF TypeOK, BridgeTypeOK
<1> QED
  BY <1>1 DEF Onward

LEMMA MemoryKept ==
  ASSUME TypeOK, InMemory, Onward, UNCHANGED progressVars
  PROVE  InMemory'
<1>1. CASE Replaying
  BY <1>1, JournalKept DEF InMemory, Backed, progressVars, Onward
<1>2. CASE ~Replaying
  BY <1>2, LivePrefix DEF InMemory, Backed, progressVars, Onward
<1> QED
  BY <1>1, <1>2

LEMMA MemoryBlank ==
  ASSUME BlankProgress
  PROVE  InMemory'
BY FS_EmptySet DEF BlankProgress, InMemory, Backed

LEMMA StoreKept ==
  ASSUME TypeOK, InStore, Onward, store' = store
  PROVE  InStore'
<1>1. CASE Replaying
  BY <1>1, JournalKept DEF InStore, Backed, Onward
<1>2. CASE ~Replaying
  BY <1>2, LivePrefix DEF InStore, Backed, Onward
<1> QED
  BY <1>1, <1>2

\* A save writes what memory holds, or leaves what was stored.
LEMMA StoreSaved ==
  ASSUME TypeOK, InStore, InMemory', Onward, Persist
  PROVE  InStore'
<1>1. CASE store' = Record'
  <2>1. /\ store'.opportunities = opportunities' /\ store'.counted = counted'
        /\ store'.missed = missed' /\ store'.seenIds = seenIds'
    BY <1>1 DEF Record
  <2> QED
    BY <2>1 DEF InStore, InMemory, Backed
<1>2. CASE store' = store
  BY <1>2, StoreKept
<1> QED
  BY <1>1, <1>2 DEF Persist

LEMMA MemoryRestored ==
  ASSUME TypeOK, InMemory, InStore, Onward, cursor' = cursor, Restore
  PROVE  InMemory'
<1>1. CASE resume /\ store # NoRecord
  <2>1. /\ opportunities' = Cardinality(counted')
        /\ Backed(store.counted, store.missed, store.seenIds)
        /\ counted' = store.counted /\ missed' = store.missed
        /\ seenIds' = store.seenIds
    BY <1>1 DEF Restore, RestoreWith, InStore
  <2>2. CASE Replaying
    BY <2>1, <2>2, JournalKept DEF InMemory, Backed, Onward
  <2>3. CASE ~Replaying
    BY <2>1, <2>3 DEF InMemory, Backed
  <2> QED
    BY <2>2, <2>3
<1>2. CASE ~(resume /\ store # NoRecord)
  BY <1>2, MemoryKept DEF Restore, RestoreWith
<1> QED
  BY <1>1, <1>2

\* The ids after a signal was counted or missed.
LEMMA MemoryAdded ==
  ASSUME TypeOK, BridgeInv, InMemory, NEW p, Deliver(p), IdOfNext(p) \notin seenIds,
         seenIds' = seenIds \cup {IdOfNext(p)},
         \/ counted' = counted \cup {p} /\ missed' = missed
         \/ missed' = missed \cup {p} /\ counted' = counted
  PROVE  /\ p \notin counted
         /\ Backed(counted, missed, seenIds)'
<1>1. p \in Deliverable /\ p \in Nat /\ p > cursor /\ cursor \in Nat /\ cursor' = p
  BY NextIsAhead DEF Deliver, IsNext, TakeUpTo, TypeOK, BridgeTypeOK
<1>2. emitted' = emitted
  BY DEF Deliver, TakeUpTo
<1>3. CASE Replaying
  <2>1. IdOfNext(p) = ReplayId(p) /\ p \in FirstOccurrences
    BY <1>1, <1>3, NextIdIsReplayId, NextIsFirst DEF TypeOK, Deliver
  <2>2. /\ counted \cup missed \subseteq FirstOccurrences
        /\ seenIds = {ReplayId(q) : q \in counted \cup missed}
    BY <1>3 DEF InMemory, Backed
  <2>3. p \notin counted
    BY <2>1, <2>2
  <2>4. counted' \cup missed' = (counted \cup missed) \cup {p}
    OBVIOUS
  <2>5. seenIds' = {ReplayId(q) : q \in counted' \cup missed'}
    BY <2>1, <2>2, <2>4
  <2>6. Backed(counted, missed, seenIds)'
    BY <1>2, <1>3, <2>1, <2>2, <2>4, <2>5, JournalKept DEF Backed
  <2> QED
    BY <2>3, <2>6
<1>4. CASE ~Replaying
  <2>1. counted \subseteq 1..cursor
    BY <1>4 DEF InMemory, Backed
  <2>2. p \notin counted
    BY <1>1, <2>1
  <2>3. counted' \subseteq 1..p
    <3>1. 1..cursor \subseteq 1..p /\ p \in 1..p
      BY <1>1
    <3>2. counted' \subseteq counted \cup {p}
      OBVIOUS
    <3> QED
      BY <2>1, <3>1, <3>2
  <2>4. counted' \subseteq 1..cursor'
    BY <1>1, <2>3
  <2> QED
    BY <1>4, <2>2, <2>4 DEF Backed
<1> QED
  BY <1>3, <1>4

\* Everything but the bridge's own moves and the engine's pushes goes onward.
LEMMA StepsGoOnward ==
  ASSUME TypeOK
  PROVE  /\ UNCHANGED bridgeVars => Onward
         /\ NewBridge => Onward
         /\ Exhaust => Onward
         /\ \A p \in Deliverable : Deliver(p) => Onward
<1>1. cursor \in Nat /\ Len(emitted) \in Nat /\ cursor <= Len(emitted)
  BY DEF TypeOK, BridgeTypeOK
<1>2. UNCHANGED bridgeVars => Onward
  BY <1>1 DEF bridgeVars, Onward
<1>3. NewBridge => Onward
  BY <1>1 DEF NewBridge, Onward
<1>4. Exhaust => Onward
  BY <1>1 DEF Exhaust, TakeUpTo, Onward
<1>5. ASSUME NEW p \in Deliverable, Deliver(p) PROVE Onward
  BY <1>1, <1>5, NextIsAhead DEF Deliver, TakeUpTo, Onward, TypeOK
<1> QED
  BY <1>2, <1>3, <1>4, <1>5

\* In memory and in the stored record the counter equals the number of distinct
\* emissions it stands for, whatever was crashed, resumed, replayed or lost.
THEOREM CountingCorrect == Spec => []CountingInv
<1>1. Init => CountingInv
  <2> SUFFICES ASSUME Init PROVE CountingInv
    OBVIOUS
  <2>1. BridgeInv
    BY FreshInv DEF Init, BridgeInit
  <2>2. InMemory
    BY FS_EmptySet DEF Init, InMemory, Backed
  <2>3. InStore
    BY DEF Init, InStore
  <2> QED
    BY <2>1, <2>2, <2>3, CountingParts
<1>2. TypeOK /\ CountingInv /\ [Next]_vars => CountingInv'
  <2> SUFFICES ASSUME TypeOK, CountingInv, [Next]_vars PROVE CountingInv'
    OBVIOUS
  <2>a. BridgeTypeOK /\ BridgeInv /\ InMemory /\ InStore
    BY CountingParts DEF TypeOK
  <2>b. SUFFICES BridgeInv' /\ InMemory' /\ InStore'
    BY DEF CountingInv, NoDoubleCount, InMemory, InStore
  <2>c. UNCHANGED bridgeVars => BridgeInv'
    BY <2>a DEF bridgeVars, BridgeInv, Numbered, ValidUpTo
  <2>1. ASSUME NEW r \in BOOLEAN, Launch(r) PROVE BridgeInv' /\ InMemory' /\ InStore'
    BY <2>1, <2>a, NewBridgeInv, MemoryBlank, StoreKept, StepsGoOnward
       DEF Launch, NewLauncher, storeVars
  <2>2. ASSUME NEW r \in BOOLEAN, Relaunch(r) PROVE BridgeInv' /\ InMemory' /\ InStore'
    BY <2>2, <2>a, <2>c, MemoryBlank, StoreKept, StepsGoOnward
       DEF Relaunch, NewLauncher, storeVars
  <2>3. CASE StartBlocked
    <3>1. Onward /\ cursor' = cursor
      BY <2>3, StepsGoOnward DEF StartBlocked, bridgeVars
    <3> QED
      BY <2>3, <2>a, <2>c, <3>1, MemoryRestored, StoreKept DEF StartBlocked, storeVars
  <2>4. CASE StartRunning
    <3>1. Onward /\ cursor' = cursor
      BY <2>4, StepsGoOnward DEF StartRunning, bridgeVars
    <3>2. InMemory'
      BY <2>4, <2>a, <3>1, MemoryRestored DEF StartRunning
    <3> QED
      BY <2>4, <2>a, <2>c, <3>1, <3>2, StoreSaved DEF StartRunning
  <2>5. CASE HeartbeatLost
    BY <2>5, <2>a, <2>c, MemoryKept, StoreSaved, StepsGoOnward DEF HeartbeatLost
  <2>6. CASE PumpIdle
    BY <2>6, <2>a, ExhaustInv, MemoryKept, StoreKept, StepsGoOnward DEF PumpIdle, storeVars
  <2>7. ASSUME NEW p \in Deliverable, PumpSkip(p) PROVE BridgeInv' /\ InMemory' /\ InStore'
    BY <2>7, <2>a, DeliverInv, MemoryKept, StoreKept, StepsGoOnward DEF PumpSkip, storeVars
  <2>8. ASSUME NEW p \in Deliverable, PumpMissed(p) PROVE BridgeInv' /\ InMemory' /\ InStore'
    <3>1. BridgeInv' /\ Onward /\ InStore'
      BY <2>8, <2>a, DeliverInv, StoreKept, StepsGoOnward DEF PumpMissed, storeVars
    <3>2. Backed(counted, missed, seenIds)'
      BY <2>8, <2>a, MemoryAdded DEF PumpMissed
    <3>3. InMemory'
      BY <2>8, <2>a, <3>2 DEF PumpMissed, InMemory
    <3> QED
      BY <3>1, <3>3
  <2>9. ASSUME NEW p \in Deliverable, PumpRecord(p) PROVE BridgeInv' /\ InMemory' /\ InStore'
    <3>1. BridgeInv' /\ Onward
      BY <2>9, <2>a, DeliverInv, StepsGoOnward DEF PumpRecord
    <3>2. /\ counted' = counted \cup {p} /\ missed' = missed
          /\ opportunities' = opportunities + 1
      BY <2>9 DEF PumpRecord, RecordOpportunity
    <3>3. Backed(counted, missed, seenIds)' /\ p \notin counted
      BY <2>9, <2>a, <3>2, MemoryAdded DEF PumpRecord
    <3>4. IsFiniteSet(counted)
      BY <2>a, PositionsAreFinite DEF TypeOK, ProgressTypeOK
    <3>5. opportunities' = Cardinality(counted')
      BY <2>a, <3>2, <3>3, <3>4, FS_AddElement DEF InMemory
    <3>6. InMemory'
      BY <3>3, <3>5 DEF InMemory
    <3>7. InStore'
      BY <2>9, <2>a, <3>1, <3>6, StoreSaved, StoreKept DEF PumpRecord, storeVars
    <3> QED
      BY <3>1, <3>6, <3>7
  <2>10. CASE Stop
    BY <2>10, <2>a, <2>c, MemoryKept, StoreSaved, StepsGoOnward DEF Stop
  <2>11. CASE Crash
    BY <2>11, <2>a, <2>c, MemoryBlank, StoreKept, StepsGoOnward DEF Crash, storeVars
  <2>12. CASE LinkDrop
    BY <2>12, <2>a, <2>c, MemoryKept, StoreKept, StepsGoOnward DEF LinkDrop, storeVars
  <2>13. CASE Midnight
    BY <2>13, <2>a, <2>c, MemoryKept, StoreKept, StepsGoOnward DEF Midnight, storeVars
  <2>14. ASSUME NEW s \in Signal, Emit(s) PROVE BridgeInv' /\ InMemory' /\ InStore'
    <3>1. ~Replaying /\ cursor' = cursor
      BY <2>14 DEF Emit, Push
    <3>2. UNCHANGED progressVars /\ store' = store
      BY <2>14 DEF Emit, storeVars
    <3> QED
      BY <2>a, <3>1, <3>2 DEF BridgeInv, InMemory, InStore, Backed, progressVars
  <2>15. CASE UNCHANGED vars
    BY <2>15, <2>a, <2>c, MemoryKept, StoreKept, StepsGoOnward DEF vars, storeVars
  <2> QED
    BY <2>1, <2>2, <2>3, <2>4, <2>5, <2>6, <2>7, <2>8, <2>9, <2>10, <2>11, <2>12,
       <2>13, <2>14, <2>15 DEF Next
<1> QED
  BY <1>1, <1>2, TypeCorrect, PTL DEF Spec

\* Opportunities are never double-counted.
THEOREM CountsOnce == Spec => []NoDoubleCount
<1>1. CountingInv => NoDoubleCount
  BY DEF CountingInv
<1> QED
  BY <1>1, CountingCorrect, PTL

\* A replayed session never counts two entries of the journal with one key,
\* not even across a restart.
THEOREM ReplayCountsDistinctSignals ==
  ASSUME Replaying
  PROVE  Spec => []DistinctOpportunities
<1>1. TypeOK /\ CountingInv => DistinctOpportunities
  <2> SUFFICES ASSUME TypeOK, CountingInv, NEW p \in counted, NEW q \in counted, p # q
               PROVE  DedupKey(emitted[p]) # DedupKey(emitted[q])
    BY DEF DistinctOpportunities
  <2>1. p \in FirstOccurrences /\ q \in FirstOccurrences
    BY DEF CountingInv, Backed
  <2>2. p \in Nat /\ q \in Nat /\ p >= 1 /\ q >= 1
    BY <2>1, PositionsAreFinite DEF FirstOccurrences, Positions, TypeOK
  <2>3. p \in 1..(q - 1) \/ q \in 1..(p - 1)
    BY <2>2
  <2> QED
    BY <2>1, <2>3 DEF FirstOccurrences
<1> QED
  BY <1>1, TypeCorrect, CountingCorrect, PTL

\* A replayed session skips an entry as already seen only if it counted or
\* missed that signal, provided no id of the source's own has the form of an
\* id the bridge assigns.
THEOREM ReplayDropsNothing ==
  ASSUME Replaying, Contents \cap (Days \X Nat) = {}
  PROVE  Spec => []NoSignalDropped
<1>1. Init => NoSignalDropped
  BY DEF Init, NoSignalDropped
<1>2. TypeOK /\ CountingInv /\ NoSignalDropped /\ [Next]_vars => NoSignalDropped'
  <2> SUFFICES ASSUME TypeOK, CountingInv, dropped = {}, [Next]_vars PROVE dropped' = {}
    BY DEF NoSignalDropped
  <2>1. ASSUME NEW p \in Deliverable, PumpSkip(p)
        PROVE  \E q \in counted \cup missed : SameSignal(p, q)
    <3>1. IdOfNext(p) = ReplayId(p) /\ p \in FirstOccurrences
      BY <2>1, NextIdIsReplayId, NextIsFirst
         DEF TypeOK, CountingInv, PumpSkip, Deliver
    <3>2. PICK q \in counted \cup missed : ReplayId(q) = ReplayId(p)
      BY <2>1, <3>1 DEF PumpSkip, CountingInv, Backed
    <3>3. q \in FirstOccurrences
      BY DEF CountingInv, Backed
    <3>4. \/ p = q
          \/ emitted[p].content \in Traced /\ emitted[p].content = emitted[q].content
      BY <3>1, <3>2, <3>3, ReplayIdsDiffer DEF TypeOK
    <3> QED
      BY <3>4 DEF SameSignal
  <2>2. ASSUME NEW p \in Deliverable, PumpSkip(p) PROVE dropped' = {}
    BY <2>1, <2>2 DEF PumpSkip
  <2>3. ASSUME NEW p \in Deliverable, PumpMissed(p) \/ PumpRecord(p) PROVE dropped' = {}
    BY <2>3 DEF PumpMissed, PumpRecord
  <2>4. ASSUME NEW r \in BOOLEAN, Launch(r) \/ Relaunch(r) PROVE dropped' = {}
    BY <2>4 DEF Launch, Relaunch, NewLauncher
  <2>5. ASSUME StartBlocked \/ StartRunning \/ HeartbeatLost \/ PumpIdle \/ Stop PROVE dropped' = {}
    BY <2>5 DEF StartBlocked, StartRunning, HeartbeatLost, PumpIdle, Stop
  <2>6. ASSUME Crash \/ LinkDrop \/ Midnight PROVE dropped' = {}
    BY <2>6 DEF Crash, LinkDrop, Midnight
  <2>7. ASSUME NEW s \in Signal, Emit(s) PROVE dropped' = {}
    BY <2>7 DEF Emit
  <2>8. CASE UNCHANGED vars
    BY <2>8 DEF vars
  <2> QED
    BY <2>2, <2>3, <2>4, <2>5, <2>6, <2>7, <2>8 DEF Next
<1> QED
  BY <1>1, <1>2, TypeCorrect, CountingCorrect, PTL DEF Spec

-----------------------------------------------------------------------------
(* Durable progress                                                        *)

\* A save keeps the stored record or puts in its place one that is a record.
LEMMA SavedRecord ==
  ASSUME TypeOK', Persist, state' # "OFF"
  PROVE  \/ store' = store
         \/ /\ store' # NoRecord
            /\ store'.counted = counted' /\ store'.opportunities = opportunities'
<1>1. CASE store' = Record'
  <2>1. Positions' \subseteq 1..MaxEmitted
    BY SourceAssumption DEF TypeOK, BridgeTypeOK, Positions
  <2>2. Record' \in Records(1..MaxEmitted)
    BY <2>1 DEF TypeOK, ProgressTypeOK, ControlTypeOK, Record, Records, Status
  <2>3. store' # NoRecord
    BY <1>1, <2>2, SessionAssumption
  <2>4. store'.counted = counted' /\ store'.opportunities = opportunities'
    BY <1>1 DEF Record
  <2> QED
    BY <2>3, <2>4
<1>2. CASE store' = store
  BY <1>2
<1> QED
  BY <1>1, <1>2 DEF Persist

\* Once start() has run on a resuming launcher it is never behind the store.
RestoredInv ==
  resume /\ begun /\ store # NoRecord => opportunities >= store.opportunities

LEMMA RestoredCorrect == Spec => []RestoredInv
<1>1. Init => RestoredInv
  BY DEF Init, RestoredInv
<1>2. TypeOK /\ TypeOK' /\ RestoredInv /\ [Next]_vars => RestoredInv'
  <2> SUFFICES ASSUME TypeOK, TypeOK', RestoredInv, [Next]_vars PROVE RestoredInv'
    OBVIOUS
  <2>a. opportunities \in Nat /\ opportunities' \in Nat
    BY DEF TypeOK, ProgressTypeOK
  <2>b. store # NoRecord => store.opportunities \in Nat
    BY DEF TypeOK, StoreTypeOK, Records
  <2>c. ASSUME Persist, store # NoRecord /\ resume' /\ begun' =>
                          opportunities' >= store.opportunities
        PROVE  RestoredInv'
    BY <2>a, <2>c DEF Persist, Record, RestoredInv
  <2>1. ASSUME NEW r \in BOOLEAN, Launch(r) \/ Relaunch(r) PROVE RestoredInv'
    BY <2>1 DEF Launch, Relaunch, NewLauncher, RestoredInv
  <2>2. CASE StartBlocked
    BY <2>2, <2>b DEF StartBlocked, Restore, RestoreWith, progressVars, storeVars, RestoredInv
  <2>3. CASE StartRunning
    <3>1. resume' = resume
      BY <2>3 DEF StartRunning
    <3>2. store # NoRecord /\ resume => opportunities' = store.opportunities
      BY <2>3 DEF StartRunning, Restore, RestoreWith
    <3> QED
      BY <2>3, <2>b, <2>c, <3>1, <3>2 DEF StartRunning
  <2>4. ASSUME HeartbeatLost \/ Stop PROVE RestoredInv'
    <3>1. resume' = resume /\ begun' = begun /\ opportunities' = opportunities /\ Persist
      BY <2>4 DEF HeartbeatLost, Stop, progressVars
    <3> QED
      BY <2>c, <3>1 DEF RestoredInv
  <2>5. CASE PumpIdle
    BY <2>5 DEF PumpIdle, progressVars, storeVars, RestoredInv
  <2>6. ASSUME NEW p \in Deliverable, PumpSkip(p) \/ PumpMissed(p) PROVE RestoredInv'
    BY <2>6 DEF PumpSkip, PumpMissed, progressVars, storeVars, RestoredInv
  <2>7. ASSUME NEW p \in Deliverable, PumpRecord(p) PROVE RestoredInv'
    <3>1. resume' = resume /\ begun' = begun /\ opportunities' = opportunities + 1
      BY <2>7 DEF PumpRecord, RecordOpportunity
    <3>2. resume' /\ begun' /\ store # NoRecord => opportunities' >= store.opportunities
      BY <2>a, <2>b, <3>1 DEF RestoredInv
    <3>3. Persist \/ store' = store
      BY <2>7 DEF PumpRecord, storeVars
    <3> QED
      BY <2>c, <3>2, <3>3 DEF RestoredInv
  <2>8. CASE Crash
    BY <2>8 DEF Crash, RestoredInv
  <2>9. ASSUME LinkDrop \/ Midnight PROVE RestoredInv'
    BY <2>9 DEF LinkDrop, Midnight, progressVars, storeVars, RestoredInv
  <2>10. ASSUME NEW s \in Signal, Emit(s) PROVE RestoredInv'
    BY <2>10 DEF Emit, progressVars, storeVars, RestoredInv
  <2>11. CASE UNCHANGED vars
    BY <2>11 DEF vars, progressVars, storeVars, RestoredInv
  <2> QED
    BY <2>1, <2>2, <2>3, <2>4, <2>5, <2>6, <2>7, <2>8, <2>9, <2>10, <2>11 DEF Next
<1> QED
  BY <1>1, <1>2, TypeCorrect, PTL DEF Spec

\* A save by a resuming launcher that has started never takes back progress.
THEOREM DurableProgress == Spec => DurableProgressKept
<1>1. TypeOK /\ TypeOK' /\ RestoredInv /\ [Next]_vars
        => [StoredProgressFalls => ~resume \/ ~begun]_vars
  <2> SUFFICES ASSUME TypeOK, TypeOK', RestoredInv, Next, StoredProgressFalls, resume, begun
               PROVE  FALSE
    BY DEF StoredProgressFalls
  <2>a. /\ opportunities \in Nat /\ store # NoRecord /\ store.opportunities \in Nat
        /\ opportunities >= store.opportunities
        /\ store' # store
        /\ store' # NoRecord => store'.opportunities < store.opportunities
    BY DEF TypeOK, ProgressTypeOK, StoreTypeOK, Records, RestoredInv, StoredProgressFalls
  <2>b. ASSUME Persist, state' # "OFF", opportunities' >= store.opportunities PROVE FALSE
    <3>1. opportunities' \in Nat
      BY DEF TypeOK, ProgressTypeOK
    <3>2. store' # NoRecord /\ store'.opportunities = opportunities'
      BY <2>a, <2>b, SavedRecord
    <3> QED
      BY <2>a, <2>b, <3>1, <3>2
  <2>c. store' # store
    BY <2>a
  <2>1. ASSUME NEW r \in BOOLEAN, Launch(r) \/ Relaunch(r) PROVE FALSE
    BY <2>1, <2>c DEF Launch, Relaunch, NewLauncher, storeVars
  <2>2. ASSUME StartBlocked \/ PumpIdle \/ Crash \/ LinkDrop \/ Midnight PROVE FALSE
    BY <2>2, <2>c DEF StartBlocked, PumpIdle, Crash, LinkDrop, Midnight, storeVars
  <2>3. CASE StartRunning
    <3>1. opportunities' = store.opportunities
      BY <2>3, <2>a DEF StartRunning, Restore, RestoreWith
    <3> QED
      BY <2>3, <2>a, <2>b, <3>1 DEF StartRunning
  <2>4. ASSUME HeartbeatLost \/ Stop PROVE FALSE
    BY <2>4, <2>a, <2>b DEF HeartbeatLost, Stop, progressVars
  <2>5. ASSUME NEW p \in Deliverable, PumpSkip(p) \/ PumpMissed(p) PROVE FALSE
    BY <2>5, <2>c DEF PumpSkip, PumpMissed, storeVars
  <2>6. ASSUME NEW p \in Deliverable, PumpRecord(p) PROVE FALSE
    <3>1. opportunities' >= store.opportunities
      BY <2>6, <2>a DEF PumpRecord, RecordOpportunity
    <3> QED
      BY <2>6, <2>b, <2>c, <3>1 DEF PumpRecord, storeVars
  <2>7. ASSUME NEW s \in Signal, Emit(s) PROVE FALSE
    BY <2>7, <2>c DEF Emit, storeVars
  <2> QED
    BY <2>1, <2>2, <2>3, <2>4, <2>5, <2>6, <2>7 DEF Next
<1> QED
  BY <1>1, TypeCorrect, RestoredCorrect, PTL DEF Spec, DurableProgressKept

-----------------------------------------------------------------------------
(* The observation period                                                  *)

\* With the live source no timestamp the session knows lies ahead of today.
Observed(last) == last # NoDay => last <= now

\* The period has gone by since the session, or an earlier first signal, began.
LongEnough(first) == now - born >= MinDays \/ first < born

LiveClock ==
  /\ born <= now
  /\ launches = 0 => state = "OFF" /\ Len(emitted) = 0 /\ store = NoRecord
                        /\ firstDay = NoDay /\ lastDay = NoDay
  /\ \A p \in Positions : emitted[p].ts <= now
  /\ Observed(lastDay)
  /\ store # NoRecord =>
       /\ Observed(store.lastDay)
       /\ store.verdict = "PASS" => store.firstDay \in Nat /\ LongEnough(store.firstDay)

\* A window of signals that is long enough took that long to observe.
LEMMA PassTakesDays ==
  ASSUME TypeOK, Observed(lastDay), Status = "PASS"
  PROVE  firstDay \in Nat /\ LongEnough(firstDay)
<1>1. ObservedDays >= MinDays
  BY DEF Status, Complete
<1>2. firstDay # NoDay /\ lastDay # NoDay /\ ObservedDays = lastDay - firstDay
  BY <1>1, SessionAssumption DEF ObservedDays
<1>3. /\ firstDay \in Nat /\ lastDay \in Nat /\ now \in Nat /\ born \in Nat
      /\ MinDays \in Nat
  BY <1>2, SessionAssumption DEF TypeOK, ProgressTypeOK, ControlTypeOK, Days
<1>4. lastDay <= now /\ lastDay - firstDay >= MinDays
  BY <1>1, <1>2 DEF Observed
<1>5. \A a, b, c, d, m \in Int : c - b >= m /\ c <= d => d - a >= m \/ b < a
  OBVIOUS
<1> QED
  BY <1>3, <1>4, <1>5 DEF LongEnough

\* The same, for the next state.
LEMMA PassTakesDaysNext ==
  ASSUME TypeOK', Observed(lastDay)', Status' = "PASS"
  PROVE  firstDay' \in Nat /\ LongEnough(firstDay)'
<1>1. ObservedDays' >= MinDays
  BY DEF Status, Complete
<1>2. firstDay' # NoDay /\ lastDay' # NoDay /\ ObservedDays' = lastDay' - firstDay'
  BY <1>1, SessionAssumption DEF ObservedDays
<1>3. /\ firstDay' \in Nat /\ lastDay' \in Nat /\ now' \in Nat /\ born' \in Nat
      /\ MinDays \in Nat
  BY <1>2, SessionAssumption DEF TypeOK, ProgressTypeOK, ControlTypeOK, Days
<1>4. lastDay' <= now' /\ lastDay' - firstDay' >= MinDays
  BY <1>1, <1>2 DEF Observed
<1>5. \A a, b, c, d, m \in Int : a <= b /\ c - b >= m /\ c <= d => d - a >= m
  OBVIOUS
<1>6. CASE born' <= firstDay'
  <2>1. /\ firstDay' \in Int /\ lastDay' \in Int /\ now' \in Int /\ born' \in Int
        /\ MinDays \in Int
    BY <1>3
  <2>2. lastDay' - firstDay' >= MinDays /\ lastDay' <= now'
    BY <1>4
  <2>3. now' - born' >= MinDays
    BY <1>5, <1>6, <2>1, <2>2
  <2> QED
    BY <1>3, <2>3 DEF LongEnough
<1>7. CASE ~(born' <= firstDay')
  <2>1. firstDay' < born'
    BY <1>3, <1>7
  <2> QED
    BY <1>3, <2>1 DEF LongEnough
<1> QED
  BY <1>6, <1>7

LEMMA LiveClockCorrect ==
  ASSUME ~Replaying
  PROVE  Spec => []LiveClock
<1>1. Init => LiveClock
  BY DEF Init, BridgeInit, LiveClock, Observed, LongEnough, Positions
<1>2. TypeOK /\ TypeOK' /\ LiveClock /\ [Next]_vars => LiveClock'
  <2> SUFFICES ASSUME TypeOK, TypeOK', LiveClock, [Next]_vars PROVE LiveClock'
    OBVIOUS
  <2>a. /\ now \in Nat /\ born \in Nat /\ now' \in Nat /\ born' \in Nat
        /\ launches \in Nat /\ launches' \in Nat
    BY DEF TypeOK, ControlTypeOK, Days
  <2>b. ASSUME Persist, launches' # 0, UNCHANGED bridgeVars, born' = born, now' = now,
               Observed(lastDay)'
        PROVE  LiveClock'
    <3>1. CASE store' = store
      BY <2>b, <3>1 DEF LiveClock, Observed, LongEnough, Positions, bridgeVars
    <3>2. CASE store' = Record'
      <4>1. /\ store'.firstDay = firstDay' /\ store'.lastDay = lastDay'
            /\ store'.verdict = Status'
        BY <3>2 DEF Record
      <4>2. Status' = "PASS" => firstDay' \in Nat /\ LongEnough(firstDay)'
        BY <2>b, PassTakesDaysNext
      <4> QED
        BY <2>b, <4>1, <4>2 DEF LiveClock, Observed, LongEnough, Positions, bridgeVars
    <3> QED
      BY <2>b, <3>1, <3>2 DEF Persist
  <2>c. ASSUME Restore, born' = born, now' = now PROVE Observed(lastDay)'
    <3>1. CASE resume /\ store # NoRecord
      BY <2>c, <3>1 DEF Restore, RestoreWith, LiveClock, Observed
    <3>2. CASE ~(resume /\ store # NoRecord)
      BY <2>c, <3>2 DEF Restore, RestoreWith, progressVars, LiveClock, Observed
    <3> QED
      BY <3>1, <3>2
  <2>1. ASSUME NEW r \in BOOLEAN, Launch(r) \/ Relaunch(r) PROVE LiveClock'
    <3>1. /\ NewLauncher(r) /\ emitted' = emitted
      BY <2>1 DEF Launch, Relaunch, NewBridge, bridgeVars
    <3>2. launches' # 0 /\ now' = now /\ store' = store
      BY <2>a, <3>1 DEF NewLauncher, storeVars
    <3>3. firstDay' = NoDay /\ lastDay' = NoDay
      BY <3>1 DEF NewLauncher, BlankProgress
    <3>4. CASE launches = 0
      <4>1. Len(emitted) = 0 /\ store = NoRecord /\ born' = now
        BY <3>1, <3>4 DEF LiveClock, NewLauncher
      <4> QED
        BY <2>a, <3>1, <3>2, <3>3, <4>1 DEF LiveClock, Observed, LongEnough, Positions
    <3>5. CASE launches # 0
      <4>1. born' = born
        BY <3>1, <3>5 DEF NewLauncher
      <4> QED
        BY <3>1, <3>2, <3>3, <4>1 DEF LiveClock, Observed, LongEnough, Positions
    <3> QED
      BY <3>4, <3>5
  <2>2. CASE StartBlocked
    <3>1. launches # 0
      BY <2>2 DEF StartBlocked, LiveClock
    <3> QED
      BY <2>2, <2>c, <3>1 DEF StartBlocked, LiveClock, Observed, LongEnough, Positions, bridgeVars,
         storeVars, clockVars
  <2>3. CASE StartRunning
    <3>1. launches # 0
      BY <2>3 DEF StartRunning, LiveClock
    <3> QED
      BY <2>3, <2>b, <2>c, <3>1 DEF StartRunning, clockVars
  <2>4. ASSUME HeartbeatLost \/ Stop PROVE LiveClock'
    <3>1. launches # 0
      BY <2>4 DEF HeartbeatLost, Stop, LiveClock
    <3>2. Observed(lastDay)'
      BY <2>4 DEF HeartbeatLost, Stop, progressVars, clockVars, LiveClock, Observed
    <3> QED
      BY <2>4, <2>b, <3>1, <3>2 DEF HeartbeatLost, Stop, clockVars
  <2>5. CASE PumpIdle
    BY <2>5 DEF PumpIdle, Exhaust, TakeUpTo, LiveClock, Observed, LongEnough, Positions,
       progressVars, storeVars, clockVars
  <2>6. ASSUME NEW p \in Deliverable, PumpSkip(p) \/ PumpMissed(p) PROVE LiveClock'
    BY <2>6 DEF PumpSkip, PumpMissed, Deliver, TakeUpTo, LiveClock, Observed, LongEnough, Positions,
       progressVars, storeVars, clockVars
  <2>7. ASSUME NEW p \in Deliverable, PumpRecord(p) PROVE LiveClock'
    <3>1. /\ launches # 0 /\ launches' = launches /\ now' = now /\ born' = born
          /\ emitted' = emitted /\ state' = state
      BY <2>7 DEF PumpRecord, Deliver, TakeUpTo, LiveClock, clockVars
    <3>2. p \in Positions /\ emitted[p].ts \in Nat
      BY NextIsAhead DEF TypeOK, Signal, Days
    <3>3. Observed(lastDay)'
      BY <2>7, <3>1, <3>2 DEF PumpRecord, RecordOpportunity, LiveClock, Observed
    <3>4. CASE store' = store
      BY <3>1, <3>3, <3>4 DEF LiveClock, Observed, LongEnough, Positions
    <3>5. CASE store' = Record'
      <4>1. /\ store'.firstDay = firstDay' /\ store'.lastDay = lastDay'
            /\ store'.verdict = Status'
        BY <3>5 DEF Record
      <4>2. Status' = "PASS" => firstDay' \in Nat /\ LongEnough(firstDay)'
        BY <3>3, PassTakesDaysNext
      <4> QED
        BY <3>1, <3>3, <4>1, <4>2 DEF LiveClock, Observed, LongEnough, Positions
    <3> QED
      BY <2>7, <3>4, <3>5 DEF PumpRecord, Persist, storeVars
  <2>8. CASE Crash
    BY <2>8 DEF Crash, BlankProgress, LiveClock, Observed, LongEnough, Positions, bridgeVars,
       storeVars, clockVars
  <2>9. CASE LinkDrop
    BY <2>9 DEF LinkDrop, LiveClock, Observed, LongEnough, Positions, bridgeVars, progressVars,
       storeVars, clockVars
  <2>10. CASE Midnight
    <3>1. /\ now' = now + 1 /\ born' = born /\ emitted' = emitted /\ store' = store
          /\ firstDay' = firstDay /\ lastDay' = lastDay /\ launches' = launches
          /\ state' = state
      BY <2>10 DEF Midnight, bridgeVars, progressVars, storeVars
    <3>2. \A d \in Nat : d <= now => d <= now'
      BY <2>a, <3>1
    <3>3. \A p \in Positions : emitted[p].ts \in Nat
      <4> SUFFICES ASSUME NEW p \in Positions PROVE emitted[p].ts \in Nat
        OBVIOUS
      <4>1. emitted[p] \in Signal
        BY DEF TypeOK, BridgeTypeOK, Positions
      <4> QED
        BY <4>1 DEF Signal, Days
    <3>4. lastDay # NoDay => lastDay \in Nat
      BY DEF TypeOK, ProgressTypeOK, Days
    <3>5. store # NoRecord /\ store.lastDay # NoDay => store.lastDay \in Nat
      BY DEF TypeOK, StoreTypeOK, Records, Days
    <3>6. now - born >= MinDays => now' - born' >= MinDays
      <4>1. MinDays \in Nat
        BY SessionAssumption
      <4> QED
        BY <2>a, <3>1, <4>1
    <3>7. born' <= now' /\ \A p \in Positions : emitted[p].ts <= now'
      BY <2>a, <3>1, <3>2, <3>3 DEF LiveClock
    <3>8. Observed(lastDay)'
      BY <3>1, <3>2, <3>4 DEF LiveClock, Observed
    <3>9. store # NoRecord => Observed(store.lastDay)'
      BY <3>1, <3>2, <3>5 DEF LiveClock, Observed
    <3>10. store # NoRecord /\ store.verdict = "PASS"
             => store.firstDay \in Nat /\ LongEnough(store.firstDay)'
      BY <3>1, <3>6 DEF LiveClock, LongEnough
    <3> QED
      BY <3>1, <3>7, <3>8, <3>9, <3>10 DEF LiveClock, Positions
  <2>11. ASSUME NEW s \in Signal, Emit(s) PROVE LiveClock'
    <3>1. /\ s.ts <= now /\ emitted' = Append(emitted, s) /\ emitted \in Seq(Signal)
          /\ launches # 0 /\ launches' = launches /\ now' = now /\ born' = born
          /\ store' = store /\ firstDay' = firstDay /\ lastDay' = lastDay
      BY <2>11 DEF Emit, Push, LiveClock, clockVars, storeVars, progressVars, TypeOK,
         BridgeTypeOK
    <3>2. \A p \in Positions' : emitted'[p] = s \/ (p \in Positions /\ emitted'[p] = emitted[p])
      <4>1. /\ Len(emitted) \in Nat /\ Len(emitted') = Len(emitted) + 1
            /\ emitted'[Len(emitted) + 1] = s
            /\ \A p \in 1..Len(emitted) : emitted'[p] = emitted[p]
        BY <3>1
      <4> SUFFICES ASSUME NEW p \in Positions'
                   PROVE  emitted'[p] = s \/ (p \in Positions /\ emitted'[p] = emitted[p])
        OBVIOUS
      <4>2. p \in 1..Len(emitted) \/ p = Len(emitted) + 1
        BY <4>1 DEF Positions
      <4>3. CASE p = Len(emitted) + 1
        BY <4>1, <4>3
      <4>4. CASE p \in 1..Len(emitted)
        BY <4>1, <4>4 DEF Positions
      <4> QED
        BY <4>2, <4>3, <4>4
    <3>3. \A p \in Positions' : emitted'[p].ts <= now
      <4> SUFFICES ASSUME NEW p \in Positions' PROVE emitted'[p].ts <= now
        OBVIOUS
      <4>1. CASE emitted'[p] = s
        BY <3>1, <4>1
      <4>2. CASE p \in Positions /\ emitted'[p] = emitted[p]
        BY <4>2 DEF LiveClock
      <4> QED
        BY <3>2, <4>1, <4>2
    <3> QED
      BY <3>1, <3>3 DEF LiveClock, Observed, LongEnough
  <2>12. CASE UNCHANGED vars
    BY <2>12 DEF vars, LiveClock, Observed, LongEnough, Positions, bridgeVars, progressVars,
       storeVars, clockVars
  <2> QED
    BY <2>1, <2>2, <2>3, <2>4, <2>5, <2>6, <2>7, <2>8, <2>9, <2>10, <2>11, <2>12 DEF Next
<1> QED
  BY <1>1, <1>2, TypeCorrect, PTL DEF Spec

\* With the live source PASS, shown or stored, comes no sooner than MinDays
\* after the session was created, unless its first signal was stamped earlier.
THEOREM LivePassMeansObserved ==
  ASSUME ~Replaying
  PROVE  Spec => []PassMeansObserved
<1>1. TypeOK /\ LiveClock => PassMeansObserved
  BY PassTakesDays DEF LiveClock, LongEnough, PassMeansObserved
<1> QED
  BY <1>1, TypeCorrect, LiveClockCorrect, PTL

-----------------------------------------------------------------------------
(* A PASS is lost to a late signal only                                    *)

\* The inductive invariant: what counts nothing has not started, and a record
\* with as many opportunities as the memory that came from it has the same window.
SameWindow ==
  /\ begun \/ (opportunities = 0 /\ state # "RUNNING")
  /\ resume /\ begun /\ store # NoRecord /\ store.opportunities = opportunities
       => store.firstDay = firstDay /\ store.lastDay = lastDay

\* Days are natural numbers, wherever the session keeps them.
LEMMA DaysAreNumbers ==
  ASSUME TypeOK
  PROVE  /\ cursor \in Nat /\ Len(emitted) \in Nat /\ now \in Nat
         /\ opportunities \in Nat
         /\ \A p \in Positions : p \in Nat /\ emitted[p].ts \in Nat
         /\ firstDay # NoDay => firstDay \in Nat
         /\ lastDay # NoDay => lastDay \in Nat
         /\ store # NoRecord => store.opportunities \in Nat
<1>1. cursor \in Nat /\ Len(emitted) \in Nat
  BY DEF TypeOK, BridgeTypeOK
<1>2. \A p \in Positions : p \in Nat /\ emitted[p].ts \in Nat
  <2> SUFFICES ASSUME NEW p \in Positions PROVE p \in Nat /\ emitted[p].ts \in Nat
    OBVIOUS
  <2>1. emitted[p] \in Signal /\ p \in Nat
    BY <1>1 DEF TypeOK, BridgeTypeOK, Positions
  <2> QED
    BY <2>1 DEF Signal, Days
<1> QED
  BY <1>1, <1>2 DEF TypeOK, ProgressTypeOK, ControlTypeOK, StoreTypeOK, Records, Days

LEMMA SameWindowCorrect == Spec => []SameWindow
<1>1. Init => SameWindow
  BY DEF Init, SameWindow
<1>2. TypeOK /\ TypeOK' /\ RestoredInv /\ SameWindow /\ [Next]_vars => SameWindow'
  <2> SUFFICES ASSUME TypeOK, TypeOK', RestoredInv, SameWindow, [Next]_vars PROVE SameWindow'
    OBVIOUS
  <2>a. /\ opportunities \in Nat
        /\ store # NoRecord => store.opportunities \in Nat
    BY DaysAreNumbers
  <2>b. ASSUME Persist, begun',
               resume' /\ store # NoRecord /\ store.opportunities = opportunities'
                 => store.firstDay = firstDay' /\ store.lastDay = lastDay'
        PROVE  SameWindow'
    <3>1. CASE store' = store
      BY <2>b, <3>1 DEF SameWindow
    <3>2. CASE store' = Record'
      <4>1. store'.firstDay = firstDay' /\ store'.lastDay = lastDay'
        BY <3>2 DEF Record
      <4> QED
        BY <2>b, <4>1 DEF SameWindow
    <3> QED
      BY <2>b, <3>1, <3>2 DEF Persist
  <2>c. ASSUME ~begun', opportunities' = 0, state' # "RUNNING" PROVE SameWindow'
    BY <2>c DEF SameWindow
  <2>d. ASSUME UNCHANGED <<progressVars, store, resume, begun, state>> PROVE SameWindow'
    BY <2>d DEF progressVars, SameWindow
  <2>e. ASSUME Restore, resume' = resume, begun'
        PROVE  resume' /\ store # NoRecord
                 => store.firstDay = firstDay' /\ store.lastDay = lastDay'
    BY <2>e DEF Restore, RestoreWith
  <2>1. ASSUME NEW r \in BOOLEAN, Launch(r) \/ Relaunch(r) PROVE SameWindow'
    BY <2>1 DEF Launch, Relaunch, NewLauncher, BlankProgress, SameWindow
  <2>2. CASE StartBlocked
    BY <2>2, <2>e DEF StartBlocked, storeVars, SameWindow
  <2>3. CASE StartRunning
    BY <2>3, <2>b, <2>e DEF StartRunning
  <2>4. ASSUME HeartbeatLost \/ Stop PROVE SameWindow'
    <3>1. UNCHANGED <<progressVars, resume, begun>> /\ Persist
      BY <2>4 DEF HeartbeatLost, Stop
    <3>2. CASE begun
      BY <2>b, <3>1, <3>2 DEF progressVars, SameWindow
    <3>3. CASE ~begun
      <4>1. state' # "RUNNING"
        BY <2>4, <3>3 DEF HeartbeatLost, Stop, SameWindow
      <4> QED
        BY <2>c, <3>1, <3>3, <4>1 DEF progressVars, SameWindow
    <3> QED
      BY <3>2, <3>3
  <2>5. CASE PumpIdle
    BY <2>5, <2>d DEF PumpIdle, storeVars
  <2>6. ASSUME NEW p \in Deliverable, PumpSkip(p) \/ PumpMissed(p) PROVE SameWindow'
    BY <2>6 DEF PumpSkip, PumpMissed, progressVars, storeVars, SameWindow
  <2>7. ASSUME NEW p \in Deliverable, PumpRecord(p) PROVE SameWindow'
    <3>1. /\ resume' = resume /\ begun' = begun /\ opportunities' = opportunities + 1
          /\ Persist \/ store' = store
      BY <2>7 DEF PumpRecord, RecordOpportunity, storeVars
    <3>2. resume /\ begun /\ store # NoRecord => store.opportunities # opportunities'
      BY <2>a, <3>1 DEF RestoredInv
    <3>3. CASE ~begun
      BY <2>7, <3>3 DEF PumpRecord, SameWindow
    <3>4. CASE begun
      <4>1. ~(resume' /\ store # NoRecord /\ store.opportunities = opportunities')
        BY <3>1, <3>2, <3>4
      <4>2. begun'
        BY <3>1, <3>4
      <4>3. CASE Persist
        BY <2>b, <4>1, <4>2, <4>3
      <4>4. CASE store' = store
        BY <4>1, <4>2, <4>4 DEF SameWindow
      <4> QED
        BY <3>1, <4>3, <4>4
    <3> QED
      BY <3>3, <3>4
  <2>8. CASE Crash
    BY <2>8 DEF Crash, BlankProgress, SameWindow
  <2>9. ASSUME LinkDrop \/ Midnight PROVE SameWindow'
    BY <2>9, <2>d DEF LinkDrop, Midnight, storeVars
  <2>10. ASSUME NEW s \in Signal, Emit(s) PROVE SameWindow'
    BY <2>10, <2>d DEF Emit, storeVars
  <2>11. CASE UNCHANGED vars
    BY <2>11, <2>d DEF vars, storeVars
  <2> QED
    BY <2>1, <2>2, <2>3, <2>4, <2>5, <2>6, <2>7, <2>8, <2>9, <2>10, <2>11 DEF Next
<1> QED
  BY <1>1, <1>2, TypeCorrect, RestoredCorrect, PTL DEF Spec

\* Whatever the source, a PASS is not taken back by a save, a stop, a reconnection,
\* a restore that loses no opportunity or a signal that is not late.
THEOREM PassIsLostToLateSignals == Spec => PassLostToLateSignal
<1>1. TypeOK /\ TypeOK' /\ CountingInv /\ RestoredInv /\ SameWindow /\ [Next]_vars
        => [Status = "PASS" /\ Status' # "PASS" /\ opportunities' >= opportunities
              /\ state' # "BLOCKED"
              => \E p \in counted' \ counted : emitted[p].ts < firstDay + MinDays]_vars
  <2> SUFFICES ASSUME TypeOK, TypeOK', CountingInv, RestoredInv, SameWindow, Next,
                      Status = "PASS", Status' # "PASS", opportunities' >= opportunities,
                      state' # "BLOCKED"
               PROVE  \E p \in counted' \ counted : emitted[p].ts < firstDay + MinDays
    OBVIOUS
  <2>a. /\ opportunities >= MinOpportunities /\ firstDay # NoDay /\ lastDay # NoDay
        /\ lastDay - firstDay >= MinDays /\ lastDay >= firstDay
        /\ opportunities \in Nat /\ opportunities > 0
        /\ firstDay \in Nat /\ lastDay \in Nat
    <3>1. opportunities >= MinOpportunities /\ ObservedDays >= MinDays
      BY DEF Status, Complete
    <3>2. /\ firstDay # NoDay /\ lastDay # NoDay /\ ~(lastDay < firstDay)
          /\ ObservedDays = lastDay - firstDay
      BY <3>1, SessionAssumption DEF ObservedDays
    <3> QED
      BY <3>1, <3>2, DaysAreNumbers, SessionAssumption
  <2>e. MinDays \in Nat
    BY SessionAssumption
  <2>f. lastDay >= firstDay + MinDays
    BY <2>a, <2>e
  <2>b. ASSUME firstDay' = firstDay, lastDay' \in Nat, lastDay' >= firstDay + MinDays
        PROVE  Status' = "PASS"
    <3>1. opportunities' \in Nat /\ opportunities' >= MinOpportunities
      BY <2>a, SessionAssumption DEF TypeOK, ProgressTypeOK
    <3>2. lastDay' # NoDay /\ ~(lastDay' < firstDay') /\ lastDay' - firstDay' >= MinDays
      <4>1. \A a, b, m \in Nat : b >= a + m => b - a >= m /\ ~(b < a)
        OBVIOUS
      <4>2. lastDay' - firstDay >= MinDays /\ ~(lastDay' < firstDay)
        BY <2>a, <2>b, <2>e, <4>1
      <4>3. lastDay' # NoDay
        BY <2>b, SessionAssumption
      <4> QED
        BY <2>b, <4>2, <4>3
    <3>3. ObservedDays' >= MinDays
      BY <2>a, <2>b, <3>2 DEF ObservedDays
    <3> QED
      BY <3>1, <3>3 DEF Status, Complete
  <2>c. UNCHANGED progressVars => Status' = "PASS"
    BY <2>a, <2>b, <2>f DEF progressVars
  <2>d. begun
    BY <2>a DEF SameWindow
  <2>1. ASSUME NEW r \in BOOLEAN, Launch(r) \/ Relaunch(r) PROVE FALSE
    BY <2>1, <2>a DEF Launch, Relaunch, NewLauncher, BlankProgress
  <2>2. CASE StartBlocked
    BY <2>2 DEF StartBlocked
  <2>3. CASE StartRunning
    <3>1. CASE resume /\ store # NoRecord
      <4>1. opportunities' = store.opportunities /\ opportunities >= store.opportunities
        BY <2>3, <2>d, <3>1 DEF StartRunning, Restore, RestoreWith, RestoredInv
      <4>2. store.opportunities = opportunities
        BY <4>1, <3>1, DaysAreNumbers
      <4>3. firstDay' = firstDay /\ lastDay' = lastDay
        BY <2>3, <2>d, <3>1, <4>2 DEF StartRunning, Restore, RestoreWith, SameWindow
      <4> QED
        BY <2>a, <2>b, <2>f, <4>3
    <3>2. CASE ~(resume /\ store # NoRecord)
      BY <2>3, <2>c, <3>2 DEF StartRunning, Restore, RestoreWith
    <3> QED
      BY <3>1, <3>2
  <2>4. ASSUME HeartbeatLost \/ Stop \/ PumpIdle \/ LinkDrop \/ Midnight PROVE Status' = "PASS"
    BY <2>4, <2>c DEF HeartbeatLost, Stop, PumpIdle, LinkDrop, Midnight
  <2>5. ASSUME NEW p \in Deliverable, PumpSkip(p) \/ PumpMissed(p) PROVE Status' = "PASS"
    <3>1. firstDay' = firstDay /\ lastDay' = lastDay
      BY <2>5 DEF PumpSkip, PumpMissed, progressVars
    <3> QED
      BY <2>a, <2>b, <2>f, <3>1
  <2>6. ASSUME NEW p \in Deliverable, PumpRecord(p)
        PROVE  \E q \in counted' \ counted : emitted[q].ts < firstDay + MinDays
    <3>1. firstDay' = firstDay /\ lastDay' = emitted[p].ts
      BY <2>6, <2>a DEF PumpRecord, RecordOpportunity
    <3>2. p \in Positions /\ emitted[p].ts \in Nat
      BY NextIsAhead, DaysAreNumbers DEF TypeOK
    <3>3. p \in counted' \ counted
      BY <2>6, MemoryAdded, CountingParts DEF PumpRecord, RecordOpportunity
    <3>4. emitted[p].ts < firstDay + MinDays
      BY <2>a, <2>b, <2>e, <3>1, <3>2
    <3> QED
      BY <3>3, <3>4
  <2>7. CASE Crash
    BY <2>7, <2>a DEF Crash, BlankProgress
  <2>8. ASSUME NEW s \in Signal, Emit(s) PROVE Status' = "PASS"
    BY <2>8, <2>c DEF Emit
  <2> QED
    BY <2>1, <2>2, <2>3, <2>4, <2>5, <2>6, <2>7, <2>8 DEF Next
<1> QED
  BY <1>1, TypeCorrect, CountingCorrect, RestoredCorrect, SameWindowCorrect, PTL
     DEF Spec, PassLostToLateSignal

-----------------------------------------------------------------------------
(* Refinement                                                              *)

\* A shadow session is an opportunity ledger: every step of it counts one new
\* entry, saves the whole ledger, restores the saved one, or loses the live one.
THEOREM SessionImplementsLedger == Spec => ImplementsLedger
<1>1. Init => Ledger!Init
  BY DEF Init, Ledger!Init
<1>2. TypeOK /\ TypeOK' /\ CountingInv /\ [Next]_vars => [Ledger!Next]_(Ledger!ledgerVars)
  <2> SUFFICES ASSUME TypeOK, TypeOK', CountingInv, [Next]_vars
               PROVE  [Ledger!Next]_(Ledger!ledgerVars)
    OBVIOUS
  <2> USE DEF Ledger!Next, Ledger!ledgerVars
  <2>a. store' = store => Ledger!Keep
    BY DEF Ledger!Keep
  <2>b. ASSUME Persist, state' # "OFF" PROVE Ledger!Keep \/ Ledger!Save
    BY <2>b, <2>a, SavedRecord DEF Ledger!Save
  <2>c. ASSUME UNCHANGED progressVars, Ledger!Keep \/ Ledger!Save
        PROVE  [Ledger!Next]_(Ledger!ledgerVars)
    BY <2>c DEF progressVars, Ledger!Keep, Ledger!SaveLive
  <2>1. ASSUME NEW r \in BOOLEAN, Launch(r) \/ Relaunch(r) PROVE Ledger!Forget
    BY <2>1, <2>a DEF Launch, Relaunch, NewLauncher, BlankProgress, storeVars, Ledger!Forget
  <2>2. CASE Crash
    <3>1. Ledger!Forget
      BY <2>2, <2>a DEF Crash, BlankProgress, storeVars, Ledger!Forget
    <3> QED
      BY <3>1
  <2>3. CASE StartBlocked
    <3>1. store' = store
      BY <2>3 DEF StartBlocked, storeVars
    <3>2. CASE resume /\ store # NoRecord
      <4>1. Ledger!Resume
        BY <2>3, <2>a, <3>1, <3>2 DEF StartBlocked, Restore, RestoreWith, Ledger!Resume
      <4> QED
        BY <4>1
    <3>3. CASE ~(resume /\ store # NoRecord)
      BY <2>3, <2>a, <2>c, <3>1, <3>3 DEF StartBlocked, Restore, RestoreWith
    <3> QED
      BY <3>2, <3>3
  <2>4. CASE StartRunning
    <3>1. Ledger!Keep \/ Ledger!Save
      BY <2>4, <2>b DEF StartRunning
    <3>2. CASE resume /\ store # NoRecord
      <4>1. counted' = store.counted /\ opportunities' = store.opportunities
        BY <2>4, <3>2 DEF StartRunning, Restore, RestoreWith
      <4>2. Ledger!Save => Ledger!Keep
        BY <3>2, <4>1 DEF Ledger!Save, Ledger!Keep
      <4>3. Ledger!Resume
        BY <3>1, <3>2, <4>1, <4>2 DEF Ledger!Resume
      <4> QED
        BY <4>3
    <3>3. CASE ~(resume /\ store # NoRecord)
      BY <2>4, <2>c, <3>1, <3>3 DEF StartRunning, Restore, RestoreWith
    <3> QED
      BY <3>2, <3>3
  <2>5. CASE HeartbeatLost
    BY <2>5, <2>b, <2>c DEF HeartbeatLost
  <2>6. CASE Stop
    <3>1. state' # "OFF"
      BY <2>6 DEF Stop
    <3> QED
      BY <2>6, <2>b, <2>c, <3>1 DEF Stop
  <2>7. CASE PumpIdle
    BY <2>7, <2>a, <2>c DEF PumpIdle, storeVars
  <2>8. ASSUME NEW p \in Deliverable, PumpSkip(p) PROVE [Ledger!Next]_(Ledger!ledgerVars)
    BY <2>8, <2>a, <2>c DEF PumpSkip, storeVars
  <2>9. ASSUME NEW p \in Deliverable, PumpMissed(p) PROVE [Ledger!Next]_(Ledger!ledgerVars)
    BY <2>9 DEF PumpMissed, storeVars
  <2>10. ASSUME NEW p \in Deliverable, PumpRecord(p) PROVE [Ledger!Next]_(Ledger!ledgerVars)
    <3>1. p \in 1..MaxEmitted
      BY NextIsAhead, SourceAssumption DEF TypeOK, BridgeTypeOK, Positions
    <3>2. p \notin counted
      BY <2>10, CountingParts, MemoryAdded DEF PumpRecord, RecordOpportunity
    <3>3. Ledger!Keep \/ Ledger!Save
      BY <2>10, <2>a, <2>b DEF PumpRecord, storeVars
    <3>4. Ledger!Count(p)
      BY <2>10, <3>2, <3>3 DEF PumpRecord, RecordOpportunity, Ledger!Count
    <3> QED
      BY <3>1, <3>4
  <2>11. CASE LinkDrop
    BY <2>11, <2>a, <2>c DEF LinkDrop, storeVars
  <2>12. CASE Midnight
    BY <2>12, <2>a, <2>c DEF Midnight, storeVars
  <2>13. ASSUME NEW s \in Signal, Emit(s) PROVE [Ledger!Next]_(Ledger!ledgerVars)
    BY <2>13, <2>a, <2>c DEF Emit, storeVars
  <2>14. CASE UNCHANGED vars
    BY <2>14, <2>a, <2>c DEF vars, storeVars
  <2> QED
    BY <2>1, <2>2, <2>3, <2>4, <2>5, <2>6, <2>7, <2>8, <2>9, <2>10, <2>11, <2>12,
       <2>13, <2>14 DEF Next
<1> QED
  BY <1>1, <1>2, TypeCorrect, CountingCorrect, PTL DEF Spec, ImplementsLedger, Ledger!Spec

-----------------------------------------------------------------------------
(* Saves                                                                   *)

\* Two consecutive numbers that have one remainder each, the second not zero.
LEMMA NextOfClass ==
  ASSUME NEW d \in Nat \ {0}, NEW q \in Int, NEW s \in Int,
         NEW r \in 0..(d - 1), NEW t \in 1..(d - 1), d * q + r + 1 = d * s + t
  PROVE  t = r + 1
<1>1. d * (s - q) = r + 1 - t
  OBVIOUS
<1>2. s - q \in Int /\ r + 1 - t < d /\ r + 1 - t > 0 - d
  OBVIOUS
<1>3. ~(s - q >= 1)
  <2>1. \A e \in Int : e >= 1 => d * e >= d
    OBVIOUS
  <2> QED
    BY <2>1, <1>1, <1>2
<1>4. ~(s - q <= -1)
  <2>1. \A e \in Int : e <= -1 => d * e <= 0 - d
    OBVIOUS
  <2> QED
    BY <2>1, <1>1, <1>2
<1>5. s - q = 0
  BY <1>2, <1>3, <1>4
<1>6. r + 1 - t = 0
  BY <1>1, <1>5
<1> QED
  BY <1>6

\* The remainder of a counter grows by one until it is due.
LEMMA NextRemainder ==
  ASSUME NEW d \in Nat \ {0}, NEW n \in Nat, (n + 1) % d # 0
  PROVE  (n + 1) % d = (n % d) + 1
<1>1. n \div d \in Int /\ n % d \in 0..(d - 1) /\ n = d * (n \div d) + (n % d)
  OBVIOUS
<1>2. /\ (n + 1) \div d \in Int /\ (n + 1) % d \in 0..(d - 1)
      /\ n + 1 = d * ((n + 1) \div d) + ((n + 1) % d)
  OBVIOUS
<1>3. (n + 1) % d \in 1..(d - 1)
  BY <1>2
<1>4. PICK q \in Int, r \in 0..(d - 1) : r = n % d /\ n = d * q + r
  BY <1>1
<1>5. PICK s \in Int, t \in 1..(d - 1) : t = (n + 1) % d /\ n + 1 = d * s + t
  BY <1>2, <1>3
<1>6. d * q + r + 1 = d * s + t
  BY <1>4, <1>5
<1>7. t = r + 1
  BY <1>6, NextOfClass
<1> QED
  BY <1>4, <1>5, <1>7

\* What a running session has not saved is at most what the counter has gone past
\* the last multiple of a batch.
BatchInv ==
  state = "RUNNING" /\ ~unsaved =>
    /\ store # NoRecord
    /\ store.opportunities <= opportunities
    /\ opportunities - store.opportunities <= opportunities % PersistEvery

LEMMA SavedBatch ==
  ASSUME TypeOK', Persist
  PROVE  BatchInv'
<1>1. CASE store' = Record' /\ ~unsaved' /\ state' = "RUNNING"
  <2>1. store'.opportunities = opportunities' /\ opportunities' \in Nat
    BY <1>1 DEF Record, TypeOK, ProgressTypeOK
  <2>0. PersistEvery \in Nat \ {0}
    BY SessionAssumption
  <2>2. opportunities' % PersistEvery \in Nat /\ opportunities' - opportunities' = 0
    <3>1. \A n \in Nat : n % PersistEvery \in Nat /\ n - n = 0
      BY <2>0
    <3> QED
      BY <2>1, <3>1, Zenon
  <2>3. Record' \in Records(Positions)'
    BY <1>1 DEF Record, Records, Status, TypeOK, ProgressTypeOK
  <2>4. Positions' \subseteq 1..MaxEmitted
    <3>1. Len(emitted)' \in Nat /\ Len(emitted)' <= MaxEmitted
      BY DEF TypeOK, BridgeTypeOK
    <3> QED
      BY <3>1, SourceAssumption DEF Positions
  <2>5. Record' \in Records(1..MaxEmitted)
    BY <2>3, <2>4 DEF Records
  <2>6. store' # NoRecord
    BY <1>1, <2>5, SessionAssumption
  <2> QED
    BY <2>1, <2>2, <2>6 DEF BatchInv
<1>2. CASE unsaved' \/ state' # "RUNNING"
  BY <1>2 DEF BatchInv
<1> QED
  BY <1>1, <1>2, SessionAssumption DEF Persist

LEMMA RecordedBatch ==
  ASSUME TypeOK, TypeOK', BatchInv, NEW p, PumpRecord(p)
  PROVE  BatchInv'
<1>1. CASE SaveDue
  BY <1>1, SavedBatch DEF PumpRecord
<1>2. CASE ~SaveDue
  <2>1. /\ opportunities \in Nat /\ opportunities' = opportunities + 1
        /\ UNCHANGED <<state, store, unsaved>>
        /\ PersistEvery \in Nat \ {0}
    BY <1>2, SessionAssumption
       DEF PumpRecord, RecordOpportunity, storeVars, TypeOK, ProgressTypeOK
  <2>2. opportunities' % PersistEvery = (opportunities % PersistEvery) + 1
    BY <1>2, <2>1, NextRemainder DEF SaveDue
  <2>3. opportunities % PersistEvery \in Nat
    BY <2>1
  <2> SUFFICES ASSUME state = "RUNNING", ~unsaved
               PROVE  /\ store # NoRecord
                      /\ store.opportunities <= opportunities'
                      /\ opportunities' - store.opportunities <= opportunities' % PersistEvery
    BY <2>1 DEF BatchInv
  <2>4. /\ store # NoRecord /\ store.opportunities <= opportunities
        /\ opportunities - store.opportunities <= opportunities % PersistEvery
    BY DEF BatchInv
  <2>5. store.opportunities \in Nat
    BY <2>4 DEF TypeOK, StoreTypeOK, Records
  <2>6. opportunities' - store.opportunities = (opportunities - store.opportunities) + 1
    BY <2>1, <2>5
  <2>7. opportunities - store.opportunities \in Nat
    BY <2>1, <2>4, <2>5
  <2>8. store.opportunities <= opportunities'
    BY <2>1, <2>4, <2>5
  <2> QED
    BY <2>2, <2>3, <2>4, <2>6, <2>7, <2>8
<1> QED
  BY <1>1, <1>2

\* A crash of a running session whose saves succeed forgets fewer opportunities than
\* one batch.
THEOREM LosesLessThanABatch == Spec => []CrashLosesLessThanABatch
<1>1. Init => BatchInv
  BY DEF Init, BatchInv
<1>2. TypeOK /\ TypeOK' /\ BatchInv /\ [Next]_vars => BatchInv'
  <2> SUFFICES ASSUME TypeOK, TypeOK', BatchInv, [Next]_vars PROVE BatchInv'
    OBVIOUS
  <2>1. ASSUME NEW r \in BOOLEAN, Launch(r) \/ Relaunch(r) PROVE BatchInv'
    BY <2>1 DEF Launch, Relaunch, NewLauncher, BatchInv
  <2>2. CASE StartBlocked \/ Crash
    BY <2>2 DEF StartBlocked, Crash, BatchInv
  <2>3. CASE StartRunning \/ HeartbeatLost \/ Stop
    BY <2>3, SavedBatch DEF StartRunning, HeartbeatLost, Stop
  <2>4. ASSUME NEW p \in Deliverable, PumpRecord(p) PROVE BatchInv'
    BY <2>4, RecordedBatch
  <2>5. ASSUME NEW p \in Deliverable, PumpSkip(p) \/ PumpMissed(p) PROVE BatchInv'
    BY <2>5 DEF PumpSkip, PumpMissed, progressVars, storeVars, BatchInv
  <2>6. CASE PumpIdle \/ LinkDrop \/ Midnight \/ UNCHANGED vars
    BY <2>6 DEF PumpIdle, LinkDrop, Midnight, vars, progressVars, storeVars, BatchInv
  <2>7. ASSUME NEW s \in Signal, Emit(s) PROVE BatchInv'
    BY <2>7 DEF Emit, progressVars, storeVars, BatchInv
  <2> QED
    BY <2>1, <2>2, <2>3, <2>4, <2>5, <2>6, <2>7 DEF Next
<1>3. TypeOK /\ BatchInv => CrashLosesLessThanABatch
  <2> SUFFICES ASSUME TypeOK, BatchInv, state = "RUNNING", ~unsaved
               PROVE  /\ store # NoRecord
                      /\ opportunities - store.opportunities \in 0..(PersistEvery - 1)
    BY DEF CrashLosesLessThanABatch
  <2>1. /\ store # NoRecord /\ store.opportunities <= opportunities
        /\ opportunities - store.opportunities <= opportunities % PersistEvery
    BY DEF BatchInv
  <2>2. /\ store.opportunities \in Nat /\ opportunities \in Nat
        /\ PersistEvery \in Nat \ {0}
    BY <2>1, SessionAssumption DEF TypeOK, StoreTypeOK, ProgressTypeOK, Records
  <2>3. opportunities % PersistEvery \in 0..(PersistEvery - 1)
    BY <2>2
  <2> QED
    BY <2>1, <2>2, <2>3
<1> QED
  BY <1>1, <1>2, <1>3, TypeCorrect, PTL DEF Spec

-----------------------------------------------------------------------------
(* The integrity check                                                     *)

Mismatched(c) == {p \in c : ~Intact(emitted[p])}

\* The counters are those of the opportunities that fail the check, and each of
\* those was named.
Accounted(c, total, good, bad) ==
  /\ bad = Cardinality(Mismatched(c))
  /\ good + bad = total
  /\ Mismatched(c) \subseteq alerted

\* The alert threshold is the counter, in memory; an alert names a mismatch, also one
\* that a crash has forgotten.
IntegrityInv ==
  /\ failedSeen = failed
  /\ Accounted(counted, opportunities, passed, failed)
  /\ \A p \in alerted : ~Intact(emitted[p])
  /\ store # NoRecord =>
       Accounted(store.counted, store.opportunities, store.passed, store.failed)

AccountedInMemory == failedSeen = failed /\ Accounted(counted, opportunities, passed, failed)
AccountedInStore ==
  store # NoRecord =>
    Accounted(store.counted, store.opportunities, store.passed, store.failed)
AlertsHold == \A p \in alerted : ~Intact(emitted[p])

LEMMA IntegrityParts == IntegrityInv <=> AccountedInMemory /\ AlertsHold /\ AccountedInStore
BY DEF IntegrityInv, AccountedInMemory, AlertsHold, AccountedInStore

\* Positions keep what was emitted at them.
LEMMA MismatchedKept ==
  ASSUME \A p \in Positions : emitted'[p] = emitted[p]
  PROVE  \A c \in SUBSET Positions : Mismatched(c)' = {p \in c : ~Intact(emitted[p])}
BY DEF Mismatched, Intact

LEMMA BlankAccounted ==
  ASSUME BlankProgress
  PROVE  AccountedInMemory'
<1>1. counted' = {} /\ failed' = 0 /\ failedSeen' = 0 /\ passed' = 0 /\ opportunities' = 0
  BY DEF BlankProgress
<1>2. Mismatched(counted)' = {}
  BY <1>1 DEF Mismatched
<1> QED
  BY <1>1, <1>2, FS_EmptySet DEF AccountedInMemory, Accounted

LEMMA MemoryStaysAccounted ==
  ASSUME TypeOK, AccountedInMemory, alerted \subseteq alerted',
         UNCHANGED <<opportunities, passed, failed, failedSeen, counted>>,
         \A p \in Positions : emitted'[p] = emitted[p]
  PROVE  AccountedInMemory'
<1>1. Mismatched(counted)' = Mismatched(counted)
  BY MismatchedKept DEF TypeOK, ProgressTypeOK, Mismatched
<1> QED
  BY <1>1 DEF AccountedInMemory, Accounted

LEMMA StoreStaysAccounted ==
  ASSUME TypeOK, AccountedInStore, alerted \subseteq alerted', store' = store,
         \A p \in Positions : emitted'[p] = emitted[p]
  PROVE  AccountedInStore'
<1> SUFFICES ASSUME store # NoRecord
             PROVE  Accounted(store.counted, store.opportunities, store.passed, store.failed)'
  BY DEF AccountedInStore
<1>1. store.counted \subseteq Positions
  BY DEF TypeOK, StoreTypeOK, Records
<1>2. Mismatched(store.counted)' = Mismatched(store.counted)
  BY <1>1, MismatchedKept DEF Mismatched
<1> QED
  BY <1>2 DEF AccountedInStore, Accounted

LEMMA SaveAccounted ==
  ASSUME TypeOK, AccountedInMemory', AccountedInStore, alerted \subseteq alerted', Persist,
         emitted' = emitted
  PROVE  AccountedInStore'
<1>1. CASE store' = Record'
  <2>1. /\ store'.opportunities = opportunities' /\ store'.counted = counted'
        /\ store'.passed = passed' /\ store'.failed = failed'
    BY <1>1 DEF Record
  <2> QED
    BY <2>1 DEF AccountedInStore, AccountedInMemory, Accounted, Mismatched
<1>2. CASE store' = store
  BY <1>2, StoreStaysAccounted
<1> QED
  BY <1>1, <1>2 DEF Persist

LEMMA RestoreAccounted ==
  ASSUME TypeOK, AccountedInMemory, AccountedInStore, Restore, alerted' = alerted,
         emitted' = emitted
  PROVE  AccountedInMemory'
<1>1. CASE resume /\ store # NoRecord
  <2>1. /\ opportunities' = store.opportunities /\ counted' = store.counted
        /\ passed' = store.passed /\ failed' = store.failed /\ failedSeen' = store.failed
    BY <1>1 DEF Restore, RestoreWith
  <2>2. Mismatched(counted)' = Mismatched(store.counted)
    BY <2>1 DEF Mismatched
  <2> QED
    BY <1>1, <2>1, <2>2 DEF AccountedInStore, AccountedInMemory, Accounted
<1>2. CASE ~(resume /\ store # NoRecord)
  BY <1>2, MemoryStaysAccounted DEF Restore, RestoreWith, progressVars
<1> QED
  BY <1>1, <1>2

LEMMA RecordAccounted ==
  ASSUME TypeOK, CountingInv, IntegrityInv, NEW p \in Deliverable, PumpRecord(p)
  PROVE  AccountedInMemory' /\ AlertsHold' /\ alerted \subseteq alerted'
<1>1. emitted' = emitted /\ counted' = counted \cup {p}
  BY DEF PumpRecord, RecordOpportunity, Deliver, TakeUpTo
<1>2. p \notin counted
  BY MemoryAdded, CountingParts DEF TypeOK, PumpRecord, RecordOpportunity
<1>3. IsFiniteSet(Mismatched(counted))
  BY PositionsAreFinite, FS_Subset DEF TypeOK, ProgressTypeOK, Mismatched
<1>4. /\ failedSeen = failed /\ failed \in Nat /\ passed \in Nat /\ opportunities \in Nat
      /\ failed = Cardinality(Mismatched(counted)) /\ passed + failed = opportunities
      /\ Mismatched(counted) \subseteq alerted
      /\ AlertsHold
  BY IntegrityParts DEF AccountedInMemory, Accounted, TypeOK, ProgressTypeOK
<1>5. opportunities' = opportunities + 1
  BY DEF PumpRecord, RecordOpportunity
<1>6. CASE Intact(emitted[p])
  <2>1. passed' = passed + 1 /\ failed' = failed
    BY <1>6 DEF PumpRecord, RecordOpportunity
  <2>2. failedSeen' = failedSeen /\ alerted' = alerted
    BY <1>4, <2>1 DEF PumpRecord, AlertIntegrity
  <2>3. Mismatched(counted)' = Mismatched(counted)
    BY <1>1, <1>6 DEF Mismatched
  <2> QED
    BY <1>1, <1>4, <1>5, <2>1, <2>2, <2>3 DEF AccountedInMemory, Accounted, AlertsHold
<1>7. CASE ~Intact(emitted[p])
  <2>1. passed' = passed /\ failed' = failed + 1
    BY <1>7 DEF PumpRecord, RecordOpportunity
  <2>2. failedSeen' = failed' /\ alerted' = alerted \cup {p}
    BY <1>4, <2>1 DEF PumpRecord, AlertIntegrity
  <2>3. Mismatched(counted)' = Mismatched(counted) \cup {p} /\ p \notin Mismatched(counted)
    BY <1>1, <1>2, <1>7 DEF Mismatched
  <2>4. Cardinality(Mismatched(counted)') = failed + 1
    BY <1>3, <1>4, <2>3, FS_AddElement
  <2>5. AlertsHold'
    BY <1>1, <1>4, <1>7, <2>2 DEF AlertsHold
  <2> QED
    BY <1>4, <1>5, <2>1, <2>2, <2>3, <2>4, <2>5 DEF AccountedInMemory, Accounted
<1> QED
  BY <1>6, <1>7

\* The counters of the recorder agree with the opportunities that fail the integrity
\* check, across restarts, and each of those was named by an alert and no other.
THEOREM MismatchesAccounted == Spec => []IntegrityAccounted
<1>1. Init => IntegrityInv
  <2> SUFFICES ASSUME Init PROVE IntegrityInv
    OBVIOUS
  <2>1. Mismatched(counted) = {}
    BY DEF Init, Mismatched
  <2> QED
    BY <2>1, FS_EmptySet DEF Init, IntegrityInv, Accounted
<1>2. TypeOK /\ CountingInv /\ IntegrityInv /\ [Next]_vars => IntegrityInv'
  <2> SUFFICES ASSUME TypeOK, CountingInv, IntegrityInv, [Next]_vars
               PROVE  AccountedInMemory' /\ AlertsHold' /\ AccountedInStore'
    BY DEF IntegrityInv, AccountedInMemory, AlertsHold, AccountedInStore
  <2>a. AccountedInMemory /\ AlertsHold /\ AccountedInStore
    BY IntegrityParts
  <2>b. emitted' = emitted /\ alerted' = alerted => AlertsHold'
    BY <2>a DEF AlertsHold
  <2>c. UNCHANGED bridgeVars \/ NewBridge \/ Exhaust => emitted' = emitted
    BY DEF bridgeVars, NewBridge, Exhaust, TakeUpTo
  <2>1. ASSUME NEW r \in BOOLEAN, Launch(r) \/ Relaunch(r)
        PROVE  AccountedInMemory' /\ AlertsHold' /\ AccountedInStore'
    BY <2>1, <2>a, <2>b, <2>c, BlankAccounted, StoreStaysAccounted
       DEF Launch, Relaunch, NewLauncher, storeVars
  <2>2. CASE StartBlocked
    BY <2>2, <2>a, <2>b, <2>c, RestoreAccounted, StoreStaysAccounted DEF StartBlocked, storeVars
  <2>3. CASE StartRunning
    <3>1. AccountedInMemory' /\ AlertsHold' /\ emitted' = emitted /\ alerted' = alerted
      BY <2>3, <2>a, <2>b, <2>c, RestoreAccounted DEF StartRunning
    <3> QED
      BY <2>3, <2>a, <3>1, SaveAccounted DEF StartRunning
  <2>4. CASE HeartbeatLost \/ Stop
    <3>1. /\ AccountedInMemory' /\ AlertsHold' /\ emitted' = emitted /\ alerted' = alerted
      BY <2>4, <2>a, <2>b, <2>c, MemoryStaysAccounted DEF HeartbeatLost, Stop, progressVars
    <3> QED
      BY <2>4, <2>a, <3>1, SaveAccounted DEF HeartbeatLost, Stop
  <2>5. CASE PumpIdle \/ LinkDrop \/ Midnight \/ UNCHANGED vars
    BY <2>5, <2>a, <2>b, <2>c, MemoryStaysAccounted, StoreStaysAccounted
       DEF PumpIdle, LinkDrop, Midnight, vars, progressVars, storeVars
  <2>6. ASSUME NEW p \in Deliverable, PumpSkip(p) \/ PumpMissed(p)
        PROVE  AccountedInMemory' /\ AlertsHold' /\ AccountedInStore'
    BY <2>6, <2>a, <2>b, MemoryStaysAccounted, StoreStaysAccounted
       DEF PumpSkip, PumpMissed, Deliver, TakeUpTo, progressVars, storeVars
  <2>7. ASSUME NEW p \in Deliverable, PumpRecord(p)
        PROVE  AccountedInMemory' /\ AlertsHold' /\ AccountedInStore'
    <3>1. AccountedInMemory' /\ AlertsHold' /\ alerted \subseteq alerted' /\ emitted' = emitted
      BY <2>7, RecordAccounted DEF PumpRecord, Deliver, TakeUpTo
    <3> QED
      BY <2>7, <2>a, <3>1, SaveAccounted, StoreStaysAccounted DEF PumpRecord, storeVars
  <2>8. CASE Crash
    BY <2>8, <2>a, <2>b, <2>c, BlankAccounted, StoreStaysAccounted DEF Crash, storeVars
  <2>9. ASSUME NEW s \in Signal, Emit(s)
        PROVE  AccountedInMemory' /\ AlertsHold' /\ AccountedInStore'
    <3>1. emitted \in Seq(Signal) /\ emitted' = Append(emitted, s) /\ alerted' = alerted
      BY <2>9 DEF Emit, Push, TypeOK, BridgeTypeOK
    <3>2. \A p \in Positions : emitted'[p] = emitted[p]
      BY <3>1 DEF Positions
    <3>3. AlertsHold'
      BY <2>a, <3>1, <3>2 DEF AlertsHold, TypeOK, ControlTypeOK, Intact
    <3> QED
      BY <2>9, <2>a, <3>1, <3>2, <3>3, MemoryStaysAccounted, StoreStaysAccounted
         DEF Emit, progressVars, storeVars
  <2> QED
    BY <2>1, <2>2, <2>3, <2>4, <2>5, <2>6, <2>7, <2>8, <2>9 DEF Next
<1>3. IntegrityInv => IntegrityAccounted
  <2> SUFFICES ASSUME IntegrityInv PROVE IntegrityAccounted
    OBVIOUS
  <2>1. counted \cap alerted = Mismatched(counted)
    BY DEF IntegrityInv, Accounted, Mismatched
  <2> QED
    BY <2>1 DEF IntegrityInv, Accounted, IntegrityAccounted, Mismatched
<1> QED
  BY <1>1, <1>2, <1>3, TypeCorrect, CountingCorrect, PTL DEF Spec
===============================================================================
