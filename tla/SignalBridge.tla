---------------------------- MODULE SignalBridge ----------------------------
(***************************************************************************)
(* The signal path from the engine to the shadow launcher:                 *)
(* adapters/apex_signal_adapter.py with its two real sources, the schema   *)
(* check of adapters/signal_schema.py, the duplicate key of                *)
(* adapters/signal_source.py and the trace id and integrity hash of        *)
(* infrastructure/signal_contract.py.                                      *)
(*                                                                         *)
(* What the engine emits is an append-only sequence and the source is a    *)
(* cursor into it.  A replay source reads a fixed journal from its start   *)
(* in every process; the live source is an in-memory queue that the engine *)
(* pushes into and that is lost with its process.  Positions of `emitted'  *)
(* give every emission an identity the code does not have, which is what   *)
(* the properties of the session compare the code's own identities with.   *)
(***************************************************************************)
EXTENDS Naturals, Sequences, FiniteSets

CONSTANTS
  Contents,      \* all of a signal but its timestamp: strategy, direction, score, prices, risk
  Malformed,     \* contents the v1.0 schema refuses
  Traced,        \* contents that arrive with a signal_id of their own
  KeyFields,     \* a content's strategy, direction and score, named by one that has them
  NotFloat,      \* contents whose timestamp, score or risk_percent is an integer
  NotFloatPrice, \* contents with an entry, stop or target price that is one
  MaxDay,        \* bound: timestamps and the wall clock, in days
  Replaying,     \* the source: a ReplayJournalSignalAdapter or a LiveEngineSignalAdapter
  Journals,      \* the journals a replay source may be given
  QueueSize,     \* maxsize of the live source's queue
  MaxEmitted     \* bound: how many signals a journal holds or the engine pushes

Days == 0..MaxDay
Signal == [content : Contents, ts : Days]

ASSUME ContentsAssumption ==
  /\ Malformed \subseteq Contents
  /\ Traced \subseteq Contents
  /\ KeyFields \in [Contents -> Contents]
  /\ NotFloat \subseteq Contents
  /\ NotFloatPrice \subseteq Contents

ASSUME SourceAssumption ==
  /\ MaxDay \in Nat
  /\ MaxEmitted \in Nat
  /\ QueueSize \in Nat \ {0}
  /\ Replaying \in BOOLEAN
  /\ Journals \subseteq {j \in Seq(Signal) : Len(j) <= MaxEmitted}

VARIABLES
  emitted,       \* every signal the source has been given, in order
  cursor,        \* position of the last emission the bridge has taken
  seq,           \* APEXSignalAdapter._seq, the number in the last trace id assigned
  seenKeys       \* APEXSignalAdapter._seen, the keys already delivered

bridgeVars == <<emitted, cursor, seq, seenKeys>>

-----------------------------------------------------------------------------
(* The signal contract.  One instrument is observed, so the symbol is left  *)
(* out of ids and keys; a day is the resolution of the timestamp.           *)

Valid(s) == s.content \notin Malformed

\* Two signals that differ in their prices or their risk have one key.
DedupKey(s) == <<s.ts, KeyFields[s.content]>>

\* SIG-<symbol>-<day>-<number>; an id the source supplies is kept.
TraceId(s, n) == IF s.content \in Traced THEN s.content ELSE <<s.ts, n>>

TakesNumber(s) == Valid(s) /\ s.content \notin Traced

\* The hash covers the text of the fields, and the integer 1 and the float 1.0
\* have different texts.  The translation makes floats of the timestamp, the
\* score and the risk and forwards the three prices as they are.
SignalHash(s, translated) ==
  [ts |-> s.ts, content |-> s.content,
   floats |-> translated \/ s.content \notin NotFloat,
   floatPrices |-> s.content \notin NotFloatPrice]

TraceIds == Contents \cup (Days \X Nat)
DedupKeys == Days \X Contents

-----------------------------------------------------------------------------
(* One call of next_signal() takes emissions until one is valid and new: it *)
(* passes over the malformed ones and the duplicates on its way, and hands  *)
(* out a number to every valid one, a duplicate included.                   *)

Numbered(lo, hi) == {p \in (lo + 1)..hi : TakesNumber(emitted[p])}

\* A fault: the counter is read and never advanced.
SeqNotAdvanced(p) == seq

SeqAt(p) == seq + Cardinality(Numbered(cursor, p))

Deliverable ==
  {p \in (cursor + 1)..Len(emitted) :
     Valid(emitted[p]) /\ DedupKey(emitted[p]) \notin seenKeys}

IsNext(p) == p \in Deliverable /\ \A q \in Deliverable : p <= q

IdOfNext(p) == TraceId(emitted[p], SeqAt(p))

\* A fault: the cursor moves one emission too far.
TakePast(p) ==
  /\ cursor' = p + 1
  /\ seq' = SeqAt(p)
  /\ UNCHANGED emitted

TakeUpTo(p) ==
  /\ cursor' = p
  /\ seq' = SeqAt(p)
  /\ UNCHANGED emitted

\* The bridge returns the emission at p.
Deliver(p) ==
  /\ IsNext(p)
  /\ TakeUpTo(p)
  /\ seenKeys' = seenKeys \cup {DedupKey(emitted[p])}

\* The source has nothing more: the bridge returns None.
Exhaust ==
  /\ Deliverable = {}
  /\ TakeUpTo(Len(emitted))
  /\ UNCHANGED seenKeys

\* The engine's emit hook calls push(), which blocks while the queue is full.
Push(s) ==
  /\ ~Replaying
  /\ Len(emitted) < MaxEmitted
  /\ Len(emitted) - cursor < QueueSize
  /\ emitted' = Append(emitted, s)
  /\ UNCHANGED <<cursor, seq, seenKeys>>

\* A new process: a new source and a new bridge.  The journal is read again
\* from its start; what the lost queue still held is gone.
NewBridge ==
  /\ cursor' = IF Replaying THEN 0 ELSE Len(emitted)
  /\ seq' = 0
  /\ seenKeys' = {}
  /\ UNCHANGED emitted

BridgeInit ==
  /\ emitted \in IF Replaying THEN Journals ELSE {<<>>}
  /\ cursor = 0
  /\ seq = 0
  /\ seenKeys = {}

BridgeTypeOK ==
  /\ emitted \in Seq(Signal) /\ Len(emitted) <= MaxEmitted
  /\ cursor \in 0..Len(emitted)
  /\ seq \in Nat
  /\ seenKeys \subseteq DedupKeys

-----------------------------------------------------------------------------
(* What a replay makes of a journal, whichever process reads it.            *)

Positions == 1..Len(emitted)

\* The id the bridge gives the emission at p when it reads from the start.
ReplayId(p) == TraceId(emitted[p], Cardinality(Numbered(0, p)))

FirstOccurrences ==
  {p \in Positions :
     /\ Valid(emitted[p])
     /\ \A q \in 1..(p - 1) :
          Valid(emitted[q]) => DedupKey(emitted[q]) # DedupKey(emitted[p])}

ValidUpTo(n) == {p \in 1..n : Valid(emitted[p])}

\* The memory of a bridge that replays is a function of how far it has read.
BridgeInv ==
  Replaying =>
    /\ seq = Cardinality(Numbered(0, cursor))
    /\ seenKeys = {DedupKey(emitted[p]) : p \in ValidUpTo(cursor)}
=============================================================================
