---------------------------- MODULE SessionFiles ----------------------------
(***************************************************************************)
(* The files of live observation sessions: next_session_path and the use   *)
(* run_live makes of it (engine/runner.py).  A session picks the number    *)
(* after the highest of its day when it starts; its file comes into being  *)
(* with its first signal, and its summary is written over whatever is at   *)
(* its name when it ends.                                                  *)
(*                                                                         *)
(* A path is a day and a number.  Numbers have three digits: a file with a *)
(* larger number does not match the pattern and is not seen by the search. *)
(***************************************************************************)
EXTENDS Naturals, FiniteSets

CONSTANTS
  Sessions,      \* the runs of the program
  MaxNumber,     \* the largest number the pattern matches: 999
  MaxDay,        \* bound: midnights
  Nobody

ASSUME FilesAssumption ==
  /\ MaxNumber \in Nat
  /\ MaxDay \in Nat
  /\ Nobody \notin Sessions

Days == 0..MaxDay
Path == Days \X (1..(MaxNumber + 1))
NoPath == <<>>

VARIABLES
  day,           \* date.today()
  state,         \* of each session
  path,          \* output_path of each session
  writers,       \* the sessions with a line in the file at a path; none: no file
  summary,       \* the session whose summary is at a path, or Nobody
  met            \* history: pairs of sessions that were open at the same time

vars == <<day, state, path, writers, summary, met>>

TypeOK ==
  /\ day \in Days
  /\ state \in [Sessions -> {"new", "open", "ended", "died"}]
  /\ path \in [Sessions -> Path \cup {NoPath}]
  /\ writers \in [Path -> SUBSET Sessions]
  /\ summary \in [Path -> Sessions \cup {Nobody}]
  /\ met \in SUBSET (Sessions \X Sessions)

Init ==
  /\ day = 0
  /\ state = [s \in Sessions |-> "new"]
  /\ path = [s \in Sessions |-> NoPath]
  /\ writers = [p \in Path |-> {}]
  /\ summary = [p \in Path |-> Nobody]
  /\ met = {}

Open == {s \in Sessions : state[s] = "open"}

\* A fault: a file of any number is seen.
AnyNumber == {n \in 1..(MaxNumber + 1) : writers[<<day, n>>] # {}}

\* What the directory listing shows of a day.
Numbers == {n \in 1..MaxNumber : writers[<<day, n>>] # {}}

Highest == IF Numbers = {} THEN 0 ELSE CHOOSE n \in Numbers : \A k \in Numbers : k <= n

\* A fault: the number of the newest file, once there is one.
PathOfHighest == <<day, IF Highest = 0 THEN 1 ELSE Highest>>

NextPath == <<day, Highest + 1>>

\* run_live up to its loop.
Start(s) ==
  /\ state[s] = "new"
  /\ state' = [state EXCEPT ![s] = "open"]
  /\ path' = [path EXCEPT ![s] = NextPath]
  /\ met' = met \cup {<<s, t>> : t \in Open} \cup {<<t, s>> : t \in Open}
  /\ UNCHANGED <<day, writers, summary>>

\* JsonlEmitter.append opens the path to append.
Write(s) ==
  /\ state[s] = "open"
  /\ writers' = [writers EXCEPT ![path[s]] = @ \cup {s}]
  /\ UNCHANGED <<day, state, path, summary, met>>

\* A fault: the summary is kept when one is there.
KeepSummary(s) ==
  /\ state[s] = "open"
  /\ state' = [state EXCEPT ![s] = "ended"]
  /\ summary' = [summary EXCEPT ![path[s]] = IF @ = Nobody THEN s ELSE @]
  /\ UNCHANGED <<day, path, writers, met>>

\* The end of run_live.
End(s) ==
  /\ state[s] = "open"
  /\ state' = [state EXCEPT ![s] = "ended"]
  /\ summary' = [summary EXCEPT ![path[s]] = s]
  /\ UNCHANGED <<day, path, writers, met>>

\* The process ends before the summary.
Die(s) ==
  /\ state[s] = "open"
  /\ state' = [state EXCEPT ![s] = "died"]
  /\ UNCHANGED <<day, path, writers, summary, met>>

Midnight ==
  /\ day < MaxDay
  /\ day' = day + 1
  /\ UNCHANGED <<state, path, writers, summary, met>>

Next ==
  \/ \E s \in Sessions : Start(s) \/ Write(s) \/ End(s) \/ Die(s)
  \/ Midnight

Spec == Init /\ [][Next]_vars

-----------------------------------------------------------------------------
(* Properties.                                                              *)

Numbered(p) == p[2] <= MaxNumber
Alone(s) == \A t \in Sessions : <<s, t>> \notin met

\* As long as the numbers of a day last, two sessions that were never open at
\* the same time have no file in common, across midnights and sessions that
\* ended without a signal.
OnlyMeetingSessionsMix ==
  \A p \in Path :
    Numbered(p) => \A s, t \in writers[p] : s = t \/ <<s, t>> \in met

\* A session that was alone and wrote a signal keeps its summary: no later
\* session writes one over it.
SummaryStays ==
  \A s \in Sessions :
    state[s] = "ended" /\ Alone(s) /\ Numbered(path[s]) /\ s \in writers[path[s]] =>
      summary[path[s]] = s
=============================================================================
