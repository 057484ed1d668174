------------------------- MODULE SessionFiles_proofs ------------------------
(***************************************************************************)
(* Sessions that never met have no file in common, for any number of       *)
(* sessions, days and digits.                                              *)
(***************************************************************************)
EXTENDS SessionFiles, TLAPS

-----------------------------------------------------------------------------
(* The inductive invariant.                                                *)

\* The files of a day have the numbers 1, ..., k for some k: its last number.
LastNumber(d, k) ==
  \A n \in 1..MaxNumber : writers[<<d, n>>] # {} <=> n <= k

NumbersHaveNoGap == \A d \in Days : \E k \in 0..MaxNumber : LastNumber(d, k)

\* A session has a number no greater than the one after the last.
PathsAreNear ==
  \A s \in Sessions :
    path[s] # NoPath =>
      path[s][2] = 1 \/ writers[<<path[s][1], path[s][2] - 1>>] # {}

\* A file holds lines of the sessions that have its path.
WritersHavePath ==
  /\ \A p \in Path : \A s \in writers[p] : path[s] = p
  /\ \A s \in Sessions : state[s] = "new" <=> path[s] = NoPath

Silent(s) == state[s] \in {"ended", "died"} /\ s \notin writers[path[s]]

\* Of two sessions that have the same path and never met, one ended without a
\* signal.
OneIsSilent ==
  \A s, t \in Sessions :
    /\ s # t
    /\ path[s] # NoPath
    /\ path[s] = path[t]
    /\ Numbered(path[s])
    /\ <<s, t>> \notin met
    => Silent(s) \/ Silent(t)

FilesInv ==
  /\ TypeOK
  /\ NumbersHaveNoGap
  /\ PathsAreNear
  /\ WritersHavePath
  /\ OneIsSilent

-----------------------------------------------------------------------------
(* The search for the highest number.                                      *)

\* The search finds the last number of the day.
LEMMA HighestIsLast ==
  ASSUME FilesAssumption, FilesInv
  PROVE  \E k \in 0..MaxNumber : Highest = k /\ LastNumber(day, k)
<1>1. day \in Days /\ MaxNumber \in Nat
  BY DEF FilesInv, TypeOK, FilesAssumption
<1>2. PICK k \in 0..MaxNumber : LastNumber(day, k)
  BY <1>1 DEF FilesInv, NumbersHaveNoGap
<1>3. Numbers = 1..k
  BY <1>1, <1>2 DEF Numbers, LastNumber
<1>4. CASE k = 0
  <2>1. Numbers = {}
    BY <1>3, <1>4
  <2> QED
    BY <2>1, <1>4, <1>2 DEF Highest
<1>5. CASE k # 0
  <2>1. k \in Numbers /\ \A j \in Numbers : j <= k
    BY <1>3, <1>5, <1>1
  <2>2. \A n \in Numbers : (\A j \in Numbers : j <= n) => n = k
    BY <2>1, <1>3, <1>1
  <2>3. Highest = k
    BY <2>1, <2>2 DEF Highest
  <2> QED
    BY <2>3, <1>2
<1> QED
  BY <1>4, <1>5

\* The next path is a path, its number is 1 or follows a file that is there, and
\* unless the digits are used up there is no file at it.
LEMMA NextPathIsFree ==
  ASSUME FilesAssumption, FilesInv
  PROVE  /\ NextPath \in Path
         /\ NextPath[1] = day
         /\ NextPath[2] = 1 \/ writers[<<day, NextPath[2] - 1>>] # {}
         /\ Numbered(NextPath) => writers[NextPath] = {}
<1>1. day \in Days /\ MaxNumber \in Nat
  BY DEF FilesInv, TypeOK, FilesAssumption
<1>2. PICK k \in 0..MaxNumber : Highest = k /\ LastNumber(day, k)
  BY HighestIsLast
<1>3. NextPath = <<day, k + 1>> /\ k + 1 \in 1..(MaxNumber + 1)
  BY <1>1, <1>2 DEF NextPath
<1>4. NextPath \in Path
  BY <1>1, <1>3 DEF Path
<1>5. NextPath[2] = 1 \/ writers[<<day, NextPath[2] - 1>>] # {}
  <2>1. NextPath[2] = k + 1 /\ NextPath[2] - 1 = k
    BY <1>3, <1>1
  <2>2. k # 0 => k \in 1..MaxNumber
    BY <1>1, <1>2
  <2> QED
    BY <2>1, <2>2, <1>2 DEF LastNumber
<1>6. Numbered(NextPath) => writers[NextPath] = {}
  BY <1>1, <1>2, <1>3 DEF Numbered, LastNumber
<1> QED
  BY <1>3, <1>4, <1>5, <1>6

-----------------------------------------------------------------------------
(* The steps.                                                              *)

LEMMA InitEstablishes ==
  ASSUME FilesAssumption, Init
  PROVE  FilesInv
<1>1. TypeOK
  BY DEF Init, TypeOK, FilesAssumption, Days
<1>2. NumbersHaveNoGap
  <2> SUFFICES ASSUME NEW d \in Days PROVE \E k \in 0..MaxNumber : LastNumber(d, k)
    BY DEF NumbersHaveNoGap
  <2>1. \A n \in 1..MaxNumber : <<d, n>> \in Path
    BY DEF Path, FilesAssumption
  <2>2. LastNumber(d, 0)
    BY <2>1 DEF Init, LastNumber, FilesAssumption
  <2> QED
    BY <2>2 DEF FilesAssumption
<1>3. PathsAreNear
  BY DEF Init, PathsAreNear
<1>4. WritersHavePath
  BY DEF Init, WritersHavePath
<1>5. OneIsSilent
  BY DEF Init, OneIsSilent
<1> QED
  BY <1>1, <1>2, <1>3, <1>4, <1>5 DEF FilesInv

LEMMA TypePreserved ==
  ASSUME FilesAssumption, FilesInv, [Next]_vars
  PROVE  TypeOK'
<1> USE DEF FilesInv, TypeOK
<1>1. ASSUME NEW s \in Sessions, Start(s) PROVE TypeOK'
  <2>1. NextPath \in Path
    BY NextPathIsFree
  <2>2. Open \subseteq Sessions
    BY DEF Open
  <2> QED
    BY <1>1, <2>1, <2>2 DEF Start
<1>2. ASSUME NEW s \in Sessions, Write(s) PROVE TypeOK'
  BY <1>2 DEF Write
<1>3. ASSUME NEW s \in Sessions, End(s) PROVE TypeOK'
  BY <1>3 DEF End
<1>4. ASSUME NEW s \in Sessions, Die(s) PROVE TypeOK'
  BY <1>4 DEF Die
<1>5. CASE Midnight
  BY <1>5 DEF Midnight, Days, FilesAssumption
<1>6. CASE UNCHANGED vars
  BY <1>6 DEF vars
<1> QED
  BY <1>1, <1>2, <1>3, <1>4, <1>5, <1>6 DEF Next

\* A step that writes no line and gives no path keeps the numbers together.
LEMMA NumbersKept ==
  ASSUME FilesInv, UNCHANGED writers
  PROVE  NumbersHaveNoGap'
BY DEF FilesInv, NumbersHaveNoGap, LastNumber

\* A write is at the last number of a day or at the one after it.
LEMMA WriteKeepsNumbers ==
  ASSUME FilesAssumption, FilesInv, NEW s \in Sessions, Write(s)
  PROVE  NumbersHaveNoGap'
<1> SUFFICES ASSUME NEW d \in Days PROVE \E k \in 0..MaxNumber : LastNumber(d, k)'
  BY DEF NumbersHaveNoGap
<1>1. MaxNumber \in Nat /\ writers \in [Path -> SUBSET Sessions]
  BY DEF FilesAssumption, FilesInv, TypeOK
<1>2. path[s] # NoPath /\ path[s] \in Path
  BY DEF Write, FilesInv, TypeOK, WritersHavePath
<1>3. PICK e \in Days, m \in 1..(MaxNumber + 1) : path[s] = <<e, m>>
  BY <1>2 DEF Path
<1>4. PICK k \in 0..MaxNumber : LastNumber(d, k)
  BY DEF FilesInv, NumbersHaveNoGap
<1>5. \A n \in 1..MaxNumber :
        /\ <<d, n>> \in Path
        /\ (writers[<<d, n>>] # {})' <=> (writers[<<d, n>>] # {} \/ <<d, n>> = <<e, m>>)
  <2> TAKE n \in 1..MaxNumber
  <2>1. <<d, n>> \in Path
    BY <1>1 DEF Path
  <2> QED
    BY <2>1, <1>1, <1>3 DEF Write
<1>6. CASE d # e \/ m <= k
  <2>1. LastNumber(d, k)'
    BY <1>1, <1>4, <1>5, <1>6 DEF LastNumber
  <2> QED
    BY <2>1
<1>7. CASE d = e /\ ~(m <= k)
  <2>1. m = 1 \/ writers[<<d, m - 1>>] # {}
    <3>1. path[s][1] = e /\ path[s][2] = m
      BY <1>3
    <3>2. path[s][2] = 1 \/ writers[<<path[s][1], path[s][2] - 1>>] # {}
      BY <1>2 DEF FilesInv, PathsAreNear
    <3> QED
      BY <3>1, <3>2, <1>7
  <2>2. m = k + 1
    <3>1. CASE m = 1
      BY <3>1, <1>7, <1>1
    <3>2. CASE m # 1
      <4>1. m - 1 \in 1..MaxNumber
        BY <3>2, <1>1
      <4>2. m - 1 <= k
        BY <4>1, <2>1, <3>2, <1>4 DEF LastNumber
      <4> QED
        BY <4>2, <1>7, <1>1
    <3> QED
      BY <3>1, <3>2
  <2>3. CASE k = MaxNumber
    <3>1. LastNumber(d, k)'
      BY <2>2, <2>3, <1>1, <1>4, <1>5 DEF LastNumber
    <3> QED
      BY <3>1
  <2>4. CASE k # MaxNumber
    <3>1. LastNumber(d, k + 1)'
      BY <2>2, <2>4, <1>1, <1>4, <1>5, <1>7 DEF LastNumber
    <3> QED
      BY <3>1, <2>4, <1>1
  <2> QED
    BY <2>3, <2>4
<1> QED
  BY <1>6, <1>7

LEMMA NumbersPreserved ==
  ASSUME FilesAssumption, FilesInv, [Next]_vars
  PROVE  NumbersHaveNoGap'
<1>1. ASSUME NEW s \in Sessions, Start(s) PROVE NumbersHaveNoGap'
  BY <1>1, NumbersKept DEF Start
<1>2. ASSUME NEW s \in Sessions, Write(s) PROVE NumbersHaveNoGap'
  BY <1>2, WriteKeepsNumbers
<1>3. ASSUME NEW s \in Sessions, End(s) PROVE NumbersHaveNoGap'
  BY <1>3, NumbersKept DEF End
<1>4. ASSUME NEW s \in Sessions, Die(s) PROVE NumbersHaveNoGap'
  BY <1>4, NumbersKept DEF Die
<1>5. CASE Midnight
  BY <1>5, NumbersKept DEF Midnight
<1>6. CASE UNCHANGED vars
  BY <1>6, NumbersKept DEF vars
<1> QED
  BY <1>1, <1>2, <1>3, <1>4, <1>5, <1>6 DEF Next

\* Files do not go away, so a path that was near the last number stays so.
LEMMA NearPreserved ==
  ASSUME FilesAssumption, FilesInv, [Next]_vars
  PROVE  PathsAreNear'
<1>1. ASSUME NEW s \in Sessions, Start(s) PROVE PathsAreNear'
  <2> SUFFICES ASSUME NEW t \in Sessions, path'[t] # NoPath
               PROVE  \/ path'[t][2] = 1
                      \/ writers'[<<path'[t][1], path'[t][2] - 1>>] # {}
    BY DEF PathsAreNear
  <2>1. path \in [Sessions -> Path \cup {NoPath}]
    BY DEF FilesInv, TypeOK
  <2>2. CASE t = s
    BY <1>1, <2>1, <2>2, NextPathIsFree DEF Start
  <2>3. CASE t # s
    BY <1>1, <2>1, <2>3 DEF Start, FilesInv, PathsAreNear
  <2> QED
    BY <2>2, <2>3
<1>2. ASSUME NEW s \in Sessions, Write(s) PROVE PathsAreNear'
  <2>1. writers \in [Path -> SUBSET Sessions]
    BY DEF FilesInv, TypeOK
  <2>2. path' = path /\ \A p : writers[p] # {} => writers'[p] # {}
    BY <1>2, <2>1 DEF Write
  <2> QED
    BY <2>2 DEF FilesInv, PathsAreNear
<1>3. ASSUME UNCHANGED <<path, writers>> PROVE PathsAreNear'
  BY <1>3 DEF FilesInv, PathsAreNear
<1> QED
  BY <1>1, <1>2, <1>3 DEF Next, End, Die, Midnight, vars

LEMMA WritersPreserved ==
  ASSUME FilesAssumption, FilesInv, [Next]_vars
  PROVE  WritersHavePath'
<1>0. /\ path \in [Sessions -> Path \cup {NoPath}]
      /\ writers \in [Path -> SUBSET Sessions]
      /\ state \in [Sessions -> {"new", "open", "ended", "died"}]
      /\ WritersHavePath
  BY DEF FilesInv, TypeOK
<1>p. NoPath \notin Path
  BY DEF NoPath, Path
<1>1. ASSUME NEW s \in Sessions, Start(s) PROVE WritersHavePath'
  <2>1. path[s] = NoPath /\ NextPath \in Path
    BY <1>1, <1>0, NextPathIsFree DEF Start, WritersHavePath
  <2>2. \A p \in Path : s \notin writers[p]
    BY <2>1, <1>0, <1>p DEF WritersHavePath
  <2> QED
    BY <1>1, <2>1, <2>2, <1>0, <1>p DEF Start, WritersHavePath
<1>2. ASSUME NEW s \in Sessions, Write(s) PROVE WritersHavePath'
  BY <1>2, <1>0 DEF Write, WritersHavePath
<1>3. ASSUME NEW s \in Sessions, End(s) PROVE WritersHavePath'
  BY <1>3, <1>0 DEF End, WritersHavePath
<1>4. ASSUME NEW s \in Sessions, Die(s) PROVE WritersHavePath'
  BY <1>4, <1>0 DEF Die, WritersHavePath
<1>5. ASSUME UNCHANGED <<state, path, writers>> PROVE WritersHavePath'
  BY <1>5, <1>0 DEF WritersHavePath
<1> QED
  BY <1>1, <1>2, <1>3, <1>4, <1>5 DEF Next, Midnight, vars

\* Whoever has the next path without a file at it is open, and meets the session
\* that starts, or is silent; and a silent session stays silent.
LEMMA SilencePreserved ==
  ASSUME FilesAssumption, FilesInv, [Next]_vars
  PROVE  OneIsSilent'
<1>0. /\ path \in [Sessions -> Path \cup {NoPath}]
      /\ writers \in [Path -> SUBSET Sessions]
      /\ state \in [Sessions -> {"new", "open", "ended", "died"}]
      /\ WritersHavePath
      /\ OneIsSilent
  BY DEF FilesInv, TypeOK
<1> SUFFICES ASSUME NEW a \in Sessions, NEW b \in Sessions,
                    a # b,
                    path'[a] # NoPath, path'[a] = path'[b],
                    Numbered(path'[a]),
                    <<a, b>> \notin met'
             PROVE  Silent(a)' \/ Silent(b)'
  BY DEF OneIsSilent, Numbered
<1>1. ASSUME NEW s \in Sessions, Start(s) PROVE Silent(a)' \/ Silent(b)'
  <2>0. NextPath \in Path /\ (Numbered(NextPath) => writers[NextPath] = {})
    BY NextPathIsFree
  <2>1. CASE a = s
    <3>1. path'[b] = path[b] /\ path'[a] = NextPath /\ path[b] = NextPath
      BY <1>0, <1>1, <2>1 DEF Start
    <3>2. state[b] # "new" /\ state[b] # "open"
      BY <1>0, <1>1, <2>1, <3>1 DEF Start, WritersHavePath, Open
    <3>3. b \notin writers[path[b]]
      BY <2>0, <3>1
    <3> QED
      BY <1>0, <1>1, <2>1, <3>1, <3>2, <3>3 DEF Start, Silent
  <2>2. CASE b = s
    <3>1. path'[a] = path[a] /\ path'[b] = NextPath /\ path[a] = NextPath
      BY <1>0, <1>1, <2>2 DEF Start
    <3>2. state[a] # "new" /\ state[a] # "open"
      BY <1>0, <1>1, <2>2, <3>1 DEF Start, WritersHavePath, Open
    <3>3. a \notin writers[path[a]]
      BY <2>0, <3>1
    <3> QED
      BY <1>0, <1>1, <2>2, <3>1, <3>2, <3>3 DEF Start, Silent
  <2>3. CASE a # s /\ b # s
    BY <1>0, <1>1, <2>3 DEF Start, OneIsSilent, Silent, Numbered
  <2> QED
    BY <2>1, <2>2, <2>3
<1>2. ASSUME NEW s \in Sessions, Write(s) PROVE Silent(a)' \/ Silent(b)'
  BY <1>0, <1>2 DEF Write, OneIsSilent, Silent, Numbered
<1>3. ASSUME NEW s \in Sessions, End(s) PROVE Silent(a)' \/ Silent(b)'
  BY <1>0, <1>3 DEF End, OneIsSilent, Silent, Numbered
<1>4. ASSUME NEW s \in Sessions, Die(s) PROVE Silent(a)' \/ Silent(b)'
  BY <1>0, <1>4 DEF Die, OneIsSilent, Silent, Numbered
<1>5. ASSUME UNCHANGED <<state, path, writers, met>> PROVE Silent(a)' \/ Silent(b)'
  BY <1>0, <1>5 DEF OneIsSilent, Silent, Numbered
<1> QED
  BY <1>1, <1>2, <1>3, <1>4, <1>5 DEF Next, Midnight, vars

-----------------------------------------------------------------------------
(* Theorems.                                                               *)

\* The inductive invariant of the session files.
THEOREM FilesCorrect == Spec => []FilesInv
<1>1. Init => FilesInv
  BY InitEstablishes, FilesAssumption
<1>2. FilesInv /\ [Next]_vars => FilesInv'
  BY TypePreserved, NumbersPreserved, NearPreserved, WritersPreserved,
     SilencePreserved, FilesAssumption DEF FilesInv
<1> QED
  BY <1>1, <1>2, PTL DEF Spec

\* Every variable of the session files keeps its type.
THEOREM FilesTypes == Spec => []TypeOK
<1>1. FilesInv => TypeOK
  BY DEF FilesInv
<1> QED
  BY <1>1, FilesCorrect, PTL

\* As long as the numbers of a day last, sessions that were never open at the
\* same time have no file of next_session_path in common.
THEOREM SessionsKeepApart == Spec => []OnlyMeetingSessionsMix
<1>1. FilesInv => OnlyMeetingSessionsMix
  <2> SUFFICES ASSUME FilesInv, NEW p \in Path, Numbered(p),
                      NEW s \in writers[p], NEW t \in writers[p], s # t
               PROVE  <<s, t>> \in met
    BY DEF OnlyMeetingSessionsMix
  <2>1. s \in Sessions /\ t \in Sessions
    BY DEF FilesInv, TypeOK
  <2>2. path[s] = p /\ path[t] = p
    BY DEF FilesInv, WritersHavePath
  <2>3. p # NoPath
    BY SMTT(30) DEF NoPath, Path
  <2>4. ~Silent(s) /\ ~Silent(t)
    BY <2>2 DEF Silent
  <2> QED
    BY <2>1, <2>2, <2>3, <2>4 DEF FilesInv, OneIsSilent
<1> QED
  BY <1>1, FilesCorrect, PTL

\* The summary of a session that was alone and wrote a signal is not written
\* over by a later one of next_session_path.
THEOREM SummaryIsKept == Spec => []SummaryStays
<1>1. Init => SummaryStays
  BY DEF Init, SummaryStays
<1>2. FilesInv /\ SummaryStays /\ [Next]_vars => SummaryStays'
  <2> SUFFICES ASSUME FilesInv, SummaryStays, [Next]_vars,
                      NEW a \in Sessions,
                      state'[a] = "ended", Alone(a)', Numbered(path'[a]),
                      a \in writers'[path'[a]]
               PROVE  summary'[path'[a]] = a
    BY DEF SummaryStays, Numbered
  <2>0. /\ path \in [Sessions -> Path \cup {NoPath}]
        /\ writers \in [Path -> SUBSET Sessions]
        /\ state \in [Sessions -> {"new", "open", "ended", "died"}]
        /\ summary \in [Path -> Sessions \cup {Nobody}]
        /\ WritersHavePath
        /\ OneIsSilent
    BY DEF FilesInv, TypeOK
  <2>1. ASSUME NEW s \in Sessions, Start(s) PROVE summary'[path'[a]] = a
    BY <2>0, <2>1 DEF Start, SummaryStays, Alone, Numbered
  <2>2. ASSUME NEW s \in Sessions, Write(s) PROVE summary'[path'[a]] = a
    <3>1. s # a
      BY <2>0, <2>2 DEF Write
    <3>2. a \in writers[path[a]]
      BY <2>0, <2>2, <3>1 DEF Write
    <3> QED
      BY <2>0, <2>2, <3>2 DEF Write, SummaryStays, Alone, Numbered
  <2>3. ASSUME NEW s \in Sessions, End(s) PROVE summary'[path'[a]] = a
    <3>1. path[s] \in Path /\ path[s] # NoPath /\ path' = path /\ writers' = writers
      BY <2>0, <2>3 DEF End, WritersHavePath
    <3>2. CASE s = a
      BY <2>0, <2>3, <3>1, <3>2 DEF End
    <3>3. CASE s # a
      <4>1. state[a] = "ended" /\ Alone(a) /\ Numbered(path[a])
        BY <2>0, <2>3, <3>3 DEF End, Alone, Numbered
      <4>2. summary[path[a]] = a
        BY <4>1, <3>1 DEF SummaryStays
      <4>3. ~Silent(s) /\ ~Silent(a)
        BY <2>0, <2>3, <3>1 DEF End, Silent
      <4>4. path[s] # path[a]
        BY <2>0, <3>1, <3>3, <4>1, <4>3 DEF OneIsSilent, Alone
      <4> QED
        BY <2>0, <2>3, <3>1, <4>2, <4>4 DEF End
    <3> QED
      BY <3>2, <3>3
  <2>4. ASSUME NEW s \in Sessions, Die(s) PROVE summary'[path'[a]] = a
    BY <2>0, <2>4 DEF Die, SummaryStays, Alone, Numbered
  <2>5. ASSUME UNCHANGED <<state, path, writers, summary, met>>
        PROVE  summary'[path'[a]] = a
    BY <2>5 DEF SummaryStays, Alone, Numbered
  <2> QED
    BY <2>1, <2>2, <2>3, <2>4, <2>5 DEF Next, Midnight, vars
<1> QED
  BY <1>1, <1>2, FilesCorrect, PTL DEF Spec
=============================================================================
