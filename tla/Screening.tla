------------------------------ MODULE Screening ------------------------------
(***************************************************************************)
(* How an instrument is chosen: every instrument the broker lists is       *)
(* classified and screened for independence (screen_candidates.py), the    *)
(* clock of the reference files is identified                              *)
(* (identify_reference_offset.py), and the survivors are measured against  *)
(* their references (provenance_check.py).  Each program leaves a record   *)
(* that the last one reads.  The pages of a fetch are in HistoryPager;     *)
(* here a fetch brings data or fails.                                      *)
(***************************************************************************)
EXTENDS Integers, Sequences, FiniteSets

CONSTANTS Listings,     \* what active_symbols may list: sequences of instruments
          Limits,       \* the numbers --limit may give
          MaxFailures,  \* ABORT_AFTER_CONSECUTIVE_FAILURES
          AuthRetries,  \* AUTH_RETRIES
          OffsetTables, \* correlations (percent) of the offsets: sequences
          Independences,\* what max_abs_r a survivor may have (percent)
          Ceiling, IdentifyBest, IdentifyRunnerUp   \* in percent

Trait == {"suspended", "used", "synthetic", "leg", "nosymbol"}

ASSUME ListingAssumption ==
    Listings \subseteq Seq([traits : SUBSET Trait, frx : BOOLEAN, reference : BOOLEAN])
ASSUME ScreeningAssumption ==
    /\ {MaxFailures, AuthRetries} \subseteq Nat \ {0}
    /\ Limits \subseteq Nat
    /\ Independences \subseteq Nat /\ \A r \in Independences : r < Ceiling

VARIABLES listing,      \* the instruments: [traits, frx, reference]
          args,         \* [list, debug, resume, limit]: 0 or <<>> if not given
          step,        \* the program that runs and how far it has come
          eligible,     \* numbers of the instruments still to be screened
          results,      \* the rows of the screen: [symbol, outcome, r]
          failures,       \* consecutive_failures of the program that runs
          attempts,     \* of connect_and_authorize()
          aborted,      \* of the screen and of the verification
          record,       \* the screening record: "none", "complete" or "partial"
          offset,       \* the identification record: <<>>, or the correlation
                        \* of the offset identified, 0 if none was
          todo,         \* the survivors still to be measured
          verified,     \* the rows of the verification
          selected      \* its selection, 0 for none

screeningVars == <<listing, args, step, eligible, results, failures, attempts, aborted,
                   record, offset, todo, verified, selected>>

screenKept == <<listing, args, record, offset, todo, verified, selected, attempts>>
verifyKept == <<listing, args, eligible, results, record, offset>>

NoArgs(a) == ~a.list /\ a.debug = 0 /\ a.resume = 0 /\ a.limit = <<>>

ScreeningInit ==
    /\ listing \in Listings
    /\ args \in [list : BOOLEAN, debug : 0..Len(listing), resume : 0..Len(listing),
                 limit : {<<>>} \cup { <<n>> : n \in Limits }]
    /\ step = "start"
    /\ eligible = <<>> /\ results = <<>> /\ failures = 0 /\ attempts = 0
    /\ aborted = FALSE
    /\ record = "none" /\ offset = <<>>
    /\ todo = <<>> /\ verified = <<>> /\ selected = 0

Row(s, outcome, r) == [symbol |-> s, outcome |-> outcome, r |-> r]

-----------------------------------------------------------------------------
(* screen_candidates.py.                                                   *)

\* LIVE_TRADING, a missing token or series, a refused login, a real account or an
\* answer of another shape stop the screen before it has screened anything
Blocked(from) == /\ step = from
                 /\ step' = "blocked"
                 /\ UNCHANGED <<eligible, results, failures, aborted, screenKept>>

\* suspended, used before, synthetic, or a pair with a leg of one used before
IsExcluded(i) == listing[i].traits \cap {"suspended", "used", "synthetic", "leg"} # {}

Named(i) == "nosymbol" \notin listing[i].traits
Numbers == [i \in 1..Len(listing) |-> i]

\* the elements of s at the given places, in order
Only(s, places) ==
    LET kept[i \in 0..Len(s)] ==
          IF i = 0 THEN <<>>
          ELSE IF i \in places THEN Append(kept[i - 1], s[i]) ELSE kept[i - 1]
    IN  kept[Len(s)]

Eligible == Only(Numbers, { i \in DOMAIN listing : Named(i) /\ ~IsExcluded(i) })
Excluded == Only(Numbers, { i \in DOMAIN listing : Named(i) /\ IsExcluded(i) })

\* --debug-symbol, --resume-from and --limit; a limit of 0 is not applied
Probed(names) == IF args.debug = 0 THEN names
                 ELSE Only(names, { n \in DOMAIN names : names[n] = args.debug })
Resumed(names) == IF args.resume = 0 THEN names
                  ELSE Only(names, { n \in DOMAIN names : names[n] >= args.resume })
Limited(names) == IF args.limit \in {<<>>, <<0>>} \/ Len(names) <= args.limit[1] THEN names
                  ELSE SubSeq(names, 1, args.limit[1])
InNames(i, names) == i = 0 \/ \E n \in DOMAIN names : names[n] = i

\* active_symbols and the funnel
Classify ==
    /\ step = "start"
    /\ results' = [n \in 1..Len(Excluded) |-> Row(Excluded[n], "EXCLUDED", 0)]
    /\ IF args.list THEN step' = "listed" /\ UNCHANGED eligible
       ELSE IF ~InNames(args.debug, Eligible) \/ ~InNames(args.resume, Probed(Eligible))
            THEN step' = "blocked" /\ UNCHANGED eligible
            ELSE /\ step' = "screening"
                 /\ eligible' = Limited(Resumed(Probed(Eligible)))
    /\ UNCHANGED <<failures, aborted, screenKept>>

Candidate == Head(eligible)

\* a candidate that was fetched: no data, or its correlation with either
\* reference is "low", "high" or not evaluable
ScreenVerdict(a, b) == IF "none" \in {a, b} THEN "INSUFFICIENT"
                       ELSE IF "high" \in {a, b} THEN "FAIL" ELSE "PASS"

ScreenFetched ==
    /\ step = "screening" /\ eligible # <<>>
    /\ failures' = 0
    /\ eligible' = Tail(eligible)
    /\ \/ results' = Append(results, Row(Candidate, "NO_DATA", 0))
       \/ \E a, b \in {"low", "high", "none"} :
             \E r \in IF ScreenVerdict(a, b) = "PASS" THEN Independences ELSE {0} :
                results' = Append(results, Row(Candidate, ScreenVerdict(a, b), r))
    /\ UNCHANGED <<step, aborted, screenKept>>

\* A fault: the rest begins one candidate late.
UnscreenedLate(names) ==
    [n \in 1..(Len(names) - 1) |-> Row(names[n + 1], "UNSCREENED", 0)]

\* a candidate whose fetch failed, and failed again over a new connection or could
\* not connect; the third in a row ends the run and the rest are not screened
Unscreened(names) == [n \in 1..Len(names) |-> Row(names[n], "UNSCREENED", 0)]

ScreenFailed ==
    /\ step = "screening" /\ eligible # <<>>
    /\ failures' = failures + 1
    /\ LET failed == Append(results, Row(Candidate, "TRANSPORT_FAILURE", 0)) IN
       IF failures' >= MaxFailures
       THEN /\ aborted' = TRUE
            /\ results' = failed \o Unscreened(Tail(eligible))
            /\ eligible' = <<>>
       ELSE /\ results' = failed
            /\ eligible' = Tail(eligible)
            /\ UNCHANGED aborted
    /\ UNCHANGED <<step, screenKept>>

\* the record; one of a run with a limit (even 0), a resumption or a probe is partial
WriteScreen ==
    /\ step = "screening" /\ eligible = <<>>
    /\ step' = "screened"
    /\ record' = IF ~aborted /\ NoArgs(args) THEN "complete" ELSE "partial"
    /\ UNCHANGED <<listing, args, eligible, results, failures, attempts, aborted,
                   offset, todo, verified, selected>>

-----------------------------------------------------------------------------
(* identify_reference_offset.py: a correlation for every offset that has   *)
(* enough matched returns.                                                 *)

Magnitude(r) == IF r < 0 THEN -r ELSE r

\* the offset with the largest, if that is large and every other is small
Identifies(table, best) ==
    /\ best \in DOMAIN table
    /\ \A i \in DOMAIN table : Magnitude(table[i]) <= Magnitude(table[best])
    /\ Magnitude(table[best]) >= IdentifyBest
    /\ \A i \in DOMAIN table \ {best} : Magnitude(table[i]) <= IdentifyRunnerUp

Identify ==
    /\ step = "screened" /\ offset = <<>>
    /\ \E table \in OffsetTables :
         \/ \E best \in DOMAIN table : Identifies(table, best) /\ offset' = <<table[best]>>
         \/ (\A best \in DOMAIN table : ~Identifies(table, best)) /\ offset' = <<0>>
    /\ UNCHANGED <<listing, args, step, eligible, results, failures, attempts, aborted,
                   record, todo, verified, selected>>

-----------------------------------------------------------------------------
(* provenance_check.py.                                                    *)

Survivors == Only(results, { n \in DOMAIN results : results[n].outcome = "PASS" })
Ready(row) == listing[row.symbol].frx /\ listing[row.symbol].reference
Missing == { n \in DOMAIN Survivors :
               listing[Survivors[n].symbol].frx /\ ~listing[Survivors[n].symbol].reference }

ReadyAt == { n \in DOMAIN Survivors : Ready(Survivors[n]) }
NotVerifiable(row) == Row(row.symbol, "NOT_VERIFIABLE", row.r)

\* load_screening() and load_offset() refuse a partial record and an offset that
\* was not identified; then the plan, which needs a reference file
Plan ==
    /\ step = "screened" /\ offset # <<>>
    /\ LET left == Only(Survivors, DOMAIN Survivors \ ReadyAt) IN
       IF record = "complete" /\ offset # <<0>> /\ ReadyAt # {}
       THEN /\ step' = "authorizing"
            /\ todo' = Only(Survivors, ReadyAt)
            /\ verified' = [n \in DOMAIN left |-> NotVerifiable(left[n])]
            /\ failures' = 0 /\ aborted' = FALSE
       ELSE step' = "refused" /\ UNCHANGED <<todo, verified, failures, aborted>>
    /\ UNCHANGED <<attempts, selected, verifyKept>>

\* connect_and_authorize(): a failure is tried again, a real account is not
Authorize ==
    /\ step = "authorizing"
    /\ attempts' = attempts + 1
    /\ step' \in {"verifying", "refused"}
                  \cup IF attempts' < AuthRetries THEN {"authorizing"} ELSE {}
    /\ UNCHANGED <<failures, aborted, todo, verified, selected, verifyKept>>

\* a survivor measured; a reference without a complete bucket leaves the failures
Measure ==
    /\ step = "verifying" /\ todo # <<>>
    /\ todo' = Tail(todo)
    /\ \E outcome \in {"PASS", "FAIL", "INSUFFICIENT", "NO_DATA"} :
         /\ verified' = Append(verified, Row(Head(todo).symbol, outcome, Head(todo).r))
         /\ failures' = IF outcome = "NO_DATA" THEN failures ELSE 0
    /\ UNCHANGED <<step, attempts, aborted, selected, verifyKept>>

MeasureFailed ==
    /\ step = "verifying" /\ todo # <<>>
    /\ failures' = failures + 1
    /\ LET failed == Append(verified, [Head(todo) EXCEPT !.outcome = "TRANSPORT_FAILURE"])
           rest == [n \in 1..Len(Tail(todo)) |-> [Tail(todo)[n] EXCEPT !.outcome = "UNSCREENED"]]
       IN IF failures' >= MaxFailures
          THEN aborted' = TRUE /\ verified' = failed \o rest /\ todo' = <<>>
          ELSE verified' = failed /\ todo' = Tail(todo) /\ UNCHANGED aborted
    /\ UNCHANGED <<step, attempts, selected, verifyKept>>

\* Amendment v0.8: among those that pass, the lowest independence figure, the
\* first of equals
Passers == { n \in DOMAIN verified : verified[n].outcome = "PASS" }
Ranked(n) == \A k \in Passers : \/ verified[n].r < verified[k].r
                                \/ verified[n].r = verified[k].r /\ n <= k

WriteVerification ==
    /\ step = "verifying" /\ todo = <<>>
    /\ step' = IF ~aborted /\ Missing = {} THEN "verified" ELSE "provisional"
    /\ selected' = IF Passers = {} THEN 0
                   ELSE verified[CHOOSE n \in Passers : Ranked(n)].symbol
    /\ UNCHANGED <<failures, attempts, aborted, todo, verified, verifyKept>>

ScreeningNext ==
    \/ Blocked("start") \/ Classify \/ ScreenFetched \/ ScreenFailed \/ WriteScreen
    \/ Identify \/ Plan \/ Authorize \/ Measure \/ MeasureFailed \/ WriteVerification

ScreeningSpec == ScreeningInit /\ [][ScreeningNext]_screeningVars

-----------------------------------------------------------------------------
(* Properties.                                                             *)

Outcomes == {"EXCLUDED", "PASS", "FAIL", "INSUFFICIENT", "NO_DATA", "TRANSPORT_FAILURE",
             "UNSCREENED", "NOT_VERIFIABLE"}
IsRow(row) == row.symbol \in DOMAIN listing /\ row.outcome \in Outcomes /\ row.r \in Nat

\* Every variable has the values its code gives it.
ScreeningTypeOK ==
    /\ \A n \in DOMAIN eligible : eligible[n] \in DOMAIN listing
    /\ \A n \in DOMAIN results : IsRow(results[n])
    /\ \A n \in DOMAIN todo : IsRow(todo[n]) /\ todo[n].outcome = "PASS"
    /\ \A n \in DOMAIN verified : IsRow(verified[n])
    /\ failures \in 0..MaxFailures /\ attempts \in 0..AuthRetries
    /\ selected \in {0} \cup DOMAIN listing

RowsOf(rows, s) == { n \in DOMAIN rows : rows[n].symbol = s }

\* in the record of a screen that no argument cut short every instrument listed has
\* one row, in any record none has two, and in the record of the verification every
\* survivor has one and nothing else has any
OneRowEach ==
    /\ \A s \in DOMAIN listing :
          /\ Cardinality(RowsOf(results, s)) <= 1
          /\ (step # "blocked" /\ record # "none" /\ NoArgs(args) /\ Named(s)) =>
                Cardinality(RowsOf(results, s)) = 1
    /\ step \in {"verified", "provisional"} =>
          \A s \in DOMAIN listing :
             Cardinality(RowsOf(verified, s)) = Cardinality(RowsOf(Survivors, s))

\* rows left unscreened follow the last of MaxFailures transport failures, between
\* which nothing was fetched
AbortIsEarned ==
    \A rows \in {results, verified} : \A n \in DOMAIN rows :
        rows[n].outcome = "UNSCREENED" =>
            \E last \in 1..(n - 1) :
               /\ \A k \in (last + 1)..n : rows[k].outcome = "UNSCREENED"
               /\ Cardinality({ k \in 1..last :
                     /\ rows[k].outcome = "TRANSPORT_FAILURE"
                     /\ \A j \in k..last : \/ rows[j].outcome = "TRANSPORT_FAILURE"
                                           \/ rows[j].outcome = "NO_DATA" /\ rows # results })
                  >= MaxFailures

\* No instrument is lost or counted twice by a failure, an abort, a resumption or a
\* limit of either program, and a run is cut short only by failures in a row.
EveryCandidateOnce == OneRowEach /\ AbortIsEarned

\* "This tool now aborts on consecutive transport failures rather than recording
\* them as per-candidate results - a partial screen presented as a complete one is
\* worse than no screen at all" (screen_candidates.py:57-60): a complete record has
\* no candidate that was not screened.
CompleteIsScreened ==
    record = "complete" =>
        \A n \in DOMAIN results : results[n].outcome # "TRANSPORT_FAILURE"
=============================================================================
