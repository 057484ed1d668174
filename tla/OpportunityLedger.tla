-------------------------- MODULE OpportunityLedger -------------------------
(***************************************************************************)
(* What a persistent shadow session promises, without its mechanism: a set *)
(* of counted entries with its tally, and the copy of both that survives a *)
(* crash.  docs/SHADOW_RUNBOOK.md, "Persistence & resume".                 *)
(***************************************************************************)
EXTENDS Naturals, FiniteSets

CONSTANT Entries

VARIABLES
  live, tally,         \* the entries counted, and how many the session reports
  saved, savedTally    \* the durable copy

ledgerVars == <<live, tally, saved, savedTally>>

Init == live = {} /\ tally = 0 /\ saved = {} /\ savedTally = 0

Keep == saved' = saved /\ savedTally' = savedTally

Save == saved' = live' /\ savedTally' = tally'

\* A new entry is counted, and perhaps saved with the others.
Count(e) ==
  /\ e \notin live
  /\ live' = live \cup {e}
  /\ tally' = tally + 1
  /\ Keep \/ Save

SaveLive == Save /\ UNCHANGED <<live, tally>>

\* A crash, or another run of the session: the live ledger is lost.
Forget == live' = {} /\ tally' = 0 /\ Keep

\* The session comes back as it was saved.
Resume == live' = saved /\ tally' = savedTally /\ Keep

Next ==
  \/ \E e \in Entries : Count(e)
  \/ SaveLive \/ Forget \/ Resume

Spec == Init /\ [][Next]_ledgerVars
=============================================================================
