--------------------------- MODULE MCShadowSession --------------------------
(* Instances of ShadowSession for TLC.                                      *)
EXTENDS ShadowSession

CONSTANTS buy, rebuy, sell, named, broken

At(c, d) == [content |-> c, ts |-> d]

\* `rebuy' is `buy' with other prices: the same key.
MCKeyFields == [c \in Contents |-> IF c = rebuy THEN buy ELSE c]

\* Journals with a duplicate, a malformed entry, ids of the source's own and
\* timestamps that run backwards.
MCJournals ==
  {<<At(buy, 0), At(broken, 0), At(sell, 1), At(buy, 0)>>,
   <<At(buy, 0), At(rebuy, 0), At(sell, 0), At(buy, 1)>>,
   <<At(named, 0), At(sell, 1), At(named, 1), At(buy, 1)>>,
   <<At(sell, 1), At(named, 0), At(buy, 1)>>}
=============================================================================
