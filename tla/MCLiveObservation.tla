------------------------- MODULE MCLiveObservation --------------------------
(* Instances of LiveObservation for TLC.                                    *)
EXTENDS LiveObservation

\* Courses that turn: one after which the buffer still remembers the top, one
\* that starts with equal averages.
MCPaths == {<<1, 5, 1, 2, 1>>, <<1, 1, 5, 1, 2>>}
=============================================================================
