------------------------------ MODULE MCBreakout ------------------------------
EXTENDS Breakout

\* nine bars, the first three before the first one evaluated: every order of quiet
\* and loud ones that begins with an episode
MCAtrSeries == { <<2, 2, 1>> \o s : s \in [1..6 -> {1, 2}] }
=============================================================================
