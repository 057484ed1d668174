--------------------------- MODULE MCHistoryPager ---------------------------
EXTENDS HistoryPager

\* every instrument with bars at some of seven times, closed at the others
MCMarkets == SUBSET {2, 4, 6, 8, 10, 12, 14} \ {{}}
MCRef == {4, 6, 8}
MCRefs == {MCRef, {6, 8, 10}}
MCClocks == {12, 14}
=============================================================================
