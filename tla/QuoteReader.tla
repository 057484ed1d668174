----------------------------- MODULE QuoteReader ----------------------------
(* What a caller of the market data channel is promised: ticks come in the  *)
(* order of the market, none from the future, and never an older one after  *)
(* a newer one, whatever happens to the connection in between.              *)
EXTENDS Naturals

VARIABLES
  market,   \* number of the newest tick of the market
  read      \* number of the newest tick the caller has been given

Init == market = 1 /\ read = 0

Trade == market' = market + 1 /\ read' = read

Read ==
  /\ read' \in read..market
  /\ UNCHANGED market

Next == Trade \/ Read

Spec == Init /\ [][Next]_<<market, read>>
=============================================================================
