---------------------------- MODULE MCDerivBroker ----------------------------
EXTENDS DerivBroker

\* a long and a short of the adapter's symbol, and a short of another
MCPlaced == {<<"BUY", Main>>, <<"SELL", Main>>, <<"SELL", Other>>}
=============================================================================
