----------------------------- MODULE MCScreening -----------------------------
EXTENDS Screening

MCListed(traits, frx, reference) == [traits |-> traits, frx |-> frx, reference |-> reference]
MCPlain == MCListed({}, TRUE, TRUE)
MCListings ==
    { <<MCListed({"nosymbol"}, TRUE, TRUE), MCListed({"suspended", "leg"}, TRUE, TRUE),
        MCPlain, MCListed({"used", "leg"}, TRUE, TRUE), MCPlain,
        MCListed({"leg"}, TRUE, TRUE), MCPlain>>,
      <<MCPlain, MCListed({"synthetic"}, FALSE, FALSE), MCListed({}, TRUE, FALSE),
        MCListed({}, FALSE, FALSE), MCPlain>>,
      <<MCPlain, MCPlain, MCPlain, MCPlain>> }
MCOffsetTables == {<<>>, <<95, 40, 10>>, <<95, 70, 10>>, <<80, 10, 0>>, <<-95, 30, 0>>}
=============================================================================
