--------------------------- MODULE MCContractGate ---------------------------
EXTENDS ContractGate

\* accounts of every kind: flag, type and login agreeing or not; lists of
\* none, one and two
MCAccount == [flag : {"yes", "no", "absent"}, type : {"demo", "real"},
              login : {"VRTC1", "CR1"}]
MCAccountLists == {<<>>} \cup { <<a>> : a \in MCAccount }
                  \cup { <<a, b>> : a, b \in MCAccount }

MCEntry(flags, categories, ranges, stakes) ==
    [limitOrder : flags, category : categories, multipliers : ranges, stake : stakes]
MCFlags == {"yes", "no", "absent"}

\* the entries of both legs of the chosen pairs, and of the up legs alone
MCEntries(mult, turbo, option, alone) ==
    [t \in (IF mult.stake = "none" THEN {} ELSE {"MULTUP"} \cup (IF alone THEN {} ELSE {"MULTDOWN"}))
           \cup (IF turbo.stake = "none" THEN {} ELSE {"TURBOSLONG", "TURBOSSHORT"})
           \cup (IF option.stake = "none" THEN {} ELSE {"CALL", "PUT"}) |->
        IF t \in {"MULTUP", "MULTDOWN"} THEN mult
        ELSE IF t \in {"CALL", "PUT"} THEN option ELSE turbo]

MCNone == [limitOrder |-> "no", category |-> "none", multipliers |-> <<>>, stake |-> "none"]

\* the symbol, the answer's own stake limits, and whether the down leg is missing
MCShapes == {<<"same", "fits", FALSE>>, <<"same", "misfit", FALSE>>,
             <<"same", "fits", TRUE>>, <<"other", "fits", FALSE>>}

MCAnswers ==
    { [symbol |-> x[1], stake |-> x[2], entries |-> MCEntries(m, t, o, x[3])] :
        x \in MCShapes,
        m \in {MCNone} \cup MCEntry(MCFlags, {"multiplier", "none"},
                                    {<<>>, <<30, 100>>}, {"fits", "misfit", "absent"}),
        t \in {MCNone} \cup MCEntry({"yes", "absent"}, {"turbos"}, {<<>>}, {"fits"}),
        o \in {MCNone} \cup MCEntry({"no"}, {"callput"}, {<<>>}, {"fits"}) }

MCEnvSpecs ==
    { [buy |-> "MULTUP", sell |-> "MULTDOWN", multiplier |-> 100, duration |-> 0, limitOrder |-> TRUE],
      [buy |-> "CALL", sell |-> "PUT", multiplier |-> 0, duration |-> 5, limitOrder |-> FALSE] }
=============================================================================
