----------------------------- MODULE MCStrategies -----------------------------
EXTENDS Strategies

ProgramUses ==
  {<<"IterUpdate", "native">>, <<"IterUpdate", "plain">>, <<"Update", "native">>}

MainToShadow == {<<"IterUpdate", "native">>}

Live(ts, val) == [kind |-> "live", ts |-> ts, val |-> val]

Deleted(ts) == [kind |-> "deleted", ts |-> ts, val |-> Empty]

\* A main DBI has no headers.
MCStored(i) ==
  IF i = "native" THEN {Live(1, 1), Live(2, Empty), Deleted(2)}
  ELSE {Live(0, 1), Live(0, Empty)}

\* A dump of a main DBI has no timestamps.
MCOffered(use) ==
  IF use = <<"IterUpdate", "native">> THEN {Live(0, 1), Live(0, Empty)}
  ELSE {Live(2, 2), Deleted(1), Deleted(2)}
===============================================================================
