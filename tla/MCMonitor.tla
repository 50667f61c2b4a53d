------------------------------ MODULE MCMonitor ------------------------------
EXTENDS Monitor

MCRuns == {<<>>, <<"shell">>, <<"nothing", "shell">>, <<"file">>, <<"nothing">>,
           <<"both">>, <<"states">>}
=============================================================================
