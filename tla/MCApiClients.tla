---------------------------- MODULE MCApiClients ----------------------------
EXTENDS ApiClients

\* Two ids whose parts join to the same characters, and a third that the colon
\* in its atespace gives the key of the first.
AB == <<<<"a">>, <<"b", ":", "c">>>>
ABC == <<<<"a", "b">>, <<":", "c">>>>
Clash == <<<<"a", ":", "b">>, <<"c">>>>
MCIds == {AB, ABC, Clash}

\* Two documents, the second with a status.  An apply that is cut short leaves
\* the first.
MCManifests ==
    {<<[id |-> ABC, spec |-> "plain", phase |-> ""],
       [id |-> Clash, spec |-> "plain", phase |-> "Suspended"]>>}
=============================================================================
