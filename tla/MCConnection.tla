---------------------------- MODULE MCConnection ----------------------------
(* Two connections.  A request is a number; the odd ones belong to "one". *)
EXTENDS Connection

Owners == [r \in Requests |-> IF r = 3 THEN "two" ELSE "one"]
Editors == [r \in Requests |-> 1]

\* An editor and its end; two dialogues; two commands; the end of the daemon
\* during a call.
Families == {
    <<"open", "finish", "none">>, <<"open", "drop", "none">>, <<"interact", "interact", "none">>,
    <<"command", "none", "terminal">>, <<"open", "none", "stop">>,
    <<"interact", "none", "stop">>, <<"navigate", "none", "stop">> }

MCInit ==
    /\ ConnectionInit
    /\ up = IF operation[3] = "none" /\ operation[1] # "navigate" THEN {"one"} ELSE Clients
    /\ stored = up \cap IF operation[1] = "command" THEN {"two"} ELSE Clients

MCSpec == MCInit /\ [][ConnectionNext]_clientVars /\ ConnectionFairness
=============================================================================
