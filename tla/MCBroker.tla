------------------------------- MODULE MCBroker -------------------------------
(* Small instances of Broker for TLC.                                      *)
EXTENDS Broker

CONSTANTS k1, k2

Rank(j) == CHOOSE i \in 1 .. 5 : <<"pub", "sub", "create", "remove", "list">>[i] = j

\* Two clients that swap their jobs and pipes are no new case.  Nobody looks
\* at the pipe of a sub, and that of a list is treated like that of a remove.
MCInit ==
    /\ Init
    /\ {k1, k2} \subseteq Clients => Rank(job[k1]) <= Rank(job[k2])
    /\ \A c \in Clients : job[c] \in {"sub", "list"} => pipe[c] = "missing"

MCFairSpec == MCInit /\ [][Next]_vars /\ Fairness

=============================================================================
