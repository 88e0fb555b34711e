---------------------------- MODULE MCRestClient ----------------------------
(* An instance of RestClient for TLC.                                      *)
EXTENDS RestClient

CONSTANTS c1, c2, refresher

MCClients == {c1, c2}
MCRefresher == refresher
MCLimit == [b \in {"user", "time"} |-> 1]
MCMaxRequests == [t \in MCClients |-> 1]
==============================================================================
