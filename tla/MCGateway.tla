------------------------------ MODULE MCGateway ------------------------------
(* Threads, keys, requests and start-up of the gateway for TLC.            *)
EXTENDS Gateway, TLC

CONSTANTS t1, t2, k1

TwoThreads == {t1, t2}
OneKey == {k1}

Request(m, p, a) == [method |-> m, path |-> p, auth |-> a, key |-> k1]

SomeRequests ==
  {Request("GET", "/health", "none"), Request("GET", "/admin/other", "none"),
   Request("POST", "/api/chat", "none"), Request("POST", "/api/chat", "key"),
   Request("POST", "/admin/api-keys", "none")}
  \cup {Request(m, "/admin/api-keys", "master") : m \in {"POST", "GET", "DELETE"}}

\* The file is missing, broken, or gives a key that the environment empties.
SomeFiles ==
  {[state |-> "missing", gives |-> <<>>], [state |-> "malformed", gives |-> <<>>]}
  \cup {[state |-> s, gives |-> [f \in {"server", "deepseek"} |-> "file"]] :
          s \in {"mistyped", "good"}}

SomeEnvironments ==
  {<<>>, [f \in {"deepseek"} |-> "env_empty"], [f \in {"db_password"} |-> "env"]}
==============================================================================
