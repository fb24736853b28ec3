------------------------------- MODULE Gateway -------------------------------
(***************************************************************************)
(* The way of a request through the gateway: the middleware chain          *)
(* (middleware/middleware.h and the three it holds), the streaming test of *)
(* session.cpp, the router (server/router.cpp), the routes of main.cpp and *)
(* the adapter factory, after the start-up that configures them.           *)
(*                                                                         *)
(* handle_request runs from the chain to the response on one io_context    *)
(* thread, which waits in borrow, in MySQL and in libcurl.  The calls to   *)
(* the repository are those of Repository, with its connection pool; what  *)
(* a stream does after its start is in Session.                            *)
(***************************************************************************)
EXTENDS Naturals, Sequences, FiniteSets

CONSTANTS Threads,       \* io_context threads
          PoolSize,      \* db_pool_size
          Keys,          \* API keys, each with its row id
          Capacity,      \* rate_limit_capacity
          Requests,      \* heads of the requests the clients may send
          NoRequest,     \* a thread that has none
          Files, Environments

\* The targets that have a route, and any others.
Others == {"/other", "/admin/other"}
Paths == {"/health", "/api/chat", "/admin/api-keys"} \cup Others

\* Paths that the authentication lets through.
Public(r) == r.path \in {"/health", "/admin/api-keys", "/admin/other"}

\* Of a body it matters which check it fails: it is no JSON, no object or has a
\* field of a wrong type, lacks what the route asks for, or is complete.  A body
\* is chosen when it is looked at.
Bodies == {"malformed", "mistyped", "incomplete", "complete"}
Models == {"deepseek", "openai", "anthropic", "other", "absent"}

VARIABLES idle, created, pc, held,               \* the connection pool
          row, call, reply, crashed,             \* the repository
          shut, known, shutBefore, knownBefore,  \* its history
          phase, named, file, env, loaded, config, adapters,  \* the start-up
          req,           \* request each thread is handling
          at,            \* where handle_request is
          answer,        \* the response, "none" so far
          tokens,        \* the bucket of the rate limiter
          paid,          \* history: tokens the request has taken
          escaped        \* an exception has left a handler: std::terminate

Repo == INSTANCE Repository
Start == INSTANCE Startup

\* auth says what the Authorization header holds; key is the client's own, or
\* the one an /admin request creates or names by its id.
ASSUME GatewayAssumption ==
  /\ Requests \subseteq
       [method : {"GET", "POST", "DELETE"}, path : Paths,
        auth : {"none", "key", "master"}, key : Keys]
  /\ \A r \in Requests : r.auth = "master" => Public(r)
  /\ Repo!RepositoryAssumption
  /\ Start!StartupAssumption
  /\ Capacity \in Nat
  /\ NoRequest \notin Requests

repoVars == <<idle, created, pc, held, row, call, reply, crashed,
              shut, known, shutBefore, knownBefore>>
startVars == <<phase, named, file, env, loaded, config, adapters>>
wayVars == <<req, at, answer, tokens, paid, escaped>>
vars == <<repoVars, startVars, wayVars>>

Init ==
  /\ Repo!Init
  /\ Start!Init
  /\ req = [t \in Threads |-> NoRequest]
  /\ at = [t \in Threads |-> "free"]
  /\ answer = [t \in Threads |-> "none"]
  /\ tokens = Capacity
  /\ paid = [t \in Threads |-> 0]
  /\ escaped = FALSE

Goto(t, l) == at' = [at EXCEPT ![t] = l]

\* The response of thread t is made.
Respond(t, a) ==
  /\ answer' = [answer EXCEPT ![t] = a]
  /\ Goto(t, "answer")

\* A step that only takes handle_request on to l, or to its response.
Local == UNCHANGED <<repoVars, startVars, req, tokens, paid, escaped>>
Go(t, l) == Goto(t, l) /\ UNCHANGED answer /\ Local
Answer(t, a) == Respond(t, a) /\ Local

\* The repository is called, and comes back.
Call(t, c) ==
  /\ Repo!Begin(t, c)
  /\ Goto(t, "repository")
  /\ UNCHANGED <<startVars, req, answer, tokens, paid, escaped>>

ComesBack(t) ==
  /\ at[t] = "repository"
  /\ Repo!End(t)
  /\ UNCHANGED <<startVars, req, tokens, paid, escaped>>

-----------------------------------------------------------------------------
(* The chain.  A middleware that sets terminated ends it.                  *)

\* In the order main adds them; the third, which only logs, is left out.
\* Mutant: the limiter first.
LimiterFirst == <<"limit", "auth">>
Middlewares == <<"auth", "limit">>

After(m) ==
  LET i == CHOOSE j \in DOMAIN Middlewares : Middlewares[j] = m
  IN IF i = Len(Middlewares) THEN "session" ELSE Middlewares[i + 1]

\* on_read: a request has been read.
Read(t, r) ==
  /\ at[t] = "free"
  /\ req' = [req EXCEPT ![t] = r]
  /\ Goto(t, Middlewares[1])
  /\ UNCHANGED <<repoVars, startVars, answer, tokens, paid, escaped>>

AuthPublic(t) ==
  /\ at[t] = "auth"
  /\ Public(req[t])
  /\ Go(t, After("auth"))

AuthNoToken(t) ==
  /\ at[t] = "auth"
  /\ ~Public(req[t])
  /\ req[t].auth = "none"
  /\ Answer(t, "auth_failed")

AuthLookup(t) ==
  /\ at[t] = "auth"
  /\ ~Public(req[t])
  /\ req[t].auth = "key"
  /\ Call(t, Repo!Find(req[t].key))

\* db_error is looked at before found.  Mutant: only found is.
FoundOnly(result) ==
  IF result = "found" THEN "pass" ELSE "auth_failed"
Verdict(result) ==
  CASE result = "db_error" -> "service_unavailable"
    [] result = "not_found" -> "auth_failed"
    [] result = "found" -> "pass"

AuthResult(t) ==
  /\ call[t].kind = "find"
  /\ ComesBack(t)
  /\ IF Verdict(reply[t]) = "pass"
       THEN Goto(t, After("auth")) /\ UNCHANGED answer
       ELSE Respond(t, Verdict(reply[t]))

\* try_acquire(1).  Mutant: the bucket is not looked at.
TakeAnyway(t) ==
  /\ at[t] = "limit"
  /\ tokens' = tokens - 1
  /\ paid' = [paid EXCEPT ![t] = @ + 1]
  /\ Goto(t, After("limit"))
  /\ UNCHANGED <<repoVars, startVars, req, answer, escaped>>
Limit(t) ==
  /\ at[t] = "limit"
  /\ IF tokens > 0
       THEN /\ tokens' = tokens - 1
            /\ paid' = [paid EXCEPT ![t] = @ + 1]
            /\ Goto(t, After("limit"))
            /\ UNCHANGED <<repoVars, startVars, req, answer, escaped>>
       ELSE Answer(t, "rate_limited")

Refill ==
  /\ \E n \in tokens + 1 .. Capacity : tokens' = n
  /\ UNCHANGED <<repoVars, startVars, req, at, answer, paid, escaped>>

-----------------------------------------------------------------------------
(* handle_request after the chain: the streaming test comes before the     *)
(* path is looked at.                                                      *)

\* A prefix is represented by the name of its provider; the default for a
\* missing model is one of DeepSeek's in both places.
Provider(m) == IF m = "absent" THEN "deepseek" ELSE m
Served(m) == Provider(m) \in adapters

Stream(t) ==
  /\ at[t] = "session"
  /\ adapters # {}
  /\ \E m \in Models :
       Answer(t, IF Served(m) THEN "stream" ELSE "bad_request")

Route(t, method, path) ==
  /\ at[t] = "session"
  /\ req[t].method = method /\ req[t].path = path

Routes == {<<"GET", "/health">>, <<"POST", "/api/chat">>,
           <<"POST", "/admin/api-keys">>, <<"GET", "/admin/api-keys">>,
           <<"DELETE", "/admin/api-keys">>}

\* Nothing between a route and ioc_.run() catches an exception.
Escape(t) ==
  /\ escaped' = TRUE
  /\ UNCHANGED <<repoVars, startVars, req, at, answer, tokens, paid>>

\* An error response repeats what it is about; bytes in it that are no UTF-8
\* make its dump() throw.
ErrorResponse(t, a) == Answer(t, a) \/ Escape(t)

NotRouted(t) ==
  /\ at[t] = "session"
  /\ <<req[t].method, req[t].path>> \notin Routes
  /\ IF req[t].path \in Others THEN ErrorResponse(t, "not_found")
     ELSE Answer(t, "not_found")

Health(t) == Route(t, "GET", "/health") /\ Answer(t, "ok")

\* json::value throws for what is no object, and for a field of a wrong type.
Chat(t) ==
  /\ Route(t, "POST", "/api/chat")
  /\ \E b \in Bodies, m \in Models :
       IF b = "malformed" THEN ErrorResponse(t, "bad_request")
       ELSE IF adapters = {} THEN Answer(t, "no_ai_configured")
       ELSE IF b = "mistyped" THEN Escape(t)
       ELSE IF ~Served(m) THEN Answer(t, "bad_request")
       ELSE Go(t, "provider")

\* chat_completion: an answer, which may hold an error, or an exception, whose
\* message may hold the provider's bytes.  Without "messages" the OpenAI adapters
\* read through an end iterator: the process ends, or it goes on.
ProviderAnswers(t) ==
  /\ at[t] = "provider"
  /\ Answer(t, "ok") \/ ErrorResponse(t, "provider_error")

-----------------------------------------------------------------------------
(* The /admin routes: verify_admin, the body, the repository.              *)

\* Only list does not look at the body.
Admin(t, method, bodies, c) ==
  /\ Route(t, method, "/admin/api-keys")
  /\ IF req[t].auth # "master"
       THEN Answer(t, "auth_failed")
       ELSE \E b \in bodies :
              CASE b \in {"malformed", "incomplete"} -> Answer(t, "bad_request")
                [] b = "mistyped" -> Escape(t)
                [] b = "complete" -> Call(t, c)

AdminCreate(t) ==
  Admin(t, "POST", Bodies, Repo!Create(req[t].key))
AdminList(t) ==
  Admin(t, "GET", {"complete"}, Repo!List)
AdminDisable(t) ==
  Admin(t, "DELETE", Bodies, Repo!Disable(req[t].key))

\* A failed INSERT is answered with an empty key.  Mutant: the result of
\* disable_api_key is not looked at either.
ResultIgnored(result) ==
  CASE result = "created" -> "new_key"
    [] result = "no_info" -> "empty_key"
    [] result = "listed" -> "ok"
    [] result \in {"true", "false"} -> "disabled"
AdminAnswer(result) ==
  CASE result = "created" -> "new_key"
    [] result = "no_info" -> "empty_key"
    [] result = "listed" -> "ok"
    [] result = "true" -> "disabled"
    [] result = "false" -> "not_found"

AdminResult(t) ==
  /\ call[t].kind \in {"create", "list", "disable"}
  /\ ComesBack(t)
  /\ Respond(t, AdminAnswer(reply[t]))

\* do_write: the response goes out, the thread is free; the history of its
\* call is forgotten.
Write(t) ==
  /\ at[t] = "answer"
  /\ Goto(t, "free")
  /\ req' = [req EXCEPT ![t] = NoRequest]
  /\ answer' = [answer EXCEPT ![t] = "none"]
  /\ paid' = [paid EXCEPT ![t] = 0]
  /\ shutBefore' = [shutBefore EXCEPT ![t] = {}]
  /\ knownBefore' = [knownBefore EXCEPT ![t] = {}]
  /\ UNCHANGED <<idle, created, pc, held, row, call, reply, crashed, shut, known,
                 startVars, tokens, escaped>>

-----------------------------------------------------------------------------
InStartup == Start!Next /\ UNCHANGED <<repoVars, wayVars>>

Inside == UNCHANGED <<startVars, wayVars>>

\* Steps inside a call to the repository: its own, and MySQL's.
InRepository(t) ==
  /\ \/ Repo!InPool(t) \/ Repo!NoConnection(t) \/ Repo!UseNull(t)
     \/ Repo!GiveBack(t)
  /\ Inside

InMySQL(t) ==
  /\ Repo!RunFind(t) \/ Repo!RunCreate(t) \/ Repo!RunList(t) \/ Repo!RunDisable(t)
  /\ Inside

BorrowTimesOut(t) ==
  /\ Repo!Pool!TimeOut(t)
  /\ UNCHANGED <<row, call, reply, crashed, shut, known, shutBefore, knownBefore>>
  /\ Inside

Authenticate(t) ==
  AuthPublic(t) \/ AuthNoToken(t) \/ AuthLookup(t) \/ AuthResult(t)

Serve(t) ==
  \/ Health(t) \/ Chat(t) \/ NotRouted(t)
  \/ AdminCreate(t) \/ AdminList(t) \/ AdminDisable(t) \/ AdminResult(t)

\* What thread t does of itself, with a provider that answers or times out.
Progress(t) ==
  \/ Authenticate(t) \/ Limit(t) \/ Stream(t) \/ Serve(t)
  \/ ProviderAnswers(t) \/ Write(t) \/ InRepository(t)

Alive == phase = "serving" /\ ~crashed /\ ~escaped

Next ==
  \/ InStartup
  \/ Alive /\ Refill
  \/ \E t \in Threads :
       Alive /\ (Progress(t) \/ InMySQL(t) \/ \E r \in Requests : Read(t, r))

(***************************************************************************)
(* Threads run on and the 5 seconds of borrow pass.  A transfer of libcurl *)
(* ends, by its low-speed limit at the latest.  A statement may hang for   *)
(* ever, clients owe nothing, and nobody has to refill the bucket.         *)
(***************************************************************************)
Fairness ==
  \A t \in Threads :
    /\ WF_vars(Alive /\ Progress(t))
    /\ WF_vars(Alive /\ BorrowTimesOut(t))

Spec == Init /\ [][Next]_vars
FairSpec == Spec /\ Fairness
-----------------------------------------------------------------------------
Places == {"free", "auth", "limit", "session", "repository", "provider", "answer"}
Answers == {"none", "auth_failed", "service_unavailable", "rate_limited",
            "bad_request", "stream", "not_found", "ok", "no_ai_configured",
            "provider_error", "new_key", "empty_key", "disabled"}

\* The types of the variables.
TypeOK ==
  /\ Repo!TypeOK
  /\ req \in [Threads -> Requests \cup {NoRequest}]
  /\ at \in [Threads -> Places]
  /\ answer \in [Threads -> Answers]
  /\ tokens \in 0 .. Capacity
  /\ paid \in [Threads -> Nat]
  /\ escaped \in BOOLEAN

Answered(t) == at[t] = "answer"

(***************************************************************************)
(* A request that the chain refuses has taken no token, every other has    *)
(* taken exactly one by the time it is answered: an invalid key costs      *)
(* nothing (rate_limiter.h:97-98), and no path goes round the limiter or   *)
(* through it twice.                                                       *)
(***************************************************************************)
RefusedByChain(t) ==
  \/ answer[t] \in {"rate_limited", "service_unavailable"}
  \/ answer[t] = "auth_failed" /\ ~Public(req[t])

PaidIffServed ==
  \A t \in Threads :
    Answered(t) => paid[t] = IF RefusedByChain(t) THEN 0 ELSE 1

(***************************************************************************)
(* A client whose key has been handed out, and not disabled, is never told *)
(* that the key is invalid: the failures of the database, the timeout of   *)
(* the pool included, are answered 503 (auth_middleware.cpp:95-106).       *)
(***************************************************************************)
ValidKeyNotDenied ==
  \A t \in Threads :
    Answered(t) /\ answer[t] = "auth_failed" /\ req[t].key \in knownBefore[t]
      => row[req[t].key] = "off"

(***************************************************************************)
(* The chat route reaches a provider only with a key that was enabled      *)
(* after the request came in: not with one whose DELETE had been answered  *)
(* by then, nor with one that is in no row.                                *)
(***************************************************************************)
ProviderNeedsKey ==
  \A t \in Threads :
    at[t] = "provider" =>
      req[t].key \notin shutBefore[t] /\ row[req[t].key] # "absent"

(***************************************************************************)
(* A success told to an /admin request is true when it is told, whatever   *)
(* ran since the statement: the row of a new key exists, and a key called  *)
(* disabled is disabled.  The 404 "no key with this id" is left out: it is *)
(* also told of a key that exists, after an UPDATE that failed or that     *)
(* changed no row (main.cpp:375-378, repository.cpp:206).                  *)
(***************************************************************************)
AdminSuccessIsTrue ==
  \A t \in Threads :
    Answered(t) =>
      /\ answer[t] = "new_key" => row[req[t].key] # "absent"
      /\ answer[t] = "disabled" => row[req[t].key] = "off"

\* The server never opens half configured (util/config.cpp:91, main.cpp:104).
OpensAsConfigured == Start!NeverHalfConfigured

(***************************************************************************)
(* Every request is answered, unless its own statement hangs or the        *)
(* process has died.  One that only waits for a connection is not kept by  *)
(* the hanging statements of others, nor by the limiter.                   *)
(***************************************************************************)
InStatement(t) == pc[t] = "using" /\ reply[t] = "none"

EveryRequestAnswered ==
  \A t \in Threads :
    at[t] # "free" ~> at[t] = "free" \/ InStatement(t) \/ crashed \/ escaped
=============================================================================
