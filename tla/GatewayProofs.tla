---------------------------- MODULE GatewayProofs ----------------------------
(***************************************************************************)
(* What holds of the way of a request for every set of requests, threads   *)
(* and keys, every size of the pool and of the bucket, every configuration *)
(* file and environment.  What the repository guarantees is taken from     *)
(* RepositoryProofs; only the response forgets part of its history.        *)
(***************************************************************************)
EXTENDS Gateway, TLAPS

-----------------------------------------------------------------------------
(* Start-up.                                                               *)

StartTypeOK ==
  /\ phase \in {"options", "load", "check", "env", "database", "adapters",
                "open", "serving", "exited"}
  /\ named \in BOOLEAN /\ loaded \in BOOLEAN
  /\ phase # "serving" => file \in Files /\ env \in Environments

\* What the configuration holds once the file has been dealt with.
Given(f) ==
  IF file.state = "good" /\ f \in DOMAIN file.gives THEN file.gives[f]
  ELSE "default"

\* What each phase leaves to the next.
StartInv ==
  /\ StartTypeOK
  /\ phase \in {"options", "load"} => ~loaded /\ config = Start!Default
  /\ phase \in {"check", "env"} =>
       /\ loaded => file.state = "good"
       /\ config = [f \in Start!Fields |-> Given(f)]
  /\ phase = "env" /\ named => loaded
  /\ phase \in {"database", "adapters", "open"} =>
       /\ named => file.state = "good"
       /\ config = [f \in Start!Fields |-> Start!Told(f)]
  /\ phase = "open" =>
       adapters = {p \in Start!Providers : config[p] \notin Start!Empty}

\* Start-up keeps its invariant.
LEMMA StartStep ==
  ASSUME StartInv, Start!Next
  PROVE  StartInv'
<1> USE DEF StartInv, StartTypeOK
<1>1. CASE Start!ReadOptions
  BY <1>1 DEF Start!ReadOptions, Start!Exit
<1>2. CASE Start!FileUnusable
  BY <1>2 DEF Start!FileUnusable, Start!Default, Given
<1>3. CASE Start!FileLoaded
  BY <1>3 DEF Start!FileLoaded, Start!Default, Start!Override, Given
<1>4. CASE Start!FileMistyped
  BY <1>4 DEF Start!FileMistyped, Start!Exit
<1>5. CASE Start!CheckLoaded
  BY <1>5 DEF Start!CheckLoaded, Start!Exit, Given
<1>6. CASE Start!ReadEnvironment
  BY <1>6 DEF Start!ReadEnvironment, Start!Override, Start!Told, Given
<1>7. CASE Start!ConnectDatabase
  BY <1>7 DEF Start!ConnectDatabase, Start!Exit, Start!Told
<1>8. CASE Start!RegisterAdapters
  BY <1>8 DEF Start!RegisterAdapters, Start!Told
<1>9. CASE Start!OpenServer
  BY <1>9 DEF Start!OpenServer, Start!Exit
<1> QED
  BY <1>1, <1>2, <1>3, <1>4, <1>5, <1>6, <1>7, <1>8, <1>9 DEF Start!Next

\* Serving leaves it alone.
LEMMA StartFrame ==
  ASSUME [Next]_vars
  PROVE  Start!Next \/ UNCHANGED startVars
<1> USE DEF Local, Go, Answer, Call, ComesBack, Escape, Inside
<1>1. CASE InStartup
  BY <1>1 DEF InStartup
<1>2. CASE Refill
  BY <1>2 DEF Refill
<1>3. ASSUME NEW t \in Threads, NEW r \in Requests, Read(t, r)
      PROVE  UNCHANGED startVars
  BY <1>3 DEF Read
<1>4. ASSUME NEW t \in Threads, Authenticate(t) \/ Limit(t) \/ Stream(t)
      PROVE  UNCHANGED startVars
  BY <1>4 DEF Authenticate, AuthPublic, AuthNoToken, AuthLookup, AuthResult,
              Limit, Stream
<1>5. ASSUME NEW t \in Threads, Serve(t)
      PROVE  UNCHANGED startVars
  <2>1. ASSUME NEW m, NEW bs \in SUBSET Bodies, NEW c, Admin(t, m, bs, c)
        PROVE  UNCHANGED startVars
    BY <2>1 DEF Admin, Bodies
  <2> QED
    BY <1>5, <2>1 DEF Serve, Health, Chat, NotRouted, ErrorResponse, AdminCreate, AdminList,
                      AdminDisable, AdminResult, Bodies
<1>6. ASSUME NEW t \in Threads,
             ProviderAnswers(t) \/ Write(t)
               \/ InRepository(t) \/ InMySQL(t)
      PROVE  UNCHANGED startVars
  BY <1>6 DEF ProviderAnswers, ErrorResponse, Write, InRepository, InMySQL
<1>7. CASE UNCHANGED vars
  BY <1>7 DEF vars
<1> QED
  BY <1>1, <1>2, <1>3, <1>4, <1>5, <1>6, <1>7 DEF Next, Progress

\* Gateway.OpensAsConfigured, whatever the file and the environment hold.
THEOREM OpensConfigured == Spec => []OpensAsConfigured
<1>1. Init => StartInv
  BY DEF Init, Start!Init, StartInv, StartTypeOK
<1>2. StartInv /\ [Next]_vars => StartInv'
  <2>1. ASSUME StartInv, UNCHANGED startVars PROVE StartInv'
    BY <2>1 DEF StartInv, StartTypeOK, startVars, Given, Start!Told
  <2> QED
    BY <2>1, StartStep, StartFrame
<1>3. StartInv => OpensAsConfigured
  BY DEF StartInv, OpensAsConfigured, Start!NeverHalfConfigured,
         Start!Providers, Start!Fields, Start!Overridable
<1> QED
  BY <1>1, <1>2, <1>3, PTL DEF Spec
-----------------------------------------------------------------------------
(* The repository below the gateway.                                       *)

RepoProofs == INSTANCE RepositoryProofs

\* The variables of the gateway proper.
WayTypeOK ==
  /\ req \in [Threads -> Requests \cup {NoRequest}]
  /\ at \in [Threads -> Places]
  /\ answer \in [Threads -> Answers]
  /\ tokens \in 0 .. Capacity
  /\ paid \in [Threads -> Nat]
  /\ escaped \in BOOLEAN
  /\ \A t \in Threads : at[t] # "free" => req[t] \in Requests

\* The calls of the gateway are calls of the repository.
LEMMA CallsOfKey ==
  ASSUME NEW k \in Keys
  PROVE  /\ Repo!Find(k) \in Repo!Calls /\ Repo!Create(k) \in Repo!Calls
         /\ Repo!Disable(k) \in Repo!Calls /\ Repo!List \in Repo!Calls
BY DEF Repo!Calls

\* The key of a request is a key.
LEMMA KeyOfRequest ==
  ASSUME WayTypeOK, NEW t \in Threads, at[t] # "free"
  PROVE  req[t] \in Requests /\ req[t].key \in Keys
BY GatewayAssumption DEF WayTypeOK

\* Every step is one of the repository, none to it, or forgets its history.
LEMMA RepoFrame ==
  ASSUME WayTypeOK, [Next]_vars
  PROVE  Repo!Next \/ UNCHANGED repoVars \/ \E t \in Threads : Write(t)
<1> USE DEF Local, Go, Answer, Escape, Alive
<1>1. CASE InStartup \/ Refill \/ UNCHANGED vars
  BY <1>1 DEF InStartup, Refill, vars
<1>2. ASSUME NEW t \in Threads, NEW r \in Requests, Read(t, r)
      PROVE  UNCHANGED repoVars
  BY <1>2 DEF Read
<1>3. ASSUME NEW t \in Threads, Alive,
             AuthLookup(t) \/ AdminCreate(t) \/ AdminList(t) \/ AdminDisable(t)
      PROVE  Repo!Next \/ UNCHANGED repoVars
  <2>1. req[t].key \in Keys
    BY <1>3, KeyOfRequest
    DEF AuthLookup, AdminCreate, AdminList, AdminDisable, Admin, Route
  <2>2. ASSUME NEW c \in Repo!Calls, Repo!Begin(t, c)
        PROVE  Repo!Next
    BY <1>3, <2>2 DEF Repo!Next
  <2>3. \/ \E c \in Repo!Calls : Repo!Begin(t, c)
        \/ UNCHANGED repoVars
    BY <1>3, <2>1, CallsOfKey
    DEF AuthLookup, AdminCreate, AdminList, AdminDisable, Admin, Call, Bodies
  <2> QED
    BY <2>2, <2>3
<1>4. ASSUME NEW t \in Threads, Alive, AuthResult(t) \/ AdminResult(t)
      PROVE  Repo!Next
  BY <1>4 DEF AuthResult, AdminResult, ComesBack, Repo!Next
<1>5. ASSUME NEW t \in Threads,
             \/ AuthPublic(t) \/ AuthNoToken(t) \/ Limit(t) \/ Stream(t)
             \/ Health(t) \/ Chat(t) \/ NotRouted(t)
             \/ ProviderAnswers(t)
      PROVE  UNCHANGED repoVars
  BY <1>5 DEF AuthPublic, AuthNoToken, Limit, Stream, Health, Chat, NotRouted, ErrorResponse,
              ProviderAnswers
<1>6. ASSUME NEW t \in Threads, Alive, InRepository(t) \/ InMySQL(t)
      PROVE  Repo!Next
  BY <1>6 DEF InRepository, InMySQL, Repo!Next
<1> QED
  BY <1>1, <1>2, <1>3, <1>4, <1>5, <1>6
  DEF Next, Progress, Authenticate, Serve

\* The theorems of the repository are about this repository.
LEMMA SameRepository ==
  /\ RepoProofs!RepositoryAssumption
  /\ Repo!Init => RepoProofs!Init
  /\ Repo!Next => RepoProofs!Next
<1>1. RepoProofs!RepositoryAssumption
  BY GatewayAssumption
  DEF RepoProofs!RepositoryAssumption, RepoProofs!Pool!ConnectionAssumption,
      RepoProofs!Pool!IsFiniteSet, Repo!RepositoryAssumption,
      Repo!Pool!ConnectionAssumption, Repo!Pool!IsFiniteSet
<1>2. Repo!Init => RepoProofs!Init
  BY DEF Repo!Init, Repo!Pool!Init, Repo!NoCall,
         RepoProofs!Init, RepoProofs!Pool!Init, RepoProofs!NoCall
<1>3. ASSUME NEW t
      PROVE  /\ Repo!Pool!Borrow(t) <=> RepoProofs!Pool!Borrow(t)
             /\ Repo!Pool!Leave(t) <=> RepoProofs!Pool!Leave(t)
             /\ Repo!Pool!Return(t) <=> RepoProofs!Pool!Return(t)
             /\ Repo!Pool!Internal(t) <=> RepoProofs!Pool!Internal(t)
  BY DEF
       Repo!Pool!Borrow, RepoProofs!Pool!Borrow, Repo!Pool!Leave,
       RepoProofs!Pool!Leave, Repo!Pool!Return, RepoProofs!Pool!Return,
       Repo!Pool!Internal, RepoProofs!Pool!Internal, Repo!Pool!Evaluate,
       RepoProofs!Pool!Evaluate, Repo!Pool!Take, RepoProofs!Pool!Take,
       Repo!Pool!Wait, RepoProofs!Pool!Wait, Repo!Pool!SpuriousWake,
       RepoProofs!Pool!SpuriousWake, Repo!Pool!TimeOut,
       RepoProofs!Pool!TimeOut, Repo!Pool!GiveUp, RepoProofs!Pool!GiveUp,
       Repo!Pool!NotifyOne, RepoProofs!Pool!NotifyOne, Repo!Pool!Goto,
       RepoProofs!Pool!Goto, Repo!Pool!Pop, RepoProofs!Pool!Pop,
       Repo!Pool!Push, RepoProofs!Pool!Push, Repo!Pool!Blocked,
       RepoProofs!Pool!Blocked
<1>4. Repo!Calls = RepoProofs!Calls
  BY DEF
       Repo!Calls, RepoProofs!Calls, Repo!Find, RepoProofs!Find, Repo!Create,
       RepoProofs!Create, Repo!Disable, RepoProofs!Disable, Repo!List,
       RepoProofs!List
<1>5. ASSUME NEW t
      PROVE  /\ \A c : Repo!Begin(t, c) <=> RepoProofs!Begin(t, c)
             /\ Repo!InPool(t) <=> RepoProofs!InPool(t)
             /\ Repo!NoConnection(t) <=> RepoProofs!NoConnection(t)
             /\ Repo!UseNull(t) <=> RepoProofs!UseNull(t)
  BY <1>3 DEF
       Repo!Begin, RepoProofs!Begin, Repo!InPool, RepoProofs!InPool,
       Repo!NoConnection, RepoProofs!NoConnection, Repo!UseNull,
       RepoProofs!UseNull, Repo!Reply, RepoProofs!Reply, Repo!NoCall,
       RepoProofs!NoCall, Repo!poolVars, RepoProofs!poolVars, Repo!history,
       RepoProofs!history
<1>6. ASSUME NEW t
      PROVE  /\ Repo!RunFind(t) <=> RepoProofs!RunFind(t)
             /\ Repo!RunCreate(t) <=> RepoProofs!RunCreate(t)
             /\ Repo!RunList(t) <=> RepoProofs!RunList(t)
             /\ Repo!RunDisable(t) <=> RepoProofs!RunDisable(t)
  BY DEF
       Repo!RunFind, RepoProofs!RunFind, Repo!RunCreate, RepoProofs!RunCreate,
       Repo!RunList, RepoProofs!RunList, Repo!RunDisable,
       RepoProofs!RunDisable, Repo!Ready, RepoProofs!Ready, Repo!Reply,
       RepoProofs!Reply, Repo!Enabled, RepoProofs!Enabled, Repo!RowsChanged,
       RepoProofs!RowsChanged, Repo!InsertFailed, RepoProofs!InsertFailed,
       Repo!poolVars, RepoProofs!poolVars, Repo!history, RepoProofs!history
<1>7. ASSUME NEW t
      PROVE  /\ Repo!GiveBack(t) <=> RepoProofs!GiveBack(t)
             /\ Repo!End(t) <=> RepoProofs!End(t)
  BY <1>3 DEF
       Repo!GiveBack, RepoProofs!GiveBack, Repo!End, RepoProofs!End,
       Repo!Reply, RepoProofs!Reply, Repo!NoCall, RepoProofs!NoCall,
       Repo!poolVars, RepoProofs!poolVars, Repo!history, RepoProofs!history
<1>8. Repo!Next => RepoProofs!Next
  BY <1>4, <1>5, <1>6, <1>7 DEF Repo!Next, RepoProofs!Next
<1> QED
  BY <1>1, <1>2, <1>8
\* Forgetting what a thread knew of the keys breaks nothing.
LEMMA ForgetStep ==
  ASSUME RepoProofs!IInv, NEW t \in Threads, Write(t)
  PROVE  RepoProofs!IInv'
<1>1. /\ UNCHANGED <<row, call, reply, crashed, shut, known>>
      /\ shutBefore' = [shutBefore EXCEPT ![t] = {}]
      /\ knownBefore' = [knownBefore EXCEPT ![t] = {}]
  BY DEF Write
<1>2. RepoProofs!RepoTypeOK'
  BY <1>1 DEF RepoProofs!IInv, RepoProofs!RepoTypeOK
<1>3. \A u \in Threads : /\ shutBefore'[u] \subseteq shutBefore[u]
                         /\ knownBefore'[u] \subseteq knownBefore[u]
  BY <1>1 DEF RepoProofs!IInv, RepoProofs!RepoTypeOK
<1> QED
  BY <1>1, <1>2, <1>3
  DEF RepoProofs!IInv, RepoProofs!KindInv, RepoProofs!OffInv,
      RepoProofs!KnownInv, RepoProofs!OnceInv, RepoProofs!DisabledOnce,
      RepoProofs!ShutKeyRejected, RepoProofs!CreatedKeyAccepted

\* So the invariant of the repository holds below the gateway, where a row
\* that is off stays off and no row is deleted.
LEMMA RepoStep ==
  ASSUME WayTypeOK, RepoProofs!IInv, [Next]_vars
  PROVE  /\ RepoProofs!IInv'
         /\ \A k \in Keys : /\ row[k] = "off" => row'[k] = "off"
                            /\ row[k] # "absent" => row'[k] # "absent"
<1>1. CASE RepoProofs!Next \/ UNCHANGED repoVars
  <2>1. [RepoProofs!Next]_(RepoProofs!vars)
    BY <1>1 DEF repoVars, RepoProofs!vars, RepoProofs!poolVars,
                RepoProofs!history
  <2>2. RepoProofs!IInv'
    BY <2>1, SameRepository, RepoProofs!TypeStep, RepoProofs!KindStep,
       RepoProofs!OffStep, RepoProofs!KnownStep, RepoProofs!OnceStep,
       RepoProofs!LookupStep
    DEF RepoProofs!IInv
  <2>3. \A k \in Keys : /\ row[k] = "off" => row'[k] = "off"
                        /\ row[k] # "absent" => row'[k] # "absent"
    BY <2>1, SameRepository, RepoProofs!RowsOnlyGoOff DEF RepoProofs!IInv
  <2> QED
    BY <2>2, <2>3
<1>2. ASSUME NEW t \in Threads, Write(t)
      PROVE  RepoProofs!IInv' /\ row' = row
  BY <1>2, ForgetStep DEF Write
<1> QED
  BY <1>1, <1>2, RepoFrame, SameRepository
-----------------------------------------------------------------------------
(* The way of a request.                                                   *)

\* A call of the repository belongs to a request, and its reply to the call.
CallInv ==
  \A t \in Threads :
    /\ at[t] = "repository" <=> call[t].kind # "none"
    /\ call[t].kind \in {"find", "create", "disable"} => call[t].key = req[t].key
    /\ call[t].kind = "find" => ~Public(req[t])
    /\ call[t].kind \in {"create", "list", "disable"} => Public(req[t])
    /\ at[t] = "provider" => ~Public(req[t])

ReplyInv ==
  \A t \in Threads :
    /\ call[t].kind = "find" =>
         reply[t] \in {"none", "db_error", "found", "not_found"}
    /\ call[t].kind = "create" => reply[t] \in {"none", "created", "no_info"}
    /\ call[t].kind = "list" => reply[t] \in {"none", "listed"}
    /\ call[t].kind = "disable" => reply[t] \in {"none", "true", "false"}
    /\ reply[t] = "found" => row[call[t].key] # "absent"

\* The limiter is behind the authentication, and before all the rest.
TokenInv ==
  /\ \A t \in Threads :
       /\ at[t] \in {"free", "auth", "limit"} => paid[t] = 0
       /\ at[t] \in {"session", "provider"} => paid[t] = 1
       /\ at[t] = "repository" =>
            paid[t] = IF call[t].kind = "find" THEN 0 ELSE 1
  /\ PaidIffServed

\* What is known of the key of a request on its way.
KeyInv ==
  /\ \A t \in Threads :
       /\ at[t] \in {"free", "auth"} => knownBefore[t] = {}
       /\ at[t] \in {"limit", "session"} /\ Public(req[t]) =>
            knownBefore[t] = {}
       /\ at[t] \in {"limit", "session", "provider"}
            /\ ~Public(req[t]) =>
            req[t].key \notin shutBefore[t] /\ row[req[t].key] # "absent"
  /\ ValidKeyNotDenied /\ AdminSuccessIsTrue

WayInv == WayTypeOK /\ CallInv /\ ReplyInv /\ TokenInv /\ KeyInv

\* What a thread does between two calls of the repository.
Decides(t) ==
  \/ at[t] = "auth" /\ Public(req[t]) /\ Go(t, "limit")
  \/ at[t] = "auth" /\ ~Public(req[t]) /\ Answer(t, "auth_failed")
  \/ at[t] = "limit" /\ Answer(t, "rate_limited")
  \/ /\ at[t] = "session"
     /\ \E a \in {"stream", "bad_request", "not_found", "ok",
                  "no_ai_configured"} : Answer(t, a)
  \/ at[t] = "session" /\ Public(req[t]) /\ Answer(t, "auth_failed")
  \/ at[t] = "session" /\ ~Public(req[t]) /\ Go(t, "provider")
  \/ /\ at[t] = "provider"
     /\ \E a \in {"ok", "provider_error"} : Answer(t, a)
  \/ Escape(t)

\* The call it makes.
Asks(t) ==
  \/ at[t] = "auth" /\ ~Public(req[t]) /\ Call(t, Repo!Find(req[t].key))
  \/ /\ at[t] = "session" /\ Public(req[t])
     /\ \E c \in {Repo!Create(req[t].key), Repo!List,
                  Repo!Disable(req[t].key)} : Call(t, c)

\* What it does when it comes back.
Hears(t) ==
  /\ ComesBack(t)
  /\ \/ reply[t] = "found" /\ Goto(t, "limit") /\ UNCHANGED answer
     \/ reply[t] = "not_found" /\ Respond(t, "auth_failed")
     \/ reply[t] = "db_error" /\ Respond(t, "service_unavailable")
     \/ reply[t] = "created" /\ Respond(t, "new_key")
     \/ reply[t] = "no_info" /\ Respond(t, "empty_key")
     \/ reply[t] = "listed" /\ Respond(t, "ok")
     \/ reply[t] = "true" /\ Respond(t, "disabled")
     \/ reply[t] = "false" /\ Respond(t, "not_found")

\* What the repository, or MySQL, does for it.
Waits(t) ==
  /\ UNCHANGED <<call, shutBefore, knownBefore, wayVars>>
  /\ \/ UNCHANGED reply
     \/ /\ call[t].kind = "find"
        /\ \/ reply' = [reply EXCEPT ![t] = "db_error"]
           \/ reply' = [reply EXCEPT ![t] = "not_found"]
           \/ /\ reply' = [reply EXCEPT ![t] = "found"]
              /\ row[call[t].key] = "on"
     \/ /\ call[t].kind = "create"
        /\ \E r \in {"created", "no_info"} : reply' = [reply EXCEPT ![t] = r]
     \/ call[t].kind = "list" /\ reply' = [reply EXCEPT ![t] = "listed"]
     \/ /\ call[t].kind = "disable"
        /\ \E r \in {"true", "false"} : reply' = [reply EXCEPT ![t] = r]

\* Nothing happens to the requests.
Rest == UNCHANGED <<row, call, reply, shutBefore, knownBefore,
                    req, at, answer, paid, escaped>>

\* There is no other step.
LEMMA Steps ==
  ASSUME WayInv, RepoProofs!IInv, [Next]_vars
  PROVE  \/ Rest /\ tokens' \in 0 .. Capacity
         \/ \E t \in Threads :
              \/ \E r \in Requests : Read(t, r)
              \/ Limit(t) /\ tokens > 0
              \/ Decides(t) \/ Asks(t) \/ Hears(t) \/ Waits(t) \/ Write(t)
<1> USE DEF WayInv
<1>1. CASE InStartup \/ Refill \/ UNCHANGED vars
  BY <1>1, GatewayAssumption
  DEF InStartup, Refill, vars, repoVars, wayVars, Rest, WayTypeOK
<1>2. ASSUME NEW t \in Threads, Authenticate(t)
      PROVE  Decides(t) \/ Asks(t) \/ Hears(t)
  <2>1. CASE AuthPublic(t) \/ AuthNoToken(t) \/ AuthLookup(t)
    BY <2>1 DEF AuthPublic, AuthNoToken, AuthLookup, After, Middlewares,
                Decides, Asks
  <2>2. CASE AuthResult(t)
    BY <2>2 DEF AuthResult, ComesBack, Repo!End, Verdict, After, Middlewares,
                Hears, ReplyInv
  <2> QED
    BY <1>2, <2>1, <2>2 DEF Authenticate
<1>3. ASSUME NEW t \in Threads, Limit(t)
      PROVE  (Limit(t) /\ tokens > 0) \/ Decides(t)
  BY <1>3 DEF Limit, Decides
<1>4. ASSUME NEW t \in Threads, Stream(t) \/ Health(t) \/ Chat(t) \/ NotRouted(t)
      PROVE  Decides(t)
  BY <1>4 DEF Stream, Health, Chat, NotRouted, ErrorResponse, Route, Public, Decides
<1>5. ASSUME NEW t \in Threads, AdminCreate(t) \/ AdminList(t) \/ AdminDisable(t)
      PROVE  Decides(t) \/ Asks(t)
  BY <1>5 DEF AdminCreate, AdminList, AdminDisable, Admin, Bodies, Route,
              Public, Decides, Asks
<1>6. ASSUME NEW t \in Threads, AdminResult(t)
      PROVE  Hears(t)
  BY <1>6 DEF AdminResult, ComesBack, Repo!End, AdminAnswer, Hears, ReplyInv
<1>7. ASSUME NEW t \in Threads, ProviderAnswers(t)
      PROVE  Decides(t)
  BY <1>7 DEF ProviderAnswers, ErrorResponse, Decides
<1>8. ASSUME NEW t \in Threads, InRepository(t) \/ InMySQL(t)
      PROVE  Waits(t)
  BY <1>8
  DEF InRepository, InMySQL, Inside, Repo!InPool, Repo!NoConnection,
      Repo!UseNull, Repo!GiveBack, Repo!RunFind, Repo!RunCreate, Repo!RunList,
      Repo!RunDisable, Repo!Ready, Repo!Reply, Repo!Enabled, Repo!RowsChanged,
      Repo!InsertFailed, Repo!history, Waits
<1> QED
  BY <1>1, <1>2, <1>3, <1>4, <1>5, <1>6, <1>7, <1>8 DEF Next, Progress, Serve
-----------------------------------------------------------------------------
(* One lemma per part of the invariant, one step per kind of action.       *)

\* The effect of a call, and of its return, on the repository's variables.
LEMMA CallFrame ==
  ASSUME RepoProofs!IInv, NEW t \in Threads
  PROVE  /\ \A c : Call(t, c) =>
              /\ at' = [at EXCEPT ![t] = "repository"]
              /\ call' = [call EXCEPT ![t] = c]
              /\ knownBefore' = [knownBefore EXCEPT ![t] = known]
              /\ reply[t] = "none" /\ call[t].kind = "none"
              /\ UNCHANGED <<row, reply, req, answer, tokens, paid, escaped>>
              /\ \A u \in Threads \ {t} : shutBefore'[u] = shutBefore[u]
         /\ ComesBack(t) =>
              /\ at[t] = "repository" /\ reply[t] # "none"
              /\ call' = [call EXCEPT ![t] = Repo!NoCall]
              /\ reply' = [reply EXCEPT ![t] = "none"]
              /\ UNCHANGED <<row, shutBefore, knownBefore>>
              /\ UNCHANGED <<req, tokens, paid, escaped>>
<1>1. RepoProofs!NoCall = Repo!NoCall /\ Repo!NoCall.kind = "none"
  BY DEF Repo!NoCall, RepoProofs!NoCall
<1>2. call[t] = Repo!NoCall => reply[t] = "none"
  BY <1>1 DEF RepoProofs!IInv, RepoProofs!KindInv
<1> QED
  BY <1>1, <1>2
  DEF Call, ComesBack, Goto, Repo!Begin, Repo!End, Repo!Reply,
      RepoProofs!IInv, RepoProofs!RepoTypeOK

\* The types of the functions that the next lemmas update.
LEMMA Shapes ==
  ASSUME WayTypeOK, RepoProofs!IInv
  PROVE  /\ req \in [Threads -> Requests \cup {NoRequest}]
         /\ at \in [Threads -> Places] /\ answer \in [Threads -> Answers]
         /\ paid \in [Threads -> Nat]
         /\ call \in [Threads -> RepoProofs!Calls \cup {RepoProofs!NoCall}]
         /\ reply \in [Threads -> RepoProofs!Replies]
         /\ knownBefore \in [Threads -> SUBSET Keys]
         /\ shutBefore \in [Threads -> SUBSET Keys]
         /\ row \in [Keys -> {"absent", "on", "off"}]
BY DEF WayTypeOK, RepoProofs!IInv, RepoProofs!RepoTypeOK

\* The kinds of calls.
LEMMA RepoKinds ==
  ASSUME NEW c \in RepoProofs!Calls \cup {RepoProofs!NoCall}
  PROVE  c.kind \in {"none", "find", "create", "list", "disable"}
BY DEF RepoProofs!Calls, RepoProofs!NoCall, RepoProofs!Find,
       RepoProofs!Create, RepoProofs!List, RepoProofs!Disable

\* Types.
LEMMA TypeStep ==
  ASSUME WayInv, RepoProofs!IInv, [Next]_vars
  PROVE  WayTypeOK'
<1> USE DEF WayTypeOK, Places, Answers
<1>0. WayTypeOK
  BY DEF WayInv
<1>1. CASE Rest /\ tokens' \in 0 .. Capacity
  BY <1>0, <1>1 DEF Rest
<1>2. ASSUME NEW t \in Threads, NEW r \in Requests, Read(t, r)
      PROVE  WayTypeOK'
  BY <1>0, <1>2 DEF Read, Goto, Middlewares
<1>3. ASSUME NEW t \in Threads, Limit(t), tokens > 0
      PROVE  WayTypeOK'
  BY <1>0, <1>3, GatewayAssumption DEF Limit, Goto, After, Middlewares
<1>4. ASSUME NEW t \in Threads, Decides(t)
      PROVE  WayTypeOK'
  <2>1. \/ Escape(t)
        \/ /\ req[t] \in Requests
           /\ \/ \E l \in Places : Go(t, l)
              \/ \E a \in Answers : Answer(t, a)
    BY <1>0, <1>4 DEF Decides
  <2>2. "answer" \in Places
    OBVIOUS
  <2> HIDE DEF Places, Answers
  <2>3. CASE Escape(t)
    BY <1>0, <2>3 DEF Escape
  <2>4. ASSUME req[t] \in Requests, NEW l \in Places, Go(t, l)
        PROVE  WayTypeOK'
    BY <1>0, <2>4 DEF Go, Goto, Local
  <2>5. ASSUME req[t] \in Requests, NEW a \in Answers, Answer(t, a)
        PROVE  WayTypeOK'
    BY <1>0, <2>2, <2>5 DEF Answer, Respond, Goto, Local
  <2> QED
    BY <2>1, <2>3, <2>4, <2>5
<1>5. ASSUME NEW t \in Threads, Asks(t)
      PROVE  WayTypeOK'
  BY <1>0, <1>5 DEF Asks, Call, Goto
<1>6. ASSUME NEW t \in Threads, Hears(t)
      PROVE  WayTypeOK'
  BY <1>0, <1>6 DEF Hears, ComesBack, Respond, Goto
<1>7. ASSUME NEW t \in Threads, Waits(t)
      PROVE  WayTypeOK'
  BY <1>0, <1>7 DEF Waits, wayVars
<1>8. ASSUME NEW t \in Threads, Write(t)
      PROVE  WayTypeOK'
  BY <1>0, <1>8 DEF Write, Goto
<1> QED
  BY <1>1, <1>2, <1>3, <1>4, <1>5, <1>6, <1>7, <1>8, Steps

\* Calls and requests.
LEMMA CallStep ==
  ASSUME WayInv, RepoProofs!IInv, [Next]_vars
  PROVE  CallInv'
<1> USE DEF CallInv
<1>0. WayTypeOK /\ CallInv
  BY DEF WayInv
<1>1. CASE Rest
  BY <1>0, <1>1 DEF Rest
<1>2. ASSUME NEW t \in Threads, NEW r \in Requests, Read(t, r)
      PROVE  CallInv'
  BY <1>0, <1>2, Shapes DEF Read, repoVars, Goto, Middlewares
<1>3. ASSUME NEW t \in Threads, Limit(t), tokens > 0
      PROVE  CallInv'
  BY <1>0, <1>3, Shapes DEF Limit, repoVars, Goto, After, Middlewares
<1>4. ASSUME NEW t \in Threads, Decides(t)
      PROVE  CallInv'
  BY <1>0, <1>4, Shapes
  DEF Decides, Go, Answer, Respond, Goto, Local, repoVars, Escape
<1>5. ASSUME NEW t \in Threads, Asks(t)
      PROVE  CallInv'
  BY <1>0, <1>5, Shapes, CallFrame
  DEF Asks, Repo!Find, Repo!Create, Repo!List, Repo!Disable
<1>6. ASSUME NEW t \in Threads, Hears(t)
      PROVE  CallInv'
  BY <1>0, <1>6, Shapes, CallFrame DEF Hears, Respond, Goto, Repo!NoCall
<1>7. ASSUME NEW t \in Threads, Waits(t)
      PROVE  CallInv'
  BY <1>0, <1>7 DEF Waits, wayVars
<1>8. ASSUME NEW t \in Threads, Write(t)
      PROVE  CallInv'
  BY <1>0, <1>8, Shapes DEF Write, Goto
<1> QED
  BY <1>1, <1>2, <1>3, <1>4, <1>5, <1>6, <1>7, <1>8, Steps
\* Replies and calls.
LEMMA ReplyStep ==
  ASSUME WayInv, RepoProofs!IInv, [Next]_vars
  PROVE  ReplyInv'
<1> USE DEF ReplyInv
<1>0. WayTypeOK /\ ReplyInv /\ CallInv
  BY DEF WayInv
<1>0a. \A k \in Keys : row[k] # "absent" => row'[k] # "absent"
  BY <1>0, RepoStep
<1>0b. \A t \in Threads : reply[t] = "found" => call[t].key \in Keys
  BY <1>0, KeyOfRequest DEF CallInv, RepoProofs!IInv, RepoProofs!KindInv
<1>1. CASE Rest
  BY <1>0, <1>1 DEF Rest
<1>2. ASSUME NEW t \in Threads, NEW r \in Requests, Read(t, r)
      PROVE  ReplyInv'
  BY <1>0, <1>2 DEF Read, repoVars
<1>3. ASSUME NEW t \in Threads, Limit(t), tokens > 0
      PROVE  ReplyInv'
  BY <1>0, <1>3 DEF Limit, repoVars
<1>4. ASSUME NEW t \in Threads, Decides(t)
      PROVE  ReplyInv'
  BY <1>0, <1>4 DEF Decides, Go, Answer, Local, repoVars, Escape
<1>5. ASSUME NEW t \in Threads, Asks(t)
      PROVE  ReplyInv'
  BY <1>0, <1>5, Shapes, CallFrame
  DEF Asks, Repo!Find, Repo!Create, Repo!List, Repo!Disable
<1>6. ASSUME NEW t \in Threads, Hears(t)
      PROVE  ReplyInv'
  BY <1>0, <1>6, Shapes, CallFrame DEF Hears, Repo!NoCall
<1>7. ASSUME NEW t \in Threads, Waits(t)
      PROVE  ReplyInv'
  <2>1. call[t].kind = "find" => call[t].key \in Keys
    BY <1>0, KeyOfRequest DEF CallInv
  <2> QED
    BY <1>0, <1>0a, <1>0b, <1>7, <2>1, Shapes DEF Waits
<1>8. ASSUME NEW t \in Threads, Write(t)
      PROVE  ReplyInv'
  BY <1>0, <1>8 DEF Write
<1> QED
  BY <1>1, <1>2, <1>3, <1>4, <1>5, <1>6, <1>7, <1>8, Steps

\* Tokens.
LEMMA TokenStep ==
  ASSUME WayInv, RepoProofs!IInv, [Next]_vars
  PROVE  TokenInv'
<1> USE DEF TokenInv, PaidIffServed, RefusedByChain, Answered
<1>0. WayTypeOK /\ TokenInv /\ CallInv /\ ReplyInv
  BY DEF WayInv
<1>1. CASE Rest
  BY <1>0, <1>1 DEF Rest
<1>2. ASSUME NEW t \in Threads, NEW r \in Requests, Read(t, r)
      PROVE  TokenInv'
  BY <1>0, <1>2, Shapes DEF Read, repoVars, Goto, Middlewares
<1>3. ASSUME NEW t \in Threads, Limit(t), tokens > 0
      PROVE  TokenInv'
  BY <1>0, <1>3, Shapes DEF Limit, repoVars, Goto, After, Middlewares
<1>4. ASSUME NEW t \in Threads, Decides(t)
      PROVE  TokenInv'
  BY <1>0, <1>4, Shapes
  DEF Decides, Go, Answer, Respond, Goto, Local, repoVars, Escape
<1>5. ASSUME NEW t \in Threads, Asks(t)
      PROVE  TokenInv'
  BY <1>0, <1>5, Shapes, CallFrame
  DEF Asks, Repo!Find, Repo!Create, Repo!List, Repo!Disable
<1>6. ASSUME NEW t \in Threads, Hears(t)
      PROVE  TokenInv'
  <2>1. at[t] = "repository" /\ reply[t] # "none"
    BY <1>6, CallFrame DEF Hears
  <2>2. call[t].kind \in {"find", "create", "list", "disable"}
    BY <1>0, <2>1, Shapes, RepoKinds DEF CallInv
  <2>3. /\ reply[t] \in {"found", "not_found", "db_error"} =>
             paid[t] = 0 /\ ~Public(req[t])
        /\ reply[t] \notin {"found", "not_found", "db_error"} => paid[t] = 1
    BY <1>0, <2>1, <2>2 DEF CallInv, ReplyInv
  <2>4. /\ UNCHANGED <<req, paid>>
        /\ call' = [call EXCEPT ![t] = Repo!NoCall]
    BY <1>6, CallFrame DEF Hears
  <2> QED
    BY <1>0, <1>6, <2>3, <2>4, Shapes DEF Hears, Respond, Goto
<1>7. ASSUME NEW t \in Threads, Waits(t)
      PROVE  TokenInv'
  BY <1>0, <1>7 DEF Waits, wayVars
<1>8. ASSUME NEW t \in Threads, Write(t)
      PROVE  TokenInv'
  BY <1>0, <1>8, Shapes DEF Write, Goto
<1> QED
  BY <1>1, <1>2, <1>3, <1>4, <1>5, <1>6, <1>7, <1>8, Steps

\* Keys.
LEMMA KeyStep ==
  ASSUME WayInv, RepoProofs!IInv, [Next]_vars
  PROVE  KeyInv'
<1> USE DEF KeyInv, ValidKeyNotDenied, AdminSuccessIsTrue, Answered
<1>0. WayTypeOK /\ KeyInv /\ CallInv
  BY DEF WayInv
<1>0a. \A k \in Keys : /\ row[k] = "off" => row'[k] = "off"
                       /\ row[k] # "absent" => row'[k] # "absent"
  BY <1>0, RepoStep
<1>0b. \A t \in Threads : at[t] # "free" => req[t].key \in Keys
  BY <1>0, KeyOfRequest
<1>1. CASE Rest
  BY <1>0, <1>1 DEF Rest
<1>2. ASSUME NEW t \in Threads, NEW r \in Requests, Read(t, r)
      PROVE  KeyInv'
  BY <1>0, <1>2, Shapes DEF Read, repoVars, Goto, Middlewares
<1>3. ASSUME NEW t \in Threads, Limit(t), tokens > 0
      PROVE  KeyInv'
  BY <1>0, <1>3, Shapes DEF Limit, repoVars, Goto, After, Middlewares
<1>4. ASSUME NEW t \in Threads, Decides(t)
      PROVE  KeyInv'
  BY <1>0, <1>4, Shapes
  DEF Decides, Go, Answer, Respond, Goto, Local, repoVars, Escape
<1>5. ASSUME NEW t \in Threads, Asks(t)
      PROVE  KeyInv'
  BY <1>0, <1>5, Shapes, CallFrame DEF Asks
<1>6. ASSUME NEW t \in Threads, Hears(t)
      PROVE  KeyInv'
  <2>1. call[t].kind \in {"find", "create", "disable"} =>
          call[t].key = req[t].key
    BY <1>0 DEF CallInv
  <2>2. /\ reply[t] \in {"found", "not_found"} => call[t].kind = "find"
        /\ reply[t] = "created" => call[t].kind = "create"
        /\ reply[t] = "true" => call[t].kind = "disable"
    BY DEF RepoProofs!IInv, RepoProofs!KindInv
  <2>3. /\ reply[t] = "found" =>
             req[t].key \notin shutBefore[t] /\ row[req[t].key] # "absent"
        /\ reply[t] = "not_found" /\ req[t].key \in knownBefore[t] =>
             row[req[t].key] = "off"
        /\ reply[t] = "created" => row[req[t].key] # "absent"
        /\ reply[t] = "true" => row[req[t].key] = "off"
    BY <2>1, <2>2
    DEF WayInv, ReplyInv, RepoProofs!IInv, RepoProofs!ShutKeyRejected,
        RepoProofs!CreatedKeyAccepted, RepoProofs!KnownInv, RepoProofs!OffInv
  <2>4. reply[t] = "found" => ~Public(req[t])
    BY <1>0, <2>2 DEF CallInv
  <2>5. UNCHANGED <<row, req, shutBefore, knownBefore>>
    BY <1>6, CallFrame DEF Hears
  <2>6. CASE reply[t] = "found"
    <3>1. Goto(t, "limit") /\ UNCHANGED answer
      BY <1>6, <2>6 DEF Hears
    <3> QED
      BY <1>0, <2>3, <2>4, <2>5, <2>6, <3>1, Shapes DEF Goto
  <2>7. CASE reply[t] # "found"
    <3>1. PICK a : /\ Respond(t, a)
                   /\ a = "auth_failed" => reply[t] = "not_found"
                   /\ a = "new_key" => reply[t] = "created"
                   /\ a = "disabled" => reply[t] = "true"
      BY <1>6, <2>7 DEF Hears
    <3> QED
      BY <1>0, <2>3, <2>5, <3>1, Shapes DEF Respond, Goto
  <2> QED
    BY <2>6, <2>7
<1>7. ASSUME NEW t \in Threads, Waits(t)
      PROVE  KeyInv'
  <2>1. UNCHANGED <<at, req, answer, shutBefore, knownBefore>>
    BY <1>7 DEF Waits, wayVars
  <2> QED
    BY <1>0, <1>0a, <1>0b, <2>1
<1>8. ASSUME NEW t \in Threads, Write(t)
      PROVE  KeyInv'
  BY <1>0, <1>8, Shapes DEF Write, Goto
<1> QED
  BY <1>1, <1>2, <1>3, <1>4, <1>5, <1>6, <1>7, <1>8, Steps

-----------------------------------------------------------------------------
IInv == WayInv /\ RepoProofs!IInv

\* Nothing has been read yet.
LEMMA InitIInv == Init => IInv
<1> SUFFICES ASSUME Init PROVE IInv
  OBVIOUS
<1>1. RepoProofs!IInv
  BY SameRepository, RepoProofs!InitIInv DEF Init
<1>2. \A t \in Threads :
        /\ at[t] = "free" /\ paid[t] = 0 /\ reply[t] = "none"
        /\ call[t].kind = "none" /\ knownBefore[t] = {}
  BY DEF Init, Repo!Init, Repo!NoCall
<1>3. WayTypeOK
  <2>1. tokens \in 0 .. Capacity
    BY GatewayAssumption DEF Init
  <2>2. /\ req = [t \in Threads |-> NoRequest]
        /\ at = [t \in Threads |-> "free"]
        /\ answer = [t \in Threads |-> "none"]
        /\ paid = [t \in Threads |-> 0]
        /\ escaped = FALSE
    BY DEF Init
  <2> QED
    BY <2>1, <2>2 DEF WayTypeOK, Places, Answers
<1> QED
  BY <1>1, <1>2, <1>3
  DEF IInv, WayInv, CallInv, ReplyInv, TokenInv, KeyInv, PaidIffServed,
      ValidKeyNotDenied, AdminSuccessIsTrue, Answered

\* The invariant of the requests and the repository below them is inductive.
THEOREM Inductive == Spec => []IInv
<1>1. IInv /\ [Next]_vars => IInv'
  <2> SUFFICES ASSUME IInv, [Next]_vars PROVE IInv'
    OBVIOUS
  <2>1. WayInv'
    BY TypeStep, CallStep, ReplyStep, TokenStep, KeyStep DEF IInv, WayInv
  <2>2. RepoProofs!IInv'
    BY RepoStep DEF IInv, WayInv
  <2> QED
    BY <2>1, <2>2 DEF IInv
<1> QED
  BY <1>1, InitIInv, PTL DEF Spec

\* Gateway.PaidIffServed: no path of the chain, the router or the routes goes
\* round the limiter, or through it twice.
THEOREM ServedRequestsPay == Spec => []PaidIffServed
<1>1. IInv => PaidIffServed
  BY DEF IInv, WayInv, TokenInv
<1> QED
  BY <1>1, Inductive, PTL

\* Gateway.ValidKeyNotDenied: no failure of the database makes a valid key
\* invalid.
THEOREM ValidKeysServed == Spec => []ValidKeyNotDenied
<1>1. IInv => ValidKeyNotDenied
  BY DEF IInv, WayInv, KeyInv
<1> QED
  BY <1>1, Inductive, PTL

\* Gateway.ProviderNeedsKey: the chat route calls a provider only for a key
\* that was in the table, and not shut when the request came.
THEOREM ProvidersNeedKeys == Spec => []ProviderNeedsKey
<1>1. IInv => ProviderNeedsKey
  BY DEF IInv, WayInv, CallInv, KeyInv, ProviderNeedsKey
<1> QED
  BY <1>1, Inductive, PTL

\* Gateway.AdminSuccessIsTrue: an /admin request that is told of a new key, or
\* that a key is disabled, is told what is still true (the 404 is not covered).
THEOREM AdminSuccessesTrue == Spec => []AdminSuccessIsTrue
<1>1. IInv => AdminSuccessIsTrue
  BY DEF IInv, WayInv, KeyInv
<1> QED
  BY <1>1, Inductive, PTL

\* The pool below it all is used by its protocol, from every path of the chain and
\* the routes: so its theorems hold here too.
THEOREM PoolProtocolKept == Spec => RepoProofs!PoolProofs!Spec
<1> DEFINE PoolNext == [RepoProofs!Pool!Next]_(RepoProofs!Pool!pvars)
<1>1. Init => RepoProofs!PoolProofs!Init
  BY SameRepository, RepoProofs!SamePool DEF Init, RepoProofs!Init
<1>2. IInv /\ [Next]_vars =>
        [RepoProofs!PoolProofs!Next]_(RepoProofs!PoolProofs!pvars)
  <2> SUFFICES ASSUME IInv, [Next]_vars
               PROVE  PoolNext
    BY SameRepository, RepoProofs!SamePool
  <2>1. ASSUME RepoProofs!Next
        PROVE  PoolNext
    BY <2>1, SameRepository, RepoProofs!PoolStep
  <2>2. ASSUME UNCHANGED repoVars
        PROVE  PoolNext
    BY <2>2 DEF repoVars, RepoProofs!Pool!pvars
  <2>3. ASSUME NEW t \in Threads, Write(t)
        PROVE  PoolNext
    BY <2>3 DEF Write, RepoProofs!Pool!pvars
  <2> QED
    BY <2>1, <2>2, <2>3, RepoFrame, SameRepository DEF IInv, WayInv
<1> QED
  BY <1>1, <1>2, Inductive, PTL DEF Spec, RepoProofs!PoolProofs!Spec

\* Its variables keep their types.
LEMMA PoolTypes == Spec => []RepoProofs!Pool!TypeOK
<1>1. RepoProofs!PoolProofs!Spec => []RepoProofs!PoolProofs!TypeOK
  BY SameRepository, RepoProofs!SamePool, RepoProofs!PoolProofs!TypeCorrect
<1>2. RepoProofs!PoolProofs!TypeOK => RepoProofs!Pool!TypeOK
  BY SameRepository, RepoProofs!SamePool
<1> QED
  BY <1>1, <1>2, PoolProtocolKept, PTL

\* The server does not die of a nullptr from borrow that nobody checks
\* (repository.cpp:122, :157, :196), whatever the requests, if the pool has as many
\* connections as there are threads that serve.
THEOREM NullNeedsShortPool == Spec => [](crashed => created < Cardinality(Threads))
<1> DEFINE Short == RepoProofs!NullOnlyWhenShort
           Never == RepoProofs!PoolProofs!NullOnlyWhenFewer
<1>1. Init => Short
  BY DEF Init, Repo!Init, RepoProofs!NullOnlyWhenShort
<1>2. RepoProofs!PoolProofs!Spec => []Never
  BY SameRepository, RepoProofs!SamePool, RepoProofs!PoolProofs!NullNeedsFewer
<1>3. IInv /\ Never /\ Short /\ [Next]_vars => Short'
  <2> SUFFICES ASSUME IInv, Never, Short, [Next]_vars PROVE Short'
    OBVIOUS
  <2>1. CASE RepoProofs!Next \/ UNCHANGED repoVars
    <3>1. [RepoProofs!Next]_(RepoProofs!vars)
      BY <2>1 DEF repoVars, RepoProofs!vars, RepoProofs!poolVars,
                  RepoProofs!history
    <3> QED
      BY <3>1, SameRepository, RepoProofs!NullStep
  <2>2. ASSUME NEW t \in Threads, Write(t) PROVE Short'
    BY <2>2 DEF Write, RepoProofs!NullOnlyWhenShort
  <2> QED
    BY <2>1, <2>2, RepoFrame, SameRepository DEF IInv, WayInv
<1>4. Short => (crashed => created < Cardinality(Threads))
  BY DEF RepoProofs!NullOnlyWhenShort, RepoProofs!Cardinality, Cardinality
<1> QED
  BY <1>1, <1>2, <1>3, <1>4, PoolProtocolKept, Inductive, PTL DEF Spec

\* The threads that serve requests never all wait for a connection, whichever
\* path of the chain and the routes they are on (connection_pool.cpp:115-146).
THEOREM SomebodyAwake == Spec => []RepoProofs!PoolProofs!NotAllWaiting
<1>1. RepoProofs!PoolProofs!Spec => []RepoProofs!PoolProofs!NotAllWaiting
  BY SameRepository, RepoProofs!SamePool, RepoProofs!PoolProofs!SomebodyAwake
<1> QED
  BY <1>1, PoolProtocolKept, PTL

\* Gateway.TypeOK, the types of the repository and of the pool included.
THEOREM TypeCorrect == Spec => []TypeOK
<1>1. IInv /\ RepoProofs!Pool!TypeOK => TypeOK
  <2> SUFFICES ASSUME IInv, RepoProofs!Pool!TypeOK PROVE TypeOK
    OBVIOUS
  <2>1. Repo!Pool!TypeOK
    BY DEF Repo!Pool!TypeOK, RepoProofs!Pool!TypeOK
  <2>2. Repo!TypeOK
    BY <2>1
    DEF IInv, RepoProofs!IInv, RepoProofs!RepoTypeOK, Repo!TypeOK,
        Repo!Calls, Repo!NoCall, Repo!Find, Repo!Create, Repo!Disable,
        Repo!List, Repo!Replies, RepoProofs!Calls, RepoProofs!NoCall,
        RepoProofs!Find, RepoProofs!Create, RepoProofs!Disable,
        RepoProofs!List, RepoProofs!Replies
  <2> QED
    BY <2>2 DEF IInv, WayInv, WayTypeOK, TypeOK
<1> QED
  BY <1>1, Inductive, PoolTypes, PTL
=============================================================================
