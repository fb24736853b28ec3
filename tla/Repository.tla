----------------------------- MODULE Repository -----------------------------
(***************************************************************************)
(* The data access layer (db/repository.h, db/repository.cpp) on top of    *)
(* ConnectionPool: find_api_key for the authentication of every request,   *)
(* create_api_key, list_api_keys and disable_api_key for the /admin routes *)
(* of main.cpp, and the api_keys table they share.                         *)
(*                                                                         *)
(* Every call borrows, runs one statement and returns the connection, on   *)
(* every path.  MySQL executes a statement atomically; mysql_query may     *)
(* report failure before the statement ran or after (a lost reply), and    *)
(* mysql_store_result may fail after a successful SELECT.                  *)
(***************************************************************************)
EXTENDS Naturals, FiniteSets

CONSTANTS Threads,       \* io_context threads that serve requests
          PoolSize,      \* pool_size_ of the connection pool
          Keys           \* API keys, each with its row id

VARIABLES idle, created, pc, held,  \* the connection pool
          row,           \* api_keys: "absent", "on" or "off" for each key
          call,          \* call each thread is in: [kind, key], or NoCall
          reply,         \* what the call is going to return, "none" so far
          crashed,       \* a MYSQL* that is nullptr has been used
          shut,          \* history: times disable answered true, by key
          known,         \* history: keys create has returned
          shutBefore,    \* history: keys shut when the thread's call began
          knownBefore    \* history: keys known when the thread's call began

Pool == INSTANCE ConnectionPool

ASSUME RepositoryAssumption == Pool!ConnectionAssumption

poolVars == <<idle, created, pc, held>>
history == <<shut, known, shutBefore, knownBefore>>
vars == <<poolVars, row, call, reply, crashed, history>>

NoCall == [kind |-> "none"]

Find(k) == [kind |-> "find", key |-> k]
List == [kind |-> "list"]
Disable(k) == [kind |-> "disable", key |-> k]

\* k is what generate_api_key draws: most likely, but not surely, a new key.
Create(k) == [kind |-> "create", key |-> k]

Calls == {List} \cup UNION {{Find(k), Create(k), Disable(k)} : k \in Keys}

Init ==
  /\ Pool!Init
  /\ row \in [Keys -> {"absent", "on", "off"}]
  /\ call = [t \in Threads |-> NoCall]
  /\ reply = [t \in Threads |-> "none"]
  /\ crashed = FALSE
  /\ shut = [k \in Keys |-> 0]
  /\ known = {}
  /\ shutBefore = [t \in Threads |-> {}]
  /\ knownBefore = [t \in Threads |-> {}]

Reply(t, r) == reply' = [reply EXCEPT ![t] = r]

-----------------------------------------------------------------------------
Begin(t, c) ==
  /\ call[t] = NoCall
  /\ Pool!Borrow(t)
  /\ call' = [call EXCEPT ![t] = c]
  /\ shutBefore' = [shutBefore EXCEPT ![t] = {k \in Keys : shut[k] > 0}]
  /\ knownBefore' = [knownBefore EXCEPT ![t] = known]
  /\ UNCHANGED <<row, reply, crashed, shut, known>>

\* borrow returned nullptr: only find_api_key looks at the pointer.
NoConnection(t) ==
  /\ call[t].kind = "find"
  /\ Pool!Leave(t)
  /\ Reply(t, "db_error")
  /\ UNCHANGED <<row, call, crashed, history>>

UseNull(t) ==
  /\ call[t].kind # "find"
  /\ pc[t] = "null"
  /\ crashed' = TRUE
  /\ UNCHANGED <<poolVars, row, call, reply, history>>

-----------------------------------------------------------------------------
(* The statement each call runs.                                           *)

Ready(t, kind) ==
  /\ call[t].kind = kind
  /\ pc[t] = "using"
  /\ reply[t] = "none"

\* The enabled column decides.  Mutant: any row will do.
AnyRow(k) == row[k] # "absent"
Enabled(k) == row[k] = "on"

RunFind(t) ==
  /\ Ready(t, "find")
  /\ \/ Reply(t, "db_error")
     \/ Reply(t, IF Enabled(call[t].key) THEN "found" ELSE "not_found")
  /\ UNCHANGED <<poolVars, row, call, crashed, history>>

\* A failure is reported for an insert that did not happen, or whose reply was
\* lost; UNIQUE makes the insert of an existing key fail.  Mutant: the result
\* of mysql_query is not looked at.
FailureIgnored == "created"
InsertFailed == "no_info"

RunCreate(t) ==
  /\ Ready(t, "create")
  /\ LET k == call[t].key
         Inserted == [row EXCEPT ![k] = "on"]
     IN \/ Reply(t, InsertFailed) /\ UNCHANGED row
        \/ /\ row[k] = "absent"
           /\ row' = Inserted
           /\ Reply(t, "created") \/ Reply(t, InsertFailed)
  /\ UNCHANGED <<poolVars, call, crashed, history>>

\* A failed list is an empty list.
RunList(t) ==
  /\ Ready(t, "list")
  /\ Reply(t, "listed")
  /\ UNCHANGED <<poolVars, row, call, crashed, history>>

\* mysql_affected_rows counts the rows the UPDATE changed.  The mutant counts
\* the rows it matched.
RowsMatched(k) == row[k] # "absent"
RowsChanged(k) == row[k] = "on"

RunDisable(t) ==
  /\ Ready(t, "disable")
  /\ LET k == call[t].key
         Updated == [row EXCEPT ![k] = IF @ = "on" THEN "off" ELSE @]
     IN \/ Reply(t, "false") /\ row' \in {row, Updated}
        \/ RowsChanged(k) /\ Reply(t, "true") /\ row' = Updated
  /\ UNCHANGED <<poolVars, call, crashed, history>>

-----------------------------------------------------------------------------
\* return_connection follows the statement on every path.  Mutant: not when
\* the statement failed.
ForgetOnError(t) ==
  /\ reply[t] # "none"
  /\ IF reply[t] \in {"db_error", "no_info"}
       THEN /\ pc[t] = "using"
            /\ pc' = [pc EXCEPT ![t] = "out"]
            /\ UNCHANGED <<idle, created, held>>
       ELSE Pool!Return(t)
  /\ UNCHANGED <<row, call, reply, crashed, history>>

GiveBack(t) ==
  /\ reply[t] # "none"
  /\ Pool!Return(t)
  /\ UNCHANGED <<row, call, reply, crashed, history>>

\* The call returns to the middleware or to the route handler.
End(t) ==
  /\ reply[t] # "none"
  /\ pc[t] = "out"
  /\ call' = [call EXCEPT ![t] = NoCall]
  /\ Reply(t, "none")
  /\ shut' = IF reply[t] = "true" THEN [shut EXCEPT ![call[t].key] = @ + 1]
                                  ELSE shut
  /\ known' = IF reply[t] = "created" THEN known \cup {call[t].key} ELSE known
  /\ UNCHANGED <<poolVars, row, crashed, shutBefore, knownBefore>>

InPool(t) == Pool!Internal(t) /\ UNCHANGED <<row, call, reply, crashed, history>>

Next ==
  /\ ~crashed
  /\ \E t \in Threads :
       \/ \E c \in Calls : Begin(t, c)
       \/ InPool(t) \/ NoConnection(t) \/ UseNull(t)
       \/ RunFind(t) \/ RunCreate(t) \/ RunList(t) \/ RunDisable(t)
       \/ GiveBack(t) \/ End(t)

Spec == Init /\ [][Next]_vars
-----------------------------------------------------------------------------
Replies == {"none", "db_error", "found", "not_found", "created", "no_info",
            "listed", "true", "false"}

\* The types of the variables.
TypeOK ==
  /\ Pool!TypeOK
  /\ row \in [Keys -> {"absent", "on", "off"}]
  /\ call \in [Threads -> Calls \cup {NoCall}]
  /\ reply \in [Threads -> Replies]
  /\ crashed \in BOOLEAN
  /\ shut \in [Keys -> Nat]
  /\ known \subseteq Keys
  /\ shutBefore \in [Threads -> SUBSET Keys]
  /\ knownBefore \in [Threads -> SUBSET Keys]

(***************************************************************************)
(* The repository keeps the protocol of the pool on every path, the error  *)
(* paths included: what it does is a behaviour of ConnectionPool, so no    *)
(* connection is leaked, returned twice or used after its return.          *)
(***************************************************************************)
KeepsPoolProtocol == Pool!Spec

(***************************************************************************)
(* A request that arrives after a DELETE of its key was answered           *)
(* "disabled" is never authenticated (main.cpp:370-373,                    *)
(* auth_middleware.cpp:109-121), whatever creates, lookups and disables    *)
(* run at the same time.  A lookup already under way may still succeed.    *)
(***************************************************************************)
ShutKeyRejected ==
  \A t \in Threads : reply[t] = "found" => call[t].key \notin shutBefore[t]

(***************************************************************************)
(* A key that create_api_key has handed out is not called unknown          *)
(* afterwards, unless it has been disabled.                                *)
(***************************************************************************)
CreatedKeyAccepted ==
  \A t \in Threads :
    reply[t] = "not_found" /\ call[t].key \in knownBefore[t] =>
      row[call[t].key] = "off"

\* Of any number of concurrent and repeated disables of a key at most one is
\* answered "disabled", the others 404.
DisabledOnce == \A k \in Keys : shut[k] <= 1

(***************************************************************************)
(* The nullptr that three callers do not check (connection_pool.cpp:113    *)
(* asks them to) is never met with as many connections as io_context       *)
(* threads: every path gives its connection back before the next call.     *)
(***************************************************************************)
NullOnlyWhenShort == crashed => created < Cardinality(Threads)
=============================================================================
