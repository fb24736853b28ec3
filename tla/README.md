# A TLA+ model of AI-switch

AI-switch is a proxy in front of AI providers: a Beast/Asio HTTP server with
several event-loop threads, a thread pool for streaming requests, a token-bucket
limiter, a MySQL repository of API keys with a connection pool, and adapters
that translate to the providers' protocols over libcurl. This directory models
its concurrent core, the way of a request through it and its start-up in TLA+,
checks the models with TLC and proves their safety properties with TLAPS, for
every value of the constants.

Paths below are relative to `src/src/` unless they start with `README.md` or
`tests/`, which are in `src/`.

## 1. Inventory

| component | state | operations | who calls it | hard about it |
|---|---|---|---|---|
| thread pool (`util/thread_pool.*`) | task queue, mutex, condition variable, atomic `stop_` | `submit`, `worker_loop`, destructor | sessions (event-loop threads) submit; `main` destroys | notification after the unlock; `stop_` set without the mutex; drain at shutdown |
| rate limiter (`middleware/rate_limiter.*`) | atomic `tokens_`, `last_refill_`, capacity and rate, `refill_mutex_` | `try_acquire` (CAS loop), lazy `refill`, `update_config` | every request, from every event-loop thread | lock-free consumption against load-store under a mutex; an unlocked first check |
| connection pool (`db/connection_pool.*`) | queue of idle connections, mutex, condition variable | constructor, `borrow` (5 s timeout), `return_connection` | repository, on event-loop threads | a timeout that races a return; everything lent |
| repository (`db/repository.*`) | rows of `api_keys` | find, create, list, disable | authentication, `/admin` routes | every error path must return its connection; concurrent calls on one key; lost replies |
| session (`server/session.*`) | read/write operation in progress, `is_streaming_`, `stream_headers_sent_` | request loop, streaming task, `send_stream_chunk` | accept handler, thread pool, `asio::post` | handlers of one socket on several threads without a strand; overlapping writes; lifetime by `shared_ptr` |
| HTTP server and process lifetime (`server/http_server.*`, end of `main.cpp`) | acceptor, pending accept, signal wait, event-loop threads, stack of `main` | `run`, `do_accept`, `stop`, destruction | operating system, `main` | signal at any time; accept chain passed from thread to thread; order of destruction |
| streaming adapters and parsers (`adapter/*`, `stream/sse_handler.*`) | parser buffer, done flag | `chat_completion_stream`, libcurl write callback, `feed` | streaming task | the response is cut anywhere; the end may come with text, twice, or never |
| middleware and authentication (`middleware/*`) | chain (fixed at start-up), a `context` per request | `process` of the chain, of authentication, limiter, log | session | order of the limiter and the authentication; a lookup that fails is not a lookup that finds nothing |
| router and routes (`server/router.*`, `main.cpp`) | table of routes (fixed) | `dispatch`, five handlers | session | answers after a failed repository call; exceptions that escape a handler; blocking calls on event-loop threads |
| adapter factory (`adapter/adapter_factory.*`) | list of adapters (fixed) | register, find by model | `main`, session, routes | — |
| configuration and start-up (`util/config.*`, `main.cpp:66-212`) | values, whether they were loaded, adapters | file, environment, command line, database, adapters, listening | `main` | the file may be missing, broken, or break off half-way; values come from three places |
| schema (`bootstrap.sql`), unit tests (`tests/`) | — | — | — | read for what they claim |

How they interact. An event-loop thread runs the accept handler, which creates
a session; the session's read handler runs middleware (authentication borrows a
connection through the repository; the limiter takes a token) and then the
router, or, for `"stream": true`, writes the SSE header and submits a task to
the thread pool. The task runs the adapter; each event it reports is posted
back to the event loop as a handler that writes a chunk to the socket. A signal
closes the acceptor and stops the event loop; `main` joins the threads and
destroys, in this order, the server (and its `io_context`), the router, the
thread pool, the adapters, the middleware chain, the repository and the pool.

What makes each component correct:

* thread pool: no queued task sleeps while a worker does; each accepted task
  runs once, in FIFO order, and to its end; the destructor returns, and after
  all tasks.
* limiter: capacity bounds the bucket; time is credited once; no more is handed
  out than capacity plus credit.
* connection pool: a connection has one holder; nobody sleeps beside an idle
  connection; `nullptr` only when all are lent; `borrow` returns, after 5 s with
  `nullptr`.
* repository: every path keeps the pool's protocol; a client's knowledge of a
  key (created, disabled) holds for its later requests.
* session: the stream is forwarded in order and completely; a session that goes
  away has shut its connection; nothing but a client that stops reading keeps a
  session after a stream.
* server: exactly one accept chain; destruction happens when no handler runs; a
  signal ends the process, unless a handler hangs in a statement, an exception
  leaves one, or the thread pool loses its notification.
* gateway: a request takes one token, or none if the chain refuses it; failures
  of the database are not told as failures of the client; a success told
  about a key is true; every request is answered, unless its own statement hangs
  or the process has died.
* start-up: the server opens with the whole configuration or not at all.
* adapter: what it reports does not depend on how the response is cut; texts,
  then the end, then nothing.

### Reading of the source

The commit does not build as it stands; where the text cannot be meant the
evident meaning is modelled: stray tokens (`util/config.h:39`, `main.cpp:93`,
`adapter/anthropic_adapter.cpp` `<< anthropic_adapter`), a missing include of
`anthropic_adapter.h` in `main.cpp`, undeclared names in the streaming callback
(`stream_callback_t`, `body_str`, `error_buffer`), `write_callback` for
`stream_write_callback` in `anthropic_adapter.cpp:344`, and a URL without its
`/` in line 262.

## 2. Modules

| module | models | abstract / composition |
|---|---|---|
| `TaskQueue` | what the thread pool promises: FIFO, once, closed after all | implemented by `ThreadPool` |
| `ThreadPool` | `util/thread_pool.*` | used by `Server` |
| `TokenBucket` | `middleware/rate_limiter.*` | |
| `Lending` | what the connection pool promises | implemented by `ConnectionPool` |
| `ConnectionPool` | `db/connection_pool.*` | used by `Repository` |
| `Repository` | `db/repository.*` and its callers | composes `ConnectionPool`; used by `Gateway` |
| `Session` | `server/session.*` | its task is any `StreamSource` |
| `StreamSource` | what an adapter promises the session | implemented by `Adapter` |
| `Adapter` | streaming part of `adapter/*`, `stream/sse_handler.*` | |
| `Server` | `server/http_server.*`, end of `main.cpp` | composes `ThreadPool` |
| `Startup` | `util/config.*`, `main.cpp:66-212` | used by `Gateway` |
| `Gateway` | `middleware/*`, `server/router.*`, the routes of `main.cpp`, `adapter/adapter_factory.*` | composes `Repository` (with `ConnectionPool`) and `Startup` |
| `ThreadPoolProofs`, `TokenBucketProofs`, `ConnectionPoolProofs`, `RepositoryProofs`, `SessionProofs`, `ServerProofs`, `AdapterProofs`, `GatewayProofs` | theorems about the module each is named for | `RepositoryProofs` uses the theorems of `ConnectionPoolProofs`, `ServerProofs` those of `ThreadPoolProofs`, `GatewayProofs` those of both other modules below it |
| `MC*` | model values, sets and symmetries for TLC | |

Correspondence, module by module. An action bears the name of the function or of
the step of it that it models; the order below is the order of the code.

**ThreadPool.** All that is done under `mutex_` in one go is one action, except
where the mutex does not protect: a worker that found the predicate false is at
`"park"`, holding the mutex, until `cv_.wait` has blocked it, because `stop_` is
set without the mutex. `Submit` is the locked part of `submit`, `NotifyOne` the
notification after it, `TakeTask`/`Exit`/`Park` the three outcomes of the
predicate, `Block` and `SpuriousWake` the condition variable, `FinishTask` the
task's return or exception (a `packaged_task` keeps it), `SetStop`, `NotifyAll`,
`JoinAll` the destructor. Tasks are numbered in order of acceptance.
`MaxTasks` bounds them. The accessors `size` and `pending` change nothing.

**TokenBucket.** One step per access to `tokens_`: `Call` samples the clock,
`CheckElapsed` is the unlocked check, `Recheck` the one under the mutex,
`RefillLoad`/`RefillStore`/`RefillStamp` the load, the store and
`last_refill_ = now2`; `Load`, `CasSucceeds`, `CasFails` the CAS loop (a spurious
failure stutters); `Reconfigure` and `Trim` are `update_config`. Time is counted
in ticks, `TicksPerSecond` of them to a second, and `duration_cast` truncates
(`Seconds`). `granted`, `creditedSecs`, `creditedTokens` and `raced` are history.
`MaxTime` and `MaxCalls` bound clock and calls.

**ConnectionPool.** `Take`, `Wait`, `GiveUp` are the outcomes of the predicate of
`wait_for`, which is evaluated once more after the timeout (`"expired"`). The
predicate's state changes only under the mutex, so evaluating and blocking is one
action here. `Init` allows some creations to fail; with none at all the
constructor throws. A connection that has died is one whose statements fail.

**Repository.** `Begin` borrows; `RunFind`, `RunCreate`, `RunList`, `RunDisable`
are the statement with each of its outcomes: success, failure, and success whose
reply is lost; `GiveBack` is the `return_connection` that follows on every path;
`End` is the answer to the caller. `NoConnection` is the one caller that checks
the pointer, `UseNull` the three that do not. The pool's steps are those of
`ConnectionPool`. Escaping, buffers and columns other than `enabled` are left out.

**Session.** `loop` is the operation the request loop waits for. Middleware,
router and response are one choice of outcome: `Respond`, `RespondUnsupported`
(the 400 for a model nobody serves, or an exception after `is_streaming_` was
set), `StartStream`; the streaming test comes before the routing, as in the
code. `keep` says that the response `res_` does not need an end of file; a
stream leaves `res_` as it was. The handler of the stream header is two steps,
`OnHeader` up to the `submit` and `HeaderReturns`, so that the task may run, and
end, before the handler returns. The task's five steps are the adapter's
callback with text (`OnContent`) or the end (`OnDone`), its return, its
exception, and `TaskUndefined`: a request without `messages`, for which the
OpenAI adapters dereference an end iterator, so that the process ends or the
task goes on. `posted` is the queue of the `io_context`; `Dequeue` and the
handlers are separate because threads run at their own pace. `writes` are the
started `async_write`s: Asio serves them in the order of their transfers, and a
write that needs several (`Pieces`) comes back through the `io_context` for each
(`Resume`). The wait of the task in the pool is not distinguished from the
provider's.

**Server.** `at` is where each event-loop thread is, `accept` and `signal` the
operation or its queued handler, `conn` what the loop holds for a connection.
`Rearm` is the next `do_accept`; on a closed acceptor it fails at once.
`SignalHandler`, `CloseAcceptor`, `StopIoc` are the handler and `stop`;
`JoinWorkers`, `DestroyServer`, `ClosePool`, `ReturnFromMain` the end of `main`.
The thread pool is `ThreadPool` itself, its submitters are the event-loop
threads. The chunk handlers a task posts are in `Session`, not here.

**Adapter.** A response is a sequence of lines and newlines. `WriteCallback(n)`
hands the next `n` of them to `feed`, `TakeEvent` is one round of the loop on
`"\n\n"` in it, with `DecodeOpenAI` and `DecodeAnthropic` for the two formats, and
`FeedReturns` the end of the loop; `CallText` is a call of the session's callback,
`CallbackReturns` the report of the end, which every write callback makes from the
one that saw it. `TransferSucceeds` may come between any two write callbacks,
because providers may end a response anywhere. Errors: no libcurl handle (after
which the end is reported and the call throws), a network error, a stalled
transfer, a status other than 200.

**Startup.** One action per stage of `main`, in its order; `FileUnusable`,
`FileLoaded`, `FileMistyped` are the outcomes of `app_config::from_file`. A value
is represented by where it comes from and whether it is empty: an environment
variable set to the empty string overrides the file with an empty value. A file
whose field has a wrong type has by then assigned the fields before it, and its
exception ends the process. Values are forgotten once the server is open.

**Gateway.** `at` is where `handle_request` is on each event-loop thread: in the
chain (`Authenticate`, `Limit`), at the streaming test (`Stream`), at the router
(`Health`, `Chat`, `NotRouted`, the `Admin...` actions), in a call of the
repository, with a provider, at its answer. A refused request goes straight to
the answer, as `terminated` makes it. The calls of the repository, and the waits
for a connection, are the steps of `Repository` and `ConnectionPool` themselves;
`AuthResult` and `AdminResult` are what the caller does with the reply. Abstracted:
a body is represented by the check it fails and chosen when it is looked at; a
model name by the provider whose prefix it has (the prefixes do not overlap); the
limiter by its count of tokens, since what its races do to the count is in
`TokenBucket`; the log middleware, which changes nothing, is left out. A
provider (`ProviderAnswers`) gives an answer or an exception; a chat request
without `messages` has either outcome, or ends the process, which is what
`Escape` of an exception does too. `ErrorResponse` is a response whose message
repeats bytes of the client or of the provider: it is made, or its `dump()` throws
because they are no UTF-8, and nothing catches that.
`Write` frees the thread and forgets the history of its call, so that the state
space is finite. What follows the start of a stream is in `Session`.

## 3. What the runs check

| run | expected | properties | what it shows |
|---|---|---|---|
| `ThreadPool` | pass | `TypeOK`, `NoTaskStranded`, `ImplementsTaskQueue`, `TasksFinish`, `HangsOnlyInWindow` | one notification per task is enough although it is sent after the unlock; the pool implements `TaskQueue`; accepted tasks run, also during destruction; the destructor hangs in one window only |
| `ThreadPoolDestructor` | violation | `DestructorReturns` | `stop_` changes between a worker's predicate and its wait, `notify_all` finds nobody, `join` waits for ever (against `util/thread_pool.cpp:17` and `:22`) |
| `TokenBucket` | pass | `TypeOK`, `TokensWithinCapacity`, `NoDoubleCredit`, `BudgetUnlessRaced` | what the bucket keeps under all interleavings, and that the load-store pair of refill is the only hole in its budget |
| `TokenBucketBudget` | violation | `AdmitsWithinBudget` | the store of refill overwrites a concurrent CAS: more is admitted than capacity plus credit (against `tests/test_rate_limiter.cpp:10`) |
| `ConnectionPool` | pass | `TypeOK`, `NoConnectionStranded`, `NotAllWaiting`, `ImplementsLending`, `BorrowReturns` | a timeout neither swallows a notification nor returns `nullptr` beside an idle connection; the threads never all wait with nobody holding a connection; no deadlock; a borrow comes back although no connection is ever returned (see section 5 for the header's claim) |
| `Repository` | pass | `TypeOK`, `ShutKeyRejected`, `CreatedKeyAccepted`, `DisabledOnce`, `NullOnlyWhenShort`, `KeepsPoolProtocol` | a disabled key is refused from then on, a key handed out is known, one DELETE of many is answered "disabled"; no path leaks a connection; the unchecked `nullptr` needs fewer connections than threads |
| `Session` | pass | `TypeOK`, `GoneOnPurpose`, `OrderedUnlessOverlapped`, `CompleteUnlessOverlapped`, `StreamReleasesSession` | order and completeness of a stream, which only overlapping writes can spoil; the last reference to a session goes after the connection was shut, two named paths excepted; after a stream only a client that stops reading keeps the session |
| `SessionReordered` | violation | `ForwardsInOrder` | two event-loop threads start the writes of two chunks in the other order (against `README.md:17`); the same property fails with one thread when a chunk needs two transfers |
| `Server` | pass | `TypeOK`, `OneAcceptChain`, `DestroyedQuietly`, `NoSubmitAfterStop`, `SignalEndsProcess` | the accept chain is passed on and never doubled; a signal ends the process from any state, with the exceptions that `SignalEndsProcess` names |
| `ServerStale` | violation | `NothingUsedAfterDestruction` | a task still running at the end of `run()` uses the destroyed `io_context` (against `README.md:21`) |
| `Gateway` | pass | `TypeOK`, `PaidIffServed`, `ValidKeyNotDenied`, `ProviderNeedsKey`, `AdminSuccessIsTrue`, `OpensAsConfigured`, `EveryRequestAnswered` | who pays a token, who is refused and why, who is told of a new or a disabled key while others change it; the server never opens half configured; a request is answered although the statements of others hang |
| `Adapter` | pass | `TypeOK`, `ReadsAsWhole`, `ImplementsStreamSource` | both parsers are insensitive to how libcurl cuts; the session is given a `StreamSource` |

`OrderedUnlessOverlapped` and `BudgetUnlessRaced` are the passing halves of the
violations beside them: they say that the race found is the only cause, which is
what a repair (a strand with a write queue; a CAS in `refill`) has to remove.

Deadlock is checked for `ConnectionPool` only. The others really stop: a pool that
is destroyed, a bucket whose bounds are used up, a connection that is closed, a
process that has ended or crashed, a transfer that is over.

### Bounds, and why they are enough

* `ThreadPool`: 3 workers, 2 submitters, 3 tasks. A lost wakeup needs a notifier,
  a worker about to park and one parked; two tasks in the queue and two
  notifications in flight happen. `Server` uses one worker. The theorems drop the
  bounds.
* `TokenBucket`: 2 threads, 4 calls, 4 ticks (2 seconds), capacity 2, costs 1 and
  2, an `update_config` that lowers the capacity and one that raises it and stops
  the refill. Double credit and lost update are between two threads; 2 seconds
  allow two refills. The theorems drop the bounds.
* `ConnectionPool`: 4 borrowers, 1 or 2 connections: two waiters, a returner and
  one in its timeout at once.
* `Repository`: 2 threads, 2 keys, 1 or 2 connections, so that calls overlap, the
  timeout of the second is possible, and the pool is once short and once not.
* `Session`: 2 event-loop threads, any number of requests, one content event, an
  end that may be reported by the adapter and again after an error, writes of up
  to two transfers: three events are enough to be reordered, torn or cut off. The
  theorems drop the bounds.
* `Server`: 3 event-loop threads, so that one accepts while one stops and one
  submits; 2 connections, 1 task; the violations need 2 threads and 1 connection.
* `Gateway`: 2 threads, 1 connection, 1 key, a bucket of 1, 8 heads of requests
  (each route, a path that is not routed and that the authentication lets
  through, no credentials, a client's key, the administrator's), 4 files, 3
  environments: a lookup against a disable or a creation of its key, a wait for
  the connection against a hanging statement, two requests for the last token.
  The theorems drop the bounds.
* `Adapter`: up to two events (text, no text, both formats, a malformed one, a
  stray newline) before the end and leftovers after it, cut in every way. TLC
  evaluates on these responses that none has text after its end
  (`NoTextAfterEnd`). The theorems drop the bounds.

### Fairness, and why the code justifies it

* `ThreadPool`: a worker that asks for `mutex_` again and again gets it (strong
  fairness; the critical sections are a few instructions); the rest are single
  threads that run on. `FinishTask` is fair because libcurl's low-speed limit ends
  a stalled stream. Nothing is assumed of submitters.
* `ConnectionPool`: evaluation of the predicate and the passing of 5 seconds. A
  borrower may keep its connection for ever.
* `Session`: event-loop threads run what is queued, a write fails once the client
  is gone or the socket is shut, the provider's stream ends. Nothing makes a client
  read, send or leave, because reads and writes have no timeout
  (`server/session.cpp:227`, `:238` write to the socket itself). So
  `StreamReleasesSession` has the condition `[]<>~AwaitsClient`: again and again
  no write waits for a client that stays. What the code does is then enough for
  the session to go.
* `Server`: threads run on; Asio's queue is FIFO, so a queued signal handler is
  reached (strong fairness); the pool's fairness as above. Connections and accepts
  owe nothing, and no handler of a connection has to end: a statement in it waits
  for MySQL without a timeout (`db/connection_pool.cpp:74-100` sets none). So
  `SignalEndsProcess` has the condition `HandlersEnd`: every thread is again and
  again outside the handlers of connections.
* `Gateway`: a thread runs on, the 5 seconds of `borrow` pass, and a provider's
  answer ends: one that stalls is ended by libcurl's low-speed limit, and one that
  trickles on for ever is not considered. A statement
  may hang for ever (`EveryRequestAnswered` excepts the request whose own it is),
  clients need not send, nobody refills the bucket.

## 4. What is proved

`ThreadPoolProofs`, for every finite set of workers and submitters and every
`MaxTasks` (`PoolAssumption`):

* `TypeCorrect`, `TasksNotStranded`: `TypeOK` and `NoTaskStranded` are invariants.
* `Refinement`: `Spec` implements `TaskQueue`.
* `NoTaskAbandoned`: when the destructor has returned, every task ever accepted has
  been executed.
* `NobodySleepsThroughStop`: in an execution in which the destructor's notification
  is not lost, once it is out no worker is asleep and nobody holds the mutex. This
  is the safety part of `HangsOnlyInWindow`: what is left for its liveness is that
  workers that are awake run on. Its invariant is `AllUp` with `MutexInv` (between
  two steps only a worker about to sleep holds the mutex), and the window is the
  only step that breaks it.

The inductive invariant is `TypeOK`, `NoTaskStranded` and four parts. `ParkInv`: a
worker between predicate and wait holds the mutex and the queue is empty; this is
what makes `NoTaskStranded` inductive, since otherwise a worker could block beside
a task. `QueueInv`: the queue holds consecutive numbers ending with the last
accepted, hence FIFO. `RunInv`: every started task is finished or with exactly one
worker. `ExitInv`: workers leave only a stopped pool with an empty queue, so when
all have left every task is finished. There is one lemma per part, one step per
action; `StepRefines` maps each action to a step of `TaskQueue` or to a stutter.

`TokenBucketProofs`, for every set of threads, capacity, rate, resolution, set of
costs and of configurations (`BucketAssumption`):

* `TypeCorrect` (with it: `tokens_` never becomes negative),
  `CapacityRespected`, `CreditedOnce`, `BudgetKept`: the four invariants of the
  run.

The invariant adds: `MutexInv` (the holder of `refill_mutex_` is the one inside a
locked section), `ExpectInv` (a thread at its CAS expects enough tokens),
`CapacityInv` (inside `update_config` the bucket has not grown since it was
loaded), `TimeInv` (what a refill is about to credit lies between `last_refill_`
and its own sample of the clock), `BudgetInv` (without a race, a load-store pair
still sees what it loaded).

`ConnectionPoolProofs`, for every finite set of threads and every pool size
(`ConnectionAssumption`): `TypeCorrect`, `NotStranded`, `SomebodyAwake`,
`NullNeedsFewer`, `Refinement` (`Spec` implements `Lending`). The invariant adds
`HeldInv` (a thread has a connection exactly while it uses one) and `ConserveInv`
(each connection is idle, once, or with one thread). `NullOnlyWhenFewer` is a
pigeonhole argument: when a thread leaves with `nullptr` nothing is idle, so the
connections map one to one into the other threads.

`RepositoryProofs`, for every set of threads and keys and every pool size:
`PoolProtocolKept` (the repository is a behaviour of `ConnectionPool`, which is what
makes the theorems above available below it), `TypeCorrect`, `ShutKeysRejected`,
`CreatedKeysAccepted`, `DisabledAtMostOnce`, `NullNeedsShortPool`. The invariant
adds `KindInv` (a reply belongs to its kind of call), `OffInv` and `KnownInv` (what
a client has been told, or is about to be, is in the table) and `OnceInv` (the
answer "disabled" on its way counts).

`ServerProofs`, for every set of event-loop threads, workers, connections and
every number of tasks (`ServerAssumption`): `PoolProtocolKept` (the server is a
behaviour of `ThreadPool`, whose types are then used), `TypeCorrect`,
`AcceptChainIsOne`, `QuietDestruction`, `SubmitNeverThrows`. The invariant adds
`ChainInv` (the chain is an operation, its handler, or one thread on the way to
the next) and `OrderInv` (`main` goes on when all have left the loop; the pool
stops after the server is gone). From the theorems of the pool follow
`StreamsRunOut` (when `main` has returned, every task a handler submitted has been
executed) and `NobodySleepsAtTheEnd` (the safety part of `SignalEndsProcess` below
`main`).

`SessionProofs`, for every finite set of event-loop threads (the server makes
`thread_count` of them), every number of events and of transfers per write
(`SessionAssumption`):

* `TypeCorrect`, `Ordered` (`OrderedUnlessOverlapped`), `Complete`
  (`CompleteUnlessOverlapped`), `LeavesOnPurpose` (`GoneOnPurpose`).
* `TaskIsSource`: the streaming task is a behaviour of `StreamSource`, which is what
  `Adapter` implements; the error and the end that the session itself adds after an
  exception are not counted.

That the client has been sent a beginning of what the task reported is not
inductive: the invariant has to say where the rest is. `OrderKept`: while nothing
has overlapped, no two threads write (`Apart`) and the wire is in order; and while
client and connection stay, the stream lies, without gap or repetition, on the wire,
in the started writes (`Carried`, `Started`), with the thread that runs a handler
(`Served`) and in the queue of the `io_context` (`Queued`). `ClosedAtEnd`: while the
client stays, only the end of a stream closes its connection, after it has been
sent. `BeforeTask`: nothing of a stream exists before its task. Completeness
follows: a session that is gone has nothing on its way, so either it was closed at
the end, or everything has been sent.

`LeavesOnPurpose` needs no order, only that an end is not lost: `PurposeInv` says
that, while client and connection stay, an end that has been reported is in the
queue, with a thread or among the writes (`EndComing`), and that a request loop
which is over has shut the connection, started a stream, or left `is_streaming_`
behind. A session that is gone has nothing on its way, hence no such end.

`AdapterProofs`, for every set of texts and every set of responses
(`AdapterAssumption`): `TypeCorrect`, `ReadAsWhole` (`ReadsAsWhole`), `Refinement`
(`ImplementsStreamSource`). The invariant (`Known`) says: at some place of the
response the reference, which reads token by token, stands between two events; the
buffer is what follows there, up to what has been received; and what the session has
been given, what `feed` has found and the done flag come to the events before that
place (`PhaseInv` says in which phase which of them is empty). The heart is
`ReadOn`: up to the first break in the buffer the reference ends no event and loses
no newline, so that both cut off the same event (`ReadEvent`), and a buffer without
a break holds no whole event (`ReadRest`). The reference is a recursive function:
induction is from the least counterexample (`LeastElement`, by the well-foundedness
of `<`), and that the recursive functions exist is proved by extending them token
by token (`ReadingIs`, `TextsIs`). `Refinement` has the hypothesis
`NoTextAfterEnd`: the adapters forward a text that follows the end, so it is the
providers that keep this order. TLC evaluates the hypothesis for the responses of
the run.

`GatewayProofs`, for every set of requests, threads and keys, every pool size and
capacity, every file and environment (`GatewayAssumption`): `TypeCorrect`,
`ServedRequestsPay`, `ValidKeysServed`, `ProvidersNeedKeys`, `AdminSuccessesTrue`,
`OpensConfigured`. `RepoFrame` shows that each step is one of `Repository`, none to
it, or the `Write` that forgets history; so the invariant of `RepositoryProofs`
holds below (`RepoStep`). `Steps` gathers the actions into the few ways in which a
thread moves (decides, asks, waits, hears, writes), and the invariant says at each
place what has been paid (`TokenInv`) and what is known of the key (`KeyInv`).
`StartInv` says what each stage of `main` leaves to the next. `PoolProtocolKept`
carries the theorems of the connection pool up to here: `NullNeedsShortPool` (the
process does not die of an unchecked `nullptr` if there are as many connections as
threads that serve) and `SomebodyAwake` (these threads never all wait for a
connection).

Every safety property of the passing runs, action properties and refinements
included, is a theorem. Only model-checked is liveness (`TasksFinish`,
`HangsOnlyInWindow`, `BorrowReturns`, `StreamReleasesSession`, `SignalEndsProcess`,
`EveryRequestAnswered`), because fairness and `ENABLED` are outside the prover's
reach; of `HangsOnlyInWindow` and `SignalEndsProcess` a safety part is proved, as
said above. That the task of `Session` may do whatever a `StreamSource` may is not a
theorem (`TaskIsSource` is the converse); it can be read off the guards, and the
theorems hold for every number of texts and ends (`Chunks`, `MaxDone`).

## 5. Observations without a run

Met while modelling; each is one path or one line, so no run is spent on it.

* `middleware/rate_limiter.cpp:42` reads `last_refill_` without the mutex, against
  `rate_limiter.h:80-81`: a data race by the language.
* `middleware/rate_limiter.cpp:72` sets `last_refill_` to now although only whole
  seconds were credited: calls every 1.9 s get 1 s of tokens each, where
  `rate_limiter.h:17` promises a fixed rate.
* `db/connection_pool.h:59` says that a caller of `borrow` blocks until a connection
  is returned; `db/connection_pool.cpp:107-123` gives up after 5 seconds and returns
  `nullptr`. `BorrowReturns` and `ImplementsLending` state what the code does.
* `server/session.cpp:227`, `:238`: the writes of a stream go to the socket without
  a timeout, so a client that stays and stops reading keeps the session, and all
  chunks that are queued, for ever.
* `server/http_server.cpp:123-125`: after a signal `run` joins its threads; a handler
  in a statement that MySQL does not answer is waited for without end.
* `main.cpp:375-378` tells 404 "no key with this id" also of a key that exists, when
  the UPDATE failed or the key is already disabled. `AdminSuccessIsTrue` is about
  the successes only.
* `server/router.cpp:95`: the message of an error repeats the client's target
  (`server/router.cpp:43`), what the JSON parser says of a body
  (`main.cpp:229-235`) or an exception of the provider's call
  (`main.cpp:268-274`); `dump()` throws for bytes that are no UTF-8, nothing catches
  it, and the process ends.
* `adapter/openai_compatible_adapter.cpp:99`: `messages` of a `const` object is read
  without a check; without it an end iterator is dereferenced, in the chat route
  and in a stream.
* `db/repository.cpp:203` and `:206`: `disable_api_key` returns `false` after an
  error and for a disabled key; `db/repository.h:81` says the key does not exist.
* `server/session.cpp:95`: `is_streaming_` stays set after the 400 for an unknown
  model, so a keep-alive connection is not read again (`session.h:23-25`).
* `server/http_server.cpp:171`: any error of accept ends the chain while the
  server runs on; `http_server.h:20` and `http_server.cpp:179` describe a loop.
* `server/http_server.cpp:147`: `ioc_.stop()` destroys pending operations and does
  not cancel them; `:134` and `:146` promise a cancelled error.
* `main.cpp:315-317` answers 200 with an empty key when the INSERT failed.
* `db/repository.cpp:122`, `:157`, `:196`: create, list and disable use the result
  of `borrow` unchecked, where `db/connection_pool.cpp:113` asks the caller to
  check for `nullptr`. With as many connections as threads it is never met
  (`NullOnlyWhenShort`); the defaults are 4 threads, with `main` as a fifth, and 4
  connections.
* `server/session.cpp:94`: the streaming test comes before the path and the method
  are looked at, so `"stream": true` turns a request for any path into a stream,
  also for those paths that the authentication lets through.
  `ProviderNeedsKey` is about the chat route.
* `main.cpp:167` says that only authenticated requests take tokens; `/health` and
  `/admin/api-keys` take them too (`PaidIffServed` says exactly who does).
* `main.cpp:249`, `:307`: `json::value` throws for a body that is no object or a
  field of a wrong type; no route catches it, and it ends the process
  (`escaped` in `Gateway`).
* `middleware/log_middleware.cpp:10` distinguishes requests that were intercepted,
  but the chain ends before the log when one is.
* `adapter/openai_compatible_adapter.cpp:117-124`: a provider's response that is no
  JSON becomes an error object, which the route answers with status 200.
* `main.cpp:114-138`: an environment variable set to the empty string overrides a
  value from the file.

## 6. Order of the work, and what is left out

Built in this order: thread pool, limiter, connection pool, repository, session,
server, adapter; then gateway and start-up; then the proofs, from the pools
upwards. What could follow: a queue of writes per session, the repair that the
violation of `ForwardsInOrder` suggests, checked against the same properties.

Not modelled: the building of request bodies and responses and the options of
libcurl (pure conversion), logging, the tables of `bootstrap.sql` that no statement
uses, the unit tests (read for what they claim). Integer widths: configured
capacities are small and `int64_t`, so products do not overflow; negative or zero
sizes from the configuration are excluded by the assumptions.
