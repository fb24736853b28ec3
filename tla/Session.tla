------------------------------- MODULE Session -------------------------------
(***************************************************************************)
(* One TCP connection (server/session.h, server/session.cpp): the loop     *)
(* do_read / on_read / handle_request / do_write / on_write, and the SSE   *)
(* stream that a request with "stream": true turns it into.                *)
(*                                                                         *)
(* A stream is produced by a task on the thread pool.  The task posts one  *)
(* handler per event to the io_context; the socket has no strand, so each  *)
(* of the io threads takes the oldest handler and runs it at its own pace. *)
(* A handler starts an asio::async_write: the pending writes of the socket *)
(* are served in the order they were started, but a write that could only  *)
(* transfer a part goes back to the io_context for its next part.          *)
(***************************************************************************)
EXTENDS Naturals, Sequences, FiniteSets, SequencesExt

CONSTANTS IoThreads,     \* threads in ioc_.run()
          Chunks,        \* bound: content events of the provider
          Pieces,        \* transfers one async_write may need
          MaxDone        \* bound: times the adapter reports the end

ASSUME SessionAssumption ==
  /\ IoThreads # {} /\ IsFiniteSet(IoThreads)
  /\ Chunks \in Nat /\ MaxDone \in Nat
  /\ Pieces \in Nat \ {0}

VARIABLES loop,          \* operation the request loop waits for
          keep,          \* the response res_ does not need_eof
          streaming,     \* is_streaming_
          headersSent,   \* stream_headers_sent_
          shut,          \* do_close has shut the sending side
          peer,          \* the client is still there
          task,          \* the streaming task on the thread pool
          emitted,       \* events the task has reported, in order
          posted,        \* handlers in the io_context, oldest first
          exec,          \* handlers each io thread has taken
          writes,        \* pending writes of the socket, oldest first
          wire,          \* stream data transferred: <<event, piece>>
          overlapped     \* history: writes of the stream have overlapped

loopVars == <<loop, keep>>
taskVars == <<task, emitted>>
ioVars == <<posted, exec, writes, wire>>
flags == <<streaming, headersSent, shut, peer>>
vars == <<loopVars, flags, taskVars, ioVars, overlapped>>

\* Events are numbered: the content events, the error message, the end.
Error == Chunks + 1
Done == Chunks + 2

Send(e) == [do |-> "send", event |-> e, from |-> 1]
Fail == [do |-> "fail", event |-> Error, from |-> 1]
Resume(op) == [do |-> "resume", event |-> op.event, from |-> op.from]
Written(op) == [do |-> "written", event |-> op.event, from |-> op.from]
Broken(op) == [do |-> "broken", event |-> op.event, from |-> op.from]

Init ==
  /\ loop = "read"
  /\ keep = FALSE
  /\ streaming = FALSE
  /\ headersSent = FALSE
  /\ shut = FALSE
  /\ peer = TRUE
  /\ task = "none"
  /\ emitted = <<>>
  /\ posted = <<>>
  /\ exec = [t \in IoThreads |-> <<>>]
  /\ writes = <<>>
  /\ wire = <<>>
  /\ overlapped = FALSE

do_close == streaming' = FALSE /\ shut' = TRUE

-----------------------------------------------------------------------------
(* The request loop: one operation is pending at a time.                   *)

OnReadFails ==
  /\ loop = "read"
  /\ do_close
  /\ loop' = "ended"
  /\ UNCHANGED <<keep, headersSent, peer, taskVars, ioVars>>

ReadRequest == loop = "read" /\ peer

\* Stopped by the middleware, or answered by the router.
Respond(k) ==
  /\ ReadRequest
  /\ keep' = k
  /\ loop' = "write"
  /\ UNCHANGED <<flags, taskVars, ioVars>>

\* "stream": true for a model that no adapter serves.
RespondUnsupported(k) ==
  /\ ReadRequest
  /\ keep' = k
  /\ streaming' = TRUE
  /\ loop' = "write"
  /\ UNCHANGED <<headersSent, shut, peer, taskVars, ioVars>>

StartStream ==
  /\ ReadRequest
  /\ streaming' = TRUE
  /\ loop' = "header"
  /\ UNCHANGED <<keep, headersSent, shut, peer, taskVars, ioVars>>

OnWriteFails ==
  /\ loop \in {"write", "header"}
  /\ ~peer
  /\ do_close
  /\ loop' = "ended"
  /\ UNCHANGED <<keep, headersSent, peer, taskVars, ioVars>>

\* The next request finds an empty response, which needs an eof.
OnWrite ==
  /\ loop = "write"
  /\ keep' = (keep /\ streaming)
  /\ IF ~keep THEN do_close /\ loop' = "ended"
     ELSE /\ UNCHANGED <<streaming, shut>>
          /\ loop' = IF streaming THEN "ended" ELSE "read"
  /\ UNCHANGED <<headersSent, peer, taskVars, ioVars>>

\* The connection belongs to the stream.  Mutant: wait for the next request.
ReadAgain == "read"
NoMoreReads == "ended"

\* The task is handed to the pool; it may run, and end, before this returns.
OnHeader ==
  /\ loop = "header"
  /\ headersSent' = TRUE
  /\ task' = "running"
  /\ loop' = "submitted"
  /\ UNCHANGED <<keep, streaming, shut, peer, emitted, ioVars>>

HeaderReturns ==
  /\ loop = "submitted"
  /\ loop' = NoMoreReads
  /\ UNCHANGED <<keep, flags, taskVars, ioVars>>

PeerLeaves ==
  /\ peer
  /\ peer' = FALSE
  /\ UNCHANGED <<loopVars, streaming, headersSent, shut, taskVars, ioVars>>

-----------------------------------------------------------------------------
(* The streaming task.                                                     *)

Push(q, h) == Append(q, h)

Post(h) == posted' = Push(posted, h) /\ UNCHANGED <<exec, writes, wire>>

Report(e) == emitted' = Append(emitted, e) /\ Post(Send(e))

TimesDone == Cardinality({i \in DOMAIN emitted : emitted[i] = Done})

\* Mutant: the chunk before this one is captured.
ChunkBefore == Len(emitted)
NewChunk == Len(emitted) + 1

OnContent ==
  /\ task = "running"
  /\ TimesDone = 0
  /\ Len(emitted) < Chunks
  /\ Report(NewChunk)
  /\ UNCHANGED <<loopVars, flags, task>>

\* The adapter reports the end after every libcurl callback from [DONE] on.
OnDone ==
  /\ task = "running"
  /\ TimesDone < MaxDone
  /\ Report(Done)
  /\ UNCHANGED <<loopVars, flags, task>>

\* The transfer ends without an exception, with or without [DONE].
TaskReturns ==
  /\ task = "running"
  /\ task' = "returned"
  /\ UNCHANGED <<loopVars, flags, emitted, ioVars>>

TaskThrows ==
  /\ task = "running"
  /\ task' = "threw"
  /\ emitted' = emitted \o <<Error, Done>>
  /\ Post(Fail)
  /\ UNCHANGED <<loopVars, flags>>

\* A request without "messages" dereferences the end of the JSON object: the
\* process ends here, or goes on as it does above.
TaskUndefined ==
  /\ task = "running"
  /\ emitted = <<>>
  /\ task' = "crashed"
  /\ UNCHANGED <<loopVars, flags, emitted, ioVars>>

-----------------------------------------------------------------------------
(* The io threads.                                                         *)

Dequeue(t) ==
  /\ exec[t] = <<>>
  /\ posted # <<>>
  /\ exec' = [exec EXCEPT ![t] = <<Head(posted)>>]
  /\ posted' = Tail(posted)
  /\ UNCHANGED <<loopVars, flags, taskVars, writes, wire>>

Running(t, do) == exec[t] # <<>> /\ exec[t][1].do = do
Finish(t) == exec' = [exec EXCEPT ![t] = <<>>]

\* send_stream_chunk for one event.
SendChunk(t) ==
  /\ Running(t, "send")
  /\ writes' = IF headersSent THEN Append(writes, exec[t][1]) ELSE writes
  /\ Finish(t)
  /\ UNCHANGED <<loopVars, flags, taskVars, posted, wire>>

\* The handler of the catch block: the error message, then the end.  Mutant:
\* the other way round, or without the end.
EndAndError == <<Send(Done), Send(Error)>>
ErrorAlone == <<Send(Error)>>
ErrorAndEnd == <<Send(Error), Send(Done)>>

SendError(t) ==
  /\ Running(t, "fail")
  /\ writes' = IF headersSent THEN writes \o ErrorAndEnd ELSE writes
  /\ Finish(t)
  /\ UNCHANGED <<loopVars, flags, taskVars, posted, wire>>

ResumeWrite(t) ==
  /\ Running(t, "resume")
  /\ writes' = Append(writes, exec[t][1])
  /\ Finish(t)
  /\ UNCHANGED <<loopVars, flags, taskVars, posted, wire>>

\* Completion of a write: the end closes, so does an error.  Mutant: close as
\* soon as the write of an event has completed.
CloseAlways(h) == TRUE
Closes(h) == h.event = Done \/ h.do = "broken"

WriteCompletes(t) ==
  /\ Running(t, "written") \/ Running(t, "broken")
  /\ IF Closes(exec[t][1]) THEN do_close ELSE UNCHANGED <<streaming, shut>>
  /\ Finish(t)
  /\ UNCHANGED <<loopVars, headersSent, peer, taskVars, posted, writes, wire>>

LastPart(op, n) == op.from + n > Pieces

\* The socket takes the rest of the oldest write, or a part of it.
Transfer(n) ==
  LET op == Head(writes) IN
  /\ writes # <<>>
  /\ ~shut /\ peer
  /\ op.from + n <= Pieces + 1
  /\ wire' = wire \o [i \in 1 .. n |-> <<op.event, op.from + i - 1>>]
  /\ writes' = Tail(writes)
  /\ posted' = Push(posted, IF LastPart(op, n) THEN Written(op)
                            ELSE Resume([op EXCEPT !.from = @ + n]))
  /\ UNCHANGED <<loopVars, flags, taskVars, exec>>

TransferFails ==
  /\ writes # <<>>
  /\ shut \/ ~peer
  /\ writes' = Tail(writes)
  /\ posted' = Push(posted, Broken(Head(writes)))
  /\ UNCHANGED <<loopVars, flags, taskVars, exec, wire>>

-----------------------------------------------------------------------------
Loop ==
  \/ OnReadFails \/ OnWriteFails \/ OnWrite \/ OnHeader \/ HeaderReturns
  \/ StartStream
  \/ \E k \in BOOLEAN : Respond(k) \/ RespondUnsupported(k)

Handler(t) == SendChunk(t) \/ SendError(t) \/ ResumeWrite(t) \/ WriteCompletes(t)

Socket == TransferFails \/ \E n \in 1 .. Pieces : Transfer(n)

TaskStep == OnContent \/ OnDone \/ TaskReturns \/ TaskThrows \/ TaskUndefined

\* Two io threads are about to start a write, or a write that has been
\* transferred in part shares the socket with another.
Partial == {op \in ToSet(writes \o posted) : op.do = "resume"}
           \cup {exec[t][1] : t \in {u \in IoThreads : Running(u, "resume")}}

Overlap ==
  \/ Cardinality({t \in IoThreads : exec[t] # <<>>
                    /\ exec[t][1].do \in {"send", "fail", "resume"}}) > 1
  \/ Partial # {} /\ \E i \in DOMAIN writes : writes[i].do = "send"

Step ==
  /\ task # "crashed"
  /\ \/ Loop \/ PeerLeaves \/ TaskStep \/ Socket
     \/ \E t \in IoThreads : Dequeue(t) \/ Handler(t)

Next == Step /\ overlapped' = (overlapped \/ Overlap')

(***************************************************************************)
(* The io threads run what is queued, a write to a client that is gone or  *)
(* to a closed socket fails, and the provider's stream ends (libcurl gives *)
(* up a transfer that stalls).  Nothing makes a client read: a write has   *)
(* no timeout.                                                             *)
(***************************************************************************)
Fairness ==
  /\ WF_vars(Next /\ HeaderReturns)
  /\ WF_vars(Next /\ (TaskReturns \/ TaskThrows))
  /\ WF_vars(Next /\ TransferFails)
  /\ \A t \in IoThreads : /\ WF_vars(Next /\ Dequeue(t))
                          /\ WF_vars(Next /\ Handler(t))

Spec == Init /\ [][Next]_vars
FairSpec == Spec /\ Fairness
-----------------------------------------------------------------------------
Events == 1 .. Done
Op == [do : {"send", "resume"}, event : Events, from : 1 .. Pieces]
HandlerRecord ==
  [do : {"send", "fail", "resume", "written", "broken"},
   event : Events, from : 1 .. Pieces]

\* The types of the variables.
TypeOK ==
  /\ loop \in {"read", "write", "header", "submitted", "ended"}
  /\ {keep, streaming, headersSent, shut, peer} \subseteq BOOLEAN
  /\ task \in {"none", "running", "returned", "threw", "crashed"}
  /\ emitted \in Seq(Events)
  /\ posted \in Seq(HandlerRecord)
  /\ exec \in [IoThreads -> {<<>>} \cup {<<h>> : h \in HandlerRecord}]
  /\ writes \in Seq(Op)
  /\ wire \in Seq(Events \X (1 .. Pieces))
  /\ overlapped \in BOOLEAN

\* Something holds a shared_ptr to the session; once nothing does, it is
\* destroyed and the socket is closed.
Alive ==
  \/ loop # "ended"
  \/ task \in {"running", "crashed"}
  \/ posted # <<>> \/ writes # <<>>
  \/ \E t \in IoThreads : exec[t] # <<>>

(***************************************************************************)
(* A session that goes away while its client is there has shut the         *)
(* connection itself, whatever the order of its handlers and whichever way *)
(* its stream went (session.cpp:134, :232, :243).  Two paths only leave it *)
(* to the last shared_ptr: the 400 for a model without an adapter, which   *)
(* is sent after is_streaming_ has been set (session.cpp:95, :172), and a  *)
(* stream whose provider has not reported the end                          *)
(* (openai_compatible_adapter.cpp:244).                                    *)
(***************************************************************************)
GoneOnPurpose ==
  ~Alive /\ peer =>
    \/ shut
    \/ task = "none" /\ streaming
    \/ task = "returned" /\ TimesDone = 0

\* A write waits for the client to read.
AwaitsClient == writes # <<>> /\ peer /\ ~shut

(***************************************************************************)
(* A stream that has begun comes to an end, whether the end is reported,   *)
(* not reported or reported twice, the provider fails or the client goes   *)
(* away: nothing but a client that stays and stops reading keeps the       *)
(* session, and with it the socket, for ever.                              *)
(***************************************************************************)
StreamReleasesSession ==
  []<>~AwaitsClient => (task = "running" ~> ~Alive \/ task = "crashed")

\* The bytes of a sequence of events, piece by piece.
Bytes(es) ==
  [i \in 1 .. Len(es) * Pieces |->
     <<es[((i - 1) \div Pieces) + 1], ((i - 1) % Pieces) + 1>>]

(***************************************************************************)
(* README.md:17: the gateway forwards the stream chunk by chunk.  What has *)
(* been sent to the client is what the provider's events amount to, in     *)
(* their order, none torn apart by another.                                *)
(***************************************************************************)
ForwardsInOrder == IsPrefix(wire, Bytes(emitted))

\* It does so in every execution in which the writes of the stream do not
\* overlap, whichever thread runs which handler.
OrderedUnlessOverlapped == ~overlapped => ForwardsInOrder

(***************************************************************************)
(* A client that stays to the end of a stream the provider has completed   *)
(* has been sent all of it, [DONE] included, before the session goes away, *)
(* also when it is the end after an error, or a second end, that closes:   *)
(* unless writes of the stream have overlapped.                            *)
(***************************************************************************)
CompleteUnlessOverlapped ==
  ~overlapped /\ ~Alive /\ peer /\ TimesDone > 0 =>
    Len(wire) >= Pieces * SelectInSeq(emitted, LAMBDA e : e = Done)
=============================================================================
