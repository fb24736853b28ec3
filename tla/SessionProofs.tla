---------------------------- MODULE SessionProofs ----------------------------
(***************************************************************************)
(* What holds of a connection for every number of io_context threads,      *)
(* events of a stream and transfers per write.                             *)
(***************************************************************************)
EXTENDS Session, SequenceTheorems, FiniteSetTheorems, WellFoundedInduction,
        TLAPS

\* The numbers of the events.
LEMMA EventNumbers ==
  /\ Chunks \in Nat /\ Error \in Events /\ Done \in Events
  /\ Pieces \in Nat \ {0} /\ 1 \in 1 .. Pieces
  /\ Error # Done
BY SessionAssumption DEF Error, Done, Events

\* The request loop and what it shares with the stream.
FlagTypeOK ==
  /\ loop \in {"read", "write", "header", "submitted", "ended"}
  /\ task \in {"none", "running", "returned", "threw", "crashed"}
  /\ keep \in BOOLEAN /\ streaming \in BOOLEAN /\ headersSent \in BOOLEAN
  /\ shut \in BOOLEAN /\ peer \in BOOLEAN

\* The stream.
StreamTypeOK ==
  /\ emitted \in Seq(Events)
  /\ posted \in Seq(HandlerRecord)
  /\ exec \in [IoThreads -> {<<>>} \cup {<<h>> : h \in HandlerRecord}]
  /\ writes \in Seq(Op)
  /\ wire \in Seq(Events \X (1 .. Pieces))

streamVars == <<emitted, ioVars>>

\* The two halves, and the history variable, are TypeOK.
LEMMA TypeParts ==
  TypeOK <=> FlagTypeOK /\ StreamTypeOK /\ overlapped \in BOOLEAN
BY DEF TypeOK, FlagTypeOK, StreamTypeOK

\* A thread runs a handler or nothing.
LEMMA HandlerOf ==
  ASSUME StreamTypeOK, NEW t \in IoThreads, exec[t] # <<>>
  PROVE  exec[t][1] \in HandlerRecord /\ exec[t] = <<exec[t][1]>>
BY DEF StreamTypeOK

-----------------------------------------------------------------------------
(* One lemma per part of the invariant, one step per action.               *)

\* The types of the request loop.
LEMMA FlagStep == FlagTypeOK /\ [Next]_vars => FlagTypeOK'
<1> SUFFICES ASSUME FlagTypeOK, [Next]_vars
             PROVE  FlagTypeOK'
  OBVIOUS
<1> USE DEF FlagTypeOK
<1>1. CASE OnReadFails \/ OnWriteFails
  BY <1>1 DEF OnReadFails, OnWriteFails, do_close, taskVars
<1>2. ASSUME NEW k \in BOOLEAN,
             Respond(k) \/ RespondUnsupported(k) \/ StartStream
      PROVE  FlagTypeOK'
  BY <1>2 DEF Respond, RespondUnsupported, StartStream, ReadRequest, flags,
              taskVars
<1>3. CASE OnWrite
  BY <1>3 DEF OnWrite, do_close, taskVars
<1>4. CASE OnHeader \/ HeaderReturns
  BY <1>4 DEF OnHeader, HeaderReturns, NoMoreReads, flags, taskVars
<1>5. CASE PeerLeaves
  BY <1>5 DEF PeerLeaves, loopVars, taskVars
<1>6. CASE TaskStep
  BY <1>6 DEF TaskStep, OnContent, OnDone, TaskReturns, TaskThrows, TaskUndefined,
              loopVars, flags
<1>7. ASSUME NEW t \in IoThreads, Dequeue(t) \/ Handler(t)
      PROVE  FlagTypeOK'
  BY <1>7 DEF Dequeue, Handler, SendChunk, SendError, ResumeWrite,
              WriteCompletes, do_close, loopVars, flags, taskVars
<1>8. CASE Socket
  BY <1>8 DEF Socket, Transfer, TransferFails, loopVars, flags, taskVars
<1>9. CASE UNCHANGED vars
  BY <1>9 DEF vars, loopVars, flags, taskVars
<1> QED
  BY <1>1, <1>2, <1>3, <1>4, <1>5, <1>6, <1>7, <1>8, <1>9 DEF Next, Step, Loop

\* Only these steps touch the stream.
LEMMA StreamSteps ==
  ASSUME [Next]_vars
  PROVE  \/ \E e \in Events : Report(e)
         \/ OnContent \/ TaskThrows \/ Socket
         \/ \E t \in IoThreads : Dequeue(t) \/ Handler(t)
         \/ UNCHANGED streamVars
<1> USE DEF streamVars
<1>1. CASE Loop
  BY <1>1 DEF Loop, OnReadFails, OnWriteFails, OnWrite, OnHeader,
              HeaderReturns, Respond, RespondUnsupported, StartStream, ReadRequest, taskVars
<1>2. CASE PeerLeaves
  BY <1>2 DEF PeerLeaves, taskVars
<1>3. CASE OnDone
  BY <1>3, EventNumbers DEF OnDone
<1>4. CASE TaskReturns \/ TaskUndefined
  BY <1>4 DEF TaskReturns, TaskUndefined
<1>5. CASE UNCHANGED vars
  BY <1>5 DEF vars, taskVars
<1> QED
  BY <1>1, <1>2, <1>3, <1>4, <1>5 DEF Next, Step, TaskStep

\* A transfer moves the rest of the oldest write, or a part of it, to the wire.
LEMMA TransferTypes ==
  ASSUME StreamTypeOK, NEW n \in 1 .. Pieces, Transfer(n)
  PROVE  LET op == Head(writes)
             part == [i \in 1 .. n |-> <<op.event, op.from + i - 1>>]
             h == IF LastPart(op, n) THEN Written(op)
                  ELSE Resume([op EXCEPT !.from = @ + n])
         IN /\ op \in Op /\ Tail(writes) \in Seq(Op)
            /\ part \in Seq(Events \X (1 .. Pieces)) /\ Len(part) = n
            /\ h \in HandlerRecord
            /\ wire' = wire \o part
            /\ writes' = Tail(writes)
            /\ posted' = Append(posted, h)
            /\ UNCHANGED <<emitted, exec>>
<1> USE EventNumbers
<1> DEFINE op == Head(writes)
           part == [i \in 1 .. n |-> <<op.event, op.from + i - 1>>]
           h == IF LastPart(op, n) THEN Written(op)
                ELSE Resume([op EXCEPT !.from = @ + n])
<1>1. op \in Op /\ Tail(writes) \in Seq(Op)
  BY HeadTailProperties DEF Transfer, StreamTypeOK
<1>2. op.event \in Events /\ op.from \in 1 .. Pieces /\ op.from + n <= Pieces + 1
  BY <1>1 DEF Transfer, Op
<1>3. part \in Seq(Events \X (1 .. Pieces)) /\ Len(part) = n
  <2>1. n \in Nat /\ \A i \in 1 .. n : op.from + i - 1 \in 1 .. Pieces
    BY <1>2
  <2> HIDE DEF op
  <2> QED
    BY <1>2, <2>1
<1>4. h \in HandlerRecord
  <2>1. CASE LastPart(op, n)
    BY <1>1, <2>1 DEF Written, Op, HandlerRecord
  <2>2. CASE ~LastPart(op, n)
    <3>1. op.from + n \in 1 .. Pieces
      BY <1>2, <2>2 DEF LastPart
    <3>2. [op EXCEPT !.from = @ + n] \in Op
      BY <1>1, <3>1 DEF Op
    <3> QED
      BY <2>2, <3>2 DEF Resume, Op, HandlerRecord
  <2> QED
    BY <2>1, <2>2
<1>5. /\ wire' = wire \o part /\ writes' = Tail(writes)
      /\ posted' = Append(posted, h) /\ UNCHANGED <<emitted, exec>>
  BY DEF Transfer, Push, taskVars
<1> QED
  BY <1>1, <1>3, <1>4, <1>5

\* The types of the stream.
LEMMA StreamStep == FlagTypeOK /\ StreamTypeOK /\ [Next]_vars => StreamTypeOK'
<1> SUFFICES ASSUME FlagTypeOK, StreamTypeOK, [Next]_vars
             PROVE  StreamTypeOK'
  OBVIOUS
<1> USE EventNumbers
<1>1. ASSUME NEW e \in Events, Report(e)
      PROVE  StreamTypeOK'
  <2>1. Send(e) \in HandlerRecord
    BY DEF Send, HandlerRecord
  <2>2. Append(posted, Send(e)) \in Seq(HandlerRecord)
    BY <2>1, AppendProperties DEF StreamTypeOK
  <2>3. Append(emitted, e) \in Seq(Events)
    BY AppendProperties DEF StreamTypeOK
  <2> QED
    BY <1>1, <2>2, <2>3 DEF Report, Post, Push, StreamTypeOK
<1>2. CASE OnContent
  <2>1. Len(emitted) \in Nat
    BY LenProperties DEF StreamTypeOK
  <2>2. NewChunk \in Events
    BY <1>2, <2>1 DEF OnContent, NewChunk, Events, Done
  <2> QED
    BY <1>1, <1>2, <2>2 DEF OnContent
<1>3. CASE TaskThrows
  <2>1. <<Error, Done>> \in Seq(Events) /\ Fail \in HandlerRecord
    BY DEF Fail, HandlerRecord
  <2>2. emitted \o <<Error, Done>> \in Seq(Events)
    BY <2>1, ConcatProperties DEF StreamTypeOK
  <2>3. Append(posted, Fail) \in Seq(HandlerRecord)
    BY <2>1, AppendProperties DEF StreamTypeOK
  <2> QED
    BY <1>3, <2>2, <2>3 DEF TaskThrows, Post, Push, StreamTypeOK
<1>4. ASSUME NEW t \in IoThreads, Dequeue(t)
      PROVE  StreamTypeOK'
  <2>1. Head(posted) \in HandlerRecord /\ Tail(posted) \in Seq(HandlerRecord)
    BY <1>4, HeadTailProperties DEF Dequeue, StreamTypeOK
  <2> QED
    BY <1>4, <2>1 DEF Dequeue, taskVars, StreamTypeOK
<1>5. ASSUME NEW t \in IoThreads, SendChunk(t) \/ ResumeWrite(t)
      PROVE  StreamTypeOK'
  <2>1. exec[t][1] \in Op
    BY <1>5, HandlerOf DEF SendChunk, ResumeWrite, Running, HandlerRecord, Op
  <2>2. Append(writes, exec[t][1]) \in Seq(Op)
    BY <2>1, AppendProperties DEF StreamTypeOK
  <2> QED
    BY <1>5, <2>2 DEF SendChunk, ResumeWrite, Finish, taskVars, StreamTypeOK
<1>6. ASSUME NEW t \in IoThreads, SendError(t)
      PROVE  StreamTypeOK'
  <2>1. ErrorAndEnd \in Seq(Op)
    BY DEF ErrorAndEnd, Send, Op
  <2>2. writes \o ErrorAndEnd \in Seq(Op)
    BY <2>1, ConcatProperties DEF StreamTypeOK
  <2> QED
    BY <1>6, <2>2 DEF SendError, Finish, taskVars, StreamTypeOK
<1>7. ASSUME NEW t \in IoThreads, WriteCompletes(t)
      PROVE  StreamTypeOK'
  BY <1>7 DEF WriteCompletes, Finish, taskVars, StreamTypeOK
<1>8. ASSUME NEW n \in 1 .. Pieces, Transfer(n)
      PROVE  StreamTypeOK'
  <2> DEFINE op == Head(writes)
             part == [i \in 1 .. n |-> <<op.event, op.from + i - 1>>]
             h == IF LastPart(op, n) THEN Written(op)
                  ELSE Resume([op EXCEPT !.from = @ + n])
  <2>1. /\ Tail(writes) \in Seq(Op)
        /\ part \in Seq(Events \X (1 .. Pieces)) /\ h \in HandlerRecord
        /\ wire' = wire \o part /\ writes' = Tail(writes)
        /\ posted' = Append(posted, h) /\ UNCHANGED <<emitted, exec>>
    BY <1>8, TransferTypes
  <2> HIDE DEF op, part, h
  <2>2. wire \o part \in Seq(Events \X (1 .. Pieces))
    BY <2>1, ConcatProperties DEF StreamTypeOK
  <2>3. Append(posted, h) \in Seq(HandlerRecord)
    BY <2>1, AppendProperties DEF StreamTypeOK
  <2> QED
    BY <2>1, <2>2, <2>3 DEF StreamTypeOK
<1>9. CASE TransferFails
  <2>1. Head(writes) \in Op /\ Tail(writes) \in Seq(Op)
    BY <1>9, HeadTailProperties DEF TransferFails, StreamTypeOK
  <2>2. Broken(Head(writes)) \in HandlerRecord
    BY <2>1 DEF Broken, Op, HandlerRecord
  <2>3. Append(posted, Broken(Head(writes))) \in Seq(HandlerRecord)
    BY <2>2, AppendProperties DEF StreamTypeOK
  <2> QED
    BY <1>9, <2>1, <2>3 DEF TransferFails, Push, taskVars, StreamTypeOK
<1>10. CASE UNCHANGED streamVars
  BY <1>10 DEF streamVars, ioVars, StreamTypeOK
<1> QED
  BY <1>1, <1>2, <1>3, <1>4, <1>5, <1>6, <1>7, <1>8, <1>9, <1>10, StreamSteps
  DEF Handler, Socket

\* The header handler hands the connection to the stream, and returns.
StreamOwnsConnection == task # "none" => loop \in {"submitted", "ended"}

\* A stream begins when the request loop ends, and no step revives the loop.
LEMMA OwnsStep == StreamOwnsConnection /\ [Next]_vars => StreamOwnsConnection'
<1> SUFFICES ASSUME StreamOwnsConnection, [Next]_vars
             PROVE  StreamOwnsConnection'
  OBVIOUS
<1> USE DEF StreamOwnsConnection
<1>1. CASE OnHeader
  BY <1>1 DEF OnHeader, NoMoreReads
<1>2. CASE Loop /\ ~OnHeader
  BY <1>2 DEF Loop, OnReadFails, OnWriteFails, OnWrite, HeaderReturns,
              NoMoreReads, Respond, RespondUnsupported, StartStream,
              ReadRequest, taskVars
<1>3. CASE TaskStep
  BY <1>3 DEF TaskStep, OnContent, OnDone, TaskReturns, TaskThrows, TaskUndefined, loopVars
<1>4. CASE PeerLeaves \/ Socket \/ \E t \in IoThreads : Dequeue(t) \/ Handler(t)
  BY <1>4 DEF PeerLeaves, Socket, Transfer, TransferFails, Dequeue, Handler,
              SendChunk, SendError, ResumeWrite, WriteCompletes, loopVars,
              taskVars
<1>5. CASE UNCHANGED vars
  BY <1>5 DEF vars, loopVars, taskVars
<1> QED
  BY <1>1, <1>2, <1>3, <1>4, <1>5 DEF Next, Step

-----------------------------------------------------------------------------
(* The events and their pieces on the wire.                                *)

\* Position number q * Pieces + r falls into piece r of event q.
LEMMA PieceAt ==
  ASSUME NEW P \in Nat \ {0}, NEW q \in Nat, NEW r \in 0 .. P - 1
  PROVE  (q * P + r) \div P = q /\ (q * P + r) % P = r
OBVIOUS

\* A position among the pieces of n events falls into one of them.
LEMMA PieceOf ==
  ASSUME NEW P \in Nat \ {0}, NEW n \in Nat, NEW i \in 1 .. n * P
  PROVE  /\ ((i - 1) \div P) + 1 \in 1 .. n
         /\ ((i - 1) % P) + 1 \in 1 .. P
OBVIOUS

\* More events have more pieces.
LEMMA TimesMonotone ==
  ASSUME NEW P \in Nat, NEW m \in Nat, NEW n \in Nat, m <= n
  PROVE  m * P \in Nat /\ n * P \in Nat /\ m * P <= n * P /\ (m + 1) * P = m * P + P
<1>1. PICK d \in Nat : n = m + d
  BY n - m \in Nat /\ n = m + (n - m)
<1>2. n * P = m * P + d * P /\ d * P \in Nat
  BY <1>1
<1> QED
  BY <1>2

\* w is the beginning of the bytes of es.
BytesOf(w, es) == Len(w) <= Len(es) * Pieces /\ \A i \in 1 .. Len(w) : w[i] = Bytes(es)[i]

\* The bytes of a sequence of events are pieces, Pieces for each event.
LEMMA BytesType ==
  ASSUME NEW es \in Seq(Events)
  PROVE  Bytes(es) \in Seq(Events \X (1 .. Pieces)) /\ Len(Bytes(es)) = Len(es) * Pieces
<1>1. Len(es) * Pieces \in Nat
  BY LenProperties, EventNumbers
<1>2. \A i \in 1 .. Len(es) * Pieces : /\ es[((i - 1) \div Pieces) + 1] \in Events
                                       /\ ((i - 1) % Pieces) + 1 \in 1 .. Pieces
  BY PieceOf, EventNumbers, ElementOfSeq, LenProperties
<1> QED
  BY <1>1, <1>2, IsASeq DEF Bytes

\* IsPrefix, position by position.
LEMMA PrefixIs ==
  ASSUME NEW es \in Seq(Events), NEW w \in Seq(Events \X (1 .. Pieces))
  PROVE  IsPrefix(w, Bytes(es)) <=> BytesOf(w, es)
<1> DEFINE bs == Bytes(es)
<1>1. bs \in Seq(Events \X (1 .. Pieces)) /\ Len(bs) = Len(es) * Pieces
  BY BytesType
<1>2. Len(w) \in Nat /\ Len(bs) \in Nat
  BY <1>1, LenProperties
<1> HIDE DEF bs
<1>3. ASSUME Len(w) <= Len(bs)
      PROVE  SubSeq(w, 1, Len(w)) = SubSeq(bs, 1, Len(w))
               <=> \A i \in 1 .. Len(w) : w[i] = bs[i]
  <2>1. SubSeq(w, 1, Len(w)) = w
    BY SubSeqFull
  <2>2. /\ SubSeq(bs, 1, Len(w)) \in Seq(Events \X (1 .. Pieces))
        /\ Len(SubSeq(bs, 1, Len(w))) = Len(w)
        /\ \A i \in 1 .. Len(w) : SubSeq(bs, 1, Len(w))[i] = bs[i]
    BY <1>1, <1>2, <1>3, SubSeqProperties
  <2> QED
    BY <2>1, <2>2, SeqEqual
<1> QED
  BY <1>1, <1>2, <1>3 DEF IsPrefix, BytesOf, bs

-----------------------------------------------------------------------------
(* The events that the posted handlers carry.                              *)

\* h carries the events of es from number a + 1 to number b.
Carries(es, h, a, b) ==
  /\ h.do = "send" => b = a + 1 /\ h.from = 1 /\ es[b] = h.event
  /\ h.do = "fail" => b = a + 2 /\ es[a + 1] = Error /\ es[b] = Done
  /\ h.do \notin {"send", "fail"} => b = a

\* The handlers in q carry, in order, the events of es after number b.
Queued(es, q, b) ==
  \E at \in [0 .. Len(q) -> 0 .. Len(es)] :
    /\ at[0] = b /\ at[Len(q)] = Len(es)
    /\ \A i \in 1 .. Len(q) : Carries(es, q[i], at[i - 1], at[i])

\* More events have been reported.
Extends(es2, es) ==
  /\ es \in Seq(Events) /\ es2 \in Seq(Events)
  /\ Len(es) <= Len(es2)
  /\ \A i \in 1 .. Len(es) : es2[i] = es[i]

\* What a handler carries is the same after further reports.
LEMMA CarriesExtends ==
  ASSUME NEW es, NEW es2, Extends(es2, es), NEW h \in HandlerRecord,
         NEW a \in 0 .. Len(es), NEW b \in 0 .. Len(es), Carries(es, h, a, b)
  PROVE  Carries(es2, h, a, b)
<1>1. Len(es) \in Nat
  BY LenProperties DEF Extends
<1>2. h.do = "send" => b \in 1 .. Len(es)
  BY <1>1 DEF Carries
<1>3. h.do = "fail" => a + 1 \in 1 .. Len(es) /\ b \in 1 .. Len(es)
  BY <1>1 DEF Carries
<1> QED
  BY <1>2, <1>3 DEF Carries, Extends

\* An empty queue carries nothing.
LEMMA QueuedEmpty ==
  ASSUME NEW es \in Seq(Events)
  PROVE  Queued(es, <<>>, Len(es)) /\ \A b : Queued(es, <<>>, b) => b = Len(es)
<1>1. Len(es) \in Nat
  BY LenProperties
<1>2. Queued(es, <<>>, Len(es))
  <2> DEFINE at == [i \in 0 .. 0 |-> Len(es)]
  <2>1. at \in [0 .. Len(<<>>) -> 0 .. Len(es)]
    BY <1>1, EmptySeq
  <2>2. /\ at[0] = Len(es) /\ at[Len(<<>>)] = Len(es)
        /\ \A i \in 1 .. Len(<<>>) : Carries(es, <<>>[i], at[i - 1], at[i])
    BY EmptySeq
  <2> HIDE DEF at
  <2> QED
    BY <2>1, <2>2 DEF Queued
<1>3. ASSUME NEW b, Queued(es, <<>>, b)
      PROVE  b = Len(es)
  BY <1>3, EmptySeq DEF Queued
<1> QED
  BY <1>2, <1>3

\* A handler that carries what has been reported since is posted.
LEMMA QueuedAppend ==
  ASSUME NEW es, NEW es2, Extends(es2, es), NEW q \in Seq(HandlerRecord),
         NEW h \in HandlerRecord, NEW b, Queued(es, q, b),
         Carries(es2, h, Len(es), Len(es2))
  PROVE  Queued(es2, Append(q, h), b)
<1>1. PICK at \in [0 .. Len(q) -> 0 .. Len(es)] :
        /\ at[0] = b /\ at[Len(q)] = Len(es)
        /\ \A i \in 1 .. Len(q) : Carries(es, q[i], at[i - 1], at[i])
  BY DEF Queued
<1>2. /\ Len(q) \in Nat /\ Len(es) \in Nat /\ Len(es2) \in Nat
      /\ Len(es) <= Len(es2)
      /\ \A i \in 1 .. Len(q) : q[i] \in HandlerRecord
  BY LenProperties, ElementOfSeq DEF Extends
<1>3. /\ Len(Append(q, h)) = Len(q) + 1
      /\ \A i \in 1 .. Len(q) : Append(q, h)[i] = q[i]
      /\ Append(q, h)[Len(q) + 1] = h
  BY AppendProperties
<1> DEFINE r == Append(q, h)
           at2 == [i \in 0 .. Len(q) + 1 |->
                     IF i <= Len(q) THEN at[i] ELSE Len(es2)]
<1>4. at2 \in [0 .. Len(r) -> 0 .. Len(es2)]
  BY <1>2, <1>3
<1>5. at2[0] = b /\ at2[Len(r)] = Len(es2)
  BY <1>1, <1>2, <1>3
<1> HIDE DEF r
<1>6. ASSUME NEW i \in 1 .. Len(q)
      PROVE  Carries(es2, r[i], at2[i - 1], at2[i])
  <2>1. Carries(es, q[i], at[i - 1], at[i])
    BY <1>1
  <2>2. at[i - 1] \in 0 .. Len(es) /\ at[i] \in 0 .. Len(es)
    BY <1>2
  <2>3. Carries(es2, q[i], at[i - 1], at[i])
    BY <1>2, <2>1, <2>2, CarriesExtends
  <2>4. at2[i - 1] = at[i - 1] /\ at2[i] = at[i] /\ r[i] = q[i]
    BY <1>2, <1>3 DEF r
  <2> QED
    BY <2>3, <2>4
<1>7. Carries(es2, r[Len(q) + 1], at2[Len(q)], at2[Len(q) + 1])
  BY <1>1, <1>2, <1>3 DEF r
<1> HIDE DEF at2
<1>8. \A i \in 1 .. Len(r) : Carries(es2, r[i], at2[i - 1], at2[i])
  <2> TAKE i \in 1 .. Len(r)
  <2>1. i \in 1 .. Len(q) \/ i = Len(q) + 1
    BY <1>2, <1>3 DEF r
  <2>2. Len(q) + 1 - 1 = Len(q)
    BY <1>2
  <2> QED
    BY <1>6, <1>7, <2>1, <2>2
<1> QED
  BY <1>4, <1>5, <1>8 DEF Queued, r

\* A thread takes the oldest handler.
LEMMA QueuedTail ==
  ASSUME NEW es \in Seq(Events), NEW q \in Seq(HandlerRecord), q # <<>>,
         NEW b, Queued(es, q, b)
  PROVE  \E c \in 0 .. Len(es) : Carries(es, Head(q), b, c) /\ Queued(es, Tail(q), c)
<1>1. PICK at \in [0 .. Len(q) -> 0 .. Len(es)] :
        /\ at[0] = b /\ at[Len(q)] = Len(es)
        /\ \A i \in 1 .. Len(q) : Carries(es, q[i], at[i - 1], at[i])
  BY DEF Queued
<1>2. Len(q) \in Nat \ {0} /\ Len(es) \in Nat
  BY EmptySeq, LenProperties
<1> DEFINE r == Tail(q)
           at2 == [i \in 0 .. Len(q) - 1 |-> at[i + 1]]
<1>3. Len(r) = Len(q) - 1 /\ \A i \in 1 .. Len(r) : r[i] = q[i + 1]
  BY HeadTailProperties
<1>4. Head(q) = q[1]
  OBVIOUS
<1> HIDE DEF r
<1>5. at2 \in [0 .. Len(r) -> 0 .. Len(es)]
  BY <1>2, <1>3
<1>6. at2[0] = at[1] /\ at2[Len(r)] = Len(es)
  BY <1>1, <1>2, <1>3
<1>7. ASSUME NEW i \in 1 .. Len(r)
      PROVE  Carries(es, r[i], at2[i - 1], at2[i])
  <2>1. i + 1 \in 1 .. Len(q)
    BY <1>2, <1>3
  <2>2. Carries(es, q[i + 1], at[i + 1 - 1], at[i + 1])
    BY <1>1, <2>1
  <2>3. r[i] = q[i + 1] /\ at2[i - 1] = at[i + 1 - 1] /\ at2[i] = at[i + 1]
    BY <1>2, <1>3
  <2> QED
    BY <2>2, <2>3
<1> HIDE DEF at2
<1>8. Queued(es, r, at[1])
  BY <1>5, <1>6, <1>7 DEF Queued
<1>9. Carries(es, q[1], b, at[1]) /\ at[1] \in 0 .. Len(es)
  <2>1. 1 \in 1 .. Len(q) /\ 1 \in 0 .. Len(q) /\ 1 - 1 = 0
    BY <1>2
  <2>2. Carries(es, q[1], at[1 - 1], at[1])
    BY <1>1, <2>1
  <2>3. at[1] \in 0 .. Len(es)
    BY <2>1
  <2> QED
    BY <1>1, <2>1, <2>2, <2>3
<1> QED
  BY <1>4, <1>8, <1>9 DEF r

-----------------------------------------------------------------------------
(* The events that are being carried, written and waited for.              *)

\* Thread t runs a handler of one of the kinds dos.
Does(x, t, dos) == x[t] # <<>> /\ x[t][1].do \in dos

\* The handlers that write what the task has reported.
Carrying == {"send", "fail"}

\* The thread that runs such a handler, if there is one, carries what lies
\* between.
Served(es, x, a, b) ==
  /\ \A t \in IoThreads : Does(x, t, Carrying) => Carries(es, x[t][1], a, b)
  /\ (\A t \in IoThreads : ~Does(x, t, Carrying)) => a = b

\* No write waits for its next part.
NoResume(q, x) ==
  /\ \A i \in 1 .. Len(q) : q[i].do # "resume"
  /\ \A t \in IoThreads : ~Does(x, t, {"resume"})

\* op goes on when the handler it waits for has run, and it alone.
OnlyResume(q, x, op) ==
  \/ /\ \E i \in 1 .. Len(q) :
          q[i] = op /\ \A j \in 1 .. Len(q) : q[j].do = "resume" => j = i
     /\ \A t \in IoThreads : ~Does(x, t, {"resume"})
  \/ /\ \A i \in 1 .. Len(q) : q[i].do # "resume"
     /\ \E t \in IoThreads :
          x[t] = <<op>> /\ \A u \in IoThreads : Does(x, u, {"resume"}) => u = t

\* s is what has been started and not finished: what waits in the socket, or
\* the one write whose next part has not been started.
Started(q, x, ws, s) ==
  \/ s = ws /\ NoResume(q, x)
  \/ /\ ws = <<>>
     /\ \E op \in Op : s = <<op>> /\ op.do = "resume" /\ OnlyResume(q, x, op)

\* The writes in s carry the events up to number a, and all before is on the
\* wire, with the part of the first write that has been transferred.
Carried(es, s, a, sent) ==
  /\ Len(s) <= a
  /\ \A i \in 1 .. Len(s) : /\ es[a - Len(s) + i] = s[i].event
                            /\ s[i].do = "send" => s[i].from = 1
                            /\ i > 1 => s[i].do = "send"
  /\ sent = (a - Len(s)) * Pieces + (IF s = <<>> THEN 0 ELSE s[1].from - 1)

\* Where each of the events es is: up to number a the wire and the writes that
\* have been started, from there to b a thread, after b the queue.
InOrderOf(es, q, x, ws, sent) ==
  \E b \in 0 .. Len(es), a \in 0 .. Len(es), s \in Seq(Op) :
    /\ Queued(es, q, b) /\ Served(es, x, a, b)
    /\ Started(q, x, ws, s) /\ Carried(es, s, a, sent)

\* The events reported and not transferred are on their way in their order.
InOrder == InOrderOf(emitted, posted, exec, writes, Len(wire))

\* What the threads may run.
Execs == [IoThreads -> {<<>>} \cup {<<h>> : h \in HandlerRecord}]

\* What is posted next does not disturb what has been started.
LEMMA StartedAppend ==
  ASSUME NEW q \in Seq(HandlerRecord), NEW h \in HandlerRecord,
         h.do # "resume", NEW x, NEW ws, NEW s, Started(q, x, ws, s)
  PROVE  Started(Append(q, h), x, ws, s)
<1> DEFINE r == Append(q, h)
<1>1. /\ Len(q) \in Nat /\ Len(r) = Len(q) + 1 /\ r[Len(q) + 1] = h
      /\ \A i \in 1 .. Len(q) : r[i] = q[i]
  BY AppendProperties, LenProperties
<1>2. \A i \in 1 .. Len(r) : i \in 1 .. Len(q) \/ r[i] = h
  BY <1>1
<1> HIDE DEF r
<1>3. NoResume(q, x) => NoResume(r, x)
  BY <1>1, <1>2 DEF NoResume
<1>4. \A op : OnlyResume(q, x, op) => OnlyResume(r, x, op)
  <2> SUFFICES ASSUME NEW op, OnlyResume(q, x, op) PROVE OnlyResume(r, x, op)
    OBVIOUS
  <2>1. CASE \A i \in 1 .. Len(q) : q[i].do # "resume"
    BY <1>1, <1>2, <2>1 DEF OnlyResume
  <2>2. ASSUME NEW i \in 1 .. Len(q), q[i] = op,
               \A j \in 1 .. Len(q) : q[j].do = "resume" => j = i,
               \A t \in IoThreads : ~Does(x, t, {"resume"})
        PROVE  OnlyResume(r, x, op)
    <3>1. i \in 1 .. Len(r) /\ r[i] = op
      BY <1>1, <2>2
    <3>2. \A j \in 1 .. Len(r) : r[j].do = "resume" => j = i
      BY <1>1, <1>2, <2>2
    <3> QED
      BY <3>1, <3>2, <2>2 DEF OnlyResume
  <2> QED
    BY <2>1, <2>2 DEF OnlyResume
<1> QED
  BY <1>3, <1>4 DEF Started, r

\* What a thread carries is the same after further reports.
LEMMA ServedExtends ==
  ASSUME NEW es, NEW es2, Extends(es2, es), NEW x \in Execs,
         NEW a \in 0 .. Len(es), NEW b \in 0 .. Len(es), Served(es, x, a, b)
  PROVE  Served(es2, x, a, b)
<1>1. ASSUME NEW t \in IoThreads, Does(x, t, Carrying)
      PROVE  Carries(es2, x[t][1], a, b)
  <2>1. x[t][1] \in HandlerRecord
    BY <1>1 DEF Does, Execs
  <2>2. Carries(es, x[t][1], a, b)
    BY <1>1 DEF Served
  <2> QED
    BY <2>1, <2>2, CarriesExtends
<1> QED
  BY <1>1 DEF Served

\* What the writes carry is the same after further reports.
LEMMA CarriedExtends ==
  ASSUME NEW es, NEW es2, Extends(es2, es), NEW s \in Seq(Op),
         NEW a \in 0 .. Len(es), NEW sent, Carried(es, s, a, sent)
  PROVE  Carried(es2, s, a, sent)
<1>1. Len(es) \in Nat /\ Len(s) \in Nat
  BY LenProperties DEF Extends
<1>2. \A i \in 1 .. Len(s) : a - Len(s) + i \in 1 .. Len(es)
  BY <1>1 DEF Carried
<1> QED
  BY <1>2 DEF Carried, Extends

\* The task reports events and posts the handler that carries them, or the
\* socket posts the completion of a write.
LEMMA InOrderAppend ==
  ASSUME NEW es, NEW es2, Extends(es2, es), NEW q \in Seq(HandlerRecord),
         NEW h \in HandlerRecord, h.do # "resume",
         Carries(es2, h, Len(es), Len(es2)),
         NEW x \in Execs, NEW ws, NEW sent, InOrderOf(es, q, x, ws, sent)
  PROVE  InOrderOf(es2, Append(q, h), x, ws, sent)
<1>1. PICK b \in 0 .. Len(es), a \in 0 .. Len(es), s \in Seq(Op) :
        /\ Queued(es, q, b) /\ Served(es, x, a, b)
        /\ Started(q, x, ws, s) /\ Carried(es, s, a, sent)
  BY DEF InOrderOf
<1>2. a \in 0 .. Len(es2) /\ b \in 0 .. Len(es2)
  BY LenProperties DEF Extends
<1>3. Queued(es2, Append(q, h), b)
  BY <1>1, QueuedAppend
<1>4. Served(es2, x, a, b) /\ Carried(es2, s, a, sent)
  BY <1>1, ServedExtends, CarriedExtends
<1>5. Started(Append(q, h), x, ws, s)
  BY <1>1, StartedAppend
<1> QED
  BY <1>1, <1>2, <1>3, <1>4, <1>5 DEF InOrderOf

\* At most one thread is about to write.
AtMostOne(x) ==
  \A t, u \in IoThreads :
    Does(x, t, Carrying \cup {"resume"}) /\ Does(x, u, Carrying \cup {"resume"})
    => t = u

\* An idle thread takes the oldest handler.
LEMMA InOrderTake ==
  ASSUME NEW es \in Seq(Events), NEW q \in Seq(HandlerRecord), q # <<>>,
         NEW x \in Execs, NEW t \in IoThreads, x[t] = <<>>,
         AtMostOne([x EXCEPT ![t] = <<Head(q)>>]),
         NEW ws, NEW sent, InOrderOf(es, q, x, ws, sent)
  PROVE  InOrderOf(es, Tail(q), [x EXCEPT ![t] = <<Head(q)>>], ws, sent)
<1> DEFINE h == Head(q)
           r == Tail(q)
           y == [x EXCEPT ![t] = <<h>>]
<1>1. PICK b \in 0 .. Len(es), a \in 0 .. Len(es), s \in Seq(Op) :
        /\ Queued(es, q, b) /\ Served(es, x, a, b)
        /\ Started(q, x, ws, s) /\ Carried(es, s, a, sent)
  BY DEF InOrderOf
<1>2. PICK c \in 0 .. Len(es) : Carries(es, h, b, c) /\ Queued(es, r, c)
  BY <1>1, QueuedTail
<1>3. /\ h \in HandlerRecord /\ h = q[1] /\ Len(q) \in Nat \ {0} /\ Len(r) = Len(q) - 1
      /\ \A i \in 1 .. Len(r) : r[i] = q[i + 1]
  BY HeadTailProperties, EmptySeq
<1>11. 1 \in 1 .. Len(q) /\ \A i \in 1 .. Len(r) : i + 1 \in 1 .. Len(q)
  BY <1>3
<1>4. y[t] = <<h>> /\ \A u \in IoThreads : u # t => y[u] = x[u]
  BY DEF Execs
<1> HIDE DEF h, r, y
<1>5. \A dos : Does(y, t, dos) <=> h.do \in dos
  BY <1>4 DEF Does
<1>6. \A u \in IoThreads : \A dos : u # t => (Does(y, u, dos) <=> Does(x, u, dos))
  BY <1>4 DEF Does
<1>7. \A dos : ~Does(x, t, dos)
  BY DEF Does
<1>8. AtMostOne(y)
  BY DEF y, h
<1>9. \E d \in 0 .. Len(es) : d = a /\ Served(es, y, d, c)
  <2>1. CASE h.do \in Carrying
    <3>1. \A u \in IoThreads : u # t => ~Does(x, u, Carrying)
      BY <1>5, <1>6, <1>8, <2>1 DEF AtMostOne, Does
    <3>2. a = b
      BY <3>1, <1>7, <1>1 DEF Served
    <3>3. \A u \in IoThreads : Does(y, u, Carrying) => u = t
      BY <3>1, <1>6
    <3> QED
      BY <3>2, <3>3, <2>1, <1>2, <1>4, <1>5 DEF Served
  <2>2. CASE h.do \notin Carrying
    <3>1. c = b
      BY <1>2, <2>2 DEF Carries, Carrying
    <3>2. \A u \in IoThreads : Does(y, u, Carrying) <=> Does(x, u, Carrying)
      BY <2>2, <1>5, <1>6, <1>7
    <3>3. \A u \in IoThreads : Does(y, u, Carrying) => y[u] = x[u]
      BY <1>4, <1>5, <2>2
    <3> QED
      BY <3>1, <3>2, <3>3, <1>1 DEF Served
  <2> QED
    BY <2>1, <2>2
<1>10. Started(r, y, ws, s)
  <2>1. CASE s = ws /\ NoResume(q, x)
    <3>1. h.do # "resume" /\ \A i \in 1 .. Len(r) : r[i].do # "resume"
      <4>1. q[1].do # "resume"
        BY <1>11, <2>1 DEF NoResume
      <4>2. ASSUME NEW i \in 1 .. Len(r) PROVE q[i + 1].do # "resume"
        BY <1>11, <2>1 DEF NoResume
      <4> QED
        BY <1>3, <4>1, <4>2
    <3>2. \A u \in IoThreads : ~Does(y, u, {"resume"})
      BY <3>1, <1>5, <1>6, <2>1 DEF NoResume
    <3> QED
      BY <2>1, <3>1, <3>2 DEF Started, NoResume
  <2>2. ASSUME ws = <<>>, NEW op \in Op, s = <<op>>, op.do = "resume",
               OnlyResume(q, x, op)
        PROVE  Started(r, y, ws, s)
    <3>1. CASE /\ \A i \in 1 .. Len(q) : q[i].do # "resume"
               /\ \E u \in IoThreads :
                    x[u] = <<op>> /\ \A v \in IoThreads : Does(x, v, {"resume"}) => v = u
      <4>1. PICK u \in IoThreads :
              /\ x[u] = <<op>>
              /\ \A v \in IoThreads : Does(x, v, {"resume"}) => v = u
        BY <3>1
      <4>2. h.do # "resume" /\ \A i \in 1 .. Len(r) : r[i].do # "resume"
        <5>1. q[1].do # "resume"
          BY <1>11, <3>1
        <5>2. ASSUME NEW i \in 1 .. Len(r) PROVE r[i].do # "resume"
          <6>1. i + 1 \in 1 .. Len(q)
            BY <1>11
          <6>2. q[i + 1].do # "resume"
            BY <6>1, <3>1
          <6> QED
            BY <1>3, <6>2
        <5> QED
          BY <1>3, <5>1, <5>2
      <4>3. u # t /\ y[u] = <<op>>
        <5>1. <<op>> # <<>>
          OBVIOUS
        <5> QED
          BY <4>1, <5>1, <1>4
      <4>4. \A v \in IoThreads : Does(y, v, {"resume"}) => v = u
        BY <4>1, <4>2, <1>5, <1>6
      <4> QED
        BY <2>2, <4>2, <4>3, <4>4 DEF Started, OnlyResume
    <3>2. ASSUME NEW i \in 1 .. Len(q), q[i] = op,
                 \A j \in 1 .. Len(q) : q[j].do = "resume" => j = i,
                 \A u \in IoThreads : ~Does(x, u, {"resume"})
          PROVE  Started(r, y, ws, s)
      <4>1. CASE i = 1
        <5>1. h = op /\ \A j \in 1 .. Len(r) : r[j].do # "resume"
          BY <1>3, <3>2, <4>1
        <5>2. \A v \in IoThreads : Does(y, v, {"resume"}) => v = t
          BY <1>6, <3>2
        <5> QED
          BY <2>2, <5>1, <5>2, <1>4 DEF Started, OnlyResume
      <4>2. CASE i # 1
        <5>1. h.do # "resume"
          <6>1. 1 \in 1 .. Len(q) /\ h = q[1]
            BY <1>3
          <6> QED
            BY <3>2, <4>2, <6>1
        <5>2. \A v \in IoThreads : ~Does(y, v, {"resume"})
          BY <5>1, <1>5, <1>6, <3>2
        <5>3. i - 1 \in 1 .. Len(r) /\ r[i - 1] = op
          BY <1>3, <3>2, <4>2
        <5>4. \A j \in 1 .. Len(r) : r[j].do = "resume" => j = i - 1
          <6> SUFFICES ASSUME NEW j \in 1 .. Len(r), r[j].do = "resume"
                       PROVE  j = i - 1
            OBVIOUS
          <6>1. j + 1 = i
            BY <1>3, <1>11, <3>2
          <6> QED
            BY <6>1
        <5> QED
          BY <2>2, <5>2, <5>3, <5>4 DEF Started, OnlyResume
      <4> QED
        BY <4>1, <4>2
    <3> QED
      BY <2>2, <3>1, <3>2 DEF OnlyResume
  <2> QED
    BY <1>1, <2>1, <2>2 DEF Started
<1> QED
  BY <1>1, <1>2, <1>9, <1>10 DEF InOrderOf, r, y, h

\* A thread has run the completion handler of a write.
LEMMA InOrderCompletion ==
  ASSUME NEW es \in Seq(Events), NEW q \in Seq(HandlerRecord), NEW x \in Execs,
         NEW t \in IoThreads, ~Does(x, t, Carrying), ~Does(x, t, {"resume"}),
         NEW ws, NEW sent, InOrderOf(es, q, x, ws, sent)
  PROVE  InOrderOf(es, q, [x EXCEPT ![t] = <<>>], ws, sent)
<1> DEFINE y == [x EXCEPT ![t] = <<>>]
<1>1. PICK b \in 0 .. Len(es), a \in 0 .. Len(es), s \in Seq(Op) :
        /\ Queued(es, q, b) /\ Served(es, x, a, b)
        /\ Started(q, x, ws, s) /\ Carried(es, s, a, sent)
  BY DEF InOrderOf
<1>2. y[t] = <<>> /\ \A u \in IoThreads : u # t => y[u] = x[u]
  BY DEF Execs
<1> HIDE DEF y
<1>3. \A u \in IoThreads, dos \in {Carrying, {"resume"}} :
        Does(y, u, dos) <=> Does(x, u, dos)
  BY <1>2 DEF Does
<1>4. \A u \in IoThreads : Does(y, u, Carrying) => y[u] = x[u]
  BY <1>2 DEF Does
<1>5. Served(es, y, a, b)
  BY <1>1, <1>3, <1>4 DEF Served
<1>6. NoResume(q, x) => NoResume(q, y)
  BY <1>3 DEF NoResume
<1>7. ASSUME NEW op \in Op, op.do = "resume", OnlyResume(q, x, op)
      PROVE  OnlyResume(q, y, op)
  <2>1. ASSUME NEW u \in IoThreads, x[u] = <<op>>
        PROVE  y[u] = <<op>>
    <3>1. Does(x, u, {"resume"})
      BY <1>7, <2>1 DEF Does
    <3> QED
      BY <3>1, <2>1, <1>2
  <2> QED
    BY <1>3, <1>7, <2>1 DEF OnlyResume
<1>8. Started(q, y, ws, s)
  BY <1>1, <1>6, <1>7 DEF Started
<1> QED
  BY <1>1, <1>5, <1>8 DEF InOrderOf, y

\* A thread starts the writes m for what its handler carries; no write waits
\* for its next part.
LEMMA InOrderStart ==
  ASSUME NEW es \in Seq(Events), NEW q \in Seq(HandlerRecord), NEW x \in Execs,
         NEW t \in IoThreads, Does(x, t, Carrying), AtMostOne(x), NoResume(q, x),
         NEW m \in Seq(Op), NEW ws \in Seq(Op), NEW sent, InOrderOf(es, q, x, ws, sent),
         m # <<>>, \A i \in 1 .. Len(m) : m[i].do = "send" /\ m[i].from = 1,
         \A a \in 0 .. Len(es), b \in 0 .. Len(es) :
           Carries(es, x[t][1], a, b) =>
             b = a + Len(m) /\ \A i \in 1 .. Len(m) : es[a + i] = m[i].event
  PROVE  InOrderOf(es, q, [x EXCEPT ![t] = <<>>], ws \o m, sent)
<1> DEFINE y == [x EXCEPT ![t] = <<>>]
           s2 == ws \o m
<1>1. PICK b \in 0 .. Len(es), a \in 0 .. Len(es), s \in Seq(Op) :
        /\ Queued(es, q, b) /\ Served(es, x, a, b)
        /\ Started(q, x, ws, s) /\ Carried(es, s, a, sent)
  BY DEF InOrderOf
<1>2. y[t] = <<>> /\ \A u \in IoThreads : u # t => y[u] = x[u]
  BY DEF Execs
<1>3. /\ s2 \in Seq(Op) /\ Len(s2) = Len(ws) + Len(m)
      /\ \A i \in 1 .. Len(ws) + Len(m) :
           s2[i] = IF i <= Len(ws) THEN ws[i] ELSE m[i - Len(ws)]
  BY ConcatProperties
<1>4. Len(ws) \in Nat /\ Len(m) \in Nat \ {0} /\ Len(es) \in Nat
  BY LenProperties, EmptySeq
<1> HIDE DEF y, s2
<1>5. \A u \in IoThreads : ~Does(y, u, Carrying)
  BY <1>2 DEF Does, AtMostOne
<1>6. NoResume(q, y)
  BY <1>2 DEF NoResume, Does
<1>7. s = ws
  <2>1. ASSUME NEW op, op.do = "resume", OnlyResume(q, x, op)
        PROVE  FALSE
    <3>1. \A u \in IoThreads : x[u] # <<op>>
      <4>1. <<op>> # <<>> /\ <<op>>[1] = op
        OBVIOUS
      <4> QED
        BY <2>1, <4>1 DEF NoResume, Does
    <3>2. \A i \in 1 .. Len(q) : q[i] # op
      BY <2>1 DEF NoResume
    <3> QED
      BY <2>1, <3>1, <3>2 DEF OnlyResume
  <2> QED
    BY <1>1, <2>1 DEF Started
<1>8. b = a + Len(m) /\ \A i \in 1 .. Len(m) : es[a + i] = m[i].event
  BY <1>1 DEF Served
<1>9. Served(es, y, b, b)
  BY <1>5 DEF Served
<1>10. Started(q, y, s2, s2)
  BY <1>6 DEF Started
<1>11. Carried(es, s2, b, sent)
  <2>1. Len(s2) <= b /\ b - Len(s2) = a - Len(ws)
    BY <1>1, <1>3, <1>4, <1>7, <1>8 DEF Carried
  <2>2. ASSUME NEW i \in 1 .. Len(s2)
        PROVE  /\ es[b - Len(s2) + i] = s2[i].event
               /\ s2[i].do = "send" => s2[i].from = 1
               /\ i > 1 => s2[i].do = "send"
    <3>0. i \in 1 .. Len(ws) + Len(m)
      BY <1>3
    <3>1. CASE i <= Len(ws)
      <4>1. i \in 1 .. Len(ws) /\ s2[i] = ws[i]
        BY <3>0, <1>3, <1>4, <3>1
      <4> QED
        BY <2>1, <4>1, <1>1, <1>7 DEF Carried
    <3>2. CASE i > Len(ws)
      <4>1. i - Len(ws) \in 1 .. Len(m) /\ s2[i] = m[i - Len(ws)]
        BY <3>0, <1>3, <1>4, <3>2
      <4>2. b - Len(s2) + i = a + (i - Len(ws))
        BY <3>0, <1>3, <1>4, <2>1
      <4> QED
        BY <4>1, <4>2, <1>8
    <3> QED
      BY <3>0, <3>1, <3>2, <1>4
  <2>3. sent = (b - Len(s2)) * Pieces + (IF s2 = <<>> THEN 0 ELSE s2[1].from - 1)
    <3>1. s2 # <<>>
      BY <1>3, <1>4, EmptySeq
    <3>2. CASE ws = <<>>
      <4>1. s2[1] = m[1] /\ m[1].from = 1
        BY <1>3, <1>4, <3>2, EmptySeq
      <4> QED
        BY <2>1, <3>1, <3>2, <4>1, <1>1, <1>7 DEF Carried
    <3>3. CASE ws # <<>>
      <4>1. s2[1] = ws[1]
        BY <1>3, <1>4, <3>3, EmptySeq
      <4> QED
        BY <2>1, <3>1, <3>3, <4>1, <1>1, <1>7 DEF Carried
    <3> QED
      BY <3>2, <3>3
  <2> QED
    BY <2>1, <2>2, <2>3 DEF Carried
<1> QED
  BY <1>1, <1>3, <1>9, <1>10, <1>11 DEF InOrderOf, y, s2

\* A thread starts the next part of a write.
LEMMA InOrderResume ==
  ASSUME NEW es \in Seq(Events), NEW q \in Seq(HandlerRecord), NEW x \in Execs,
         NEW t \in IoThreads, Does(x, t, {"resume"}),
         NEW ws \in Seq(Op), NEW sent, InOrderOf(es, q, x, ws, sent)
  PROVE  InOrderOf(es, q, [x EXCEPT ![t] = <<>>], Append(ws, x[t][1]), sent)
<1> DEFINE y == [x EXCEPT ![t] = <<>>]
<1>1. PICK b \in 0 .. Len(es), a \in 0 .. Len(es), s \in Seq(Op) :
        /\ Queued(es, q, b) /\ Served(es, x, a, b)
        /\ Started(q, x, ws, s) /\ Carried(es, s, a, sent)
  BY DEF InOrderOf
<1>2. y[t] = <<>> /\ \A u \in IoThreads : u # t => y[u] = x[u]
  BY DEF Execs
<1> HIDE DEF y
<1>3. PICK op \in Op : ws = <<>> /\ s = <<op>> /\ op.do = "resume" /\ OnlyResume(q, x, op)
  BY <1>1 DEF Started, NoResume
<1>4. \A i \in 1 .. Len(q) : q[i].do # "resume"
  BY <1>3 DEF OnlyResume
<1>5. x[t] = <<op>> /\ \A u \in IoThreads : Does(x, u, {"resume"}) => u = t
  BY <1>3 DEF OnlyResume
<1>6. Append(ws, x[t][1]) = s
  BY <1>3, <1>5
<1>7. NoResume(q, y)
  BY <1>2, <1>4, <1>5 DEF NoResume, Does
<1>8. Started(q, y, s, s)
  BY <1>7 DEF Started
<1>9. ~Does(x, t, Carrying) /\ ~Does(y, t, Carrying)
  BY <1>2, <1>3, <1>5 DEF Does, Carrying
<1>10. Served(es, y, a, b)
  <2>1. \A u \in IoThreads : Does(y, u, Carrying) <=> Does(x, u, Carrying)
    BY <1>2, <1>9 DEF Does
  <2>2. \A u \in IoThreads : Does(y, u, Carrying) => y[u] = x[u]
    BY <1>2, <1>9
  <2> QED
    BY <2>1, <2>2, <1>1 DEF Served
<1> QED
  BY <1>1, <1>6, <1>8, <1>10 DEF InOrderOf, y

-----------------------------------------------------------------------------
(* What a transfer does to the wire.                                       *)

\* The oldest of the writes that wait in the socket carries event number k, and
\* its first part is the next one of the wire.
HeadAt(es, q, x, ws, sent, b, a, k) ==
  /\ Queued(es, q, b) /\ Served(es, x, a, b)
  /\ NoResume(q, x) /\ Carried(es, ws, a, sent)
  /\ k = a - Len(ws) + 1 /\ es[k] = ws[1].event
  /\ sent = (k - 1) * Pieces + ws[1].from - 1

\* In order, the oldest write carries on where the wire ends.
LEMMA InOrderHead ==
  ASSUME NEW es \in Seq(Events), NEW q \in Seq(HandlerRecord), NEW x \in Execs,
         NEW ws \in Seq(Op), ws # <<>>, NEW sent, InOrderOf(es, q, x, ws, sent)
  PROVE  \E b \in 0 .. Len(es), a \in 0 .. Len(es), k \in 1 .. Len(es) :
           HeadAt(es, q, x, ws, sent, b, a, k)
<1>1. PICK b \in 0 .. Len(es), a \in 0 .. Len(es), s \in Seq(Op) :
        /\ Queued(es, q, b) /\ Served(es, x, a, b)
        /\ Started(q, x, ws, s) /\ Carried(es, s, a, sent)
  BY DEF InOrderOf
<1>2. s = ws /\ NoResume(q, x)
  BY <1>1 DEF Started
<1>3. Len(ws) \in Nat \ {0} /\ Len(es) \in Nat
  BY EmptySeq, LenProperties
<1>4. Len(ws) <= a /\ es[a - Len(ws) + 1] = ws[1].event
  <2>1. 1 \in 1 .. Len(ws) /\ Carried(es, ws, a, sent)
    BY <1>1, <1>2, <1>3
  <2> QED
    BY <2>1 DEF Carried
<1>5. sent = (a - Len(ws)) * Pieces + (ws[1].from - 1) /\ ws[1] \in Op
  BY <1>1, <1>2, <1>3, ElementOfSeq DEF Carried
<1>6. (a - Len(ws)) * Pieces \in Nat /\ ws[1].from \in Nat
  <2>1. a - Len(ws) \in Nat
    BY <1>3, <1>4
  <2> QED
    BY <2>1, <1>5, TimesMonotone, EventNumbers DEF Op
<1>7. a - Len(ws) + 1 \in 1 .. Len(es) /\ a - Len(ws) + 1 - 1 = a - Len(ws)
  BY <1>3, <1>4
<1>8. sent = (a - Len(ws)) * Pieces + ws[1].from - 1
  BY <1>5, <1>6
<1> DEFINE k == a - Len(ws) + 1
<1>9. k \in 1 .. Len(es) /\ HeadAt(es, q, x, ws, sent, b, a, k)
  BY <1>1, <1>2, <1>4, <1>7, <1>8 DEF HeadAt
<1> QED
  BY <1>9

\* The next n parts of an event.
LEMMA PartType ==
  ASSUME NEW P \in Nat, NEW E, NEW e \in E, NEW f \in 1 .. P, NEW n \in 1 .. P,
         f + n <= P + 1
  PROVE  LET part == [i \in 1 .. n |-> <<e, f + i - 1>>]
         IN part \in Seq(E \X (1 .. P)) /\ Len(part) = n
<1>1. n \in Nat /\ \A i \in 1 .. n : f + i - 1 \in 1 .. P
  OBVIOUS
<1> QED
  BY <1>1

\* So the wire stays a part of what has been reported.
LEMMA WireExtends ==
  ASSUME NEW es \in Seq(Events), NEW w \in Seq(Events \X (1 .. Pieces)),
         BytesOf(w, es), NEW k \in 1 .. Len(es), NEW f \in 1 .. Pieces,
         Len(w) = (k - 1) * Pieces + f - 1, NEW n \in 1 .. Pieces, f + n <= Pieces + 1,
         NEW e \in Events, es[k] = e
  PROVE  BytesOf(w \o [i \in 1 .. n |-> <<e, f + i - 1>>], es)
<1> DEFINE part == [i \in 1 .. n |-> <<e, f + i - 1>>]
           v == w \o part
<1>1. /\ Len(es) \in Nat /\ Len(w) \in Nat /\ Pieces \in Nat \ {0} /\ k - 1 \in Nat
      /\ (k - 1) * Pieces \in Nat
  BY LenProperties, EventNumbers
<1>2. part \in Seq(Events \X (1 .. Pieces)) /\ Len(part) = n
  BY <1>1, PartType
<1>3. \A i \in 1 .. n : part[i] = <<e, f + i - 1>>
  OBVIOUS
<1> HIDE DEF part
<1>4. /\ Len(v) = Len(w) + n
      /\ \A i \in 1 .. Len(w) + n : v[i] = IF i <= Len(w) THEN w[i] ELSE part[i - Len(w)]
  BY <1>2, ConcatProperties
<1> HIDE DEF v
<1>5. Len(v) <= Len(es) * Pieces
  <2>1. Len(v) <= (k - 1) * Pieces + Pieces
    BY <1>1, <1>4
  <2>2. (k - 1) * Pieces + Pieces = k * Pieces
    BY <1>1
  <2>3. k * Pieces <= Len(es) * Pieces
    <3>1. k \in Nat /\ k <= Len(es)
      BY <1>1
    <3> QED
      BY <1>1, <3>1, TimesMonotone
  <2> QED
    BY <1>1, <1>4, <2>1, <2>2, <2>3
<1>6. ASSUME NEW i \in 1 .. Len(v)
      PROVE  v[i] = Bytes(es)[i]
  <2>1. CASE i <= Len(w)
    BY <1>1, <1>4, <2>1 DEF BytesOf
  <2>2. CASE i > Len(w)
    <3> DEFINE j == i - Len(w)
               r == f + j - 2
    <3>1. j \in 1 .. n /\ v[i] = <<e, f + j - 1>>
      <4>1. j \in 1 .. n /\ i \in 1 .. Len(w) + n
        BY <1>1, <1>4, <2>2
      <4>2. v[i] = part[j]
        BY <4>1, <1>4, <1>1, <2>2
      <4> QED
        BY <4>1, <4>2, <1>3
    <3>2. i - 1 = (k - 1) * Pieces + r /\ r \in 0 .. Pieces - 1 /\ r + 1 = f + j - 1
      BY <1>1, <3>1
    <3>3. (i - 1) \div Pieces = k - 1 /\ (i - 1) % Pieces = r
      <4> HIDE DEF r
      <4>1. /\ ((k - 1) * Pieces + r) \div Pieces = k - 1
            /\ ((k - 1) * Pieces + r) % Pieces = r
        BY <1>1, <3>2, PieceAt
      <4> QED
        BY <3>2, <4>1
    <3>4. i \in 1 .. Len(es) * Pieces
      <4>1. i \in 1 .. Len(v)
        OBVIOUS
      <4> DEFINE m == Len(es) * Pieces
      <4>2. Len(v) \in Nat /\ m \in Nat /\ Len(v) <= m
        BY <1>1, <1>4, <1>5
      <4> HIDE DEF m
      <4>3. i \in 1 .. m
        BY <4>1, <4>2
      <4> QED
        BY <4>3 DEF m
    <3>5. Bytes(es)[i] = <<es[((i - 1) \div Pieces) + 1], ((i - 1) % Pieces) + 1>>
      BY <3>4 DEF Bytes
    <3>6. ((i - 1) \div Pieces) + 1 = k /\ ((i - 1) % Pieces) + 1 = f + j - 1
      <4>1. k - 1 + 1 = k /\ r + 1 = f + j - 1
        BY <1>1, <3>2
      <4> QED
        BY <3>3, <4>1
    <3> QED
      BY <3>1, <3>5, <3>6
  <2> QED
    BY <2>1, <2>2, <1>1, <1>4
<1> QED
  BY <1>5, <1>6 DEF BytesOf, v, part

\* The socket has taken the last parts of the oldest write.
LEMMA InOrderWritten ==
  ASSUME NEW es \in Seq(Events), NEW q \in Seq(HandlerRecord), NEW x \in Execs,
         NEW ws \in Seq(Op), ws # <<>>, NEW sent, InOrderOf(es, q, x, ws, sent),
         NEW n \in 1 .. Pieces, ws[1].from + n = Pieces + 1,
         NEW h \in HandlerRecord, h.do = "written"
  PROVE  /\ InOrderOf(es, Append(q, h), x, Tail(ws), sent + n)
         /\ \E k \in 1 .. Len(es) : es[k] = ws[1].event /\ sent + n = k * Pieces
<1>1. PICK b \in 0 .. Len(es), a \in 0 .. Len(es), k \in 1 .. Len(es) :
        HeadAt(es, q, x, ws, sent, b, a, k)
  BY InOrderHead
<1> DEFINE s == Tail(ws)
<1>2. /\ s \in Seq(Op) /\ Len(s) = Len(ws) - 1
      /\ \A i \in 1 .. Len(s) : s[i] = ws[i + 1]
      /\ Len(ws) \in Nat \ {0} /\ Len(es) \in Nat
  BY HeadTailProperties, EmptySeq, LenProperties
<1> HIDE DEF s
<1>9. ws[1] \in Op
  BY <1>2, ElementOfSeq
<1>3. sent + n = k * Pieces
  <2>1. ws[1].from \in Nat /\ n \in Nat /\ Pieces \in Nat /\ k - 1 \in Nat
    BY <1>2, <1>9, EventNumbers DEF Op
  <2>2. (k - 1) * Pieces \in Nat
    BY <2>1, TimesMonotone
  <2>3. (k - 1) * Pieces + Pieces = k * Pieces
    BY <2>1
  <2>4. sent = (k - 1) * Pieces + ws[1].from - 1
    BY <1>1 DEF HeadAt
  <2> DEFINE m == (k - 1) * Pieces
  <2>5. m \in Nat /\ sent = m + ws[1].from - 1 /\ m + Pieces = k * Pieces
    BY <2>2, <2>3, <2>4
  <2>6. sent + n = m + Pieces
    <3> DEFINE f == ws[1].from
    <3>1. /\ f \in Nat /\ f + n = Pieces + 1 /\ sent = m + f - 1
          /\ m \in Nat /\ n \in Nat /\ Pieces \in Nat
      BY <2>1, <2>5
    <3> HIDE DEF m, f
    <3> QED
      BY <3>1
  <2> QED
    BY <2>5, <2>6
<1>4. Extends(es, es)
  BY LenProperties DEF Extends
<1>5. Queued(es, Append(q, h), b)
  <2>1. Carries(es, h, Len(es), Len(es))
    BY DEF Carries
  <2> QED
    BY <1>1, <1>4, <2>1, QueuedAppend DEF HeadAt
<1>6. Started(Append(q, h), x, s, s)
  <2>1. Started(q, x, s, s)
    BY <1>1 DEF HeadAt, Started
  <2>2. h.do # "resume"
    OBVIOUS
  <2> HIDE DEF s
  <2> QED
    BY <2>1, <2>2, StartedAppend
<1>7. Carried(es, s, a, sent + n)
  <2>1. Len(s) <= a /\ a - Len(s) = k
    BY <1>1, <1>2 DEF HeadAt, Carried
  <2>2. ASSUME NEW i \in 1 .. Len(s)
        PROVE  /\ es[a - Len(s) + i] = s[i].event
               /\ s[i].do = "send" /\ s[i].from = 1
    <3>1. i \in 1 .. Len(s) /\ a \in Nat /\ Len(s) = Len(ws) - 1 /\ Len(ws) \in Nat
      BY <1>2
    <3>2. i + 1 \in 1 .. Len(ws) /\ i + 1 > 1
      BY <3>1
    <3>3. a - Len(s) + i = a - Len(ws) + (i + 1)
      BY <3>1
    <3>4. s[i] = ws[i + 1]
      BY <1>2
    <3>5. Carried(es, ws, a, sent)
      BY <1>1 DEF HeadAt
    <3> QED
      BY <3>2, <3>3, <3>4, <3>5 DEF Carried
  <2>3. sent + n = (a - Len(s)) * Pieces + (IF s = <<>> THEN 0 ELSE s[1].from - 1)
    <3>1. s # <<>> => s[1].from - 1 = 0
      BY <1>2, <2>2, EmptySeq
    <3>2. k * Pieces \in Nat /\ k * Pieces + 0 = k * Pieces
      BY EventNumbers
    <3> QED
      BY <1>3, <2>1, <3>1, <3>2
  <2> QED
    BY <2>1, <2>2, <2>3 DEF Carried
<1> QED
  BY <1>1, <1>2, <1>3, <1>5, <1>6, <1>7 DEF HeadAt, InOrderOf, s

\* The socket has taken a part of its only write.
LEMMA InOrderPart ==
  ASSUME NEW es \in Seq(Events), NEW q \in Seq(HandlerRecord), NEW x \in Execs,
         NEW op \in Op, NEW sent, InOrderOf(es, q, x, <<op>>, sent),
         NEW n \in 1 .. Pieces, NEW h \in Op, h.do = "resume",
         h.event = op.event, h.from = op.from + n, h \in HandlerRecord
  PROVE  InOrderOf(es, Append(q, h), x, <<>>, sent + n)
<1> DEFINE ws == <<op>>
<1>1. ws \in Seq(Op) /\ ws # <<>> /\ Len(ws) = 1 /\ ws[1] = op
  OBVIOUS
<1> HIDE DEF ws
<1>2. PICK b \in 0 .. Len(es), a \in 0 .. Len(es), k \in 1 .. Len(es) :
        HeadAt(es, q, x, ws, sent, b, a, k)
  <2>1. InOrderOf(es, q, x, ws, sent)
    BY DEF ws
  <2> QED
    BY <1>1, <2>1, InOrderHead
<1> DEFINE s == <<h>>
           r == Append(q, h)
<1>3. s \in Seq(Op) /\ Len(s) = 1 /\ s[1] = h /\ s # <<>>
  OBVIOUS
<1> HIDE DEF s
<1>4. Extends(es, es)
  BY LenProperties DEF Extends
<1>5. Queued(es, r, b)
  <2>1. Carries(es, h, Len(es), Len(es))
    BY DEF Carries
  <2> QED
    BY <1>2, <1>4, <2>1, QueuedAppend DEF HeadAt
<1>6. /\ Len(q) \in Nat /\ Len(r) = Len(q) + 1 /\ r[Len(q) + 1] = h
      /\ \A i \in 1 .. Len(q) : r[i] = q[i]
  BY AppendProperties, LenProperties
<1> HIDE DEF r
<1>7. OnlyResume(r, x, h)
  <2>1. Len(q) + 1 \in 1 .. Len(r)
    BY <1>6
  <2>2. \A j \in 1 .. Len(r) : r[j].do = "resume" => j = Len(q) + 1
    <3> SUFFICES ASSUME NEW j \in 1 .. Len(r), j # Len(q) + 1
                 PROVE  r[j].do # "resume"
      OBVIOUS
    <3>1. j \in 1 .. Len(q)
      BY <1>6
    <3>2. r[j] = q[j]
      BY <1>6, <3>1
    <3>3. NoResume(q, x)
      BY <1>2 DEF HeadAt
    <3> QED
      BY <3>1, <3>2, <3>3 DEF NoResume
  <2> QED
    BY <1>2, <1>6, <2>1, <2>2 DEF HeadAt, OnlyResume, NoResume
<1>8. Started(r, x, <<>>, s)
  BY <1>7 DEF Started, s
<1>9. Carried(es, s, a, sent + n)
  <2>1. k = a /\ Len(s) <= a /\ a - Len(s) = k - 1 /\ a - Len(s) + 1 = a
    BY <1>1, <1>2, <1>3 DEF HeadAt
  <2>2. op.from \in Nat /\ n \in Nat /\ (k - 1) * Pieces \in Nat
    BY EventNumbers DEF Op
  <2>3. sent + n = (a - Len(s)) * Pieces + (h.from - 1)
    <3> DEFINE m == (k - 1) * Pieces
               f == op.from
    <3>1. sent = m + f - 1 /\ h.from = f + n
      BY <1>1, <1>2 DEF HeadAt
    <3>2. m \in Nat /\ f \in Nat /\ n \in Nat
      BY <2>2
    <3>3. (a - Len(s)) * Pieces = m
      BY <2>1
    <3> HIDE DEF m, f
    <3>4. sent + n = m + (h.from - 1)
      BY <3>1, <3>2
    <3> QED
      BY <3>3, <3>4
  <2> QED
    BY <1>1, <1>2, <1>3, <2>1, <2>3 DEF HeadAt, Carried
<1> QED
  BY <1>2, <1>3, <1>5, <1>8, <1>9 DEF HeadAt, InOrderOf, r

-----------------------------------------------------------------------------
(* What it means that no writes overlap.                                   *)

\* What is the beginning of some events is the beginning of more of them.
LEMMA BytesExtend ==
  ASSUME NEW es, NEW es2, Extends(es2, es), NEW w \in Seq(Events \X (1 .. Pieces)),
         BytesOf(w, es)
  PROVE  BytesOf(w, es2)
<1>1. Len(es) \in Nat /\ Len(es2) \in Nat /\ Pieces \in Nat \ {0} /\ Len(w) \in Nat
      /\ Len(es) <= Len(es2)
  BY LenProperties, EventNumbers DEF Extends
<1> DEFINE m == Len(es) * Pieces
           n == Len(es2) * Pieces
<1>2. m \in Nat /\ n \in Nat /\ m <= n
  BY <1>1, TimesMonotone
<1>3. Len(w) <= m
  BY DEF BytesOf
<1>4. ASSUME NEW i \in 1 .. Len(w)
      PROVE  w[i] = Bytes(es2)[i]
  <2> DEFINE k == ((i - 1) \div Pieces) + 1
  <2>1. i \in 1 .. m /\ i \in 1 .. n
    <3> HIDE DEF m, n
    <3> QED
      BY <1>1, <1>2, <1>3
  <2>2. k \in 1 .. Len(es)
    BY <1>1, <2>1, PieceOf
  <2>3. Bytes(es)[i] = <<es[k], ((i - 1) % Pieces) + 1>>
    BY <2>1 DEF Bytes
  <2>4. Bytes(es2)[i] = <<es2[k], ((i - 1) % Pieces) + 1>>
    BY <2>1 DEF Bytes
  <2>5. es2[k] = es[k]
    <3> HIDE DEF k
    <3> QED
      BY <2>2 DEF Extends
  <2> HIDE DEF k
  <2> QED
    BY <2>3, <2>4, <2>5 DEF BytesOf
<1>5. Len(w) <= n
  <2> HIDE DEF m, n
  <2> QED
    BY <1>1, <1>2, <1>3
<1> QED
  BY <1>4, <1>5 DEF BytesOf

\* The writes are apart: one thread at most writes, and nothing is written into
\* the middle of another write.
Apart ==
  /\ AtMostOne(exec)
  /\ (\E i \in 1 .. Len(writes) : writes[i].do = "send") => NoResume(posted, exec)

\* What the absence of an overlap says of the threads and of the socket.
LEMMA NoOverlap == StreamTypeOK /\ ~Overlap => Apart
<1> SUFFICES ASSUME StreamTypeOK, ~Overlap PROVE Apart
  OBVIOUS
<1>1. AtMostOne(exec)
  <2> DEFINE Busy == {t \in IoThreads :
                        /\ exec[t] # <<>>
                        /\ exec[t][1].do \in {"send", "fail", "resume"}}
  <2>1. ~(Cardinality(Busy) > 1)
    BY DEF Overlap
  <2>2. IsFiniteSet(Busy)
    BY SessionAssumption, FS_Subset
  <2> SUFFICES ASSUME NEW t \in IoThreads, NEW u \in IoThreads, t # u,
                      Does(exec, t, Carrying \cup {"resume"}),
                      Does(exec, u, Carrying \cup {"resume"})
               PROVE  FALSE
    BY DEF AtMostOne
  <2>3. t \in Busy /\ u \in Busy
    BY DEF Does, Carrying
  <2> HIDE DEF Busy
  <2>4. {t, u} \subseteq Busy
    BY <2>3
  <2>5. Cardinality({t, u}) <= Cardinality(Busy)
    BY <2>2, <2>4, FS_Subset
  <2>6. Cardinality({t, u}) = 2
    <3>1. Cardinality({t}) = 1 /\ IsFiniteSet({t})
      BY FS_Singleton
    <3>2. {t, u} = {t} \cup {u} /\ u \notin {t}
      OBVIOUS
    <3> QED
      BY <3>1, <3>2, FS_AddElement
  <2>7. Cardinality(Busy) \in Nat
    BY <2>2, FS_CardinalityType
  <2> QED
    BY <2>1, <2>5, <2>6, <2>7
<1>2. ASSUME NEW i \in 1 .. Len(writes), writes[i].do = "send"
      PROVE  NoResume(posted, exec)
  <2>1. DOMAIN writes = 1 .. Len(writes)
    BY LenProperties DEF StreamTypeOK
  <2>2. Partial = {}
    BY <1>2, <2>1 DEF Overlap
  <2>3. \A t \in IoThreads : ~Does(exec, t, {"resume"})
    BY <2>2 DEF Partial, Running, Does
  <2>4. ASSUME NEW j \in 1 .. Len(posted)
        PROVE  posted[j].do # "resume"
    <3> DEFINE all == writes \o posted
    <3>1. Op \subseteq HandlerRecord
      BY DEF Op, HandlerRecord
    <3>2. writes \in Seq(HandlerRecord) /\ posted \in Seq(HandlerRecord)
      BY <3>1, SeqMonotonic DEF StreamTypeOK
    <3>3. /\ all \in Seq(HandlerRecord) /\ Len(all) = Len(writes) + Len(posted)
          /\ \A k \in 1 .. Len(writes) + Len(posted) :
               all[k] = IF k <= Len(writes) THEN writes[k] ELSE posted[k - Len(writes)]
      BY <3>2, ConcatProperties
    <3>4. Len(writes) \in Nat /\ Len(posted) \in Nat /\ DOMAIN all = 1 .. Len(all)
      BY <3>2, <3>3, LenProperties
    <3> HIDE DEF all
    <3>5. Len(writes) + j \in DOMAIN all /\ all[Len(writes) + j] = posted[j]
      BY <3>3, <3>4
    <3>6. posted[j] \in ToSet(all)
      BY <3>5 DEF ToSet
    <3> QED
      BY <2>2, <3>6 DEF Partial, all
  <2> QED
    BY <2>3, <2>4 DEF NoResume
<1> QED
  BY <1>1, <1>2 DEF Apart

\* The same of the state a step leads to.
LEMMA NoOverlapNext == StreamTypeOK' /\ ~Overlap' => Apart'
BY NoOverlap, PTL

-----------------------------------------------------------------------------
(* The parts of the invariant about the stream.                            *)

\* Nothing of a stream exists before its task, which the header precedes; the
\* loop that closes the connection before has ended.
BeforeTask ==
  /\ task = "none" =>
       /\ posted = <<>> /\ writes = <<>> /\ wire = <<>> /\ emitted = <<>>
       /\ \A t \in IoThreads : exec[t] = <<>>
       /\ shut => loop = "ended"
  /\ task # "none" => headersSent

\* A stream begins with its task.
LEMMA BeforeTaskStep ==
  StreamOwnsConnection /\ BeforeTask /\ [Next]_vars => BeforeTask'
<1> SUFFICES ASSUME StreamOwnsConnection, BeforeTask, [Next]_vars
             PROVE  BeforeTask'
  OBVIOUS
<1> USE DEF BeforeTask
<1>1. CASE OnHeader
  BY <1>1 DEF OnHeader, ioVars
<1>2. CASE Loop /\ ~OnHeader
  BY <1>2 DEF Loop, OnReadFails, OnWriteFails, OnWrite, HeaderReturns,
              NoMoreReads, Respond, do_close, RespondUnsupported, StartStream,
              ReadRequest, taskVars, flags, ioVars
<1>3. CASE TaskStep
  BY <1>3 DEF TaskStep, OnContent, OnDone, TaskReturns, TaskThrows, TaskUndefined, loopVars, flags
<1>4. CASE PeerLeaves
  BY <1>4 DEF PeerLeaves, loopVars, taskVars, ioVars
<1>5. CASE Socket
  BY <1>5 DEF Socket, Transfer, TransferFails, loopVars, flags, taskVars
<1>6. ASSUME NEW t \in IoThreads, Dequeue(t) \/ Handler(t)
      PROVE  BeforeTask'
  BY <1>6 DEF Dequeue, Handler, SendChunk, SendError, ResumeWrite,
              WriteCompletes, Running, loopVars, taskVars, flags
<1>7. CASE UNCHANGED vars
  BY <1>7 DEF vars, loopVars, taskVars, flags, ioVars
<1> QED
  BY <1>1, <1>2, <1>3, <1>4, <1>5, <1>6, <1>7 DEF Next, Step

\* The connection stays closed, the client stays away and an overlap is
\* remembered.
LEMMA Monotone ==
  ASSUME FlagTypeOK, overlapped \in BOOLEAN, [Next]_vars
  PROVE  /\ shut => shut'
         /\ ~peer => ~peer'
         /\ ~overlapped' => ~overlapped
         /\ Next /\ ~overlapped' => ~Overlap'
<1> USE DEF FlagTypeOK
<1> DEFINE Kept == (shut => shut') /\ (~peer => ~peer')
<1>1. ASSUME Loop PROVE Kept
  <2>1. ASSUME OnReadFails \/ OnWriteFails \/ OnWrite \/ OnHeader PROVE Kept
    BY <2>1 DEF OnReadFails, OnWriteFails, OnWrite, OnHeader, do_close
  <2>2. ASSUME \/ HeaderReturns \/ StartStream
               \/ \E k \in BOOLEAN : Respond(k) \/ RespondUnsupported(k)
        PROVE  Kept
    BY <2>2 DEF HeaderReturns, Respond, RespondUnsupported, StartStream, flags
  <2> QED
    BY <1>1, <2>1, <2>2 DEF Loop
<1>2. ASSUME PeerLeaves PROVE Kept
  BY <1>2 DEF PeerLeaves
<1>3. ASSUME TaskStep PROVE Kept
  BY <1>3 DEF TaskStep, OnContent, OnDone, TaskReturns, TaskThrows, TaskUndefined, flags
<1>4. ASSUME Socket PROVE Kept
  <2>1. UNCHANGED flags
    BY <1>4 DEF Socket, Transfer, TransferFails
  <2> QED
    BY <2>1 DEF flags
<1>5. ASSUME NEW t \in IoThreads, Dequeue(t) \/ Handler(t)
      PROVE  Kept
  BY <1>5 DEF Dequeue, Handler, SendChunk, SendError, ResumeWrite,
              WriteCompletes, do_close, flags
<1>6. ASSUME UNCHANGED vars PROVE Kept
  BY <1>6 DEF vars, flags
<1>7. /\ ~overlapped' => ~overlapped
      /\ Next /\ ~overlapped' => ~Overlap'
  BY DEF Next, vars
<1> QED
  BY <1>1, <1>2, <1>3, <1>4, <1>5, <1>6, <1>7 DEF Next, Step

\* The two ways of the task to report.
LEMMA ReportExtends ==
  ASSUME StreamTypeOK, NEW e \in Events, Report(e)
  PROVE  /\ Extends(emitted', emitted) /\ Send(e) \in HandlerRecord
         /\ posted' = Append(posted, Send(e)) /\ UNCHANGED <<exec, writes, wire>>
         /\ Carries(emitted', Send(e), Len(emitted), Len(emitted'))
<1>1. emitted' = Append(emitted, e) /\ emitted \in Seq(Events)
  BY DEF Report, StreamTypeOK
<1>2. /\ emitted' \in Seq(Events) /\ Len(emitted') = Len(emitted) + 1
      /\ \A i \in 1 .. Len(emitted) : emitted'[i] = emitted[i]
      /\ emitted'[Len(emitted) + 1] = e
  BY <1>1, AppendProperties
<1>3. Len(emitted) \in Nat
  BY <1>1, LenProperties
<1>4. Extends(emitted', emitted)
  BY <1>1, <1>2, <1>3 DEF Extends
<1>5. Carries(emitted', Send(e), Len(emitted), Len(emitted'))
  BY <1>2 DEF Carries, Send
<1> QED
  BY <1>4, <1>5, EventNumbers DEF Report, Post, Push, Send, HandlerRecord

\* A task that throws reports the error and the end with one handler.
LEMMA ThrowExtends ==
  ASSUME StreamTypeOK, TaskThrows
  PROVE  /\ Extends(emitted', emitted) /\ Fail \in HandlerRecord
         /\ posted' = Append(posted, Fail) /\ UNCHANGED <<exec, writes, wire>>
         /\ Carries(emitted', Fail, Len(emitted), Len(emitted'))
<1> DEFINE last == <<Error, Done>>
<1>1. emitted' = emitted \o last /\ emitted \in Seq(Events) /\ Len(emitted) \in Nat
  BY LenProperties DEF TaskThrows, StreamTypeOK
<1>2. last \in Seq(Events) /\ Len(last) = 2 /\ last[1] = Error /\ last[2] = Done
  BY EventNumbers
<1> HIDE DEF last
<1>3. /\ emitted' \in Seq(Events) /\ Len(emitted') = Len(emitted) + 2
      /\ \A i \in 1 .. Len(emitted) + 2 :
           emitted'[i] = IF i <= Len(emitted) THEN emitted[i] ELSE last[i - Len(emitted)]
  <2>1. /\ emitted \o last \in Seq(Events)
        /\ Len(emitted \o last) = Len(emitted) + Len(last)
        /\ \A i \in 1 .. Len(emitted) + Len(last) :
             (emitted \o last)[i] =
               IF i <= Len(emitted) THEN emitted[i] ELSE last[i - Len(emitted)]
    BY <1>1, <1>2, ConcatProperties
  <2> QED
    BY <1>1, <1>2, <2>1
<1>4. Extends(emitted', emitted)
  BY <1>1, <1>3 DEF Extends
<1>5. emitted'[Len(emitted) + 1] = Error /\ emitted'[Len(emitted) + 2] = Done
  BY <1>1, <1>2, <1>3
<1>6. Carries(emitted', Fail, Len(emitted), Len(emitted'))
  BY <1>3, <1>5 DEF Carries, Fail
<1> QED
  BY <1>4, <1>6, EventNumbers DEF TaskThrows, Post, Push, Fail, HandlerRecord

\* The text of an event is a report.
LEMMA ContentReports ==
  ASSUME StreamTypeOK, OnContent
  PROVE  NewChunk \in Events /\ Report(NewChunk)
<1>1. Len(emitted) \in Nat
  BY LenProperties DEF StreamTypeOK
<1> QED
  BY <1>1, EventNumbers DEF OnContent, NewChunk, Events, Done

\* What has been reported stays reported.
LEMMA EmittedExtends ==
  ASSUME StreamTypeOK, StreamTypeOK', [Next]_vars
  PROVE  Extends(emitted', emitted)
<1>1. CASE UNCHANGED emitted
  <2>1. Len(emitted) \in Nat
    BY LenProperties DEF StreamTypeOK
  <2> QED
    BY <1>1, <2>1 DEF Extends, StreamTypeOK
<1>2. CASE \/ Socket \/ UNCHANGED streamVars
           \/ \E t \in IoThreads : Dequeue(t) \/ Handler(t)
  BY <1>1, <1>2 DEF Socket, Transfer, TransferFails, Dequeue, Handler, SendChunk,
                    SendError, ResumeWrite, WriteCompletes, taskVars, streamVars
<1> QED
  BY <1>2, StreamSteps, ReportExtends, ThrowExtends, ContentReports
-----------------------------------------------------------------------------
\* Without an overlap the wire is in order, and while client and connection stay
\* so is what has not been transferred yet.
OrderKept ==
  ~overlapped => /\ Apart /\ ForwardsInOrder
                 /\ peer /\ ~shut => InOrder

\* An end of the stream has been sent, with all before it.
EndSent == \E k \in 1 .. Len(emitted) : emitted[k] = Done /\ Len(wire) >= k * Pieces

\* What the completion of a write says: the stream has been sent to its end,
\* or the connection was closed before.
Tells(h, sent, closed) ==
  /\ h.do = "written" /\ h.event = Done => sent
  /\ h.do = "broken" => closed

\* While the client stays, only the end of the stream closes it.
ClosedAtEnd ==
  ~overlapped /\ peer =>
    /\ shut /\ task # "none" => EndSent
    /\ \A i \in 1 .. Len(posted) : Tells(posted[i], EndSent, shut)
    /\ \A t \in IoThreads : exec[t] # <<>> => Tells(exec[t][1], EndSent, shut)

-----------------------------------------------------------------------------
(* The stream stays in order.                                              *)

\* What has been transferred stays a part of what has been reported.
LEMMA PrefixStep ==
  ASSUME StreamTypeOK, StreamTypeOK', [Next]_vars, ForwardsInOrder,
         peer /\ ~shut => InOrder
  PROVE  ForwardsInOrder'
<1>1. /\ emitted \in Seq(Events) /\ emitted' \in Seq(Events) /\ exec \in Execs
      /\ posted \in Seq(HandlerRecord) /\ writes \in Seq(Op)
      /\ wire \in Seq(Events \X (1 .. Pieces)) /\ wire' \in Seq(Events \X (1 .. Pieces))
  BY DEF StreamTypeOK, Execs
<1>2. BytesOf(wire, emitted)
  BY <1>1, PrefixIs DEF ForwardsInOrder
<1>3. ASSUME UNCHANGED wire
      PROVE  BytesOf(wire', emitted')
  BY <1>1, <1>2, <1>3, EmittedExtends, BytesExtend
<1>4. ASSUME NEW n \in 1 .. Pieces, Transfer(n)
      PROVE  BytesOf(wire', emitted')
  <2> DEFINE op == Head(writes)
  <2>1. op \in Op /\ writes # <<>> /\ op = writes[1] /\ op.from + n <= Pieces + 1
    BY <1>1, <1>4, HeadTailProperties DEF Transfer
  <2>2. /\ wire' = wire \o [i \in 1 .. n |-> <<op.event, op.from + i - 1>>]
        /\ emitted' = emitted
    BY <1>4 DEF Transfer, taskVars
  <2>3. InOrderOf(emitted, posted, exec, writes, Len(wire))
    BY <1>4 DEF Transfer, InOrder
  <2> HIDE DEF op
  <2>4. PICK b \in 0 .. Len(emitted), a \in 0 .. Len(emitted), k \in 1 .. Len(emitted) :
          HeadAt(emitted, posted, exec, writes, Len(wire), b, a, k)
    BY <1>1, <2>1, <2>3, InOrderHead
  <2>5. /\ emitted[k] = op.event /\ Len(wire) = (k - 1) * Pieces + op.from - 1
        /\ op.event \in Events /\ op.from \in 1 .. Pieces
    BY <2>1, <2>4 DEF HeadAt, Op
  <2> DEFINE e == op.event
             f == op.from
  <2>6. /\ e \in Events /\ f \in 1 .. Pieces /\ emitted[k] = e
        /\ Len(wire) = (k - 1) * Pieces + f - 1 /\ f + n <= Pieces + 1
    BY <2>1, <2>5
  <2> HIDE DEF e, f
  <2>7. BytesOf(wire \o [i \in 1 .. n |-> <<e, f + i - 1>>], emitted)
    BY <1>1, <1>2, <2>6, WireExtends
  <2> QED
    BY <2>2, <2>7 DEF e, f
<1>5. ASSUME UNCHANGED streamVars \/ TransferFails \/ TaskThrows \/ OnContent
      PROVE  BytesOf(wire', emitted')
  BY <1>3, <1>5 DEF streamVars, ioVars, TransferFails, TaskThrows, OnContent, Report, Post
<1>6. ASSUME \/ \E e \in Events : Report(e)
             \/ \E t \in IoThreads : Dequeue(t) \/ Handler(t)
      PROVE  BytesOf(wire', emitted')
  BY <1>3, <1>6 DEF Report, Post, Dequeue, Handler, SendChunk, SendError, ResumeWrite,
                    WriteCompletes
<1>7. BytesOf(wire', emitted')
  BY <1>4, <1>5, <1>6, StreamSteps DEF Socket
<1> QED
  BY <1>1, <1>7, PrefixIs DEF ForwardsInOrder

\* The order of what has not been transferred.
LEMMA InOrderStep ==
  ASSUME FlagTypeOK, FlagTypeOK', StreamTypeOK, StreamTypeOK', [Next]_vars, BeforeTask,
         Apart, Apart', InOrder, ~shut', peer'
  PROVE  InOrder'
<1>1. /\ emitted \in Seq(Events) /\ emitted' \in Seq(Events) /\ exec \in Execs
      /\ posted \in Seq(HandlerRecord) /\ writes \in Seq(Op)
  BY DEF StreamTypeOK, Execs
<1>2. InOrderOf(emitted, posted, exec, writes, Len(wire))
  BY DEF InOrder
<1>3. ASSUME NEW e \in Events, Report(e)
      PROVE  InOrder'
  <2>1. Send(e).do # "resume"
    BY DEF Send
  <2> QED
    BY <1>1, <1>2, <1>3, <2>1, ReportExtends, InOrderAppend DEF InOrder
<1>4. CASE TaskThrows
  <2>1. Fail.do # "resume"
    BY DEF Fail
  <2> QED
    BY <1>1, <1>2, <1>4, <2>1, ThrowExtends, InOrderAppend DEF InOrder
<1>5. ASSUME NEW t \in IoThreads, Dequeue(t)
      PROVE  InOrder'
  <2>1. /\ exec[t] = <<>> /\ posted # <<>>
        /\ exec' = [exec EXCEPT ![t] = <<Head(posted)>>]
        /\ posted' = Tail(posted) /\ UNCHANGED <<emitted, writes, wire>>
    BY <1>5 DEF Dequeue, taskVars
  <2>2. AtMostOne([exec EXCEPT ![t] = <<Head(posted)>>])
    BY <2>1 DEF Apart
  <2> QED
    BY <1>1, <1>2, <2>1, <2>2, InOrderTake DEF InOrder
<1>6. ASSUME NEW t \in IoThreads, SendChunk(t)
      PROVE  InOrder'
  <2> DEFINE h == exec[t][1]
             m == <<h>>
  <2>1. exec[t] # <<>> /\ h.do = "send" /\ h \in HandlerRecord
    BY <1>6, HandlerOf DEF SendChunk, Running
  <2>2. headersSent
    BY <2>1 DEF BeforeTask
  <2>3. /\ exec' = [exec EXCEPT ![t] = <<>>] /\ writes' = Append(writes, h)
        /\ UNCHANGED <<emitted, posted, wire>>
    BY <1>6, <2>2 DEF SendChunk, Finish, taskVars
  <2>4. h \in Op
    BY <2>1 DEF HandlerRecord, Op
  <2>5. Does(exec, t, Carrying)
    BY <2>1 DEF Does, Carrying
  <2> HIDE DEF h
  <2>6. writes' = writes \o m /\ m \in Seq(Op) /\ Len(m) = 1 /\ m[1] = h /\ m # <<>>
    BY <1>1, <2>3, <2>4, AppendIsConcat
  <2>7. NoResume(posted, exec)
    <3>1. /\ Len(writes') = Len(writes) + 1 /\ Len(writes) \in Nat
          /\ writes'[Len(writes) + 1] = h
      BY <1>1, <2>3, <2>4, AppendProperties, LenProperties
    <3>2. NoResume(posted', exec')
      BY <2>1, <3>1 DEF Apart
    <3>3. ~Does(exec, t, {"resume"})
      BY <2>1 DEF Does, h
    <3>4. \A u \in IoThreads : u # t => exec'[u] = exec[u]
      BY <2>3 DEF Execs
    <3> QED
      BY <2>3, <3>2, <3>3, <3>4 DEF NoResume, Does
  <2>8. ASSUME NEW a \in 0 .. Len(emitted), NEW b \in 0 .. Len(emitted),
               Carries(emitted, h, a, b)
        PROVE  /\ b = a + Len(m)
               /\ \A i \in 1 .. Len(m) : emitted[a + i] = m[i].event
               /\ h.from = 1
    BY <2>1, <2>6, <2>8 DEF Carries
  <2>9. \A i \in 1 .. Len(m) : m[i].do = "send" /\ m[i].from = 1
    <3>1. PICK b \in 0 .. Len(emitted), a \in 0 .. Len(emitted) :
            Served(emitted, exec, a, b)
      BY <1>2 DEF InOrderOf
    <3>2. Carries(emitted, h, a, b)
      BY <2>5, <3>1 DEF Served, h
    <3> QED
      BY <2>1, <2>6, <2>8, <3>2
  <2> HIDE DEF m
  <2>10. InOrderOf(emitted, posted, [exec EXCEPT ![t] = <<>>], writes \o m, Len(wire))
    <3>1. AtMostOne(exec)
      BY DEF Apart
    <3>2. \A a \in 0 .. Len(emitted), b \in 0 .. Len(emitted) :
            Carries(emitted, exec[t][1], a, b) =>
              b = a + Len(m) /\ \A i \in 1 .. Len(m) : emitted[a + i] = m[i].event
      BY <2>8 DEF h
    <3> QED
      BY <1>1, <1>2, <2>5, <2>6, <2>7, <2>9, <3>1, <3>2, InOrderStart
  <2> QED
    BY <2>3, <2>6, <2>10 DEF InOrder
<1>7. ASSUME NEW t \in IoThreads, SendError(t)
      PROVE  InOrder'
  <2> DEFINE h == exec[t][1]
             m == ErrorAndEnd
  <2>1. exec[t] # <<>> /\ h.do = "fail" /\ h \in HandlerRecord
    BY <1>7, HandlerOf DEF SendError, Running
  <2>2. headersSent
    BY <2>1 DEF BeforeTask
  <2>3. /\ exec' = [exec EXCEPT ![t] = <<>>] /\ writes' = writes \o m
        /\ UNCHANGED <<emitted, posted, wire>>
    BY <1>7, <2>2 DEF SendError, Finish, taskVars
  <2>4. /\ m \in Seq(Op) /\ Len(m) = 2 /\ m # <<>>
        /\ m[1].event = Error /\ m[2].event = Done
        /\ \A i \in 1 .. Len(m) : m[i].do = "send" /\ m[i].from = 1
    BY EventNumbers DEF ErrorAndEnd, Send, Op
  <2>5. Does(exec, t, Carrying)
    BY <2>1 DEF Does, Carrying
  <2> HIDE DEF h, m
  <2>7. NoResume(posted, exec)
    <3>1. /\ Len(writes') = Len(writes) + 2 /\ Len(writes) \in Nat
          /\ writes'[Len(writes) + 1] = m[1]
      <4>1. /\ Len(writes \o m) = Len(writes) + Len(m) /\ Len(writes) \in Nat
            /\ \A i \in 1 .. Len(writes) + Len(m) :
                 (writes \o m)[i] = IF i <= Len(writes) THEN writes[i]
                                    ELSE m[i - Len(writes)]
        BY <1>1, <2>4, ConcatProperties, LenProperties
      <4> QED
        BY <2>3, <2>4, <4>1
    <3>2. NoResume(posted', exec')
      <4>1. Len(writes) + 1 \in 1 .. Len(writes') /\ writes'[Len(writes) + 1].do = "send"
        BY <2>4, <3>1
      <4> QED
        BY <4>1 DEF Apart
    <3>3. ~Does(exec, t, {"resume"})
      BY <2>1 DEF Does, h
    <3>4. \A u \in IoThreads : u # t => exec'[u] = exec[u]
      BY <2>3 DEF Execs
    <3> QED
      BY <2>3, <3>2, <3>3, <3>4 DEF NoResume, Does
  <2>8. ASSUME NEW a \in 0 .. Len(emitted), NEW b \in 0 .. Len(emitted),
               Carries(emitted, h, a, b)
        PROVE  /\ b = a + Len(m)
               /\ \A i \in 1 .. Len(m) : emitted[a + i] = m[i].event
    <3>1. b = a + 2 /\ emitted[a + 1] = Error /\ emitted[a + 2] = Done
      BY <2>1, <2>8 DEF Carries
    <3> QED
      BY <2>4, <3>1
  <2>10. InOrderOf(emitted, posted, [exec EXCEPT ![t] = <<>>], writes \o m, Len(wire))
    <3>1. AtMostOne(exec)
      BY DEF Apart
    <3>2. \A a \in 0 .. Len(emitted), b \in 0 .. Len(emitted) :
            Carries(emitted, exec[t][1], a, b) =>
              b = a + Len(m) /\ \A i \in 1 .. Len(m) : emitted[a + i] = m[i].event
      BY <2>8 DEF h
    <3> QED
      BY <1>1, <1>2, <2>4, <2>5, <2>7, <3>1, <3>2, InOrderStart
  <2> QED
    BY <2>3, <2>10 DEF InOrder
<1>8. ASSUME NEW t \in IoThreads, ResumeWrite(t)
      PROVE  InOrder'
  <2>1. Does(exec, t, {"resume"})
    BY <1>8 DEF ResumeWrite, Running, Does
  <2>2. /\ exec' = [exec EXCEPT ![t] = <<>>] /\ writes' = Append(writes, exec[t][1])
        /\ UNCHANGED <<emitted, posted, wire>>
    BY <1>8 DEF ResumeWrite, Finish, taskVars
  <2> QED
    BY <1>1, <1>2, <2>1, <2>2, InOrderResume DEF InOrder
<1>9. ASSUME NEW t \in IoThreads, WriteCompletes(t)
      PROVE  InOrder'
  <2>1. ~Does(exec, t, Carrying) /\ ~Does(exec, t, {"resume"})
    BY <1>9 DEF WriteCompletes, Running, Does, Carrying
  <2>2. /\ exec' = [exec EXCEPT ![t] = <<>>]
        /\ UNCHANGED <<emitted, posted, writes, wire>>
    BY <1>9 DEF WriteCompletes, Finish, taskVars
  <2> QED
    BY <1>1, <1>2, <2>1, <2>2, InOrderCompletion DEF InOrder
<1>10. ASSUME NEW n \in 1 .. Pieces, Transfer(n)
       PROVE  InOrder'
  <2> DEFINE op == Head(writes)
             part == [i \in 1 .. n |-> <<op.event, op.from + i - 1>>]
             h == IF LastPart(op, n) THEN Written(op)
                  ELSE Resume([op EXCEPT !.from = @ + n])
  <2>1. /\ op \in Op /\ Len(part) = n /\ part \in Seq(Events \X (1 .. Pieces))
        /\ h \in HandlerRecord /\ wire' = wire \o part /\ writes' = Tail(writes)
        /\ posted' = Append(posted, h) /\ UNCHANGED <<emitted, exec>>
    BY <1>10, TransferTypes
  <2>2. writes # <<>> /\ op = writes[1] /\ op.from + n <= Pieces + 1
    BY <1>10, <1>1 DEF Transfer
  <2>3. op.from \in 1 .. Pieces /\ Pieces \in Nat
    BY <2>1, EventNumbers DEF Op
  <2> HIDE DEF op, part
  <2>4. Len(wire') = Len(wire) + n
    BY <2>1, ConcatProperties DEF StreamTypeOK
  <2>5. CASE LastPart(op, n)
    <3>1. writes[1].from + n = Pieces + 1
      BY <2>2, <2>3, <2>5 DEF LastPart
    <3>2. h.do = "written"
      BY <2>5 DEF Written
    <3> HIDE DEF h
    <3> QED
      BY <1>1, <1>2, <2>1, <2>2, <2>4, <3>1, <3>2, InOrderWritten DEF InOrder
  <2>6. CASE ~LastPart(op, n)
    <3>1. /\ h.do = "resume" /\ h.event = op.event /\ h.from = op.from + n
          /\ h \in Op
      <4>1. op.from + n \in 1 .. Pieces
        BY <2>3, <2>6 DEF LastPart
      <4> QED
        BY <2>1, <2>6, <4>1 DEF Resume, Op
    <3> HIDE DEF h
    <3>2. writes = <<op>>
      <4>1. PICK b \in 0 .. Len(emitted), a \in 0 .. Len(emitted),
                 k \in 1 .. Len(emitted) :
              HeadAt(emitted, posted, exec, writes, Len(wire), b, a, k)
        BY <1>1, <1>2, <2>2, InOrderHead
      <4>2. \A i \in 1 .. Len(writes) : i > 1 => writes[i].do = "send"
        BY <4>1 DEF HeadAt, Carried
      <4>3. /\ Len(writes') = Len(writes) - 1 /\ Len(writes) \in Nat \ {0}
            /\ \A i \in 1 .. Len(writes') : writes'[i] = writes[i + 1]
        BY <1>1, <2>1, <2>2, HeadTailProperties, EmptySeq
      <4>4. ~NoResume(posted', exec')
        <5>1. /\ Len(posted') = Len(posted) + 1 /\ Len(posted) \in Nat
              /\ posted'[Len(posted) + 1] = h
          BY <1>1, <2>1, AppendProperties, LenProperties
        <5> QED
          BY <3>1, <5>1 DEF NoResume
      <4>5. Len(writes) = 1
        <5> SUFFICES ASSUME Len(writes) > 1 PROVE FALSE
          BY <4>3
        <5>1. 1 \in 1 .. Len(writes') /\ 2 \in 1 .. Len(writes) /\ writes'[1] = writes[2]
          BY <4>3
        <5>2. writes'[1].do = "send"
          BY <4>2, <5>1
        <5> QED
          BY <4>4, <5>1, <5>2 DEF Apart
      <4>6. <<op>> \in Seq(Op) /\ Len(<<op>>) = 1 /\ <<op>>[1] = op
        BY <2>1
      <4> QED
        BY <1>1, <2>2, <4>5, <4>6, SeqEqual
    <3>3. writes' = <<>>
      BY <2>1, <3>2
    <3> QED
      BY <1>1, <1>2, <2>1, <2>4, <3>1, <3>2, <3>3, InOrderPart DEF InOrder
  <2> QED
    BY <2>5, <2>6
<1>11. CASE TransferFails
  <2>1. shut \/ ~peer
    BY <1>11 DEF TransferFails
  <2>2. shut' \/ ~peer'
    BY <1>11, <2>1 DEF TransferFails, flags
  <2> QED
    BY <2>2
<1>12. CASE UNCHANGED streamVars
  BY <1>2, <1>12 DEF streamVars, ioVars, InOrder
<1>13. CASE OnContent
  BY <1>3, <1>13, ContentReports
<1> QED
  BY <1>3, <1>4, <1>5, <1>6, <1>7, <1>8, <1>9, <1>10, <1>11, <1>12, <1>13, StreamSteps
  DEF Handler, Socket

-----------------------------------------------------------------------------
(* The connection is closed at the end.                                    *)

\* Every step keeps the order.
LEMMA OrderStep ==
  ASSUME FlagTypeOK, FlagTypeOK', StreamTypeOK, StreamTypeOK', overlapped \in BOOLEAN,
         [Next]_vars, BeforeTask, OrderKept
  PROVE  OrderKept'
<1> SUFFICES ASSUME ~overlapped'
             PROVE  /\ Apart' /\ ForwardsInOrder'
                    /\ peer' /\ ~shut' => InOrder'
  BY DEF OrderKept
<1>1. /\ ~overlapped /\ (Next => ~Overlap')
      /\ (peer' => peer) /\ (~shut' => ~shut)
  BY Monotone
<1>2. Apart /\ ForwardsInOrder /\ (peer /\ ~shut => InOrder)
  BY <1>1 DEF OrderKept
<1>3. Apart'
  <2>1. CASE Next
    BY <1>1, <2>1, NoOverlapNext
  <2>2. CASE UNCHANGED vars
    BY <1>2, <2>2 DEF vars, ioVars, Apart
  <2> QED
    BY <2>1, <2>2
<1>4. ForwardsInOrder'
  BY <1>2, PrefixStep
<1>5. ASSUME peer', ~shut'
      PROVE  InOrder'
  <2>1. peer /\ ~shut
    BY <1>5, Monotone
  <2> QED
    BY <1>2, <1>3, <1>5, <2>1, InOrderStep
<1> QED
  BY <1>3, <1>4, <1>5

\* What has been sent stays sent.
LEMMA EndStaysSent ==
  ASSUME StreamTypeOK, StreamTypeOK', [Next]_vars
  PROVE  /\ Len(wire) \in Nat /\ Len(wire') \in Nat /\ Len(wire) <= Len(wire')
         /\ EndSent => EndSent'
<1>1. Len(wire) \in Nat /\ Len(wire') \in Nat
  BY LenProperties DEF StreamTypeOK
<1>2. Len(wire) <= Len(wire')
  <2>1. ASSUME NEW n \in 1 .. Pieces, Transfer(n)
        PROVE  Len(wire) <= Len(wire')
    <3> DEFINE op == Head(writes)
               part == [i \in 1 .. n |-> <<op.event, op.from + i - 1>>]
    <3>1. /\ part \in Seq(Events \X (1 .. Pieces)) /\ Len(part) = n
          /\ wire' = wire \o part
      BY <2>1, TransferTypes
    <3> HIDE DEF part
    <3>2. Len(wire') = Len(wire) + n
      BY <3>1, ConcatProperties DEF StreamTypeOK
    <3> QED
      BY <1>1, <3>2
  <2>2. ASSUME UNCHANGED wire PROVE Len(wire) <= Len(wire')
    BY <1>1, <2>2
  <2>3. ASSUME \/ UNCHANGED streamVars \/ TransferFails \/ TaskThrows \/ OnContent
               \/ \E e \in Events : Report(e)
               \/ \E t \in IoThreads : Dequeue(t) \/ Handler(t)
        PROVE  UNCHANGED wire
    BY <2>3 DEF streamVars, ioVars, TransferFails, TaskThrows, OnContent, Report, Post,
                Dequeue, Handler, SendChunk, SendError, ResumeWrite, WriteCompletes
  <2> QED
    BY <2>1, <2>2, <2>3, StreamSteps DEF Socket
<1>3. ASSUME EndSent PROVE EndSent'
  <2>1. PICK k \in 1 .. Len(emitted) : emitted[k] = Done /\ Len(wire) >= k * Pieces
    BY <1>3 DEF EndSent
  <2>2. Extends(emitted', emitted)
    BY EmittedExtends
  <2>3. k \in 1 .. Len(emitted') /\ emitted'[k] = Done
    BY <2>1, <2>2, LenProperties DEF Extends
  <2>4. k * Pieces \in Nat
    BY <2>1, EventNumbers, TimesMonotone
  <2>5. Len(wire') >= k * Pieces
    <3> DEFINE m == k * Pieces
    <3>1. m \in Nat /\ Len(wire) >= m
      BY <2>1, <2>4
    <3> HIDE DEF m
    <3>2. Len(wire') >= m
      BY <1>1, <1>2, <3>1
    <3> QED
      BY <3>2 DEF m
  <2> QED
    BY <2>3, <2>5 DEF EndSent
<1> QED
  BY <1>1, <1>2, <1>3

\* While the client stays, what a completed write tells stays true.
LEMMA TellsStays ==
  ASSUME FlagTypeOK, StreamTypeOK, StreamTypeOK', overlapped \in BOOLEAN, [Next]_vars,
         NEW h, Tells(h, EndSent, shut)
  PROVE  Tells(h, EndSent', shut')
BY Monotone, EndStaysSent DEF Tells

\* The socket tells the truth of the write it has finished or given up.
LEMMA SocketTells ==
  ASSUME FlagTypeOK, StreamTypeOK, StreamTypeOK', Socket, peer, ~shut => InOrder
  PROVE  \E h \in HandlerRecord :
               posted' = Append(posted, h) /\ Tells(h, EndSent', shut')
<1>0. /\ emitted \in Seq(Events) /\ exec \in Execs
      /\ posted \in Seq(HandlerRecord) /\ writes \in Seq(Op)
  BY DEF StreamTypeOK, Execs
<1>1. ASSUME NEW n \in 1 .. Pieces, Transfer(n)
      PROVE  \E h \in HandlerRecord :
               posted' = Append(posted, h) /\ Tells(h, EndSent', shut')
  <2> DEFINE op == Head(writes)
             part == [i \in 1 .. n |-> <<op.event, op.from + i - 1>>]
             h == IF LastPart(op, n) THEN Written(op)
                  ELSE Resume([op EXCEPT !.from = @ + n])
  <2>1. /\ op \in Op /\ Len(part) = n /\ part \in Seq(Events \X (1 .. Pieces))
        /\ h \in HandlerRecord /\ wire' = wire \o part
        /\ posted' = Append(posted, h) /\ UNCHANGED <<emitted, exec>>
    BY <1>1, TransferTypes
  <2>2. writes # <<>> /\ op = writes[1] /\ op.from + n <= Pieces + 1
    BY <1>1, <1>0 DEF Transfer
  <2>3. op.from \in 1 .. Pieces /\ Pieces \in Nat
    BY <2>1, EventNumbers DEF Op
  <2> HIDE DEF op, part
  <2>4. Len(wire') = Len(wire) + n
    BY <2>1, ConcatProperties DEF StreamTypeOK
  <2>5. CASE LastPart(op, n)
    <3>1. writes[1].from + n = Pieces + 1
      BY <2>2, <2>3, <2>5 DEF LastPart
    <3>2. h.do = "written" /\ h.event = op.event
      BY <2>5 DEF Written
    <3> HIDE DEF h
    <3>3. InOrderOf(emitted, posted, exec, writes, Len(wire))
      BY <1>1 DEF Transfer, InOrder
    <3>4. PICK k \in 1 .. Len(emitted) :
            emitted[k] = op.event /\ Len(wire) + n = k * Pieces
      BY <1>0, <2>1, <2>2, <3>1, <3>2, <3>3, InOrderWritten
    <3>5. h.event = Done => EndSent'
      <4> SUFFICES ASSUME h.event = Done PROVE EndSent'
        OBVIOUS
      <4> DEFINE m == k * Pieces
      <4>1. m \in Nat /\ Len(wire') = m
        BY <2>4, <3>4, EventNumbers, TimesMonotone
      <4>2. Len(wire') >= m
        <5> HIDE DEF m
        <5> QED
          BY <4>1
      <4>3. k \in 1 .. Len(emitted') /\ emitted'[k] = Done /\ Len(wire') >= k * Pieces
        BY <2>1, <3>2, <3>4, <4>2
      <4> HIDE DEF m
      <4> QED
        BY <4>3 DEF EndSent
    <3>6. Tells(h, EndSent', shut')
      BY <3>2, <3>5 DEF Tells
    <3> QED
      <4> HIDE DEF op
      <4> QED
        BY <2>1, <3>6
  <2>6. CASE ~LastPart(op, n)
    <3>1. h.do = "resume"
      BY <2>6 DEF Resume
    <3> HIDE DEF h
    <3>2. Tells(h, EndSent', shut')
      BY <3>1 DEF Tells
    <3> QED
      BY <2>1, <3>2
  <2> QED
    BY <2>5, <2>6
<1>2. ASSUME TransferFails
      PROVE  \E h \in HandlerRecord :
               posted' = Append(posted, h) /\ Tells(h, EndSent', shut')
  <2> DEFINE h == Broken(Head(writes))
  <2>1. Head(writes) \in Op
    BY <1>0, <1>2, HeadTailProperties DEF TransferFails
  <2>2. h \in HandlerRecord /\ h.do = "broken"
    BY <2>1 DEF Broken, Op, HandlerRecord
  <2>3. posted' = Append(posted, h) /\ shut'
    BY <1>2 DEF TransferFails, Push, flags, FlagTypeOK
  <2> HIDE DEF h
  <2> QED
    BY <2>2, <2>3 DEF Tells
<1> QED
  BY <1>1, <1>2 DEF Socket

\* Every step keeps that only the end closes the connection.
LEMMA CloseStep ==
  ASSUME FlagTypeOK, FlagTypeOK', StreamTypeOK, StreamTypeOK', overlapped \in BOOLEAN,
         [Next]_vars, StreamOwnsConnection, BeforeTask, OrderKept, ClosedAtEnd
  PROVE  ClosedAtEnd'
<1> SUFFICES ASSUME ~overlapped', peer'
             PROVE  /\ shut' /\ task' # "none" => EndSent'
                    /\ \A i \in 1 .. Len(posted') : Tells(posted'[i], EndSent', shut')
                    /\ \A t \in IoThreads :
                         exec'[t] # <<>> => Tells(exec'[t][1], EndSent', shut')
  BY DEF ClosedAtEnd
<1>1. ~overlapped /\ peer
  BY Monotone
<1>2. /\ shut /\ task # "none" => EndSent
      /\ \A i \in 1 .. Len(posted) : Tells(posted[i], EndSent, shut)
      /\ \A t \in IoThreads : exec[t] # <<>> => Tells(exec[t][1], EndSent, shut)
      /\ ~shut => InOrder
  BY <1>1 DEF ClosedAtEnd, OrderKept
<1>0. /\ posted \in Seq(HandlerRecord) /\ posted' \in Seq(HandlerRecord)
      /\ exec \in Execs
  BY DEF StreamTypeOK, Execs
<1>3. \A h : Tells(h, EndSent, shut) => Tells(h, EndSent', shut')
  BY TellsStays
<1> DEFINE PostsTruth ==
             \/ UNCHANGED posted
             \/ \E h \in HandlerRecord :
                  posted' = Append(posted, h) /\ Tells(h, EndSent', shut')
<1>4. ASSUME PostsTruth
      PROVE  \A i \in 1 .. Len(posted') : Tells(posted'[i], EndSent', shut')
  <2>1. CASE UNCHANGED posted
    BY <1>2, <1>3, <2>1
  <2>2. ASSUME NEW h \in HandlerRecord, posted' = Append(posted, h),
               Tells(h, EndSent', shut'), NEW i \in 1 .. Len(posted')
        PROVE  Tells(posted'[i], EndSent', shut')
    <3>1. /\ Len(posted') = Len(posted) + 1 /\ Len(posted) \in Nat
          /\ \A j \in 1 .. Len(posted) : posted'[j] = posted[j]
          /\ posted'[Len(posted) + 1] = h
      BY <1>0, <2>2, AppendProperties, LenProperties
    <3>2. CASE i \in 1 .. Len(posted)
      BY <1>2, <1>3, <3>1, <3>2
    <3>3. CASE i = Len(posted) + 1
      BY <2>2, <3>1, <3>3
    <3> QED
      BY <3>1, <3>2, <3>3
  <2> QED
    BY <1>4, <2>1, <2>2
<1>5. ASSUME NEW t \in IoThreads, Dequeue(t)
      PROVE  \A i \in 1 .. Len(posted') : Tells(posted'[i], EndSent', shut')
  <2>1. /\ Len(posted') = Len(posted) - 1 /\ Len(posted) \in Nat
        /\ \A i \in 1 .. Len(posted') : posted'[i] = posted[i + 1]
    BY <1>0, <1>5, HeadTailProperties, LenProperties DEF Dequeue
  <2> SUFFICES ASSUME NEW i \in 1 .. Len(posted')
               PROVE  Tells(posted'[i], EndSent', shut')
    OBVIOUS
  <2>2. i + 1 \in 1 .. Len(posted)
    BY <2>1
  <2> QED
    BY <1>2, <1>3, <2>1, <2>2
<1>6. ASSUME NEW e \in Events, Report(e)
      PROVE  PostsTruth
  <2>1. Tells(Send(e), EndSent', shut')
    BY DEF Tells, Send
  <2> QED
    BY <1>6, <2>1, ReportExtends
<1>7. ASSUME TaskThrows
      PROVE  PostsTruth
  <2>1. Tells(Fail, EndSent', shut')
    BY DEF Tells, Fail
  <2> QED
    BY <1>7, <2>1, ThrowExtends
<1>8. ASSUME Socket
      PROVE  PostsTruth
  BY <1>1, <1>2, <1>8, SocketTells
<1>9. \A i \in 1 .. Len(posted') : Tells(posted'[i], EndSent', shut')
  <2>1. ASSUME NEW t \in IoThreads, Handler(t) PROVE PostsTruth
    BY <2>1 DEF Handler, SendChunk, SendError, ResumeWrite, WriteCompletes
  <2>2. ASSUME UNCHANGED streamVars PROVE PostsTruth
    BY <2>2 DEF streamVars, ioVars
  <2>3. ASSUME OnContent PROVE PostsTruth
    BY <2>3, <1>6, ContentReports
  <2> HIDE DEF PostsTruth
  <2> QED
    BY <1>4, <1>5, <1>6, <1>7, <1>8, <2>1, <2>2, <2>3, StreamSteps
<1>10. ASSUME NEW t \in IoThreads, exec'[t] # <<>>
       PROVE  Tells(exec'[t][1], EndSent', shut')
  <2>1. ASSUME NEW u \in IoThreads, Dequeue(u)
        PROVE  exec'[t] = exec[t] \/ (exec'[t] = <<posted[1]>> /\ 1 \in 1 .. Len(posted))
    <3>1. posted # <<>> /\ exec' = [exec EXCEPT ![u] = <<Head(posted)>>]
      BY <2>1 DEF Dequeue
    <3>2. Head(posted) = posted[1] /\ 1 \in 1 .. Len(posted)
      BY <1>0, <3>1, EmptySeq
    <3> QED
      BY <1>0, <3>1, <3>2 DEF Execs
  <2>2. ASSUME NEW u \in IoThreads, Handler(u)
        PROVE  exec'[t] = exec[t]
    <3>1. exec' = [exec EXCEPT ![u] = <<>>]
      BY <2>2 DEF Handler, SendChunk, SendError, ResumeWrite, WriteCompletes, Finish
    <3> QED
      BY <1>0, <1>10, <3>1 DEF Execs
  <2>3. ASSUME \/ UNCHANGED streamVars \/ Socket \/ TaskThrows \/ OnContent
               \/ \E e \in Events : Report(e)
        PROVE  exec'[t] = exec[t]
    BY <2>3 DEF streamVars, ioVars, Socket, Transfer, TransferFails, TaskThrows,
                OnContent, Report, Post
  <2>4. \/ exec'[t] = exec[t]
        \/ exec'[t] = <<posted[1]>> /\ 1 \in 1 .. Len(posted)
    BY <2>1, <2>2, <2>3, StreamSteps
  <2>5. CASE exec'[t] = exec[t]
    BY <1>2, <1>3, <1>10, <2>5
  <2>6. CASE exec'[t] = <<posted[1]>> /\ 1 \in 1 .. Len(posted)
    BY <1>2, <1>3, <2>6
  <2> QED
    BY <2>4, <2>5, <2>6
<1>11. ASSUME shut', task' # "none"
       PROVE  EndSent'
  <2>1. CASE shut /\ task # "none"
    BY <1>2, <2>1, EndStaysSent
  <2>2. CASE task = "none"
    <3>1. OnHeader
      BY <1>11, <2>2 DEF Next, Step, Loop, OnReadFails, OnWriteFails, OnWrite,
         HeaderReturns, Respond,
         RespondUnsupported, StartStream, ReadRequest, PeerLeaves, TaskStep, OnContent,
         OnDone, TaskReturns, TaskThrows, TaskUndefined, Socket, Transfer, TransferFails, Dequeue,
         Handler, SendChunk, SendError, ResumeWrite, WriteCompletes, taskVars, vars
    <3>2. shut' = shut /\ loop = "header"
      BY <3>1 DEF OnHeader
    <3> QED
      BY <1>11, <2>2, <3>2 DEF BeforeTask
  <2>3. CASE ~shut /\ task # "none"
    <3>1. loop \in {"submitted", "ended"}
      BY <2>3 DEF StreamOwnsConnection
    <3>2. PICK t \in IoThreads : WriteCompletes(t)
      <4>1. ASSUME Loop PROVE UNCHANGED shut
        BY <3>1, <4>1 DEF Loop, OnReadFails, OnWriteFails, OnWrite, OnHeader,
                          HeaderReturns, Respond, RespondUnsupported, StartStream,
                          ReadRequest, flags
      <4>2. ASSUME \/ PeerLeaves \/ TaskStep \/ UNCHANGED vars
            PROVE  UNCHANGED shut
        BY <4>2 DEF PeerLeaves, TaskStep, OnContent, OnDone, TaskReturns, TaskThrows, TaskUndefined,
                    flags, vars
      <4>3. ASSUME Socket PROVE UNCHANGED shut
        <5>1. UNCHANGED flags
          BY <4>3 DEF Socket, Transfer, TransferFails
        <5> QED
          BY <5>1 DEF flags
      <4>4. ASSUME NEW t \in IoThreads,
                   Dequeue(t) \/ SendChunk(t) \/ SendError(t) \/ ResumeWrite(t)
            PROVE  UNCHANGED shut
        BY <4>4 DEF Dequeue, SendChunk, SendError, ResumeWrite, flags
      <4> QED
        BY <1>11, <2>3, <4>1, <4>2, <4>3, <4>4 DEF Next, Step, Handler
    <3>3. exec[t] # <<>> /\ Tells(exec[t][1], EndSent, shut)
      BY <1>2, <3>2 DEF WriteCompletes, Running
    <3>4. Closes(exec[t][1]) /\ (exec[t][1].do = "written" \/ exec[t][1].do = "broken")
      BY <1>11, <2>3, <3>2 DEF WriteCompletes, Running
    <3>5. EndSent
      BY <2>3, <3>3, <3>4 DEF Tells, Closes
    <3> QED
      BY <3>5, EndStaysSent
  <2> QED
    BY <2>1, <2>2, <2>3
<1> QED
  BY <1>9, <1>10, <1>11

-----------------------------------------------------------------------------
(* The invariant and what follows from it.                                 *)

\* The inductive invariant.  The order of what is on its way is what keeps the
\* wire in order; that a close tells the end is what makes it complete.
IInv ==
  /\ FlagTypeOK /\ StreamTypeOK /\ overlapped \in BOOLEAN
  /\ StreamOwnsConnection /\ BeforeTask /\ OrderKept /\ ClosedAtEnd

\* A new connection.
LEMMA InitIInv == Init => IInv
<1> SUFFICES ASSUME Init PROVE IInv
  OBVIOUS
<1>1. /\ FlagTypeOK /\ overlapped \in BOOLEAN /\ StreamOwnsConnection /\ BeforeTask
  BY DEF Init, FlagTypeOK, StreamOwnsConnection, BeforeTask
<1>2. StreamTypeOK
  BY DEF Init, StreamTypeOK
<1>3. \A t \in IoThreads : \A dos : ~Does(exec, t, dos)
  BY DEF Init, Does
<1>4. Apart
  BY <1>3, EmptySeq DEF Apart, AtMostOne, Init
<1>5. ForwardsInOrder
  <2>1. <<>> \in Seq(Events) /\ <<>> \in Seq(Events \X (1 .. Pieces)) /\ Len(<<>>) = 0
    BY EmptySeq
  <2>2. 0 * Pieces = 0
    BY EventNumbers
  <2>3. BytesOf(<<>>, <<>>)
    BY <2>1, <2>2 DEF BytesOf
  <2> QED
    BY <2>1, <2>3, PrefixIs DEF ForwardsInOrder, Init
<1>6. InOrder
  <2>1. emitted = <<>> /\ posted = <<>> /\ writes = <<>> /\ wire = <<>>
    BY DEF Init
  <2>2. Len(<<>>) = 0 /\ <<>> \in Seq(Events) /\ <<>> \in Seq(Op)
    BY EmptySeq
  <2>3. Queued(<<>>, <<>>, 0)
    BY <2>2, QueuedEmpty
  <2>4. Served(<<>>, exec, 0, 0)
    BY <1>3 DEF Served
  <2>5. Started(<<>>, exec, <<>>, <<>>)
    BY <1>3, <2>2 DEF Started, NoResume
  <2>6. Carried(<<>>, <<>>, 0, 0)
    <3>1. (0 - 0) * Pieces = 0
      BY EventNumbers
    <3> QED
      BY <2>2, <3>1 DEF Carried
  <2>7. InOrderOf(<<>>, <<>>, exec, <<>>, 0)
    <3>1. 0 \in 0 .. Len(<<>>)
      BY <2>2
    <3> SUFFICES \E b \in 0 .. Len(<<>>), a \in 0 .. Len(<<>>), s \in Seq(Op) :
                   /\ Queued(<<>>, <<>>, b) /\ Served(<<>>, exec, a, b)
                   /\ Started(<<>>, exec, <<>>, s) /\ Carried(<<>>, s, a, 0)
      BY DEF InOrderOf
    <3> WITNESS 0 \in 0 .. Len(<<>>), 0 \in 0 .. Len(<<>>), <<>> \in Seq(Op)
    <3> QED
      BY <2>3, <2>4, <2>5, <2>6
  <2> QED
    BY <2>1, <2>2, <2>7 DEF InOrder
<1>7. ClosedAtEnd
  BY EmptySeq DEF ClosedAtEnd, Init
<1> QED
  BY <1>1, <1>2, <1>4, <1>5, <1>6, <1>7 DEF IInv, OrderKept

\* The invariant is inductive.
THEOREM Inductive == Spec => []IInv
<1>1. IInv /\ [Next]_vars => IInv'
  <2> SUFFICES ASSUME IInv, [Next]_vars PROVE IInv'
    OBVIOUS
  <2>1. overlapped' \in BOOLEAN
    BY DEF IInv, Next, vars
  <2>2. FlagTypeOK' /\ StreamTypeOK' /\ StreamOwnsConnection' /\ BeforeTask'
    BY FlagStep, StreamStep, OwnsStep, BeforeTaskStep DEF IInv
  <2>3. OrderKept' /\ ClosedAtEnd'
    BY <2>2, OrderStep, CloseStep DEF IInv
  <2> QED
    BY <2>1, <2>2, <2>3 DEF IInv
<1> QED
  BY <1>1, InitIInv, PTL DEF Spec

\* Session.TypeOK: the types of the variables, whatever the number of
\* threads, events and transfers per write.
THEOREM TypeCorrect == Spec => []TypeOK
<1>1. IInv => TypeOK
  BY TypeParts DEF IInv
<1> QED
  BY <1>1, Inductive, PTL

\* Session.OrderedUnlessOverlapped: as long as no two async_write of a stream
\* overlap, what the client has been sent is what the provider's events amount
\* to, in their order, whichever thread of the io_context runs which handler and
\* however the socket splits a write (session.cpp, send_stream_chunk;
\* README.md:17).
THEOREM Ordered == Spec => []OrderedUnlessOverlapped
<1>1. IInv => OrderedUnlessOverlapped
  BY DEF IInv, OrderKept, OrderedUnlessOverlapped
<1> QED
  BY <1>1, Inductive, PTL

\* The least of some numbers.
LEMMA LeastElement ==
  ASSUME NEW T \in SUBSET Nat, T # {}
  PROVE  \E m \in T : \A k \in T : m <= k
<1>1. IsWellFoundedOn(OpToRel(<, Nat), Nat)
  BY NatLessThanWellFounded
<1>2. \E m \in T : \A k \in T : ~ (<<k, m>> \in OpToRel(<, Nat))
  BY <1>1, WFMin
<1>3. ASSUME NEW m \in T, NEW k \in T, ~ (<<k, m>> \in OpToRel(<, Nat))
      PROVE  m <= k
  BY <1>3 DEF OpToRel
<1> QED
  BY <1>2, <1>3

\* The number of the first end among the events, 0 if there is none.
FirstDone == SelectInSeq(emitted, LAMBDA e : e = Done)

\* The place of the first end among the events, 0 if there is none.
LEMMA FirstDoneIs ==
  ASSUME StreamTypeOK
  PROVE  /\ FirstDone \in 0 .. Len(emitted)
         /\ \A k \in 1 .. Len(emitted) : emitted[k] = Done => FirstDone <= k
<1> DEFINE I == {i \in 1 .. Len(emitted) : emitted[i] = Done}
<1>1. Len(emitted) \in Nat
  BY LenProperties DEF StreamTypeOK
<1>2. FirstDone = IF I # {} THEN Min(I) ELSE 0
  BY DEF FirstDone, SelectInSeq
<1>3. I \in SUBSET Nat
  BY <1>1
<1>4. I # {} => Min(I) \in I /\ \A k \in I : Min(I) <= k
  <2> HIDE DEF I
  <2>1. I # {} => \E m \in I : \A k \in I : m <= k
    BY <1>3, LeastElement
  <2> QED
    BY <2>1 DEF Min
<1> QED
  BY <1>1, <1>2, <1>4

\* A connection that has gone away while its client stayed was closed at the
\* end, or has nothing left to send.
LEMMA CompleteHolds == IInv => CompleteUnlessOverlapped
<1> SUFFICES ASSUME IInv, ~overlapped, ~Alive, peer
             PROVE  Len(wire) >= Pieces * FirstDone
  BY DEF CompleteUnlessOverlapped, FirstDone
<1>1. /\ loop = "ended" /\ posted = <<>> /\ writes = <<>>
      /\ \A t \in IoThreads : exec[t] = <<>>
  BY DEF Alive
<1>2. /\ StreamTypeOK /\ Len(emitted) \in Nat /\ Len(wire) \in Nat
      /\ Pieces \in Nat /\ emitted \in Seq(Events)
  BY EventNumbers, LenProperties DEF IInv, StreamTypeOK
<1>3. /\ FirstDone \in 0 .. Len(emitted)
      /\ \A k \in 1 .. Len(emitted) : emitted[k] = Done => FirstDone <= k
  BY <1>2, FirstDoneIs
<1>4. ASSUME NEW k \in Nat, FirstDone <= k, Len(wire) >= k * Pieces
      PROVE  Len(wire) >= Pieces * FirstDone
  <2> DEFINE f == FirstDone
  <2>1. f \in Nat /\ f <= k
    BY <1>2, <1>3, <1>4
  <2> HIDE DEF f
  <2>2. f * Pieces <= k * Pieces /\ f * Pieces \in Nat /\ k * Pieces \in Nat
    BY <1>2, <2>1, TimesMonotone
  <2>3. Pieces * f = f * Pieces
    BY <1>2, <2>1
  <2>4. Len(wire) >= f * Pieces
    <3> DEFINE m == f * Pieces
               n == k * Pieces
    <3>1. m <= n /\ m \in Nat /\ n \in Nat /\ Len(wire) >= n
      BY <1>4, <2>2
    <3> HIDE DEF m, n
    <3>2. Len(wire) >= m
      BY <1>2, <3>1
    <3> QED
      BY <3>2 DEF m
  <2> QED
    BY <2>3, <2>4 DEF f
<1>5. CASE shut /\ task # "none"
  <2>1. PICK k \in 1 .. Len(emitted) : emitted[k] = Done /\ Len(wire) >= k * Pieces
    BY <1>5 DEF IInv, ClosedAtEnd, EndSent
  <2> QED
    BY <1>2, <1>3, <1>4, <2>1
<1>6. CASE shut /\ task = "none"
  <2>1. Len(emitted) = 0
    BY <1>6, EmptySeq DEF IInv, BeforeTask
  <2>2. FirstDone <= 0 /\ 0 * Pieces = 0
    BY <1>2, <1>3, <2>1
  <2> QED
    BY <1>2, <1>4, <2>2
<1>7. CASE ~shut
  <2>1. PICK b \in 0 .. Len(emitted), a \in 0 .. Len(emitted), s \in Seq(Op) :
          /\ Queued(emitted, posted, b) /\ Served(emitted, exec, a, b)
          /\ Started(posted, exec, writes, s) /\ Carried(emitted, s, a, Len(wire))
    BY <1>7 DEF IInv, OrderKept, InOrder, InOrderOf
  <2>2. b = Len(emitted)
    BY <1>1, <1>2, <2>1, QueuedEmpty
  <2>3. a = b
    BY <1>1, <2>1 DEF Served, Does
  <2>4. s = <<>>
    <3>1. \A op : ~OnlyResume(posted, exec, op)
      <4> SUFFICES ASSUME NEW op, OnlyResume(posted, exec, op) PROVE FALSE
        OBVIOUS
      <4>2. <<op>> # <<>>
        OBVIOUS
      <4>1. \A t \in IoThreads : exec[t] # <<op>>
        BY <1>1, <4>2
      <4> QED
        BY <1>1, <4>1, <4>2, EmptySeq DEF OnlyResume
    <3> QED
      BY <1>1, <2>1, <3>1 DEF Started
  <2>5. Len(wire) = Len(emitted) * Pieces
    <3>1. Len(wire) = (a - 0) * Pieces + 0
      BY <2>1, <2>4, EmptySeq DEF Carried
    <3>2. a - 0 = a /\ a * Pieces \in Nat
      BY <1>2, TimesMonotone
    <3> QED
      BY <2>2, <2>3, <3>1, <3>2
  <2>6. FirstDone <= Len(emitted) /\ Len(wire) >= Len(emitted) * Pieces
    BY <1>2, <1>3, <2>5
  <2> QED
    BY <1>2, <1>4, <2>6
<1> QED
  BY <1>5, <1>6, <1>7

\* Session.CompleteUnlessOverlapped: a client that stays has been sent the whole
\* stream, [DONE] included, when the session goes away: no order of the handlers
\* of send_stream_chunk, send_stream_error and send_stream_done closes the socket
\* before (session.cpp), provided their writes do not overlap.
THEOREM Complete == Spec => []CompleteUnlessOverlapped
BY CompleteHolds, Inductive, PTL

-----------------------------------------------------------------------------
(* A session goes away on purpose.                                         *)

\* h brings the end, or will write it.
Bears(h) == h.event = Done \/ h.do = "fail"

EndIn(q) == \E i \in 1 .. Len(q) : Bears(q[i])

\* A handler or a write brings the end.
EndComing(q, x, ws) ==
  \/ EndIn(q) \/ EndIn(ws)
  \/ \E t \in IoThreads : x[t] # <<>> /\ Bears(x[t][1])

\* The end has been reported, or the catch block has stood in for it.
Reported ==
  \/ task = "threw"
  \/ \E i \in 1 .. Len(emitted) : emitted[i] = Done

\* As long as an open connection has its client, a reported end is on its way.
PurposeInv ==
  /\ loop = "submitted" => task # "none"
  /\ task = "none" /\ loop = "ended" /\ peer => shut \/ streaming
  /\ Reported /\ peer /\ ~shut => EndComing(posted, exec, writes)

\* What is appended is there, and all that was.
LEMMA EndInAppend ==
  ASSUME NEW S, NEW q \in Seq(S), NEW h \in S
  PROVE  EndIn(q) \/ Bears(h) => EndIn(Append(q, h))
<1>1. /\ Len(q) \in Nat /\ Len(Append(q, h)) = Len(q) + 1
      /\ Append(q, h)[Len(q) + 1] = h
      /\ \A i \in 1 .. Len(q) : Append(q, h)[i] = q[i]
  BY AppendProperties, LenProperties
<1>2. /\ Len(q) + 1 \in 1 .. Len(Append(q, h))
      /\ \A i \in 1 .. Len(q) : i \in 1 .. Len(Append(q, h))
  BY <1>1
<1> QED
  BY <1>1, <1>2 DEF EndIn

\* What brings the end is first or behind.
LEMMA EndInTail ==
  ASSUME NEW S, NEW q \in Seq(S), q # <<>>, EndIn(q)
  PROVE  Bears(Head(q)) \/ EndIn(Tail(q))
<1>1. PICK i \in 1 .. Len(q) : Bears(q[i])
  BY DEF EndIn
<1>2. /\ Len(q) \in Nat \ {0} /\ Head(q) = q[1] /\ Len(Tail(q)) = Len(q) - 1
      /\ \A j \in 1 .. Len(Tail(q)) : Tail(q)[j] = q[j + 1]
  BY HeadTailProperties, EmptySeq
<1>3. CASE i = 1
  BY <1>1, <1>2, <1>3
<1>4. CASE i # 1
  <2>1. i - 1 \in 1 .. Len(Tail(q)) /\ i - 1 + 1 = i
    BY <1>2, <1>4
  <2> QED
    BY <1>1, <1>2, <2>1 DEF EndIn
<1> QED
  BY <1>3, <1>4

\* Only the end and an exception end a report.
LEMMA ReportedBy ==
  ASSUME StreamTypeOK, [Next]_vars, Reported', ~TaskThrows
  PROVE  Reported \/ Report(Done)
<1>1. emitted \in Seq(Events) /\ Len(emitted) \in Nat
  BY LenProperties DEF StreamTypeOK
<1>2. CASE task' = "threw"
  <2>1. task = "threw"
    BY <1>2 DEF Next, Step, Loop, OnReadFails, OnWriteFails, OnWrite, OnHeader,
       HeaderReturns, Respond, RespondUnsupported, StartStream, PeerLeaves,
       TaskStep, OnContent, OnDone, TaskReturns, TaskUndefined, Socket,
       Transfer, TransferFails, Dequeue, Handler, SendChunk, SendError,
       ResumeWrite, WriteCompletes, taskVars, vars
  <2> QED
    BY <2>1 DEF Reported
<1>3. ASSUME NEW e \in Events, Report(e), NEW i \in 1 .. Len(emitted'),
             emitted'[i] = Done
      PROVE  Reported \/ Report(Done)
  <2>1. /\ emitted' = Append(emitted, e) /\ Len(emitted') = Len(emitted) + 1
        /\ emitted'[Len(emitted) + 1] = e
        /\ \A j \in 1 .. Len(emitted) : emitted'[j] = emitted[j]
    BY <1>1, <1>3, AppendProperties DEF Report
  <2>2. i \in 1 .. Len(emitted) \/ i = Len(emitted) + 1
    BY <1>1, <1>3, <2>1
  <2> QED
    BY <1>3, <2>1, <2>2 DEF Reported
<1>4. ASSUME OnContent
      PROVE  \E e \in Events : Report(e)
  BY <1>4, ContentReports
<1>5. ASSUME Socket \/ UNCHANGED streamVars
               \/ \E t \in IoThreads : Dequeue(t) \/ Handler(t)
      PROVE  emitted' = emitted
  BY <1>5 DEF Socket, Transfer, TransferFails, Dequeue, Handler, SendChunk,
     SendError, ResumeWrite, WriteCompletes, taskVars, streamVars
<1>6. CASE task' # "threw"
  <2>1. PICK i \in 1 .. Len(emitted') : emitted'[i] = Done
    BY <1>6 DEF Reported
  <2> QED
    BY <1>3, <1>4, <1>5, <2>1, StreamSteps DEF Reported
<1> QED
  BY <1>2, <1>6

\* The end that is reported stays on its way while the connection is open.
LEMMA EndComingStep ==
  ASSUME FlagTypeOK, StreamTypeOK, StreamTypeOK', BeforeTask, [Next]_vars,
         peer, ~shut, ~shut', EndComing(posted, exec, writes)
  PROVE  EndComing(posted', exec', writes')
<1> USE DEF EndComing
<1>0. Op \subseteq HandlerRecord
  BY DEF Op, HandlerRecord
<1>1. /\ posted \in Seq(HandlerRecord) /\ writes \in Seq(Op)
      /\ \A h \in Op : h.do # "fail"
  BY DEF StreamTypeOK, Op
<1>2. ASSUME NEW e \in Events, Report(e)
      PROVE  EndComing(posted', exec', writes')
  <2>1. Send(e) \in HandlerRecord
    BY EventNumbers DEF Send, HandlerRecord
  <2> QED
    BY <1>1, <1>2, <2>1, EndInAppend DEF Report, Post, Push
<1>3. CASE OnContent
  BY <1>2, <1>3, ContentReports
<1>4. CASE TaskThrows
  <2>1. Fail \in HandlerRecord
    BY EventNumbers DEF Fail, HandlerRecord
  <2> QED
    BY <1>1, <1>4, <2>1, EndInAppend DEF TaskThrows, Post, Push
<1>5. CASE Socket
  <2>1. PICK n \in 1 .. Pieces : Transfer(n)
    BY <1>5 DEF Socket, TransferFails
  <2> DEFINE op == Head(writes)
             h == IF LastPart(op, n) THEN Written(op)
                  ELSE Resume([op EXCEPT !.from = @ + n])
  <2>2. /\ op \in Op /\ h \in HandlerRecord /\ writes # <<>>
        /\ writes' = Tail(writes) /\ posted' = Append(posted, h)
        /\ exec' = exec
    BY <2>1, TransferTypes DEF Transfer
  <2>3. h.event = op.event
    BY <2>2 DEF Written, Resume, Op
  <2> HIDE DEF op, h
  <2>4. Bears(op) => Bears(h)
    BY <1>1, <2>2, <2>3 DEF Bears
  <2>5. EndIn(writes) => EndIn(Tail(writes)) \/ EndIn(posted')
    BY <1>1, <2>2, <2>4, EndInTail, EndInAppend DEF op
  <2>6. EndIn(posted) => EndIn(posted')
    BY <1>1, <2>2, EndInAppend
  <2> QED
    BY <2>2, <2>5, <2>6
<1>6. ASSUME NEW t \in IoThreads, Dequeue(t)
      PROVE  EndComing(posted', exec', writes')
  <2>1. /\ exec[t] = <<>> /\ posted # <<>> /\ posted' = Tail(posted)
        /\ exec'[t] = <<Head(posted)>> /\ writes' = writes
        /\ \A u \in IoThreads : u # t => exec'[u] = exec[u]
    BY <1>6 DEF Dequeue, StreamTypeOK
  <2>2. EndIn(posted) => Bears(Head(posted)) \/ EndIn(posted')
    BY <1>1, <2>1, EndInTail
  <2>3. exec'[t] # <<>> /\ exec'[t][1] = Head(posted)
    BY <2>1
  <2> QED
    BY <2>1, <2>2, <2>3
<1>7. ASSUME NEW t \in IoThreads, Handler(t)
      PROVE  EndComing(posted', exec', writes')
  <2> DEFINE h == exec[t][1]
  <2>1. /\ exec[t] # <<>> /\ posted' = posted
        /\ \A u \in IoThreads : u # t => exec'[u] = exec[u]
    BY <1>7 DEF Handler, SendChunk, SendError, ResumeWrite, WriteCompletes,
                Running, Finish, StreamTypeOK
  <2>2. headersSent
    BY <2>1 DEF BeforeTask
  <2>3. ASSUME EndIn(writes) \/ Bears(h) => EndIn(writes')
        PROVE  EndComing(posted', exec', writes')
    BY <2>1, <2>3
  <2>4. CASE SendChunk(t) \/ ResumeWrite(t)
    <3>1. h \in Op
      BY <2>1, <2>4, HandlerOf DEF SendChunk, ResumeWrite, Running,
                                   HandlerRecord, Op
    <3>2. writes' = Append(writes, h)
      BY <2>2, <2>4 DEF SendChunk, ResumeWrite
    <3> HIDE DEF h
    <3> QED
      BY <1>1, <2>3, <3>1, <3>2, EndInAppend DEF h
  <2>5. CASE SendError(t)
    <3>1. /\ Send(Error) \in Op /\ Send(Done) \in Op
          /\ Bears(Send(Done))
      BY EventNumbers DEF Send, Op, Bears
    <3>2. writes' = writes \o <<Send(Error), Send(Done)>>
      BY <2>2, <2>5 DEF SendError, ErrorAndEnd
    <3>3. /\ Len(writes') = Len(writes) + 2 /\ Len(writes) \in Nat
          /\ writes'[Len(writes) + 2] = Send(Done)
      BY <1>1, <3>1, <3>2, ConcatProperties, LenProperties
    <3>4. Len(writes) + 2 \in 1 .. Len(writes')
      BY <3>3
    <3> QED
      BY <3>1, <3>3, <3>4 DEF EndIn
  <2>6. CASE WriteCompletes(t)
    <3>1. ~Closes(h) /\ h.do # "fail" /\ writes' = writes
      BY <2>6 DEF WriteCompletes, Running, do_close
    <3> QED
      BY <2>3, <3>1 DEF Closes, Bears
  <2> QED
    BY <1>7, <2>4, <2>5, <2>6 DEF Handler
<1>8. CASE UNCHANGED streamVars
  BY <1>8 DEF streamVars, ioVars
<1> QED
  BY <1>2, <1>3, <1>4, <1>5, <1>6, <1>7, <1>8, StreamSteps

\* The loop that has ended without a stream has closed the connection, or has
\* answered 400 to a stream.
LEMMA LoopEndStep ==
  ASSUME FlagTypeOK, BeforeTask, StreamOwnsConnection, PurposeInv, [Next]_vars
  PROVE  /\ loop' = "submitted" => task' # "none"
         /\ task' = "none" /\ loop' = "ended" /\ peer' => shut' \/ streaming'
<1> USE DEF PurposeInv
<1> DEFINE Goal == /\ loop' = "submitted" => task' # "none"
                   /\ task' = "none" /\ loop' = "ended" /\ peer' =>
                        shut' \/ streaming'
<1>1. CASE OnReadFails \/ OnWriteFails \/ OnWrite
  BY <1>1 DEF OnReadFails, OnWriteFails, OnWrite, do_close, taskVars
<1>2. CASE OnHeader \/ HeaderReturns \/ StartStream
  BY <1>2 DEF OnHeader, HeaderReturns, StartStream, flags, taskVars
<1>3. ASSUME NEW k \in BOOLEAN, Respond(k) \/ RespondUnsupported(k)
      PROVE  Goal
  BY <1>3 DEF Respond, RespondUnsupported
<1>4. CASE PeerLeaves \/ UNCHANGED vars
  BY <1>4 DEF PeerLeaves, vars, loopVars, taskVars, flags
<1>5. CASE TaskStep
  BY <1>5 DEF TaskStep, OnContent, OnDone, TaskReturns, TaskThrows,
              TaskUndefined, loopVars, flags
<1>6. CASE Socket
  <2>1. UNCHANGED <<loopVars, flags, taskVars>>
    BY <1>6 DEF Socket, Transfer, TransferFails
  <2> QED
    BY <2>1 DEF loopVars, flags, taskVars
<1>7. ASSUME NEW t \in IoThreads, Dequeue(t) \/ Handler(t)
      PROVE  Goal
  BY <1>7 DEF Dequeue, Handler, SendChunk, SendError, ResumeWrite,
     WriteCompletes, Running, loopVars, flags, taskVars, BeforeTask
<1> QED
  BY <1>1, <1>2, <1>3, <1>4, <1>5, <1>6, <1>7 DEF Next, Step, Loop

\* Each step keeps it.
LEMMA PurposeStep ==
  ASSUME IInv, IInv', PurposeInv, [Next]_vars
  PROVE  PurposeInv'
<1>1. /\ FlagTypeOK /\ StreamTypeOK /\ StreamTypeOK' /\ BeforeTask
      /\ StreamOwnsConnection /\ overlapped \in BOOLEAN
  BY DEF IInv
<1>2. ASSUME Reported', peer', ~shut'
      PROVE  EndComing(posted', exec', writes')
  <2>1. peer /\ ~shut
    BY <1>1, <1>2, Monotone
  <2>2. CASE Reported
    BY <1>1, <1>2, <2>1, <2>2, EndComingStep DEF PurposeInv
  <2>3. CASE TaskThrows \/ Report(Done)
    <3>1. PICK h \in HandlerRecord : Bears(h) /\ posted' = Append(posted, h)
      <4>1. /\ Fail \in HandlerRecord /\ Send(Done) \in HandlerRecord
            /\ Bears(Fail) /\ Bears(Send(Done))
        BY EventNumbers DEF Fail, Send, HandlerRecord, Bears
      <4> QED
        BY <2>3, <4>1 DEF TaskThrows, Report, Post, Push
    <3>2. EndIn(posted')
      BY <1>1, <3>1, EndInAppend DEF StreamTypeOK
    <3> QED
      BY <3>2 DEF EndComing
  <2> QED
    BY <1>1, <1>2, <2>2, <2>3, ReportedBy
<1> QED
  BY <1>1, <1>2, LoopEndStep DEF PurposeInv

\* Session.GoneOnPurpose: a session that goes away while its client is there has
\* shut the connection, but for the 400 to a stream and the stream without an end
\* (session.cpp:95, :134, :232, :243).
THEOREM LeavesOnPurpose == Spec => []GoneOnPurpose
<1>1. Init => PurposeInv
  <2> SUFFICES ASSUME Init PROVE PurposeInv
    OBVIOUS
  <2>1. loop = "read" /\ task = "none" /\ Len(emitted) = 0
    BY EmptySeq DEF Init
  <2>2. ~Reported
    BY <2>1 DEF Reported
  <2> QED
    BY <2>1, <2>2 DEF PurposeInv
<1>2. IInv /\ IInv' /\ PurposeInv /\ [Next]_vars => PurposeInv'
  BY PurposeStep
<1>3. IInv /\ PurposeInv => GoneOnPurpose
  <2> SUFFICES ASSUME IInv, PurposeInv, ~Alive, peer, ~shut, task # "none"
               PROVE  task = "returned" /\ TimesDone = 0
    BY DEF GoneOnPurpose, PurposeInv, Alive
  <2>1. ~EndComing(posted, exec, writes)
    BY EmptySeq DEF EndComing, EndIn, Alive
  <2>2. ~Reported
    BY <2>1 DEF PurposeInv
  <2>3. task = "returned"
    BY <2>2 DEF IInv, FlagTypeOK, Alive, Reported
  <2>4. {i \in DOMAIN emitted : emitted[i] = Done} = {}
    BY <2>2, LenProperties DEF Reported, IInv, StreamTypeOK
  <2> QED
    BY <2>3, <2>4, FS_EmptySet DEF TimesDone
<1> QED
  BY <1>1, <1>2, <1>3, Inductive, PTL DEF Spec

-----------------------------------------------------------------------------
(* The task is a StreamSource.                                             *)

\* What the session adds to the calls of the adapter after an exception.
Added == IF task = "threw" THEN 2 ELSE 0

\* A call of the adapter, and its calls among the first n events.
Call(e) == IF e = Done THEN "end" ELSE "text"
Calls(es, n) == [i \in 1 .. n |-> Call(es[i])]

Source == INSTANCE StreamSource WITH
  said   <- Calls(emitted, Len(emitted) - Added),
  status <- CASE task = "none" -> "idle"
              [] task = "crashed" -> "running"
              [] task \notin {"none", "crashed"} -> task

\* One more event is one more call.
LEMMA CallsAppend ==
  ASSUME NEW es \in Seq(Events), NEW e \in Events
  PROVE  LET k == IF e = Done THEN 0 ELSE 1 IN
         Calls(Append(es, e), Len(Append(es, e))) =
           Calls(es, Len(es)) \o [i \in 1 .. k |-> "text"]
                             \o [i \in 1 .. 1 - k |-> "end"]
<1> DEFINE k == IF e = Done THEN 0 ELSE 1
           new == Append(es, e)
           before == Calls(es, Len(es))
           after == Calls(new, Len(new))
<1>1. /\ Len(es) \in Nat /\ new \in Seq(Events) /\ Len(new) = Len(es) + 1
      /\ \A i \in 1 .. Len(es) : new[i] = es[i]
      /\ new[Len(es) + 1] = e
  BY AppendProperties, LenProperties
<1> HIDE DEF new
<1>2. before \in Seq({"text", "end"}) /\ Len(before) = Len(es)
  BY <1>1 DEF Calls, Call
<1>3. after = Append(before, Call(e))
  <2>1. after \in Seq({"text", "end"}) /\ Len(after) = Len(es) + 1
    BY <1>1 DEF Calls, Call
  <2>2. \A i \in 1 .. Len(es) : after[i] = before[i]
    BY <1>1 DEF Calls
  <2>3. after[Len(es) + 1] = Call(e)
    BY <1>1 DEF Calls
  <2>4. Call(e) \in {"text", "end"}
    BY DEF Call
  <2> HIDE DEF after, before
  <2>5. /\ Append(before, Call(e)) \in Seq({"text", "end"})
        /\ Len(Append(before, Call(e))) = Len(es) + 1
        /\ \A i \in 1 .. Len(es) : Append(before, Call(e))[i] = before[i]
        /\ Append(before, Call(e))[Len(es) + 1] = Call(e)
    BY <1>2, <2>4, AppendProperties
  <2>6. \A i \in 1 .. Len(es) + 1 : after[i] = Append(before, Call(e))[i]
    BY <1>1, <2>2, <2>3, <2>5
  <2> QED
    BY <2>1, <2>5, <2>6, SeqEqual
<1> HIDE DEF before, after
<1>4. CASE e = Done
  <2>1. k = 0 /\ Call(e) = "end"
    BY <1>4 DEF Call
  <2>2. [i \in 1 .. 0 |-> "text"] = <<>> /\ [i \in 1 .. 1 - 0 |-> "end"] = <<"end">>
    OBVIOUS
  <2>3. before \o <<>> = before /\ before \o <<"end">> = Append(before, "end")
    BY <1>2
  <2> QED
    BY <1>3, <2>1, <2>2, <2>3 DEF after, before, new
<1>5. CASE e # Done
  <2>1. k = 1 /\ Call(e) = "text"
    BY <1>5 DEF Call
  <2>2. [i \in 1 .. 1 - 1 |-> "end"] = <<>> /\ [i \in 1 .. 1 |-> "text"] = <<"text">>
    OBVIOUS
  <2>3. (before \o <<"text">>) \o <<>> = Append(before, "text")
    BY <1>2
  <2> QED
    BY <1>3, <2>1, <2>2, <2>3 DEF after, before, new
<1> QED
  BY <1>4, <1>5

\* Before its first end the task has reported none.
LEMMA NoneDone ==
  ASSUME StreamTypeOK, TimesDone = 0
  PROVE  \A i \in 1 .. Len(emitted) : emitted[i] # Done
<1> DEFINE I == {i \in 1 .. Len(emitted) : emitted[i] = Done}
<1>1. Len(emitted) \in Nat /\ DOMAIN emitted = 1 .. Len(emitted)
  BY LenProperties DEF StreamTypeOK
<1>2. IsFiniteSet(1 .. Len(emitted))
  BY <1>1, FS_Interval
<1>3. IsFiniteSet(I) /\ Cardinality(I) = 0
  BY <1>1, <1>2, FS_Subset DEF TimesDone
<1>4. I = {}
  <2> HIDE DEF I
  <2> QED
    BY <1>3, FS_EmptySet
<1> QED
  BY <1>4

\* A report of the task is one of a StreamSource.
LEMMA ReportRefines ==
  ASSUME StreamTypeOK, NEW e \in Events, Report(e), task = "running", task' = task,
         e = Done \/ TimesDone = 0
  PROVE  Source!Report
<1> DEFINE k == IF e = Done THEN 0 ELSE 1
           now == Calls(emitted, Len(emitted))
           next == Calls(emitted', Len(emitted'))
<1>1. emitted \in Seq(Events) /\ emitted' = Append(emitted, e)
  BY DEF StreamTypeOK, Report
<1>2. next = now \o [i \in 1 .. k |-> "text"] \o [i \in 1 .. 1 - k |-> "end"]
  BY <1>1, CallsAppend
<1>3. /\ Len(emitted) \in Nat /\ Len(emitted') = Len(emitted) + 1
      /\ Len(now) = Len(emitted) /\ Len(next) = Len(emitted')
      /\ DOMAIN now = 1 .. Len(emitted)
      /\ \A i \in 1 .. Len(emitted) : now[i] = Call(emitted[i])
  BY <1>1, AppendProperties, LenProperties DEF Calls
<1>4. ASSUME NEW i \in DOMAIN now, now[i] = "end" PROVE k = 0
  BY <1>3, <1>4, NoneDone DEF Call
<1>5. k \in 0 .. Len(next) - Len(now) /\ 1 - k \in 0 .. 1
  BY <1>3
<1>6. /\ Calls(emitted, Len(emitted) - Added) = now
      /\ Calls(emitted', Len(emitted') - Added') = next
  BY <1>1, <1>3 DEF Added
<1> HIDE DEF k, now, next
<1> QED
  BY <1>2, <1>4, <1>5, <1>6 DEF Source!Report, Source!Ended

\* A step of the task is one of StreamSource; to the others it is none, but for
\* the end of the header's write, with which the task begins.
LEMMA SourceStep ==
  ASSUME StreamTypeOK, StreamOwnsConnection, [Next]_vars
  PROVE  [Source!Next]_(Source!svars)
<1> USE DEF Source!Next, Source!svars
<1>1. Len(emitted) \in Nat /\ emitted \in Seq(Events)
  BY LenProperties DEF StreamTypeOK
<1>2. CASE OnHeader
  <2>1. emitted' = emitted /\ task' = "running"
    BY <1>2 DEF OnHeader
  <2>2. task = "none"
    BY <1>2 DEF OnHeader, StreamOwnsConnection
  <2>3. Source!Begin
    BY <2>1, <2>2 DEF Source!Begin, Added
  <2> QED
    BY <2>3
<1>3. CASE OnContent
  <2>1. NewChunk \in Events /\ Report(NewChunk)
    BY <1>3, ContentReports
  <2>2. task = "running" /\ task' = task /\ TimesDone = 0
    BY <1>3 DEF OnContent
  <2>3. Source!Report
    BY <2>1, <2>2, ReportRefines
  <2> QED
    BY <2>3
<1>4. CASE OnDone
  <2>1. Source!Report
    BY <1>4, EventNumbers, ReportRefines DEF OnDone
  <2> QED
    BY <2>1
<1>5. CASE TaskReturns
  <2>1. Source!Stop
    BY <1>5 DEF TaskReturns, Source!Stop, Added
  <2> QED
    BY <2>1
<1>6. CASE TaskThrows
  <2>1. /\ Len(emitted') = Len(emitted) + 2
        /\ \A i \in 1 .. Len(emitted) : emitted'[i] = emitted[i]
    <3>1. emitted' = emitted \o <<Error, Done>> /\ <<Error, Done>> \in Seq(Events)
      BY <1>6, EventNumbers DEF TaskThrows
    <3> QED
      BY <1>1, <3>1
  <2>2. Added = 0 /\ Added' = 2 /\ task = "running" /\ task' = "threw"
    BY <1>6 DEF TaskThrows, Added
  <2>3. Len(emitted') - Added' = Len(emitted) /\ Len(emitted) - Added = Len(emitted)
    BY <1>1, <2>1, <2>2
  <2>4. Calls(emitted', Len(emitted)) = Calls(emitted, Len(emitted))
    BY <2>1 DEF Calls
  <2>5. Source!Stop
    BY <2>2, <2>3, <2>4 DEF Source!Stop
  <2> QED
    BY <2>5
<1>7. ASSUME UNCHANGED taskVars PROVE UNCHANGED Source!svars
  BY <1>7 DEF taskVars, Added
<1>8. CASE (Loop /\ ~OnHeader) \/ PeerLeaves \/ Socket \/ UNCHANGED vars
  <2>1. UNCHANGED taskVars
    BY <1>8 DEF Loop, OnReadFails, OnWriteFails, OnWrite, HeaderReturns,
                Respond, ReadRequest,
                RespondUnsupported, StartStream, PeerLeaves, Socket, Transfer,
                TransferFails, vars
  <2> QED
    BY <1>7, <2>1
<1>10. CASE TaskUndefined
  BY <1>10 DEF TaskUndefined, Added
<1>9. ASSUME NEW t \in IoThreads, Dequeue(t) \/ Handler(t)
      PROVE  UNCHANGED taskVars
  BY <1>9 DEF Dequeue, Handler, SendChunk, SendError, ResumeWrite, WriteCompletes
<1> QED
  BY <1>2, <1>3, <1>4, <1>5, <1>6, <1>7, <1>8, <1>9, <1>10
  DEF Next, Step, TaskStep

\* The streaming task of the session behaves as a StreamSource: it reports texts,
\* then the end, and nothing once it has returned or thrown, whatever the session
\* adds of its own after an exception (session.cpp:113-142).
\* This is what Adapter has been shown to implement.
THEOREM TaskIsSource == Spec => Source!Spec
<1>1. Init => Source!Init
  <2> SUFFICES ASSUME Init PROVE Source!Init
    OBVIOUS
  <2>1. emitted = <<>> /\ task = "none" /\ Len(<<>>) = 0
    BY EmptySeq DEF Init
  <2>2. Calls(<<>>, 0) = <<>>
    BY DEF Calls
  <2>3. Len(emitted) - Added = 0
    BY <2>1 DEF Added
  <2> QED
    BY <2>1, <2>2, <2>3 DEF Source!Init
<1>2. IInv /\ [Next]_vars => [Source!Next]_(Source!svars)
  BY SourceStep DEF IInv
<1> QED
  BY <1>1, <1>2, Inductive, PTL DEF Spec, Source!Spec
=============================================================================
