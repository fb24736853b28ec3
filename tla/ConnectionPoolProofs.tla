------------------------- MODULE ConnectionPoolProofs -------------------------
(***************************************************************************)
(* What holds of the connection pool for every finite set of borrowers and *)
(* every pool size: types, no connection idle beside sleeping borrowers    *)
(* only, not everybody waiting, nullptr only in a pool that is too small,  *)
(* and that it implements Lending.                                         *)
(***************************************************************************)
EXTENDS ConnectionPool, FiniteSetTheorems, SequenceTheorems, TLAPS

\* A thread has a connection exactly between Take and Return.
HeldInv == \A t \in Threads : held[t] # 0 <=> pc[t] = "using"

\* Each connection is either idle, once, or with one borrower.
ConserveInv ==
  /\ \A i, j \in 1 .. Len(idle) : idle[i] = idle[j] => i = j
  /\ \A t, u \in Threads : held[t] = held[u] /\ held[t] # 0 => t = u
  /\ \A t \in Threads : held[t] \notin Range(idle)
  /\ \A c \in 1 .. created :
       c \in Range(idle) \/ \E t \in Threads : held[t] = c

\* Only a pool with fewer connections than borrowers turns anybody away.
NullOnlyWhenFewer ==
  \A t \in Threads : pc[t] = "null" => created < Cardinality(Threads)

IInv ==
  TypeOK /\ HeldInv /\ ConserveInv /\ NullOnlyWhenFewer /\ NoConnectionStranded

-----------------------------------------------------------------------------
(* The elements of a queue as it is popped and pushed.                     *)

\* The elements of a queue are its entries, of the type of the queue.
LEMMA RangeSeq ==
  ASSUME NEW S, NEW q \in Seq(S)
  PROVE  Range(q) = {q[i] : i \in 1 .. Len(q)} /\ Range(q) \subseteq S
BY RangeEquality, RangeOfSeq

\* An empty queue has none.
LEMMA RangeNone == Range(<<>>) = {}
<1>1. <<>> \in Seq({}) /\ Len(<<>>) = 0
  BY EmptySeq
<1>2. Range(<<>>) = {<<>>[i] : i \in 1 .. Len(<<>>)}
  BY <1>1, RangeSeq, Zenon
<1>3. 1 .. Len(<<>>) = {}
  BY <1>1
<1> QED
  BY <1>2, <1>3

\* The head of a queue without repetitions is gone from its tail.
LEMMA RangeTail ==
  ASSUME NEW S, NEW q \in Seq(S), q # <<>>,
         \A i, j \in 1 .. Len(q) : q[i] = q[j] => i = j
  PROVE  /\ Tail(q) \in Seq(S)
         /\ Len(q) \in Nat \ {0}
         /\ Len(Tail(q)) = Len(q) - 1
         /\ Head(q) \in Range(q)
         /\ Range(Tail(q)) = Range(q) \ {Head(q)}
         /\ \A i, j \in 1 .. Len(Tail(q)) : Tail(q)[i] = Tail(q)[j] => i = j
<1>1. Len(q) \in Nat \ {0}
  BY EmptySeq
<1>2. /\ Tail(q) \in Seq(S)
      /\ Len(Tail(q)) = Len(q) - 1
      /\ \A i \in 1 .. Len(Tail(q)) : Tail(q)[i] = q[i + 1]
  BY HeadTailProperties
<1>3. Head(q) = q[1]
  BY <1>1
<1>4. /\ Range(q) = {q[i] : i \in 1 .. Len(q)}
      /\ Range(Tail(q)) = {Tail(q)[i] : i \in 1 .. Len(Tail(q))}
  BY <1>2, RangeSeq, Zenon
<1>5. Range(Tail(q)) \subseteq Range(q) \ {Head(q)}
  BY <1>1, <1>2, <1>3, <1>4
<1>6. ASSUME NEW x \in Range(q) \ {Head(q)}
      PROVE  x \in Range(Tail(q))
  <2>1. PICK i \in 1 .. Len(q) : x = q[i]
    BY <1>4
  <2>2. i - 1 \in 1 .. Len(Tail(q)) /\ (i - 1) + 1 = i
    BY <1>1, <1>2, <1>3, <2>1
  <2>3. Tail(q)[i - 1] = x
    BY <1>2, <2>1, <2>2
  <2> QED
    BY <1>4, <2>2, <2>3
<1> QED
  BY <1>1, <1>2, <1>3, <1>4, <1>5, <1>6

\* A value that was not in the queue is added at its end.
LEMMA RangeAppend ==
  ASSUME NEW S, NEW q \in Seq(S), NEW x \in S, x \notin Range(q),
         \A i, j \in 1 .. Len(q) : q[i] = q[j] => i = j
  PROVE  /\ Append(q, x) \in Seq(S)
         /\ Len(Append(q, x)) = Len(q) + 1
         /\ Range(Append(q, x)) = Range(q) \cup {x}
         /\ \A i, j \in 1 .. Len(Append(q, x)) :
              Append(q, x)[i] = Append(q, x)[j] => i = j
<1> DEFINE a == Append(q, x)
<1>1. Len(q) \in Nat
  BY LenProperties
<1>2. /\ a \in Seq(S)
      /\ Len(a) = Len(q) + 1
      /\ \A i \in 1 .. Len(q) : a[i] = q[i]
      /\ a[Len(q) + 1] = x
  BY AppendProperties
<1> HIDE DEF a
<1>3. /\ Range(q) = {q[i] : i \in 1 .. Len(q)}
      /\ Range(a) = {a[i] : i \in 1 .. Len(a)}
  <2>1. a \in Seq(S)
    BY <1>2
  <2> QED
    BY <2>1, RangeSeq, Zenon
<1>4. 1 .. Len(a) = (1 .. Len(q)) \cup {Len(q) + 1}
  BY <1>1, <1>2
<1>5. Range(a) = Range(q) \cup {x}
  BY <1>2, <1>3, <1>4
<1>6. \A i, j \in 1 .. Len(a) : a[i] = a[j] => i = j
  BY <1>1, <1>2, <1>3, <1>4
<1> QED
  BY <1>2, <1>5, <1>6 DEF a

-----------------------------------------------------------------------------
(* One lemma per part of the invariant, one step per action.               *)

\* Types, and who holds.
LEMMA TypeStep ==
  TypeOK /\ HeldInv /\ [Next]_pvars => TypeOK' /\ HeldInv'
<1> SUFFICES ASSUME TypeOK, HeldInv, [Next]_pvars
             PROVE  TypeOK' /\ HeldInv'
  OBVIOUS
<1> USE ConnectionAssumption DEF TypeOK, HeldInv, Goto
<1>1. ASSUME NEW t \in Threads, Borrow(t)
      PROVE  TypeOK' /\ HeldInv'
  BY <1>1 DEF Borrow
<1>2. ASSUME NEW t \in Threads, Take(t)
      PROVE  TypeOK' /\ HeldInv'
  <2>1. Head(idle) \in 1 .. created /\ Tail(idle) \in Seq(1 .. created)
    BY <1>2, HeadTailProperties DEF Take
  <2> QED
    BY <1>2, <2>1 DEF Take, Pop
<1>3. ASSUME NEW t \in Threads, Wait(t)
      PROVE  TypeOK' /\ HeldInv'
  BY <1>3 DEF Wait
<1>4. ASSUME NEW t \in Threads, SpuriousWake(t)
      PROVE  TypeOK' /\ HeldInv'
  BY <1>4 DEF SpuriousWake
<1>5. ASSUME NEW t \in Threads, TimeOut(t)
      PROVE  TypeOK' /\ HeldInv'
  BY <1>5 DEF TimeOut
<1>6. ASSUME NEW t \in Threads, GiveUp(t)
      PROVE  TypeOK' /\ HeldInv'
  BY <1>6 DEF GiveUp
<1>7. ASSUME NEW t \in Threads, Leave(t)
      PROVE  TypeOK' /\ HeldInv'
  BY <1>7 DEF Leave
<1>8. ASSUME NEW t \in Threads, Return(t)
      PROVE  TypeOK' /\ HeldInv'
  <2>1. held[t] \in 1 .. created
    BY <1>8 DEF Return
  <2>2. Append(idle, held[t]) \in Seq(1 .. created)
    BY <2>1, AppendProperties
  <2> QED
    BY <1>8, <2>2 DEF Return, Push
<1>9. ASSUME NEW t \in Threads, NotifyOne(t)
      PROVE  TypeOK' /\ HeldInv'
  BY <1>9 DEF NotifyOne, Blocked
<1>10. CASE UNCHANGED pvars
  BY <1>10 DEF pvars
<1> QED
  BY <1>1, <1>2, <1>3, <1>4, <1>5, <1>6, <1>7, <1>8, <1>9, <1>10
  DEF Next, Internal, Evaluate

\* Taking and returning move a connection between the queue and a borrower.
LEMMA ConserveStep ==
  TypeOK /\ HeldInv /\ ConserveInv /\ [Next]_pvars => ConserveInv'
<1> SUFFICES ASSUME TypeOK, HeldInv, ConserveInv, [Next]_pvars
             PROVE  ConserveInv'
  OBVIOUS
<1>0. ASSUME UNCHANGED <<idle, created, held>>
      PROVE  ConserveInv'
  BY <1>0 DEF ConserveInv
<1>1. ASSUME NEW t \in Threads, Take(t)
      PROVE  ConserveInv'
  <2>1. /\ Head(idle) \in Range(idle)
        /\ Range(idle') = Range(idle) \ {Head(idle)}
        /\ \A i, j \in 1 .. Len(idle') : idle'[i] = idle'[j] => i = j
    BY <1>1, RangeTail DEF Take, Pop, TypeOK, ConserveInv
  <2>2. held[t] = 0 /\ created' = created
    BY <1>1 DEF Take, HeldInv
  <2>3. /\ held'[t] = Head(idle)
        /\ \A u \in Threads \ {t} : held'[u] = held[u]
    BY <1>1 DEF Take, TypeOK
  <2>4. \A u \in Threads : held[u] # Head(idle) /\ held[u] \notin Range(idle)
    BY <2>1 DEF ConserveInv
  <2>5. \A u, v \in Threads : held'[u] = held'[v] /\ held'[u] # 0 => u = v
    BY <2>3, <2>4 DEF ConserveInv
  <2>6. \A u \in Threads : held'[u] \notin Range(idle')
    BY <2>1, <2>3, <2>4
  <2>7. ASSUME NEW c \in 1 .. created
        PROVE  c \in Range(idle') \/ \E u \in Threads : held'[u] = c
    <3>1. CASE c = Head(idle)
      BY <2>3, <3>1
    <3>2. CASE c # Head(idle) /\ c \in Range(idle)
      BY <2>1, <3>2
    <3>3. CASE \E u \in Threads : held[u] = c
      BY <2>2, <2>3, <3>3
    <3> QED
      BY <3>1, <3>2, <3>3 DEF ConserveInv
  <2> QED
    BY <2>1, <2>2, <2>5, <2>6, <2>7 DEF ConserveInv
<1>2. ASSUME NEW t \in Threads, Return(t)
      PROVE  ConserveInv'
  <2>1. held[t] \in 1 .. created /\ held[t] \notin Range(idle) /\ held[t] # 0
    BY <1>2 DEF Return, TypeOK, HeldInv, ConserveInv
  <2>2. /\ Range(idle') = Range(idle) \cup {held[t]}
        /\ \A i, j \in 1 .. Len(idle') : idle'[i] = idle'[j] => i = j
    BY <1>2, <2>1, RangeAppend DEF Return, Push, TypeOK, ConserveInv
  <2>3. /\ held'[t] = 0
        /\ \A u \in Threads \ {t} : held'[u] = held[u]
        /\ created' = created
    BY <1>2 DEF Return, TypeOK
  <2>4. 0 \notin Range(idle')
    <3>1. Range(idle) \subseteq 1 .. created
      BY RangeSeq, Zenon DEF TypeOK
    <3> QED
      BY <2>1, <2>2, <3>1 DEF TypeOK
  <2>5. \A u \in Threads \ {t} : held[u] # held[t]
    BY <2>1 DEF ConserveInv
  <2>6. \A u \in Threads : held'[u] \notin Range(idle')
    BY <2>2, <2>3, <2>4, <2>5 DEF ConserveInv
  <2>7. ASSUME NEW c \in 1 .. created
        PROVE  c \in Range(idle') \/ \E u \in Threads : held'[u] = c
    BY <2>2, <2>3 DEF ConserveInv
  <2> QED
    BY <2>2, <2>3, <2>6, <2>7 DEF ConserveInv
<1> QED
  BY <1>0, <1>1, <1>2
  DEF Next, Internal, Evaluate, Borrow, Wait, SpuriousWake, TimeOut, GiveUp,
      Leave, NotifyOne, pvars

\* Who is turned away saw every connection in other hands.
LEMMA NullStep ==
  TypeOK /\ HeldInv /\ ConserveInv /\ NullOnlyWhenFewer /\ [Next]_pvars
    => NullOnlyWhenFewer'
<1> SUFFICES ASSUME TypeOK, HeldInv, ConserveInv, NullOnlyWhenFewer, [Next]_pvars
             PROVE  NullOnlyWhenFewer'
  OBVIOUS
<1>1. ASSUME NEW t \in Threads, GiveUp(t)
      PROVE  created < Cardinality(Threads)
  <2> DEFINE Others == Threads \ {t}
             user == [c \in 1 .. created |-> CHOOSE u \in Threads : held[u] = c]
  <2>1. Range(idle) = {}
    BY <1>1, RangeNone DEF GiveUp
  <2>2. held[t] = 0
    BY <1>1 DEF GiveUp, HeldInv
  <2>3. \A c \in 1 .. created : user[c] \in Threads /\ held[user[c]] = c
    BY <2>1 DEF ConserveInv
  <2>4. \A c \in 1 .. created : user[c] \in Others
    BY <2>2, <2>3 DEF TypeOK
  <2>5. user \in Injection(1 .. created, Others)
    <3>1. user \in [1 .. created -> Others]
      BY <2>4
    <3>2. IsInjective(user)
      BY <2>3 DEF IsInjective
    <3> HIDE DEF user
    <3> QED
      BY <3>1, <3>2 DEF Injection
  <2>6. /\ IsFiniteSet(Others)
        /\ Cardinality(Others) = Cardinality(Threads) - 1
        /\ Cardinality(Threads) \in Nat
    BY ConnectionAssumption, FS_RemoveElement, FS_CardinalityType
    DEF ConnectionAssumption
  <2>7. Cardinality(1 .. created) <= Cardinality(Others)
    <3> HIDE DEF user, Others
    <3> QED
      BY <2>5, <2>6, FS_Injection
  <2>8. Cardinality(1 .. created) = created /\ created \in Nat
    BY ConnectionAssumption, FS_Interval DEF TypeOK
  <2> HIDE DEF user, Others
  <2> QED
    BY <2>6, <2>7, <2>8
<1>2. created' = created
  BY DEF Next, Internal, Evaluate, Borrow, Take, Wait, SpuriousWake, TimeOut,
         GiveUp, Leave, Return, NotifyOne, pvars
<1>3. ASSUME NEW u \in Threads, pc'[u] = "null", pc[u] # "null"
      PROVE  \E t \in Threads : GiveUp(t)
  BY <1>3 DEF Next, Internal, Evaluate, Borrow, Take, Wait, SpuriousWake, TimeOut,
              Leave, Return, NotifyOne, Blocked, Goto, pvars, TypeOK
<1> QED
  BY <1>1, <1>2, <1>3 DEF NullOnlyWhenFewer

\* An idle connection always has somebody on the way to it.
LEMMA StrandedStep ==
  TypeOK /\ ConserveInv /\ NoConnectionStranded /\ [Next]_pvars
    => NoConnectionStranded'
<1> SUFFICES ASSUME TypeOK, ConserveInv, NoConnectionStranded, [Next]_pvars
             PROVE  NoConnectionStranded'
  OBVIOUS
<1> USE DEF NoConnectionStranded, Goto
<1>0. /\ IsFiniteSet(Evaluating) /\ Cardinality(Evaluating) \in Nat
      /\ IsFiniteSet(Notifying) /\ Cardinality(Notifying) \in Nat
      /\ Cardinality(Evaluating') \in Nat /\ Cardinality(Notifying') \in Nat
  <2>1. /\ Evaluating \in SUBSET Threads /\ Notifying \in SUBSET Threads
        /\ Evaluating' \in SUBSET Threads /\ Notifying' \in SUBSET Threads
    BY DEF Evaluating, Notifying
  <2> QED
    BY <2>1, ConnectionAssumption, FS_Subset, FS_CardinalityType
    DEF ConnectionAssumption
<1>1. Len(idle) \in Nat /\ Len(<<>>) = 0
  BY EmptySeq, LenProperties DEF TypeOK
<1>2. ASSUME NEW t \in Threads, Borrow(t)
      PROVE  NoConnectionStranded'
  <2>1. Evaluating' = Evaluating \cup {t} /\ t \notin Evaluating
    BY <1>2 DEF Borrow, Evaluating, TypeOK
  <2>2. Notifying' = Notifying /\ Blocked' = Blocked /\ idle' = idle
    BY <1>2 DEF Borrow, Notifying, Blocked, TypeOK
  <2>3. Cardinality(Evaluating') = Cardinality(Evaluating) + 1
    BY <2>1, <1>0, FS_AddElement
  <2> QED
    BY <2>2, <2>3, <1>0, <1>1
<1>3. ASSUME NEW t \in Threads, Take(t)
      PROVE  NoConnectionStranded'
  <2>1. Evaluating' = Evaluating \ {t} /\ t \in Evaluating
    BY <1>3 DEF Take, Evaluating, TypeOK
  <2>2. Notifying' = Notifying /\ Blocked' = Blocked
    BY <1>3 DEF Take, Notifying, Blocked, TypeOK
  <2>3. Cardinality(Evaluating') = Cardinality(Evaluating) - 1
    BY <2>1, <1>0, FS_RemoveElement
  <2>4. Len(idle') = Len(idle) - 1
    BY <1>3, RangeTail DEF Take, Pop, TypeOK, ConserveInv
  <2> QED
    BY <2>2, <2>3, <2>4, <1>0, <1>1
<1>4. ASSUME NEW t \in Threads, Wait(t) \/ GiveUp(t)
      PROVE  NoConnectionStranded'
  BY <1>0, <1>1, <1>4 DEF Wait, GiveUp
<1>5. ASSUME NEW t \in Threads, SpuriousWake(t)
      PROVE  NoConnectionStranded'
  <2>1. Evaluating' = Evaluating \cup {t} /\ t \notin Evaluating
    BY <1>5 DEF SpuriousWake, Evaluating, TypeOK
  <2>2. Notifying' = Notifying /\ idle' = idle
    BY <1>5 DEF SpuriousWake, Notifying, TypeOK
  <2>3. Blocked' # {} => Blocked # {}
    BY <1>5 DEF SpuriousWake, Blocked, TypeOK
  <2>4. Cardinality(Evaluating') = Cardinality(Evaluating) + 1
    BY <2>1, <1>0, FS_AddElement
  <2> QED
    BY <2>2, <2>3, <2>4, <1>0, <1>1
<1>6. ASSUME NEW t \in Threads, TimeOut(t)
      PROVE  NoConnectionStranded'
  <2>1. Evaluating' = Evaluating \cup {t}
    BY <1>6 DEF TimeOut, Evaluating, TypeOK
  <2>2. Notifying' = Notifying /\ idle' = idle
    BY <1>6 DEF TimeOut, Notifying, TypeOK
  <2>3. Blocked' # {} => Blocked # {}
    BY <1>6 DEF TimeOut, Blocked, TypeOK
  <2>4. Cardinality(Evaluating') \in {Cardinality(Evaluating),
                                      Cardinality(Evaluating) + 1}
    <3>1. Cardinality(Evaluating \cup {t})
            = IF t \in Evaluating THEN Cardinality(Evaluating)
                                  ELSE Cardinality(Evaluating) + 1
      BY <1>0, FS_AddElement
    <3> QED
      BY <2>1, <3>1
  <2> QED
    BY <2>2, <2>3, <2>4, <1>0, <1>1
<1>7. ASSUME NEW t \in Threads, Leave(t)
      PROVE  NoConnectionStranded'
  <2>1. /\ Evaluating' = Evaluating /\ Notifying' = Notifying
        /\ Blocked' = Blocked /\ idle' = idle
    BY <1>7 DEF Leave, Evaluating, Notifying, Blocked, TypeOK
  <2> QED
    BY <2>1
<1>8. ASSUME NEW t \in Threads, Return(t)
      PROVE  NoConnectionStranded'
  <2>1. Notifying' = Notifying \cup {t} /\ t \notin Notifying
    BY <1>8 DEF Return, Notifying, TypeOK
  <2>2. Evaluating' = Evaluating /\ Blocked' = Blocked
    BY <1>8 DEF Return, Evaluating, Blocked, TypeOK
  <2>3. Cardinality(Notifying') = Cardinality(Notifying) + 1
    BY <2>1, <1>0, FS_AddElement
  <2>4. Len(idle') = Len(idle) + 1
    BY <1>8 DEF Return, Push, TypeOK
  <2> QED
    BY <2>2, <2>3, <2>4, <1>0, <1>1
<1>9. ASSUME NEW t \in Threads, NotifyOne(t)
      PROVE  NoConnectionStranded'
  <2>1. CASE Blocked = {}
    BY <1>9, <2>1 DEF NotifyOne, Blocked, TypeOK
  <2>2. CASE Blocked # {}
    <3>1. PICK w \in Blocked : pc' = [pc EXCEPT ![t] = "out", ![w] = "enter"]
      BY <1>9, <2>2 DEF NotifyOne
    <3>2. w \in Threads /\ pc[w] = "blocked" /\ pc[t] = "notify"
      BY <1>9 DEF Blocked, NotifyOne
    <3>3. Evaluating' = Evaluating \cup {w} /\ w \notin Evaluating
      BY <3>1, <3>2 DEF Evaluating, TypeOK
    <3>4. Notifying' = Notifying \ {t} /\ t \in Notifying
      BY <3>1, <3>2 DEF Notifying, TypeOK
    <3>5. /\ Cardinality(Evaluating') = Cardinality(Evaluating) + 1
          /\ Cardinality(Notifying') = Cardinality(Notifying) - 1
      BY <3>3, <3>4, <1>0, FS_AddElement, FS_RemoveElement
    <3>6. idle' = idle
      BY <1>9 DEF NotifyOne
    <3> QED
      BY <2>2, <3>5, <3>6, <1>0, <1>1
  <2> QED
    BY <2>1, <2>2
<1>10. CASE UNCHANGED pvars
  BY <1>10 DEF pvars, Evaluating, Notifying, Blocked
<1> QED
  BY <1>2, <1>3, <1>4, <1>5, <1>6, <1>7, <1>8, <1>9, <1>10
  DEF Next, Internal, Evaluate

-----------------------------------------------------------------------------
\* The invariant holds of a new pool: all its connections are idle.
LEMMA InitIInv == Init => IInv
<1> SUFFICES ASSUME Init
             PROVE  IInv
  OBVIOUS
<1> USE ConnectionAssumption
<1>1. created \in 1 .. PoolSize /\ created \in Nat
  BY DEF Init
<1>2. idle \in Seq(1 .. created) /\ Len(idle) = created
  BY <1>1 DEF Init
<1>3. \A i \in 1 .. created : idle[i] = i
  BY DEF Init
<1>4. /\ pc = [t \in Threads |-> "out"]
      /\ held = [t \in Threads |-> 0]
  BY DEF Init
<1>5. TypeOK
  BY <1>1, <1>2, <1>4 DEF TypeOK
<1>6. Range(idle) = 1 .. created
  <2>1. Range(idle) = {idle[i] : i \in 1 .. created}
    BY <1>2, RangeSeq
  <2> QED
    BY <1>3, <2>1
<1>7. ConserveInv
  BY <1>1, <1>2, <1>3, <1>4, <1>6 DEF ConserveInv
<1>8. HeldInv /\ NullOnlyWhenFewer /\ NoConnectionStranded
  BY <1>4 DEF HeldInv, NullOnlyWhenFewer, NoConnectionStranded, Blocked
<1> QED
  BY <1>5, <1>7, <1>8 DEF IInv

\* The strengthened invariant holds in every reachable state.
THEOREM Inductive == Spec => []IInv
<1>1. Init => IInv
  BY InitIInv
<1>2. IInv /\ [Next]_pvars => IInv'
  BY TypeStep, ConserveStep, NullStep, StrandedStep DEF IInv
<1> QED
  BY <1>1, <1>2, PTL DEF Spec

\* The variables of the pool keep their types.
THEOREM TypeCorrect == Spec => []TypeOK
<1>1. IInv => TypeOK
  BY DEF IInv
<1> QED
  BY <1>1, Inductive, PTL

\* Whatever the number of borrowers and connections, a connection is not left
\* idle beside sleeping borrowers: the timeout swallows no notification.
THEOREM NotStranded == Spec => []NoConnectionStranded
<1>1. IInv => NoConnectionStranded
  BY DEF IInv
<1> QED
  BY <1>1, Inductive, PTL

\* borrow answers nullptr only in a pool of fewer connections than borrowers.
THEOREM NullNeedsFewer == Spec => []NullOnlyWhenFewer
<1>1. IInv => NullOnlyWhenFewer
  BY DEF IInv
<1> QED
  BY <1>1, Inductive, PTL

\* The borrowers are never all asleep: some connection would be idle, and then
\* somebody is on the way to it.
THEOREM SomebodyAwake == Spec => []NotAllWaiting
<1>1. IInv => NotAllWaiting
  <2> SUFFICES ASSUME IInv, Threads # {}, Blocked = Threads
               PROVE  FALSE
    BY DEF NotAllWaiting
  <2>1. \A t \in Threads : pc[t] = "blocked" /\ held[t] = 0
    BY DEF Blocked, IInv, HeldInv
  <2>2. 1 \in 1 .. created /\ 1 # 0
    BY ConnectionAssumption DEF IInv, TypeOK
  <2>3. 1 \in Range(idle)
    BY <2>1, <2>2 DEF IInv, ConserveInv
  <2>4. Len(idle) \in Nat \ {0}
    BY <2>3, RangeSeq, LenProperties DEF IInv, TypeOK
  <2>5. Evaluating = {} /\ Notifying = {}
    BY <2>1 DEF Evaluating, Notifying
  <2> QED
    BY <2>4, <2>5, FS_EmptySet DEF IInv, NoConnectionStranded
<1> QED
  BY <1>1, Inductive, PTL

-----------------------------------------------------------------------------
(* Each step of the pool is a step of Lending or changes nothing of it.    *)

Mapped == [t \in Threads |-> Asking(t)]

\* A new pool has lent nothing.
LEMMA InitRefines == Init => Lent!Init
<1> SUFFICES ASSUME Init
             PROVE  Lent!Init
  OBVIOUS
<1>1. Range(idle) \subseteq Nat \ {0}
  <2>1. idle \in Seq(1 .. created)
    BY InitIInv DEF IInv, TypeOK
  <2>2. Range(idle) \subseteq 1 .. created
    BY <2>1, RangeSeq, Zenon
  <2> QED
    BY <2>2
<1>2. [t \in Threads |-> Asking(t)] = [t \in Threads |-> "no"]
  BY DEF Init, Asking
<1> QED
  BY <1>1, <1>2 DEF Init, Lent!Init

\* Each step of the pool is a step of Lending or a stutter.
LEMMA StepRefines == IInv /\ [Next]_pvars => [Lent!Next]_(Lent!lvars)
<1> SUFFICES ASSUME IInv, [Next]_pvars
             PROVE  [Lent!Next]_(Lent!lvars)
  OBVIOUS
<1> USE DEF Goto
<1>0. pc \in [Threads -> {"out", "enter", "blocked", "expired", "null",
                          "using", "notify"}]
  BY DEF IInv, TypeOK
<1>1. ASSUME NEW t \in Threads, Borrow(t)
      PROVE  Lent!Ask(t)
  <2>1. Mapped' = [Mapped EXCEPT ![t] = "yes"] /\ Mapped[t] = "no"
    BY <1>0, <1>1 DEF Borrow, Mapped, Asking
  <2>2. held[t] = 0
    BY <1>1 DEF Borrow, IInv, HeldInv
  <2> QED
    BY <1>1, <2>1, <2>2 DEF Borrow, Lent!Ask, Mapped
<1>2. ASSUME NEW t \in Threads, Take(t)
      PROVE  Lent!Grant(t)
  <2>1. Mapped' = [Mapped EXCEPT ![t] = "no"] /\ Mapped[t] = "yes"
    BY <1>0, <1>2 DEF Take, Mapped, Asking
  <2>2. /\ Head(idle) \in Range(idle)
        /\ Range(idle') = Range(idle) \ {Head(idle)}
    BY <1>2, RangeTail DEF Take, Pop, IInv, TypeOK, ConserveInv
  <2>3. held' = [held EXCEPT ![t] = Head(idle)]
    BY <1>2 DEF Take
  <2> QED
    BY <2>1, <2>2, <2>3 DEF Lent!Grant, Mapped
<1>3. ASSUME NEW t \in Threads,
             Wait(t) \/ SpuriousWake(t) \/ TimeOut(t) \/ NotifyOne(t)
      PROVE  UNCHANGED Lent!lvars
  <2>1. Mapped' = Mapped
    BY <1>0, <1>3
    DEF Wait, SpuriousWake, TimeOut, NotifyOne, Blocked, Mapped, Asking
  <2>2. UNCHANGED <<idle, held>>
    BY <1>3 DEF Wait, SpuriousWake, TimeOut, NotifyOne
  <2> QED
    BY <2>1, <2>2 DEF Lent!lvars, Mapped
<1>4. ASSUME NEW t \in Threads, GiveUp(t)
      PROVE  Lent!Refuse(t)
  <2>1. Mapped' = [Mapped EXCEPT ![t] = "refused"] /\ Mapped[t] = "yes"
    BY <1>0, <1>4 DEF GiveUp, Mapped, Asking
  <2>2. Range(idle) = {}
    BY <1>4, RangeNone DEF GiveUp
  <2> QED
    BY <1>4, <2>1, <2>2 DEF GiveUp, Lent!Refuse, Mapped
<1>5. ASSUME NEW t \in Threads, Leave(t)
      PROVE  Lent!Accept(t)
  <2>1. Mapped' = [Mapped EXCEPT ![t] = "no"] /\ Mapped[t] = "refused"
    BY <1>0, <1>5 DEF Leave, Mapped, Asking
  <2> QED
    BY <1>5, <2>1 DEF Leave, Lent!Accept, Mapped
<1>6. ASSUME NEW t \in Threads, Return(t)
      PROVE  Lent!GiveBack(t)
  <2>1. Mapped' = Mapped
    BY <1>0, <1>6 DEF Return, Mapped, Asking
  <2>2. held[t] \in 1 .. created /\ held[t] \notin Range(idle) /\ held[t] # 0
    BY <1>6 DEF Return, IInv, TypeOK, HeldInv, ConserveInv
  <2>3. Range(idle') = Range(idle) \cup {held[t]}
    BY <1>6, <2>2, RangeAppend DEF Return, Push, IInv, TypeOK, ConserveInv
  <2>4. held' = [held EXCEPT ![t] = 0]
    BY <1>6 DEF Return
  <2> QED
    BY <2>1, <2>2, <2>3, <2>4 DEF Lent!GiveBack, Mapped
<1>7. CASE UNCHANGED pvars
  BY <1>7 DEF pvars, Lent!lvars, Asking
<1> QED
  BY <1>1, <1>2, <1>3, <1>4, <1>5, <1>6, <1>7
  DEF Next, Internal, Evaluate, Lent!Next

\* The pool implements Lending: one holder per connection, and nobody is
\* turned away while a connection is free.
THEOREM Refinement == Spec => ImplementsLending
<1>1. Init => Lent!Init
  BY InitRefines
<1>2. IInv /\ [Next]_pvars => [Lent!Next]_(Lent!lvars)
  BY StepRefines
<1> QED
  BY <1>1, <1>2, Inductive, PTL DEF Spec, ImplementsLending, Lent!Spec
=============================================================================
