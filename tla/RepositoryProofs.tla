--------------------------- MODULE RepositoryProofs ---------------------------
(***************************************************************************)
(* What holds of the repository for every set of threads and keys and      *)
(* every pool size: it keeps the protocol of the connection pool, and what *)
(* a client has been told of a key (created, disabled) stays true.         *)
(***************************************************************************)
EXTENDS Repository, TLAPS

PoolProofs == INSTANCE ConnectionPoolProofs

\* The variables of the repository proper.
RepoTypeOK ==
  /\ row \in [Keys -> {"absent", "on", "off"}]
  /\ call \in [Threads -> Calls \cup {NoCall}]
  /\ reply \in [Threads -> Replies]
  /\ crashed \in BOOLEAN
  /\ shut \in [Keys -> Nat]
  /\ known \subseteq Keys
  /\ shutBefore \in [Threads -> SUBSET Keys]
  /\ knownBefore \in [Threads -> SUBSET Keys]

\* A reply belongs to a call, and to one of its kind.
KindInv ==
  \A t \in Threads :
    /\ call[t] = NoCall => reply[t] = "none"
    /\ reply[t] \in {"found", "not_found"} => call[t].kind = "find"
    /\ reply[t] = "created" => call[t].kind = "create"
    /\ reply[t] = "true" => call[t].kind = "disable"

\* What has been answered "disabled", or is about to be, is off in the table.
OffInv ==
  /\ \A k \in Keys : shut[k] > 0 => row[k] = "off"
  /\ \A t \in Threads : \A k \in shutBefore[t] : row[k] = "off"
  /\ \A t \in Threads : reply[t] = "true" => row[call[t].key] = "off"

\* What has been handed out, or is about to be, is in the table.
KnownInv ==
  /\ \A k \in known : row[k] # "absent"
  /\ \A t \in Threads : \A k \in knownBefore[t] : row[k] # "absent"
  /\ \A t \in Threads : reply[t] = "created" => row[call[t].key] # "absent"

\* The answer "disabled" is given once, counting the one on its way.
OnceInv ==
  /\ DisabledOnce
  /\ \A t \in Threads : reply[t] = "true" => shut[call[t].key] = 0
  /\ \A t, u \in Threads :
       /\ reply[t] = "true" /\ reply[u] = "true"
       /\ call[t].key = call[u].key
       => t = u

IInv ==
  /\ RepoTypeOK /\ KindInv /\ OffInv /\ KnownInv /\ OnceInv
  /\ ShutKeyRejected /\ CreatedKeyAccepted

-----------------------------------------------------------------------------
(* The pool: what the repository does to it is a behaviour of it.          *)

\* Each step of the repository is a step of the pool or none.
LEMMA PoolStep == [Next]_vars => [Pool!Next]_(Pool!pvars)
<1> SUFFICES ASSUME [Next]_vars
             PROVE  [Pool!Next]_(Pool!pvars)
  OBVIOUS
<1>1. ASSUME NEW t \in Threads, NEW c \in Calls, Begin(t, c)
      PROVE  Pool!Next
  BY <1>1 DEF Begin, Pool!Next
<1>2. ASSUME NEW t \in Threads, InPool(t)
      PROVE  Pool!Next
  BY <1>2 DEF InPool, Pool!Next
<1>3. ASSUME NEW t \in Threads, NoConnection(t)
      PROVE  Pool!Next
  BY <1>3 DEF NoConnection, Pool!Next
<1>4. ASSUME NEW t \in Threads, GiveBack(t)
      PROVE  Pool!Next
  BY <1>4 DEF GiveBack, Pool!Next
<1>5. ASSUME NEW t \in Threads,
             UseNull(t) \/ RunFind(t) \/ RunCreate(t) \/ RunList(t)
               \/ RunDisable(t) \/ End(t)
      PROVE  UNCHANGED Pool!pvars
  BY <1>5 DEF UseNull, RunFind, RunCreate, RunList, RunDisable, End, poolVars,
              Pool!pvars
<1>6. CASE UNCHANGED vars
  BY <1>6 DEF vars, poolVars, Pool!pvars
<1> QED
  BY <1>1, <1>2, <1>3, <1>4, <1>5, <1>6 DEF Next

\* No path leaks a connection, returns it twice or uses it after its return.
THEOREM PoolProtocolKept == Spec => KeepsPoolProtocol
<1>1. Init => Pool!Init
  BY DEF Init
<1> QED
  BY <1>1, PoolStep, PTL DEF Spec, KeepsPoolProtocol, Pool!Spec

\* The theorems of the pool are about this pool.
LEMMA SamePool ==
  /\ PoolProofs!ConnectionAssumption
  /\ PoolProofs!Init <=> Pool!Init
  /\ [PoolProofs!Next]_(PoolProofs!pvars) <=> [Pool!Next]_(Pool!pvars)
  /\ PoolProofs!TypeOK <=> Pool!TypeOK
<1>1. PoolProofs!ConnectionAssumption
  BY RepositoryAssumption
  DEF Pool!ConnectionAssumption, PoolProofs!ConnectionAssumption,
      Pool!IsFiniteSet, PoolProofs!IsFiniteSet
<1>2. PoolProofs!Init <=> Pool!Init
  BY DEF PoolProofs!Init, Pool!Init
<1>3. PoolProofs!Next <=> Pool!Next
  BY DEF PoolProofs!Next, PoolProofs!Internal, PoolProofs!Evaluate,
         PoolProofs!Borrow, PoolProofs!Take, PoolProofs!Wait,
         PoolProofs!SpuriousWake, PoolProofs!TimeOut, PoolProofs!GiveUp,
         PoolProofs!Leave, PoolProofs!Return, PoolProofs!NotifyOne,
         PoolProofs!Goto, PoolProofs!Pop, PoolProofs!Push, PoolProofs!Blocked,
         Pool!Next, Pool!Internal, Pool!Evaluate, Pool!Borrow, Pool!Take,
         Pool!Wait, Pool!SpuriousWake, Pool!TimeOut, Pool!GiveUp, Pool!Leave,
         Pool!Return, Pool!NotifyOne, Pool!Goto, Pool!Pop, Pool!Push,
         Pool!Blocked
<1>4. PoolProofs!pvars = Pool!pvars /\ PoolProofs!pvars' = Pool!pvars'
  BY DEF PoolProofs!pvars, Pool!pvars
<1>5. PoolProofs!TypeOK <=> Pool!TypeOK
  BY DEF PoolProofs!TypeOK, Pool!TypeOK
<1> QED
  BY <1>1, <1>2, <1>3, <1>4, <1>5

\* So its invariants hold below the repository.
LEMMA PoolInvariants ==
  Spec => [](Pool!TypeOK /\ PoolProofs!NullOnlyWhenFewer)
<1>1. Spec => PoolProofs!Spec
  BY SamePool, PoolProtocolKept, PTL
  DEF KeepsPoolProtocol, Pool!Spec, PoolProofs!Spec
<1>2. PoolProofs!Spec => []PoolProofs!TypeOK
  BY SamePool, PoolProofs!TypeCorrect
<1>3. PoolProofs!Spec => []PoolProofs!NullOnlyWhenFewer
  BY SamePool, PoolProofs!NullNeedsFewer
<1>4. PoolProofs!TypeOK <=> Pool!TypeOK
  BY SamePool
<1> QED
  BY <1>1, <1>2, <1>3, <1>4, PTL
-----------------------------------------------------------------------------
(* The shapes of the calls.                                                *)

\* Every call of a key names one of the keys.
LEMMA CallShape ==
  ASSUME NEW c \in Calls \cup {NoCall}
  PROVE  /\ c.kind \in {"find", "create", "disable"} => c.key \in Keys
         /\ c = NoCall <=> c.kind = "none"
<1>1. CASE c = NoCall \/ c = List
  BY <1>1 DEF NoCall, List
<1>2. ASSUME NEW k \in Keys, c \in {Find(k), Create(k), Disable(k)}
      PROVE  c.kind # "none" /\ c.key \in Keys
  BY <1>2 DEF Find, Create, Disable
<1>3. ASSUME NEW k \in Keys, c \in {Find(k), Create(k), Disable(k)}
      PROVE  c # NoCall
  BY <1>2, <1>3 DEF NoCall
<1> QED
  BY <1>1, <1>2, <1>3 DEF Calls, NoCall

\* A thread that has a reply about a key is in a call of that key.
LEMMA KeyOfReply ==
  ASSUME RepoTypeOK, KindInv, NEW t \in Threads,
         reply[t] \in {"found", "not_found", "created", "true"}
  PROVE  call[t].key \in Keys
<1>1. call[t] \in Calls \cup {NoCall}
  BY DEF RepoTypeOK
<1>2. call[t].kind \in {"find", "create", "disable"}
  BY DEF KindInv
<1> QED
  BY <1>1, <1>2, CallShape

-----------------------------------------------------------------------------
(* One lemma per part of the invariant, one step per action.               *)

\* The steps that touch neither the table nor what is known of it.
Elsewhere(t) ==
  InPool(t) \/ NoConnection(t) \/ UseNull(t) \/ RunList(t) \/ GiveBack(t)

\* They change no reply but one that is no news.
LEMMA ElsewhereFrame ==
  ASSUME RepoTypeOK, NEW t \in Threads, Elsewhere(t)
  PROVE  /\ UNCHANGED <<row, call, shut, known, shutBefore, knownBefore>>
         /\ crashed' \in BOOLEAN
         /\ \/ reply' = reply
            \/ /\ reply' = [reply EXCEPT ![t] = "db_error"]
               /\ call[t].kind = "find"
            \/ /\ reply' = [reply EXCEPT ![t] = "listed"]
               /\ call[t].kind = "list"
BY DEF Elsewhere, InPool, NoConnection, UseNull, RunList, GiveBack, Ready,
       Reply, history, RepoTypeOK

\* Types.
LEMMA TypeStep == RepoTypeOK /\ KindInv /\ [Next]_vars => RepoTypeOK'
<1> SUFFICES ASSUME RepoTypeOK, KindInv, [Next]_vars
             PROVE  RepoTypeOK'
  OBVIOUS
<1> USE DEF Replies
<1>1. ASSUME NEW t \in Threads, NEW c \in Calls, Begin(t, c)
      PROVE  RepoTypeOK'
  BY <1>1 DEF Begin, RepoTypeOK
<1>2. ASSUME NEW t \in Threads, Elsewhere(t)
      PROVE  RepoTypeOK'
  BY <1>2, ElsewhereFrame DEF RepoTypeOK
<1>3. ASSUME NEW t \in Threads, RunFind(t)
      PROVE  RepoTypeOK'
  BY <1>3 DEF RunFind, Reply, history, RepoTypeOK
<1>4. ASSUME NEW t \in Threads, RunCreate(t)
      PROVE  RepoTypeOK'
  BY <1>4 DEF RunCreate, Reply, InsertFailed, history, RepoTypeOK
<1>5. ASSUME NEW t \in Threads, RunDisable(t)
      PROVE  RepoTypeOK'
  BY <1>5 DEF RunDisable, Reply, RowsChanged, history, RepoTypeOK
<1>6. ASSUME NEW t \in Threads, End(t)
      PROVE  RepoTypeOK'
  <2>1. reply[t] \in {"true", "created"} => call[t].key \in Keys
    BY KeyOfReply
  <2> QED
    BY <1>6, <2>1 DEF End, Reply, RepoTypeOK
<1>7. CASE UNCHANGED vars
  BY <1>7 DEF vars, history, RepoTypeOK
<1> QED
  BY <1>1, <1>2, <1>3, <1>4, <1>5, <1>6, <1>7 DEF Next, Elsewhere

\* A reply stays with its call.
LEMMA KindStep == RepoTypeOK /\ KindInv /\ [Next]_vars => KindInv'
<1> SUFFICES ASSUME RepoTypeOK, KindInv, [Next]_vars
             PROVE  KindInv'
  OBVIOUS
<1>0. \A t \in Threads : call[t] = NoCall <=> call[t].kind = "none"
  BY CallShape DEF RepoTypeOK
<1>1. ASSUME NEW t \in Threads, NEW c \in Calls, Begin(t, c)
      PROVE  KindInv'
  BY <1>1 DEF Begin, KindInv, RepoTypeOK
<1>2. ASSUME NEW t \in Threads, Elsewhere(t)
      PROVE  KindInv'
  BY <1>0, <1>2, ElsewhereFrame DEF KindInv, RepoTypeOK
<1>3. ASSUME NEW t \in Threads, RunFind(t)
      PROVE  KindInv'
  BY <1>0, <1>3 DEF RunFind, Ready, Reply, KindInv, RepoTypeOK
<1>4. ASSUME NEW t \in Threads, RunCreate(t)
      PROVE  KindInv'
  BY <1>0, <1>4 DEF RunCreate, Ready, Reply, InsertFailed, KindInv, RepoTypeOK
<1>5. ASSUME NEW t \in Threads, RunDisable(t)
      PROVE  KindInv'
  BY <1>0, <1>5 DEF RunDisable, Ready, Reply, RowsChanged, KindInv, RepoTypeOK
<1>6. ASSUME NEW t \in Threads, End(t)
      PROVE  KindInv'
  BY <1>6 DEF End, Reply, KindInv, RepoTypeOK
<1>7. CASE UNCHANGED vars
  BY <1>7 DEF vars, KindInv
<1> QED
  BY <1>1, <1>2, <1>3, <1>4, <1>5, <1>6, <1>7 DEF Next, Elsewhere

\* A row that is off stays off, and no row is ever deleted.
LEMMA RowsOnlyGoOff ==
  ASSUME RepoTypeOK, [Next]_vars
  PROVE  \A k \in Keys : /\ row[k] = "off" => row'[k] = "off"
                         /\ row[k] # "absent" => row'[k] # "absent"
<1>1. ASSUME NEW t \in Threads, RunCreate(t)
      PROVE  \A k \in Keys : row[k] # "absent" => row'[k] = row[k]
  BY <1>1 DEF RunCreate, RepoTypeOK
<1>2. ASSUME NEW t \in Threads, RunDisable(t)
      PROVE  \A k \in Keys : /\ row[k] = "off" => row'[k] = "off"
                             /\ row[k] # "absent" => row'[k] # "absent"
  BY <1>2 DEF RunDisable, RepoTypeOK
<1>3. ASSUME NEW t \in Threads, Elsewhere(t)
      PROVE  row' = row
  BY <1>3, ElsewhereFrame
<1>4. ASSUME NEW t \in Threads, NEW c \in Calls, Begin(t, c)
      PROVE  row' = row
  BY <1>4 DEF Begin
<1>5. ASSUME NEW t \in Threads, RunFind(t) \/ End(t)
      PROVE  row' = row
  BY <1>5 DEF RunFind, End
<1>6. CASE UNCHANGED vars
  BY <1>6 DEF vars
<1> QED
  BY <1>1, <1>2, <1>3, <1>4, <1>5, <1>6 DEF Next, Elsewhere

\* Who has been told "disabled" finds the key off.
LEMMA OffStep == RepoTypeOK /\ KindInv /\ OffInv /\ [Next]_vars => OffInv'
<1> SUFFICES ASSUME RepoTypeOK, KindInv, OffInv, [Next]_vars
             PROVE  OffInv'
  OBVIOUS
<1>0. \A k \in Keys : row[k] = "off" => row'[k] = "off"
  BY RowsOnlyGoOff
<1>0a. /\ \A t \in Threads : shutBefore[t] \subseteq Keys
       /\ \A t \in Threads : reply[t] = "true" => call[t].key \in Keys
  BY KeyOfReply DEF RepoTypeOK
<1>1. ASSUME NEW t \in Threads, NEW c \in Calls, Begin(t, c)
      PROVE  OffInv'
  BY <1>1 DEF Begin, OffInv, RepoTypeOK, KindInv
<1>2. ASSUME NEW t \in Threads, Elsewhere(t)
      PROVE  OffInv'
  BY <1>2, ElsewhereFrame DEF OffInv, RepoTypeOK
<1>3. ASSUME NEW t \in Threads, RunFind(t)
      PROVE  OffInv'
  BY <1>3 DEF RunFind, Reply, history, OffInv, RepoTypeOK
<1>4. ASSUME NEW t \in Threads, RunCreate(t)
      PROVE  OffInv'
  BY <1>0, <1>0a, <1>4 DEF RunCreate, Reply, InsertFailed, history, OffInv, RepoTypeOK
<1>5. ASSUME NEW t \in Threads, RunDisable(t)
      PROVE  OffInv'
  <2>1. reply'[t] = "true" => row'[call[t].key] = "off"
    <3>1. call[t].key \in Keys
      BY <1>5, CallShape DEF RunDisable, Ready, RepoTypeOK
    <3> QED
      BY <1>5, <3>1 DEF RunDisable, Reply, RowsChanged, RepoTypeOK
  <2> QED
    BY <1>0, <1>0a, <1>5, <2>1 DEF RunDisable, Reply, history, OffInv, RepoTypeOK
<1>6. ASSUME NEW t \in Threads, End(t)
      PROVE  OffInv'
  BY <1>0a, <1>6 DEF End, Reply, OffInv, RepoTypeOK
<1>7. CASE UNCHANGED vars
  BY <1>7 DEF vars, history, OffInv
<1> QED
  BY <1>1, <1>2, <1>3, <1>4, <1>5, <1>6, <1>7 DEF Next, Elsewhere

\* Who has been given a key finds it in the table.
LEMMA KnownStep == RepoTypeOK /\ KindInv /\ KnownInv /\ [Next]_vars => KnownInv'
<1> SUFFICES ASSUME RepoTypeOK, KindInv, KnownInv, [Next]_vars
             PROVE  KnownInv'
  OBVIOUS
<1>0. \A k \in Keys : row[k] # "absent" => row'[k] # "absent"
  BY RowsOnlyGoOff
<1>0a. /\ known \subseteq Keys
       /\ \A t \in Threads : knownBefore[t] \subseteq Keys
       /\ \A t \in Threads : reply[t] = "created" => call[t].key \in Keys
  BY KeyOfReply DEF RepoTypeOK
<1>1. ASSUME NEW t \in Threads, NEW c \in Calls, Begin(t, c)
      PROVE  KnownInv'
  BY <1>1 DEF Begin, KnownInv, RepoTypeOK, KindInv
<1>2. ASSUME NEW t \in Threads, Elsewhere(t)
      PROVE  KnownInv'
  BY <1>2, ElsewhereFrame DEF KnownInv, RepoTypeOK
<1>3. ASSUME NEW t \in Threads, RunFind(t)
      PROVE  KnownInv'
  BY <1>3 DEF RunFind, Reply, history, KnownInv, RepoTypeOK
<1>4. ASSUME NEW t \in Threads, RunCreate(t)
      PROVE  KnownInv'
  <2>1. reply'[t] = "created" => row'[call[t].key] # "absent"
    <3>1. call[t].key \in Keys
      BY <1>4, CallShape DEF RunCreate, Ready, RepoTypeOK
    <3> QED
      BY <1>4, <3>1 DEF RunCreate, Reply, InsertFailed, RepoTypeOK
  <2> QED
    BY <1>0, <1>0a, <1>4, <2>1
    DEF RunCreate, Reply, InsertFailed, history, KnownInv, RepoTypeOK
<1>5. ASSUME NEW t \in Threads, RunDisable(t)
      PROVE  KnownInv'
  BY <1>0, <1>0a, <1>5
  DEF RunDisable, Reply, RowsChanged, history, KnownInv, RepoTypeOK
<1>6. ASSUME NEW t \in Threads, End(t)
      PROVE  KnownInv'
  BY <1>0a, <1>6 DEF End, Reply, KnownInv, RepoTypeOK
<1>7. CASE UNCHANGED vars
  BY <1>7 DEF vars, history, KnownInv
<1> QED
  BY <1>1, <1>2, <1>3, <1>4, <1>5, <1>6, <1>7 DEF Next, Elsewhere

\* The row a disable changes has not been changed by another one before.
LEMMA OnceStep ==
  RepoTypeOK /\ KindInv /\ OffInv /\ OnceInv /\ [Next]_vars => OnceInv'
<1> SUFFICES ASSUME RepoTypeOK, KindInv, OffInv, OnceInv, [Next]_vars
             PROVE  OnceInv'
  OBVIOUS
<1> USE DEF OnceInv, DisabledOnce
<1>1. ASSUME NEW t \in Threads, NEW c \in Calls, Begin(t, c)
      PROVE  OnceInv'
  BY <1>1 DEF Begin, RepoTypeOK, KindInv
<1>2. ASSUME NEW t \in Threads, Elsewhere(t)
      PROVE  OnceInv'
  BY <1>2, ElsewhereFrame DEF RepoTypeOK
<1>3. ASSUME NEW t \in Threads, RunFind(t)
      PROVE  OnceInv'
  BY <1>3 DEF RunFind, Reply, history, RepoTypeOK
<1>4. ASSUME NEW t \in Threads, RunCreate(t)
      PROVE  OnceInv'
  BY <1>4 DEF RunCreate, Reply, InsertFailed, history, RepoTypeOK
<1>5. ASSUME NEW t \in Threads, RunDisable(t)
      PROVE  OnceInv'
  <2>1. call[t].key \in Keys
    BY <1>5, CallShape DEF RunDisable, Ready, RepoTypeOK
  <2>2. /\ UNCHANGED <<call, shut>>
        /\ \/ reply' = [reply EXCEPT ![t] = "false"]
           \/ reply' = [reply EXCEPT ![t] = "true"] /\ row[call[t].key] = "on"
    BY <1>5 DEF RunDisable, Reply, RowsChanged, history
  <2>3. CASE reply' = [reply EXCEPT ![t] = "false"]
    BY <2>2, <2>3 DEF RepoTypeOK
  <2>4. CASE /\ reply' = [reply EXCEPT ![t] = "true"]
             /\ row[call[t].key] = "on"
    <3>1. /\ shut[call[t].key] = 0
          /\ \A u \in Threads : reply[u] = "true" => call[u].key # call[t].key
      BY <2>1, <2>4 DEF OffInv, RepoTypeOK
    <3> QED
      BY <2>2, <2>4, <3>1 DEF RepoTypeOK
  <2> QED
    BY <2>2, <2>3, <2>4
<1>6. ASSUME NEW t \in Threads, End(t)
      PROVE  OnceInv'
  <2>1. /\ reply' = [reply EXCEPT ![t] = "none"]
        /\ call' = [call EXCEPT ![t] = NoCall]
    BY <1>6 DEF End, Reply
  <2>2. CASE reply[t] = "true"
    <3>1. call[t].key \in Keys
      BY <2>2, KeyOfReply
    <3>2. shut' = [shut EXCEPT ![call[t].key] = @ + 1]
      BY <1>6, <2>2 DEF End
    <3>3. \A u \in Threads \ {t} :
            reply[u] = "true" => call[u].key # call[t].key /\ call[u].key \in Keys
      BY <2>2, KeyOfReply
    <3>4. /\ shut'[call[t].key] = 1
          /\ \A k \in Keys \ {call[t].key} : shut'[k] = shut[k]
      BY <2>2, <3>1, <3>2 DEF RepoTypeOK
    <3>5. \A u \in Threads \ {t} : reply'[u] = reply[u] /\ call'[u] = call[u]
      BY <2>1 DEF RepoTypeOK
    <3>6. reply'[t] = "none"
      BY <2>1 DEF RepoTypeOK
    <3>7. \A k \in Keys : shut'[k] <= 1
      BY <3>4
    <3>8. \A u \in Threads : reply'[u] = "true" => shut'[call'[u].key] = 0
      BY <3>3, <3>4, <3>5, <3>6
    <3>9. \A u, v \in Threads :
            /\ reply'[u] = "true" /\ reply'[v] = "true"
            /\ call'[u].key = call'[v].key
            => u = v
      BY <3>5, <3>6
    <3> QED
      BY <3>7, <3>8, <3>9
  <2>3. CASE reply[t] # "true"
    <3>1. shut' = shut
      BY <1>6, <2>3 DEF End
    <3> QED
      BY <2>1, <3>1 DEF RepoTypeOK
  <2> QED
    BY <2>2, <2>3
<1>7. CASE UNCHANGED vars
  BY <1>7 DEF vars, history
<1> QED
  BY <1>1, <1>2, <1>3, <1>4, <1>5, <1>6, <1>7 DEF Next, Elsewhere

\* A lookup sees the table as the client's knowledge of it demands.
LEMMA LookupStep ==
  IInv /\ [Next]_vars => ShutKeyRejected' /\ CreatedKeyAccepted'
<1> SUFFICES ASSUME IInv, [Next]_vars
             PROVE  ShutKeyRejected' /\ CreatedKeyAccepted'
  OBVIOUS
<1> USE DEF ShutKeyRejected, CreatedKeyAccepted
<1>0. RepoTypeOK /\ KindInv /\ OffInv /\ KnownInv
  BY DEF IInv
<1>0a. /\ \A k \in Keys : row[k] = "off" => row'[k] = "off"
       /\ \A t \in Threads : reply[t] = "not_found" => call[t].key \in Keys
       /\ ShutKeyRejected /\ CreatedKeyAccepted
  BY RowsOnlyGoOff, KeyOfReply DEF IInv
<1>1. ASSUME NEW t \in Threads, NEW c \in Calls, Begin(t, c)
      PROVE  ShutKeyRejected' /\ CreatedKeyAccepted'
  BY <1>0, <1>0a, <1>1 DEF Begin, RepoTypeOK, KindInv
<1>2. ASSUME NEW t \in Threads, Elsewhere(t)
      PROVE  ShutKeyRejected' /\ CreatedKeyAccepted'
  BY <1>0, <1>0a, <1>2, ElsewhereFrame DEF RepoTypeOK
<1>3. ASSUME NEW t \in Threads, RunFind(t)
      PROVE  ShutKeyRejected' /\ CreatedKeyAccepted'
  <2>1. call[t].key \in Keys
    BY <1>0, <1>3, CallShape DEF RunFind, Ready, RepoTypeOK
  <2>2. /\ UNCHANGED <<row, call, shutBefore, knownBefore>>
        /\ \/ reply' = [reply EXCEPT ![t] = "db_error"]
           \/ reply' = [reply EXCEPT ![t] = "found"] /\ row[call[t].key] = "on"
           \/ /\ reply' = [reply EXCEPT ![t] = "not_found"]
              /\ row[call[t].key] # "on"
    BY <1>3 DEF RunFind, Reply, Enabled, history
  <2>3. row[call[t].key] = "on" => call[t].key \notin shutBefore[t]
    BY <1>0 DEF OffInv
  <2>4. row[call[t].key] # "on" /\ call[t].key \in knownBefore[t]
          => row[call[t].key] = "off"
    BY <1>0, <2>1 DEF KnownInv, RepoTypeOK
  <2> QED
    BY <1>0, <1>0a, <2>2, <2>3, <2>4 DEF RepoTypeOK
<1>4. ASSUME NEW t \in Threads, RunCreate(t)
      PROVE  ShutKeyRejected' /\ CreatedKeyAccepted'
  BY <1>0, <1>0a, <1>4
  DEF RunCreate, Reply, InsertFailed, history, RepoTypeOK
<1>5. ASSUME NEW t \in Threads, RunDisable(t)
      PROVE  ShutKeyRejected' /\ CreatedKeyAccepted'
  BY <1>0, <1>0a, <1>5 DEF RunDisable, Reply, RowsChanged, history, RepoTypeOK
<1>6. ASSUME NEW t \in Threads, End(t)
      PROVE  ShutKeyRejected' /\ CreatedKeyAccepted'
  BY <1>0, <1>0a, <1>6 DEF End, Reply, RepoTypeOK
<1>7. CASE UNCHANGED vars
  BY <1>0a, <1>7 DEF vars, history
<1> QED
  BY <1>1, <1>2, <1>3, <1>4, <1>5, <1>6, <1>7 DEF Next, Elsewhere

-----------------------------------------------------------------------------
\* Nothing has been asked yet.
LEMMA InitIInv == Init => IInv
<1> SUFFICES ASSUME Init
             PROVE  IInv
  OBVIOUS
<1>1. RepoTypeOK
  BY DEF Init, RepoTypeOK, Replies
<1>2. \A t \in Threads : /\ reply[t] = "none"
                         /\ shutBefore[t] = {} /\ knownBefore[t] = {}
  BY DEF Init
<1>3. known = {} /\ \A k \in Keys : shut[k] = 0
  BY DEF Init
<1> QED
  BY <1>1, <1>2, <1>3
  DEF IInv, KindInv, OffInv, KnownInv, OnceInv, DisabledOnce, ShutKeyRejected,
      CreatedKeyAccepted

\* The strengthened invariant holds in every reachable state.
THEOREM Inductive == Spec => []IInv
<1>1. Init => IInv
  BY InitIInv
<1>2. IInv /\ [Next]_vars => IInv'
  BY TypeStep, KindStep, OffStep, KnownStep, OnceStep, LookupStep DEF IInv
<1> QED
  BY <1>1, <1>2, PTL DEF Spec

\* The variables keep their types, those of the pool included.
THEOREM TypeCorrect == Spec => []TypeOK
<1>1. IInv /\ Pool!TypeOK => TypeOK
  BY DEF IInv, RepoTypeOK, TypeOK
<1> QED
  BY <1>1, Inductive, PoolInvariants, PTL

\* A key whose DELETE was answered "disabled" before a request came is not
\* accepted for it, for any number of threads, keys and connections.
THEOREM ShutKeysRejected == Spec => []ShutKeyRejected
<1>1. IInv => ShutKeyRejected
  BY DEF IInv
<1> QED
  BY <1>1, Inductive, PTL

\* A key that was handed out before a request came is unknown to it only if it
\* has been disabled.
THEOREM CreatedKeysAccepted == Spec => []CreatedKeyAccepted
<1>1. IInv => CreatedKeyAccepted
  BY DEF IInv
<1> QED
  BY <1>1, Inductive, PTL

\* Of all the disables of a key at most one is answered "disabled".
THEOREM DisabledAtMostOnce == Spec => []DisabledOnce
<1>1. IInv => DisabledOnce
  BY DEF IInv, OnceInv
<1> QED
  BY <1>1, Inductive, PTL

\* A thread that uses nullptr has got it from the pool.
LEMMA NullStep ==
  ASSUME PoolProofs!NullOnlyWhenFewer, NullOnlyWhenShort, [Next]_vars
  PROVE  NullOnlyWhenShort'
<1>1. created' = created
  BY PoolStep
  DEF Pool!Next, Pool!Internal, Pool!Evaluate, Pool!Borrow, Pool!Take,
      Pool!Wait, Pool!SpuriousWake, Pool!TimeOut, Pool!GiveUp, Pool!Leave,
      Pool!Return, Pool!NotifyOne, Pool!pvars
<1>2. ASSUME crashed', ~crashed
      PROVE  \E t \in Threads : pc[t] = "null"
  BY <1>2
  DEF Next, Begin, InPool, NoConnection, UseNull, RunFind, RunCreate,
      RunList, RunDisable, GiveBack, End, vars
<1>3. PoolProofs!Cardinality(Threads) = Cardinality(Threads)
  BY DEF PoolProofs!Cardinality, Cardinality
<1> QED
  BY <1>1, <1>2, <1>3 DEF NullOnlyWhenShort, PoolProofs!NullOnlyWhenFewer

\* The unchecked nullptr needs fewer connections than threads.
THEOREM NullNeedsShortPool == Spec => []NullOnlyWhenShort
<1>1. Init => NullOnlyWhenShort
  BY DEF Init, NullOnlyWhenShort
<1>2. PoolProofs!NullOnlyWhenFewer /\ NullOnlyWhenShort /\ [Next]_vars
        => NullOnlyWhenShort'
  BY NullStep
<1> QED
  BY <1>1, <1>2, PoolInvariants, PTL DEF Spec
=============================================================================
