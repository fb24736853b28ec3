------------------------------- MODULE Lending -------------------------------
(***************************************************************************)
(* What a connection pool promises its borrowers, without queue, lock or   *)
(* condition variable: a connection has one holder at a time, and a        *)
(* borrower is turned away only at a moment when none is free.             *)
(* ConnectionPool implements this module.                                  *)
(***************************************************************************)
EXTENDS Naturals

CONSTANT Threads

VARIABLES free,          \* connections nobody holds
          holder,        \* connection each thread holds, 0 when none
          asking         \* "no", "yes", or "refused" for each thread

lvars == <<free, holder, asking>>

Init ==
  /\ free \subseteq Nat \ {0}
  /\ holder = [t \in Threads |-> 0]
  /\ asking = [t \in Threads |-> "no"]

Ask(t) ==
  /\ asking[t] = "no"
  /\ holder[t] = 0
  /\ asking' = [asking EXCEPT ![t] = "yes"]
  /\ UNCHANGED <<free, holder>>

Grant(t) ==
  /\ asking[t] = "yes"
  /\ \E c \in free : /\ holder' = [holder EXCEPT ![t] = c]
                     /\ free' = free \ {c}
  /\ asking' = [asking EXCEPT ![t] = "no"]

Refuse(t) ==
  /\ asking[t] = "yes"
  /\ free = {}
  /\ asking' = [asking EXCEPT ![t] = "refused"]
  /\ UNCHANGED <<free, holder>>

Accept(t) ==
  /\ asking[t] = "refused"
  /\ asking' = [asking EXCEPT ![t] = "no"]
  /\ UNCHANGED <<free, holder>>

GiveBack(t) ==
  /\ holder[t] # 0
  /\ holder[t] \notin free
  /\ free' = free \cup {holder[t]}
  /\ holder' = [holder EXCEPT ![t] = 0]
  /\ UNCHANGED asking

Next ==
  \E t \in Threads :
    Ask(t) \/ Grant(t) \/ Refuse(t) \/ Accept(t) \/ GiveBack(t)

Spec == Init /\ [][Next]_lvars
=============================================================================
