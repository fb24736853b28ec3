----------------------------- MODULE StreamSource -----------------------------
(***************************************************************************)
(* What chat_completion_stream promises the callback it is given: texts    *)
(* first, then the end, which may be reported more than once, and nothing  *)
(* after the call has returned or thrown.  Adapter implements this module, *)
(* and the streaming task of Session is any behaviour it allows.           *)
(***************************************************************************)
EXTENDS Naturals, Sequences

VARIABLES said,          \* the calls so far: "text" or "end"
          status         \* "idle", "running", "returned" or "threw"

svars == <<said, status>>

Init == said = <<>> /\ status \in {"idle", "running"}

Begin ==
  /\ status = "idle"
  /\ status' = "running"
  /\ UNCHANGED said

Ended == \E i \in DOMAIN said : said[i] = "end"

\* One delivery of the provider's data: texts, the end, or both in this order.
Report ==
  /\ status = "running"
  /\ \E k \in 0 .. Len(said') - Len(said), e \in 0 .. 1 :
       /\ Ended => k = 0
       /\ said' = said \o [i \in 1 .. k |-> "text"] \o [i \in 1 .. e |-> "end"]
  /\ UNCHANGED status

Stop ==
  /\ status = "running"
  /\ status' \in {"returned", "threw"}
  /\ UNCHANGED said

Next == Begin \/ Report \/ Stop

Spec == Init /\ [][Next]_svars
=============================================================================
