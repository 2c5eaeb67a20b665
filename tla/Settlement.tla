----------------------------- MODULE Settlement -----------------------------
(***************************************************************************)
(* What planned transactions promise their users: a plan is open or done,  *)
(* done for good once it was executed, and a done plan is booked once, as  *)
(* a transaction of its own, before or after which it may be deleted.      *)
(***************************************************************************)
CONSTANTS Plans, Txns

VARIABLES known,    \* the plans ever accepted
          open,     \* those that wait for their execution
          done,     \* those that were executed
          booked    \* booked[p]: the transactions made of plan p

settlement == <<known, open, done, booked>>

Init ==
  /\ known = {}
  /\ open = {}
  /\ done = {}
  /\ booked = [p \in Plans |-> {}]

\* A plan is accepted open, or done at once.
Accept(p) ==
  /\ p \notin known
  /\ known' = known \cup {p}
  /\ \/ open' = open \cup {p} /\ UNCHANGED done
     \/ done' = done \cup {p} /\ UNCHANGED open
  /\ UNCHANGED booked

Execute(p) ==
  /\ p \in open
  /\ open' = open \ {p}
  /\ done' = done \cup {p}
  /\ UNCHANGED <<known, booked>>

Settle(p, x) ==
  /\ p \in done
  /\ booked[p] = {}
  /\ \A q \in Plans : x \notin booked[q]
  /\ booked' = [booked EXCEPT ![p] = {x}]
  /\ UNCHANGED <<known, open, done>>

\* Deleted; what was booked for the plan stays.
Drop(p) ==
  /\ p \in open \cup done
  /\ open' = open \ {p}
  /\ done' = done \ {p}
  /\ UNCHANGED <<known, booked>>

Next ==
  \/ \E p \in Plans : Accept(p) \/ Execute(p) \/ Drop(p)
  \/ \E p \in Plans, x \in Txns : Settle(p, x)

Spec == Init /\ [][Next]_settlement
=============================================================================
