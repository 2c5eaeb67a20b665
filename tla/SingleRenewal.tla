--------------------------- MODULE SingleRenewal ---------------------------
(***************************************************************************)
(* What the response interceptor of each tab promises its requests:        *)
(* however many are refused at once, one renewal of the tokens runs for    *)
(* all of them, and when it ends none of them is left behind.              *)
(***************************************************************************)
CONSTANTS Tabs, Slots

VARIABLES running,   \* running[t]: whether a renewal of tab t is under way
          waiting    \* waiting[t]: the requests that wait for its end

renewal == <<running, waiting>>

Init ==
  /\ running = [t \in Tabs |-> FALSE]
  /\ waiting = [t \in Tabs |-> {}]

Begin(t, s) ==
  /\ ~running[t]
  /\ running' = [running EXCEPT ![t] = TRUE]
  /\ waiting' = [waiting EXCEPT ![t] = {s}]

Join(t, s) ==
  /\ running[t]
  /\ s \notin waiting[t]
  /\ waiting' = [waiting EXCEPT ![t] = @ \cup {s}]
  /\ UNCHANGED running

\* The requests are sent again or rejected, all of them.
Finish(t) ==
  /\ running[t]
  /\ running' = [running EXCEPT ![t] = FALSE]
  /\ waiting' = [waiting EXCEPT ![t] = {}]

Next == \E t \in Tabs : Finish(t) \/ \E s \in Slots : Begin(t, s) \/ Join(t, s)

Spec == Init /\ [][Next]_renewal

FairSpec == Spec /\ \A t \in Tabs : WF_renewal(Finish(t))
=============================================================================
