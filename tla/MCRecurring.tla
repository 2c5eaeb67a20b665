----------------------------- MODULE MCRecurring -----------------------------
(* Recurring on small instances: six days, rules that are due every day or   *)
(* every other day.                                                          *)
EXTENDS Recurring

Offer(start, every, upfront, all, end, active) ==
  [start |-> start, every |-> every, upfront |-> upfront, all |-> all,
   end |-> end, active |-> active]

\* A daily rule with a window of two, a rule every other day that materializes
\* all, a paused rule, and one the validation refuses.
MCPayloads ==
  {Offer(0, 1, 2, FALSE, None, TRUE), Offer(1, 2, 1, TRUE, 5, TRUE),
   Offer(0, 1, 1, FALSE, 4, FALSE), Offer(2, 1, 1, FALSE, 1, TRUE)}
=============================================================================
