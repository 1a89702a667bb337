--------------------------- MODULE EventDelivery ---------------------------
(***************************************************************************)
(* What event triggers promise for each captured event: it is attempted at *)
(* most Limit times, never again once an attempt has been answered, and it *)
(* leaves "open" as delivered after an answer, as exhausted after Limit    *)
(* attempts without one, or as rejected when it cannot be sent at all.     *)
(***************************************************************************)
EXTENDS Integers

CONSTANTS Events, Limit
VARIABLES outcome, tries, answered

vars == <<outcome, tries, answered>>

Init ==
  /\ outcome = [e \in Events |-> "none"]
  /\ tries = [e \in Events |-> 0]
  /\ answered = {}

Become(e, from, to) == outcome[e] \in from /\ outcome' = [outcome EXCEPT ![e] = to]

Capture(e) == Become(e, {"none"}, "open") /\ UNCHANGED <<tries, answered>>

Attempt(e) ==
  /\ outcome[e] = "open" /\ e \notin answered /\ tries[e] < Limit[e]
  /\ tries' = [tries EXCEPT ![e] = @ + 1]
  /\ answered' \in {answered, answered \cup {e}}
  /\ UNCHANGED outcome

Deliver(e) ==
  e \in answered /\ Become(e, {"open"}, "delivered") /\ UNCHANGED <<tries, answered>>

Exhaust(e) ==
  /\ e \notin answered /\ tries[e] = Limit[e]
  /\ Become(e, {"open"}, "exhausted")
  /\ UNCHANGED <<tries, answered>>

Reject(e) ==
  e \notin answered /\ Become(e, {"open"}, "rejected") /\ UNCHANGED <<tries, answered>>

\* An operator asks for a failed event to be delivered again.
Reopen(e) ==
  /\ Become(e, {"exhausted", "rejected"}, "open")
  /\ tries' = [tries EXCEPT ![e] = 0]
  /\ UNCHANGED answered

Next == \E e \in Events :
  Capture(e) \/ Attempt(e) \/ Deliver(e) \/ Exhaust(e) \/ Reject(e) \/ Reopen(e)

Spec == Init /\ [][Next]_vars
=============================================================================
