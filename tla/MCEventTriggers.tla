-------------------------- MODULE MCEventTriggers --------------------------
(* Small instances of EventTriggers.  Trigger "t" allows one retry; where there *)
(* is a trigger "u", it owns event 2 and allows none.                         *)
EXTENDS EventTriggers, TLC

MCTriggerOf == [e \in Ids |-> IF e = 2 /\ "u" \in Triggers THEN "u" ELSE "t"]
MCRetryLimit == [t \in Triggers |-> IF t = "t" THEN 1 ELSE 0]

\* Processes are alike; no liveness is checked under this symmetry.
InstanceSymmetry == Permutations(Instances)
\* Two processes are explored until the claim of the one event is disturbed:
\* from there on the properties say nothing of it.
Undisturbed == dirty = {}
=============================================================================
