--------------------------- MODULE MCLiveQueries ---------------------------
(* A small instance of LiveQueries: two queries with the same ID; polls of    *)
(* "q1" may overlap, and its result changes and changes back.                 *)
EXTENDS LiveQueries

MCIdOf == [q \in Queries |-> "q1"]
MCOverlap == [q \in Queries |-> IF q = "q1" THEN 2 ELSE 1]
MCMaxChanges == [q \in Queries |-> IF q = "q1" THEN 2 ELSE 0]
=============================================================================
