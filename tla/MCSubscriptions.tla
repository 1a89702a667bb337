-------------------------- MODULE MCSubscriptions --------------------------
(* Small instances of Subscriptions.  Subscribers "a" and "b" of table "t" have *)
(* IDs of their own, "c" has the ID of "a", "d" belongs to table "u".          *)
EXTENDS Subscriptions

MCTableOf == [s \in Subs |-> IF s = "d" THEN "u" ELSE "t"]
MCIdOf == [s \in Subs |-> IF s = "c" THEN "a" ELSE s]
=============================================================================
