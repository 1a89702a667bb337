--------------------------- MODULE MCCacheManager ---------------------------
(* A small instance of CacheManager: queries and a schema share a few places; *)
(* the values have two sizes.  One caller clears and invalidates; both tag,   *)
(* one of them values without a lifetime.  A lookup changes nothing that      *)
(* others see: over Redis a behaviour ends with one that is made while other  *)
(* calls are under way.                                                       *)
EXTENDS CacheManager

MCSizeOf == [v \in Values |-> IF v = "short" THEN 1 ELSE 2]
MCValuesOver == [memory |-> Values, redis |-> {"long"}]
MCTableKeyOf == [t \in Tables |-> "table"]
MCTagLists == {<<"t">>}
MCTagCalls == {<<"c1", "q1", 2>>, <<"c2", "q2", 0>>}

LookedUp ==
  backend = "redis" /\ hits + misses >= MaxAsked => \A c \in Callers : call[c].op = "idle"
=============================================================================
