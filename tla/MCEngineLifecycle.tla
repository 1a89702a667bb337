------------------------- MODULE MCEngineLifecycle -------------------------
(* A small instance of EngineLifecycle: one query, two reloads, one goroutine *)
(* that uses the pool without the lock.                                       *)
EXTENDS EngineLifecycle
=============================================================================
