----------------------------- MODULE MCShutdown -----------------------------
(* Small instances of Shutdown: the components are those of the source that    *)
(* implement ShutdownComponent.                                                *)
EXTENDS Shutdown
=============================================================================
