---------------------------- MODULE MCAnalytics ----------------------------
(* Small instances of Analytics: two groups of at most one row.  Each         *)
(* configuration is explored with the calls that bear on it.                  *)
EXTENDS Analytics, TLC

Base == [id |-> "total", scheduler |-> FALSE, mode |-> "off", triggers |-> FALSE,
         calls |-> {"start", "stop"}, time |-> 0, edits |-> 0, changes |-> 1]

Explored(strategies, different) ==
  [strategies |-> strategies] @@ different @@ Base

Refreshed == Explored({"on_demand"}, [id |-> "groups", calls |-> {"refresh"}, time |-> 2])
Recreated == Explored({"lazy", "on_demand"}, [calls |-> {}, time |-> 2, edits |-> 2])
Lazy == Explored({"lazy"}, [id |-> "groups", calls |-> {}, time |-> 2])
Ticking == Explored({"scheduled"}, [scheduler |-> TRUE, time |-> 2, edits |-> 1])
Polling == Explored({"cdc"}, [id |-> "groups", mode |-> "polling", changes |-> 2])
Realtime == Explored({"cdc"}, [mode |-> "realtime", triggers |-> TRUE])
Both == Explored({"cdc"}, [mode |-> "both", triggers |-> TRUE, calls |-> {"start"}])
Told == Explored({"cdc"}, [mode |-> "polling", calls |-> {"start", "notify"}, changes |-> 0])

\* h is the group of NULL, whose key no lazy request finds.
MCReadAs == [g \in {"g", "h"} |-> {g} \ {"h"}]

MCSetups == {Refreshed, Recreated, Lazy, Ticking, Polling, Realtime, Both, Told}
=============================================================================
