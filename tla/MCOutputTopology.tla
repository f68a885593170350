-------------------------- MODULE MCOutputTopology --------------------------
(* A panel and two other outputs, in connector order. *)
EXTENDS LidTopology

CONSTANTS dp, edp, hdmi

MCOutputs == {dp, edp, hdmi}
MCRank == [o \in MCOutputs |-> CASE o = dp -> 1 [] o = edp -> 2 [] o = hdmi -> 3]

(* A dock with two monitors, where rebuilds fail and are asked for; a panel *)
(* and a monitor in a session that comes and goes, while the lid moves      *)
(* twice, and while the monitor may drop its connector; and a monitor       *)
(* beside a panel that is off.                                              *)
MCDesks ==
    {[outputs |-> MCOutputs, disabled |-> {}, droppable |-> {dp, hdmi},
      requests |-> {"kms", "resident", "rebase"}, moves |-> 1, returns |-> 0, failing |-> FALSE],
     [outputs |-> {dp, edp}, disabled |-> {}, droppable |-> {},
      requests |-> {"rebase"}, moves |-> 2, returns |-> 1, failing |-> FALSE],
     [outputs |-> {dp, edp}, disabled |-> {}, droppable |-> {dp},
      requests |-> {"rebase"}, moves |-> 1, returns |-> 1, failing |-> FALSE],
     [outputs |-> {dp, edp}, disabled |-> {edp}, droppable |-> {dp},
      requests |-> {}, moves |-> 1, returns |-> 1, failing |-> TRUE]}
=============================================================================
