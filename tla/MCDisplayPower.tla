--------------------------- MODULE MCDisplayPower ---------------------------
(***************************************************************************)
(* Configurations for model checking DisplayPower: timeouts of 1 to 3, with *)
(* the lock's extra delay after a display timeout of the same length.       *)
(***************************************************************************)
EXTENDS DisplayPower

(* The display goes dark at 1 and the session locks at 1 + LockAfterDpms;   *)
(* a suspend timeout shorter than the lock's, with a screen-off delay of 1; *)
(* and a display timeout alone, with a lock as soon as the screen is dark.  *)
MCConfigurations ==
    {[lock |-> 1, dpms |-> 1, suspend |-> Never, screenOff |-> Never],
     [lock |-> 2, dpms |-> 1, suspend |-> 1, screenOff |-> 1],
     [lock |-> Never, dpms |-> 2, suspend |-> Never, screenOff |-> 0]}

(* Beside a desk: every timeout set, the suspend timeout shorter than the   *)
(* lock's extra delay.                                                      *)
MCDeskConfigurations ==
    {[lock |-> 1, dpms |-> 1, suspend |-> 1, screenOff |-> 1]}

(* A screen-off delay of 1 and a lock timeout that never comes. *)
MCLiveConfigurations ==
    {[lock |-> Never, dpms |-> 2, suspend |-> Never, screenOff |-> 1]}

(* A desktop with two displays, whose configuration changes; a phone that   *)
(* is put on and taken off a desk; and a panel alone, with Settings.        *)
MCMachines ==
    {[mobile |-> FALSE, outputs |-> Outputs, hotplug |-> FALSE, settings |-> FALSE,
      configurations |-> MCConfigurations],
     [mobile |-> TRUE, outputs |-> {Panel}, hotplug |-> TRUE, settings |-> FALSE,
      configurations |-> MCDeskConfigurations],
     [mobile |-> FALSE, outputs |-> {Panel}, hotplug |-> FALSE, settings |-> TRUE,
      configurations |-> MCLiveConfigurations]}
=============================================================================
