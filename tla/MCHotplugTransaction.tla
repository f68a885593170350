------------------------ MODULE MCHotplugTransaction ------------------------
(* Two outputs and up to three CRTCs. *)
EXTENDS HotplugTransaction

CONSTANTS a, b

One == {<<a, 1>>}
Both == {<<a, 1>>, <<b, 2>>}
Moved == {<<a, 1>>, <<b, 3>>}
Reassigned == {<<b, 1>>}    \* the CRTC of the other output

MCAssignments == {One, {<<b, 2>>}, Both, Moved, Reassigned}
=============================================================================
