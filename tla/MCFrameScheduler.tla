-------------------------- MODULE MCFrameScheduler --------------------------
EXTENDS FrameScheduler, TLC

CONSTANTS a, b, t, u

MCRank == (a :> 1) @@ (b :> 2)

(* One output with two textures, where transactions withhold frames and     *)
(* renders are dropped; two refresh rates, with phase corrections, late     *)
(* turns and a change of the clock output.                                  *)
MCSetups ==
    {[interval |-> a :> 1, textures |-> {t, u}, transactions |-> TRUE, drops |-> TRUE,
      marks |-> 4, powerChanges |-> 1, late |-> 1, shift |-> 0],
     [interval |-> (a :> 4) @@ (b :> 3), textures |-> {}, transactions |-> FALSE,
      drops |-> FALSE, marks |-> 1, powerChanges |-> 1, late |-> 1, shift |-> 1]}
=============================================================================
