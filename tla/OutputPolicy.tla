---------------------------- MODULE OutputPolicy ----------------------------
(***************************************************************************)
(* Which connected outputs are lit: the saved preferences, a lid that       *)
(* covers the built-in panels, and a fallback when the preferences would    *)
(* leave everything dark.                                                   *)
(***************************************************************************)
EXTENDS Naturals

CONSTANTS
    Outputs,
    Panels,     \* the built-in ones, is_internal_panel
    Rank        \* connector order

ASSUME OutputsAssumption ==
    /\ Panels \subseteq Outputs
    /\ Rank \in [Outputs -> Nat]
    /\ \A o, p \in Outputs : Rank[o] = Rank[p] => o = p

First(set) == CHOOSE o \in set : \A p \in set : Rank[o] <= Rank[p]

Covered(set, closed) == IF closed THEN set \cap Panels ELSE {}

(* A panel that can be seen comes first, then any other output. *)
FallbackOf(connected, closed) ==
    LET panels == connected \cap (Panels \ Covered(Panels, closed))
        others == connected \ Panels
    IN IF panels # {} THEN {First(panels)}
       ELSE IF others # {} THEN {First(others)} ELSE {}

(* select_outputs: the lit outputs. *)
Lit(connected, disabled, closed) ==
    LET preferred == connected \ disabled
        covered == Covered(preferred, closed)
    IN IF preferred = {} THEN FallbackOf(connected, closed)
       ELSE IF covered = preferred THEN preferred ELSE preferred \ covered

(* The outputs that the policy decides, rather than connector and           *)
(* preferences: OutputPolicy::overrides.                                    *)
Overridden(connected, disabled, closed) ==
    LET preferred == connected \ disabled
        covered == Covered(preferred, closed)
    IN IF preferred = {} THEN FallbackOf(connected, closed)
       ELSE IF covered = preferred THEN {} ELSE covered
=============================================================================
