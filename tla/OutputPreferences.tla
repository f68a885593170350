------------------------- MODULE OutputPreferences -------------------------
(***************************************************************************)
(* What Settings saves when the user submits a layout.  The layout that     *)
(* Settings shows contains a fallback output and leaves out panels under    *)
(* the lid, so reconcile_disabled_outputs changes a preference only where   *)
(* the current ones would not light the submitted layout, pass by pass.     *)
(***************************************************************************)
EXTENDS OutputPolicy

VARIABLES connected, closed, requested, before, disabled, done

vars == <<connected, closed, requested, before, disabled, done>>

LitNow == Lit(connected, disabled, closed)

(* A layout that enables nothing is refused before this point. *)
Init ==
    /\ connected \in SUBSET Outputs
    /\ closed \in BOOLEAN
    /\ requested \in SUBSET connected /\ requested # {}
    /\ before \in SUBSET Outputs
    /\ disabled = before
    /\ done = FALSE

(* Faulty: the submitted layout is copied. *)
Copied == (disabled \ requested) \cup (connected \ requested)

(* Faulty: a preference is flipped wherever what is lit is not wanted. *)
Flipped ==
    LET wrong == (requested \ LitNow) \cup ((connected \cap LitNow) \ requested)
    IN (disabled \ wrong) \cup (wrong \ disabled)

(* One pass over the connected outputs, against what is lit before it. *)
Passed ==
    (disabled \ (requested \ LitNow)) \cup ((connected \cap LitNow) \ requested)

(* Faulty: one pass is taken to be enough. *)
PassOnce ==
    /\ ~done
    /\ disabled' = Passed
    /\ done' = TRUE
    /\ UNCHANGED <<connected, closed, requested, before>>

Pass ==
    /\ ~done
    /\ disabled' = Passed
    /\ done' = (Passed = disabled)
    /\ UNCHANGED <<connected, closed, requested, before>>

Next == Pass \/ (done /\ UNCHANGED vars)

Spec == Init /\ [][Next]_vars /\ WF_vars(Pass)

-----------------------------------------------------------------------------
(* The panels the submitted layout cannot light or darken: under the lid. *)
Shut == Covered(connected, closed)

TypeOK ==
    /\ connected \subseteq Outputs /\ requested \subseteq connected
    /\ before \subseteq Outputs /\ disabled \subseteq Outputs
    /\ closed \in BOOLEAN /\ done \in BOOLEAN

(* A preference only ever moves to what was submitted, so each changes at   *)
(* most once; and one of an output that is not connected never changes.     *)
MovesToRequested ==
    /\ before \ disabled \subseteq requested
    /\ disabled \ before \subseteq connected \ requested

(* The saved preferences light the submitted layout.  The exceptions are    *)
(* panels under the lid, and a layout that lights nothing that can be seen. *)
LightsRequested ==
    done /\ requested \ Shut # {} => LitNow = requested \ Shut

(* A layout submitted as it is shown saves nothing: neither a fallback nor  *)
(* a panel under the lid becomes a preference.                              *)
ShownSavesNothing ==
    Lit(connected, before, closed) = requested => disabled = before

(* A panel that the lid keeps dark keeps its preference while the user      *)
(* rearranges the other outputs, so that it returns when the lid opens.     *)
CoveredKept ==
    requested \ Shut # {} =>
       \A p \in Shut \ (requested \cup Lit(connected, before, closed)) :
          p \in disabled <=> p \in before

(* Only what was asked for is saved: nothing that is transient, covered or  *)
(* absent becomes a preference.                                             *)
OnlyAskedSaved == MovesToRequested /\ ShownSavesNothing /\ CoveredKept
=============================================================================
