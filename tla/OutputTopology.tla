--------------------------- MODULE OutputTopology ---------------------------
(***************************************************************************)
(* From connectors to scanouts: rescans of the DRM topology, the display    *)
(* policy, and the guard that holds a rescan back while an output sleeps or *)
(* has just been woken, because monitors drop their connector then.         *)
(***************************************************************************)
EXTENDS OutputPolicy, FiniteSets

CONSTANTS
    Desks,        \* the machines and what happens to them, see Desk
    MaxOutputs,
    Grace         \* DPMS_WAKE_TOPOLOGY_GRACE

VARIABLES
    desk,         \* which of Desks this is
    connected,    \* what the connectors report
    closed,       \* configuration.lid_closed
    scanouts,     \* outputs with a scanout
    powered,      \* those whose scanout is powered
    guard,        \* DpmsTopologyGuard
    dirty,        \* topology_dirty
    kms,          \* kms_reconfigure_requested
    resident,     \* resident_geometry_reconfigure_requested
    rebased,      \* scanout_rebased
    disconnected, \* outputs_disconnected
    hdr,          \* an output was asked for HDR
    alive         \* the session goes on

vars == <<desk, connected, closed, scanouts, powered, guard, dirty, kms, resident,
          rebased, disconnected, hdr, alive>>
requests == <<dirty, kms, resident, rebased>>

Never == Grace + 1

(* Where the compositor runs: its connectors, the saved preferences, which  *)
(* connectors come and go, and which rebuilds are requested (HDR or DRM,    *)
(* geometry, a VT switch); how often its lid moves and the session returns, *)
(* and whether readings of the lid fail.                                    *)
Desk == [outputs : SUBSET Outputs, disabled : SUBSET Outputs,
         droppable : SUBSET Outputs, requests : SUBSET {"kms", "resident", "rebase"},
         moves : Nat, returns : Nat, failing : BOOLEAN]

Fresh == [parked |-> {}, waking |-> {}, grace |-> Never, deferred |-> FALSE]

(* The outputs to light: the policy's choice, at most MaxOutputs of them. *)
WantedFor(lid) ==
    LET lit == Lit(connected, desk.disabled, lid)
    IN {o \in lit : Cardinality({p \in lit : Rank[p] < Rank[o]}) < MaxOutputs}

Wanted == WantedFor(closed)

(* The debounce judges connectors only, not what the policy decides. *)
ConnectorDecided == Outputs \ Overridden(connected, desk.disabled, closed)

(* Recovery stays wanted while a powered scanout has lost its connector. *)
RebasedNow == rebased \/ (disconnected /\ powered # {})

Init ==
    /\ desk \in Desks
    /\ connected = desk.outputs /\ closed = FALSE
    /\ scanouts = Wanted /\ powered = Wanted
    /\ guard = Fresh
    /\ dirty = FALSE /\ kms = FALSE /\ resident = FALSE /\ rebased = FALSE
    /\ disconnected = FALSE /\ hdr \in BOOLEAN /\ alive = TRUE

-----------------------------------------------------------------------------
(* The guard. *)

NotePoweredOff(g, o) ==
    [g EXCEPT !.waking = @ \ {o}, !.parked = @ \cup {o},
              !.grace = IF g.waking \subseteq {o} THEN Never ELSE @]

NoteWake(g, o) ==
    [g EXCEPT !.parked = @ \ {o}, !.waking = @ \cup {o}, !.grace = Grace]

ExpireWakeGrace(g) ==
    IF g.grace = 0 THEN [g EXCEPT !.waking = {}, !.grace = Never, !.deferred = FALSE]
    ELSE g

(* Faulty: only outputs that were just woken are waited for. *)
DeferWaking(current, observed) ==
    LET g == ExpireWakeGrace(guard)
        missing == current \ observed
    IN IF missing = {} THEN [guard |-> [g EXCEPT !.deferred = FALSE], held |-> FALSE]
       ELSE IF observed \ current # {} \/ ~(missing \subseteq g.waking)
       THEN [guard |-> Fresh, held |-> FALSE]
       ELSE [guard |-> [g EXCEPT !.deferred = TRUE], held |-> TRUE]

DeferMissingOutputs(current, observed) ==
    LET g == ExpireWakeGrace(guard)
        missing == current \ observed
    IN IF missing = {} THEN [guard |-> [g EXCEPT !.deferred = FALSE], held |-> FALSE]
       ELSE IF observed \ current # {} \/ ~(missing \subseteq g.parked \cup g.waking)
       THEN [guard |-> Fresh, held |-> FALSE]
       ELSE [guard |-> [g EXCEPT !.deferred = TRUE], held |-> TRUE]

-----------------------------------------------------------------------------
(* What happens to the session. *)

(* A connector drops or returns; udev reports it. *)
ConnectorChange(o) ==
    /\ alive /\ o \in desk.droppable
    /\ connected' = IF o \in connected THEN connected \ {o} ELSE connected \cup {o}
    /\ dirty' = TRUE
    /\ UNCHANGED <<closed, scanouts, powered, guard, kms, resident, rebased,
                   disconnected, hdr, alive>>

(* apply_pending_lid_position *)
MoveLid ==
    /\ alive
    /\ closed' = ~closed
    /\ dirty' = TRUE
    /\ UNCHANGED <<connected, scanouts, powered, guard, kms, resident, rebased,
                   disconnected, hdr, alive>>

RequestRebuild ==
    /\ alive
    /\ \/ "kms" \in desk.requests /\ kms' = TRUE /\ dirty' = TRUE /\ UNCHANGED resident
       \/ "resident" \in desk.requests /\ resident' = TRUE /\ UNCHANGED <<kms, dirty>>
    /\ UNCHANGED <<connected, closed, scanouts, powered, guard, rebased, disconnected,
                   hdr, alive>>

(* rebase_kms_scanouts, after a stalled commit or a VT switch. *)
Rebase ==
    /\ alive /\ "rebase" \in desk.requests
    /\ rebased' = TRUE /\ dirty' = TRUE
    /\ UNCHANGED <<connected, closed, scanouts, powered, guard, kms, resident,
                   disconnected, hdr, alive>>

(* The power gate, which a recovery keeps shut. *)
PowerOff(o) ==
    /\ alive /\ ~RebasedNow /\ o \in powered
    /\ powered' = powered \ {o}
    /\ guard' = NotePoweredOff(guard, o)
    /\ UNCHANGED <<connected, closed, scanouts, requests, disconnected, hdr, alive>>

PowerOn(o) ==
    /\ alive /\ ~RebasedNow /\ o \in scanouts \ powered
    /\ powered' = powered \cup {o}
    /\ guard' = NoteWake(guard, o)
    /\ dirty' = TRUE
    /\ UNCHANGED <<connected, closed, scanouts, kms, resident, rebased,
                   disconnected, hdr, alive>>

(* Faulty: the grace begins anew when its rescan is due. *)
ServiceDeadlineAgain ==
    /\ alive /\ guard.grace = 0
    /\ guard' = [guard EXCEPT !.grace = Grace]
    /\ dirty' = (dirty \/ guard.deferred)
    /\ UNCHANGED <<connected, closed, scanouts, powered, kms, resident, rebased,
                   disconnected, hdr, alive>>

(* service_deadline *)
ServiceDeadline ==
    /\ alive /\ guard.grace = 0
    /\ guard' = [guard EXCEPT !.waking = {}, !.grace = Never, !.deferred = FALSE]
    /\ dirty' = (dirty \/ guard.deferred)
    /\ UNCHANGED <<connected, closed, scanouts, powered, kms, resident, rebased,
                   disconnected, hdr, alive>>

Tick ==
    /\ alive /\ guard.grace \in 1 .. Grace
    /\ guard' = [guard EXCEPT !.grace = @ - 1]
    /\ UNCHANGED <<connected, closed, scanouts, powered, requests,
                   disconnected, hdr, alive>>

-----------------------------------------------------------------------------
(* A rescan: take_topology_reconfiguration_request, observe_output_topology *)
(* and apply_observed_output_topology.                                      *)

RescanDue == dirty \/ RebasedNow \/ kms \/ resident

(* Requests and changes of outputs are authoritative. *)
Bypassed ==
    RebasedNow \/ kms \/ resident \/ ~(Wanted \cap ConnectorDecided \subseteq scanouts)

Observed ==
    IF Bypassed THEN [guard |-> Fresh, held |-> FALSE]
    ELSE DeferMissingOutputs(scanouts \cap ConnectorDecided,
                             Wanted \cap ConnectorDecided)

WaitForOutputs ==
    /\ alive /\ RescanDue /\ ~Observed.held /\ Wanted = {}
    /\ guard' = Observed.guard
    /\ disconnected' = TRUE
    /\ dirty' = TRUE /\ kms' = FALSE
    /\ UNCHANGED <<connected, closed, scanouts, powered, resident, rebased, hdr, alive>>

Reconfigures ==
    /\ alive /\ RescanDue /\ ~Observed.held /\ Wanted # {}
    /\ Wanted # scanouts \/ RebasedNow \/ kms \/ resident

Stable ==
    /\ alive /\ RescanDue
    /\ Observed.held \/ (Wanted # {} /\ Wanted = scanouts /\ ~RebasedNow /\ ~kms /\ ~resident)
    /\ guard' = Observed.guard
    /\ disconnected' = (disconnected /\ Observed.held)
    /\ dirty' = FALSE
    /\ UNCHANGED <<connected, closed, scanouts, powered, kms, resident, rebased,
                   hdr, alive>>

(* Frames of the old topology are drained first; the request stays. *)
Drain ==
    /\ Reconfigures /\ ~RebasedNow
    /\ guard' = Observed.guard /\ disconnected' = FALSE
    /\ dirty' = TRUE
    /\ UNCHANGED <<connected, closed, scanouts, powered, kms, resident, rebased,
                   hdr, alive>>

(* A new scanout is powered, a kept one stays as it is. *)
Reconfigure ==
    /\ Reconfigures
    /\ guard' = Observed.guard /\ disconnected' = FALSE
    /\ scanouts' = Wanted
    /\ powered' = Wanted \ (scanouts \ powered)
    /\ dirty' = FALSE /\ kms' = FALSE /\ resident' = FALSE /\ rebased' = FALSE
    /\ UNCHANGED <<connected, closed, hdr, alive>>

(* The change failed. While Flutter runs, the next try is one without HDR   *)
(* or, for hardware that is still training, a fresh scan.                   *)
ReconfigureFails ==
    /\ Reconfigures
    /\ guard' = Observed.guard /\ disconnected' = FALSE
    /\ resident' = FALSE
    /\ \/ /\ kms /\ hdr
          /\ kms' = TRUE /\ hdr' = FALSE /\ dirty' = TRUE
          /\ UNCHANGED <<rebased, alive>>
       \/ /\ ~(kms /\ hdr) /\ RebasedNow
          /\ rebased' = TRUE /\ dirty' = TRUE /\ kms' = FALSE
          /\ UNCHANGED <<hdr, alive>>
       \/ /\ alive' = FALSE /\ dirty' = FALSE /\ kms' = FALSE
          /\ UNCHANGED <<hdr, rebased>>
    /\ UNCHANGED <<connected, closed, scanouts, powered>>

Step ==
    \/ \E o \in Outputs : ConnectorChange(o)
    \/ RequestRebuild \/ Rebase
    \/ \E o \in Outputs : PowerOff(o)
    \/ \E o \in Outputs : PowerOn(o)
    \/ ServiceDeadline
    \/ Tick
    \/ WaitForOutputs \/ Stable \/ Drain \/ Reconfigure \/ ReconfigureFails

Next == (Step \/ MoveLid) /\ UNCHANGED desk

Spec == Init /\ [][Next]_vars

-----------------------------------------------------------------------------
TypeOK ==
    /\ desk \in Desk
    /\ connected \subseteq Outputs /\ scanouts \subseteq Outputs
    /\ powered \subseteq scanouts
    /\ guard \in [parked : SUBSET Outputs, waking : SUBSET Outputs,
                  grace : 0 .. Never, deferred : BOOLEAN]
    /\ guard.grace # Never <=> guard.waking # {}
    /\ guard.parked \cap guard.waking = {}
    /\ {closed, dirty, kms, resident, rebased, disconnected, hdr, alive} \subseteq BOOLEAN

(* A difference between what is lit and what should be is never forgotten:  *)
(* a rescan is due, or the guard remembers the removal and either a grace   *)
(* runs that ends in a rescan or every missing output sleeps, and its wake  *)
(* ends in one.                                                             *)
Remembered ==
    alive /\ scanouts # Wanted =>
       \/ RescanDue
       \/ guard.deferred /\ (guard.grace # Never
                             \/ (scanouts \ Wanted) \cap ConnectorDecided \subseteq guard.parked)

(* What a comment in observe_output_topology says: "a monitor which drops   *)
(* its connector while asleep must not light the fallback in its place".    *)
(* Where it is the only output beside panels that are off by preference,    *)
(* its scanout stays.  A rescan that was asked for is authoritative and may *)
(* drop it, and so is one that another monitor's connector causes.          *)
AsleepKept ==
    [][Panels \subseteq desk.disabled /\ desk.requests = {}
       => \A o \in (scanouts \ powered) \ connected :
             desk.outputs \ Panels = {o} => o \in scanouts']_vars

(* A powered output whose connector stays away loses its scanout in the     *)
(* end, unless nothing is left to light or another output is woken again    *)
(* and again: the grace after its own wake only delays the removal.         *)
GoneRemoved ==
    \A o \in Outputs :
       []<>(o \notin powered \ connected \/ guard.waking \ {o} # {} \/ ~alive \/ Wanted = {})

(* A removal that is held back is remembered, and made in the end.          *)
NothingForgotten == []Remembered /\ GoneRemoved
=============================================================================
