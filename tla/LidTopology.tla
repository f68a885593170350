---------------------------- MODULE LidTopology ----------------------------
(***************************************************************************)
(* The lid decides which outputs are lit: LidSwitch, whose applied position *)
(* is the configuration.lid_closed of OutputTopology's rescans.             *)
(***************************************************************************)
EXTENDS LidSwitch

CONSTANTS Outputs, Panels, Rank, Desks, MaxOutputs, Grace

VARIABLES desk, connected, scanouts, powered, guard, dirty, kms, resident,
          rebased, disconnected, hdr, alive

Topology == INSTANCE OutputTopology WITH closed <- Closed(applied) = 1

ASSUME TopologyAssumption ==
    /\ Panels \subseteq Outputs /\ Rank \in [Outputs -> Nat] /\ Grace \in Nat
    /\ \A d \in Desks : d \in Topology!Desk /\ d.droppable \subseteq d.outputs

topology == <<connected, scanouts, powered, guard, dirty, kms, resident, rebased,
              disconnected, hdr, alive>>
all == <<vars, desk, topology>>

LidInit == Init /\ Topology!Init

(* apply_pending_lid_position: a position that is known changes nothing. *)
ApplyPending ==
    /\ Apply
    /\ IF Closed(pending) = Closed(applied) THEN UNCHANGED topology
       ELSE Topology!MoveLid

(* Back on its VT the session also rebases its scanouts, after sleep not. *)
ComeBack == Return /\ (UNCHANGED topology \/ Topology!Rebase)

Reader ==
    \E r \in readers : Read(r) \/ (desk.failing /\ ReadFails(r)) \/ Send(r)

LidStep ==
    \/ moves < desk.moves /\ MoveLid
    \/ returns < desk.returns /\ Leave
    \/ NoteToggle \/ NoteReading \/ Reader

LidNext ==
    /\ alive
    /\ \/ LidStep /\ UNCHANGED topology
       \/ ApplyPending
       \/ ComeBack
       \/ UNCHANGED vars /\ Topology!Step
    /\ UNCHANGED desk

LidSpec == LidInit /\ [][LidNext]_all

(* Time passes; the loop services the deadline and rescans, and frames in   *)
(* flight and hardware in training do not hold a rebuild off for ever.      *)
Loop(A) == UNCHANGED vars /\ A /\ UNCHANGED desk
LiveSpec ==
    /\ LidSpec
    /\ WF_all(Loop(Topology!Tick)) /\ WF_all(Loop(Topology!ServiceDeadline))
    /\ WF_all(Loop(Topology!Stable)) /\ SF_all(Loop(Topology!Reconfigure))

-----------------------------------------------------------------------------
(* What the guard promises of a sleeping monitor, with the lid moving:      *)
(* alone beside panels that are off it keeps its scanout, although its      *)
(* connector is gone (observe_output_topology).                             *)
AsleepKept == Topology!AsleepKept

(* No difference between what is lit and what should be is forgotten, with  *)
(* a lid that moves while rescans are postponed, held back or fail.         *)
NothingForgotten == Topology!NothingForgotten

(* Once every toggle and reading has arrived and no rescan is due or held   *)
(* back, the outputs are lit that the policy wants for the lid where it     *)
(* really is: no move is lost between libinput, the reader threads, the     *)
(* rescan and the guard.  Readings are asked for once, and are answered.    *)
PanelsFollowLid ==
    alive /\ Settled /\ ~desk.failing /\ returns <= 1
    /\ ~Topology!RescanDue /\ ~guard.deferred
    => scanouts = Topology!WantedFor(Closed(moves) = 1)
=============================================================================
