---------------------------- MODULE OutputApply ----------------------------
(***************************************************************************)
(* A layout submitted by Settings, from its queue to the screen: the rescan *)
(* and the serial it must match, the passes of OutputPreferences, the       *)
(* transaction, the confirmation with its deadline and rollback, the saved  *)
(* file and the published snapshot.  One turn of the loop takes the steps   *)
(* in `pc` in order; clients, lid, sensor and hardware act between turns.   *)
(***************************************************************************)
EXTENDS OutputPreferences, Sequences

CONSTANTS
    None,
    Wishes,         \* the layouts that users submit
    Desks,          \* preferences and lid at first, and how much happens
    MaxAnswers      \* keep or roll back, in the queue at once

(* Layouts and what is made of them: the user's part of a configuration, a  *)
(* configuration, a request, one whose connectors were scanned again, a     *)
(* file to replace, and an applied layout that waits for its confirmation.  *)
Layouts == [disabled : SUBSET Outputs, mode : Nat, place : Nat]

Configurations ==
    [disabled : SUBSET Outputs, mode : Nat, place : Nat, closed : BOOLEAN, rot : {0, 1}]

Requests ==
    {r \in [serial : Nat, outputs : SUBSET Outputs, wish : Wishes] :
        r.wish.enabled \subseteq r.outputs}

ReadyApplies == [request : Requests, connectors : SUBSET Outputs]

PreparedFiles == [original : Layouts, content : Layouts]

PowerModes == [Outputs -> {"on", "off", None}]

Confirmations ==
    [token : Nat, conf : Configurations, power : PowerModes, file : PreparedFiles \cup {None}]

ASSUME ApplyAssumption ==
    /\ Wishes \subseteq [enabled : SUBSET Outputs, powered : SUBSET Outputs, mode : Nat,
                         place : Nat, persistent : BOOLEAN, confirm : BOOLEAN]
    /\ Desks \subseteq [disabled : SUBSET Outputs, closed : BOOLEAN, requests : Nat, moves : Nat]
    /\ None \notin ReadyApplies \cup PreparedFiles \cup Confirmations

VARIABLES
    pc,                         \* the step of the turn, or "ended"
    plugged, lid, sensor,       \* the hardware
    scan,                       \* the scanner's connectors
    conf,                       \* output_configuration
    shown,                      \* scanouts and topology
    powered, power,             \* the lit outputs' DPMS and its requests
    snap, dirty,                \* the published snapshot, output_control_dirty
    rescan, resident, rebased, disconnected,
    kms, hdr,                   \* kms_reconfigure_requested; an output was asked for HDR
    queue, ready, success,      \* the submitted layouts
    active, answers, handled, confirmed,
    file, unsynced,             \* the saved layout
    desk, requests, moves,
    offered, trusted,           \* history: published layouts by token, the last confirmed,
    lost                        \* and that a rollback's rebuild failed and was not repeated

hardware == <<plugged, lid, sensor>>
clients  == <<desk, queue, answers, requests, moves, offered>>
passes   == <<connected, closed, requested, before, disabled, done>>
screen   == <<scan, shown, powered, power>>
rescans  == <<rescan, resident, rebased, disconnected, kms, hdr, lost>>
waiting  == <<ready, success, active, handled, confirmed>>
saved    == <<file, unsynced, trusted>>
published == <<snap, dirty>>

applyVars == <<pc, hardware, screen, conf, published, rescans, clients,
               waiting, saved, passes>>

Layout(c) == [disabled |-> c.disabled, mode |-> c.mode, place |-> c.place]

Wanted(connectors, c) == Lit(connectors, c.disabled, c.closed)

(* Panels follow the sensor, other outputs do not turn. *)
Rotation(lit, c) == IF lit \cap Panels = {} THEN 0 ELSE c.rot

(* Scanouts and topology once a configuration is applied. *)
Shown(connectors, c) ==
    LET lit == Wanted(connectors, c)
    IN [lit |-> lit, mode |-> c.mode, place |-> c.place, rot |-> Rotation(lit, c)]

Token == IF active = None THEN 0 ELSE active.token

(* output_control_state: modes and transforms are those of the screen,      *)
(* positions those of the configuration.                                    *)
State ==
    [scan |-> scan, lit |-> shown.lit, powered |-> powered, mode |-> shown.mode,
     rot |-> shown.rot, place |-> conf.place, token |-> Token]

Unasked == [o \in Outputs |-> None]

Rebased == rebased \/ (disconnected /\ powered # {})

ApplyInit ==
    /\ desk \in Desks
    /\ pc = "top"
    /\ plugged = Outputs /\ scan = plugged /\ lid = desk.closed /\ sensor = 0
    /\ conf = [disabled |-> desk.disabled, mode |-> 0, place |-> 0, closed |-> lid, rot |-> 0]
    /\ shown = Shown(scan, conf) /\ powered = shown.lit /\ power = Unasked
    /\ active = None /\ snap = [serial |-> 1, state |-> State] /\ dirty = FALSE
    /\ rescan = FALSE /\ resident = FALSE /\ rebased = FALSE /\ disconnected = FALSE
    /\ kms = FALSE /\ hdr = FALSE /\ lost = FALSE
    /\ queue = <<>> /\ ready = None /\ success = FALSE
    /\ answers = <<>> /\ handled = FALSE /\ confirmed = FALSE
    /\ file = Layout(conf) /\ unsynced = FALSE /\ trusted = Layout(conf)
    /\ requests = 0 /\ moves = 0 /\ offered = {}
    /\ connected = {} /\ closed = FALSE /\ requested = {} /\ before = {} /\ disabled = {}
    /\ done = TRUE

-----------------------------------------------------------------------------
(* Between turns.  A client submits for the snapshot it sees, and answers   *)
(* any confirmation it has ever seen.                                       *)

Submit(wish) ==
    /\ pc = "top" /\ requests < desk.requests
    /\ wish.enabled \subseteq snap.state.scan
    /\ requests' = requests + 1
    /\ queue' = Append(queue, [serial |-> snap.serial, outputs |-> snap.state.scan, wish |-> wish])
    /\ UNCHANGED <<pc, hardware, screen, conf, published, rescans, waiting, saved, passes, desk,
                   answers, moves, offered>>

Answer(token, keep) ==
    /\ pc = "top" /\ Len(answers) < MaxAnswers
    /\ \E o \in offered : o.token = token
    /\ answers' = Append(answers, [token |-> token, keep |-> keep])
    /\ UNCHANGED <<pc, hardware, screen, conf, published, rescans, waiting, saved, passes, desk,
                   queue, requests, moves, offered>>

Move ==
    /\ pc = "top" /\ moves < desk.moves
    /\ moves' = moves + 1
    /\ UNCHANGED <<pc, screen, conf, published, waiting, passes, desk, queue, answers, requests,
                   offered, resident, disconnected, lost, unsynced, trusted>>

MoveLid == Move /\ lid' = ~lid /\ UNCHANGED <<plugged, sensor, rescan, rebased, kms, hdr, file>>

Turn == Move /\ sensor' = 1 - sensor /\ UNCHANGED <<plugged, lid, rescan, rebased, kms, hdr, file>>

(* A removal of a sleeping output is held back: OutputTopology. *)
Replug(o) ==
    /\ Move
    /\ o \in plugged => o \in powered \/ o \notin shown.lit
    /\ plugged' = IF o \in plugged THEN plugged \ {o} ELSE plugged \cup {o}
    /\ rescan' = TRUE
    /\ UNCHANGED <<lid, sensor, rebased, kms, hdr, file>>

SwitchSession ==
    Move /\ rebased' = TRUE /\ rescan' = TRUE /\ UNCHANGED <<hardware, kms, hdr, file>>

(* RebuildOutputs, for a display whose HDR setting changed, or SIGUSR2.     *)
RequestRebuild ==
    /\ Move
    /\ kms' = TRUE /\ rescan' = TRUE /\ hdr' \in BOOLEAN
    /\ UNCHANGED <<hardware, rebased, file>>

(* The user writes another layout to the file, in an editor. *)
Edit ==
    /\ Move /\ file' = [file EXCEPT !.mode = 2]
    /\ UNCHANGED <<hardware, rescan, rebased, kms, hdr>>

-----------------------------------------------------------------------------
(* The head of a turn. *)

(* apply_pending_sensor_orientation; a busy pipeline skips it.  A lit panel *)
(* turns with the topology of the current configuration.                    *)
SensorFrame ==
    /\ pc = "top"
    /\ UNCHANGED <<hardware, scan, powered, power, snap, rescans, clients, ready, success,
                   handled, confirmed, saved, passes>>

NotTurned == SensorFrame /\ pc' = "lid" /\ UNCHANGED <<conf, shown, active, dirty>>

PanelLit == shown.lit \cap Panels # {}

ApplySensor ==
    /\ SensorFrame /\ pc' = "lid"
    /\ conf.rot # sensor
    /\ conf' = [conf EXCEPT !.rot = sensor]
    /\ shown' = IF PanelLit THEN [shown EXCEPT !.rot = sensor, !.place = conf.place] ELSE shown
    /\ active' = IF active = None THEN None ELSE [active EXCEPT !.conf.rot = sensor]
    /\ dirty' = (dirty \/ PanelLit)

SensorFails ==
    /\ SensorFrame /\ pc' = "ended"
    /\ conf.rot # sensor /\ PanelLit
    /\ UNCHANGED <<conf, shown, active, dirty>>

(* Faulty: a rollback returns to the lid as it was. *)
ApplyLidForgotten ==
    /\ pc = "lid" /\ pc' = "expire"
    /\ conf' = [conf EXCEPT !.closed = lid]
    /\ rescan' = (rescan \/ conf.closed # lid)
    /\ UNCHANGED <<hardware, screen, published, resident, rebased, disconnected, lost, kms, hdr,
                   clients, waiting, saved, passes>>

(* apply_pending_lid_position. *)
ApplyLid ==
    /\ pc = "lid" /\ pc' = "expire"
    /\ conf' = [conf EXCEPT !.closed = lid]
    /\ active' = IF active = None THEN None ELSE [active EXCEPT !.conf.closed = lid]
    /\ rescan' = (rescan \/ conf.closed # lid)
    /\ UNCHANGED <<hardware, screen, published, resident, rebased, disconnected, lost, kms, hdr,
                   clients, ready, success, handled, confirmed, saved, passes>>

(* What a deadline, a request and a failed save have in common. *)
Rollback ==
    /\ conf' = active.conf
    /\ power' = [o \in Outputs |-> IF active.power[o] = None THEN power[o] ELSE active.power[o]]
    /\ resident' = TRUE /\ dirty' = TRUE

(* expire_output_confirmation. *)
ExpireFrame ==
    /\ pc = "expire" /\ pc' = "publish"
    /\ UNCHANGED <<hardware, scan, shown, powered, snap, rescan, rebased, disconnected, lost,
                   kms, hdr, clients, ready, success, handled, confirmed, saved, passes>>

NotExpired == ExpireFrame /\ UNCHANGED <<conf, power, resident, dirty, active>>

Expire == ExpireFrame /\ active # None /\ Rollback /\ active' = None

(* publish: a state that has not changed keeps its serial. *)
Published ==
    IF snap.state = State THEN snap ELSE [serial |-> snap.serial + 1, state |-> State]

(* Faulty: the rollback is published before the screen follows. *)
DeferredNever == FALSE

(* output_control_publication_deferred. *)
Deferred == resident

(* publish_output_control_updates. *)
Publish ==
    /\ pc = "publish" /\ pc' = "power"
    /\ snap' = IF dirty /\ ~Deferred THEN Published ELSE snap
    /\ dirty' = (dirty /\ Deferred)
    /\ success' = (success /\ Deferred)
    /\ confirmed' = (confirmed /\ Deferred)
    /\ offered' = IF snap' # snap /\ Token # 0
                  THEN offered \cup {[token |-> Token, layout |-> Layout(conf)]} ELSE offered
    /\ UNCHANGED <<hardware, screen, conf, rescans, desk, queue, answers, requests, moves,
                   ready, active, handled, saved, passes>>

(* apply_output_power_requests: requests of outputs without scanout are     *)
(* dropped, power-offs may wait for frames in flight or be refused by KMS.  *)
Gate(lit, now, asked, outcome) ==
    LET on  == {o \in lit : asked[o] = "on"}
        off == {o \in lit \cap now : asked[o] = "off"}
    IN [powered |-> IF outcome = "done" THEN (now \cup on) \ off ELSE now \cup on,
        power   |-> [o \in Outputs |-> IF outcome = "wait" /\ o \in off THEN "off" ELSE None],
        woken   |-> on \ now # {}]

Outcomes == {"done", "wait", "refused"}

PowerGate(outcome) ==
    /\ pc = "power" /\ ~Rebased /\ power # Unasked
    /\ LET gate == Gate(shown.lit, powered, power, outcome)
       IN /\ powered' = gate.powered /\ power' = gate.power
          /\ rescan' = (rescan \/ gate.woken)
    /\ dirty' = (dirty \/ powered' # powered)
    /\ pc' = IF ~dirty /\ dirty' THEN "top" ELSE "confirm"
    /\ UNCHANGED <<hardware, scan, shown, conf, snap, resident, rebased, disconnected, lost,
                   kms, hdr, clients, waiting, saved, passes>>

PowerIdle ==
    /\ pc = "power" /\ pc' = "confirm"
    /\ Rebased \/ power = Unasked
    /\ UNCHANGED <<hardware, screen, conf, published, rescans, clients, waiting, saved, passes>>

-----------------------------------------------------------------------------
(* handle_output_confirmation_requests, one request at a time. *)

AnswersRead ==
    /\ pc = "confirm" /\ answers = <<>>
    /\ pc' = IF handled THEN "top" ELSE "acquire"
    /\ handled' = FALSE
    /\ UNCHANGED <<hardware, screen, conf, published, rescans, clients, ready, success, active,
                   confirmed, saved, passes>>

(* Faulty: any answer is for the layout that waits. *)
AnswersAny == active # None

(* The answer at the head of the queue is for the layout that waits. *)
AnswersActive == active # None /\ Head(answers).token = active.token

StaleAnswer ==
    /\ pc = "confirm" /\ answers # <<>> /\ ~AnswersActive
    /\ answers' = Tail(answers)
    /\ UNCHANGED <<pc, hardware, screen, conf, published, rescans, desk, queue, requests, moves,
                   offered, waiting, saved, passes>>

(* PreparedOutputConfig::commit: refused when the file was edited meanwhile *)
(* or cannot be replaced; a failed sync is reported after the rename.       *)
Commit(prepared, result) ==
    /\ result # "failed" => file = prepared.original
    /\ file' = IF result = "failed" THEN file ELSE prepared.content
    /\ unsynced' = (result = "unsynced")

Taken ==
    /\ pc = "confirm" /\ answers # <<>> /\ AnswersActive
    /\ answers' = Tail(answers)
    /\ handled' = TRUE /\ active' = None
    /\ UNCHANGED <<pc, hardware, scan, shown, powered, snap, rescan, rebased, disconnected,
                   lost, kms, hdr, desk, queue, requests, moves, offered, ready, success,
                   passes>>

Keep ==
    /\ Taken /\ Head(answers).keep
    /\ IF active.file = None THEN UNCHANGED <<file, unsynced>> ELSE Commit(active.file, "saved")
    /\ dirty' = TRUE /\ confirmed' = TRUE /\ trusted' = Layout(conf)
    /\ UNCHANGED <<conf, power, resident>>

KeepFails(result) ==
    /\ Taken /\ Head(answers).keep /\ active.file # None
    /\ Commit(active.file, result)
    /\ Rollback
    /\ UNCHANGED <<confirmed, trusted>>

RollBack ==
    /\ Taken /\ ~Head(answers).keep
    /\ Rollback
    /\ confirmed' = TRUE
    /\ UNCHANGED saved

-----------------------------------------------------------------------------
(* acquire_pending_output_apply *)

AcquireFrame ==
    /\ pc = "acquire"
    /\ UNCHANGED <<hardware, conf, shown, powered, power, snap, resident, rebased, disconnected,
                   lost, kms, hdr, desk, answers, requests, moves, offered, success, active,
                   handled, confirmed, saved, passes>>

(* A rebase invalidates the connectors of a request: it is scanned again. *)
AcquireNone ==
    /\ AcquireFrame /\ pc' = "ready"
    /\ Rebased \/ ready # None \/ queue = <<>>
    /\ queue' = IF Rebased /\ ready # None THEN <<ready.request>> \o queue ELSE queue
    /\ ready' = IF Rebased THEN None ELSE ready
    /\ UNCHANGED <<scan, dirty, rescan>>

Available == ~Rebased /\ ready = None /\ queue # <<>>

Acquirable == Available /\ active = None

AcquireRefused ==
    /\ AcquireFrame /\ pc' = "top"
    /\ Available /\ ~Acquirable
    /\ queue' = Tail(queue)
    /\ UNCHANGED <<ready, scan, dirty, rescan>>

AcquireBusy ==
    AcquireFrame /\ pc' = "top" /\ Acquirable /\ UNCHANGED <<queue, ready, scan, dirty, rescan>>

Acquire ==
    /\ AcquireFrame /\ pc' = "top"
    /\ Acquirable
    /\ queue' = Tail(queue)
    /\ scan' = plugged
    /\ ready' = [request |-> Head(queue), connectors |-> plugged]
    /\ dirty' = TRUE
    /\ UNCHANGED rescan

AcquireUnscanned ==
    /\ AcquireFrame /\ pc' = "top"
    /\ Acquirable
    /\ queue' = Tail(queue)
    /\ rescan' = TRUE
    /\ UNCHANGED <<scan, ready, dirty>>
-----------------------------------------------------------------------------
(* service_ready_output_apply and stage_output_apply *)

ReadyFrame ==
    /\ pc = "ready"
    /\ UNCHANGED <<hardware, screen, conf, published, resident, rebased, disconnected, lost,
                   kms, hdr, clients, success, active, handled, confirmed, saved>>

ReadyNone ==
    /\ ReadyFrame /\ pc' = "topology"
    /\ Rebased \/ ready = None
    /\ UNCHANGED <<ready, rescan, passes>>

Serviceable == ~Rebased /\ ready # None

ReadyBusy == ReadyFrame /\ pc' = "top" /\ Serviceable /\ UNCHANGED <<ready, rescan, passes>>

Current == ready.request.serial = snap.serial

Complete == ready.request.outputs = ready.connectors

StageRefused ==
    /\ ReadyFrame /\ pc' = "top"
    /\ Serviceable /\ ~(Current /\ Complete)
    /\ ready' = None
    /\ rescan' = (rescan \/ ~Current)
    /\ UNCHANGED passes

(* configuration_from_output_request, up to its reconciliation. *)
Stage ==
    /\ ReadyFrame /\ pc' = "reconcile"
    /\ Serviceable /\ Current /\ Complete
    /\ connected' = ready.connectors
    /\ closed' = conf.closed
    /\ requested' = ready.request.wish.enabled
    /\ before' = conf.disabled /\ disabled' = conf.disabled
    /\ done' = FALSE
    /\ UNCHANGED <<ready, rescan>>

Reconcile ==
    /\ pc = "reconcile" /\ Pass
    /\ UNCHANGED <<pc, hardware, screen, conf, published, rescans, clients, waiting, saved>>

-----------------------------------------------------------------------------
(* apply_staged_output_configuration *)

Wish == ready.request.wish

Staged == [conf EXCEPT !.disabled = disabled, !.mode = Wish.mode, !.place = Wish.place]

HardwareChanged == Wanted(connected, Staged) # shown.lit \/ Wish.mode # shown.mode

GeometryChanged == Wish.place # shown.place

StagedFrame ==
    /\ pc = "reconcile" /\ done
    /\ ready' = None
    /\ connected' = {} /\ closed' = FALSE /\ requested' = {}
    /\ before' = {} /\ disabled' = {} /\ done' = TRUE
    /\ UNCHANGED <<hardware, scan, snap, resident, disconnected, kms, hdr, clients, handled,
                   confirmed>>

(* No layout that lights nothing, and none whose file cannot be prepared. *)
StagedRefused ==
    /\ StagedFrame /\ pc' = "top"
    /\ Wanted(connected, Staged) = {} \/ Wish.persistent
    /\ UNCHANGED <<conf, shown, powered, power, dirty, rescan, rebased, lost, success, active,
                   saved>>

(* The transaction failed and is undone (HotplugTransaction), or has left   *)
(* no shell to undo it for.                                                 *)
ApplyFails ==
    /\ StagedFrame
    /\ \/ pc' = "top" /\ (HardwareChanged \/ GeometryChanged)
       \/ pc' = "ended" /\ HardwareChanged
    /\ dirty' = TRUE
    /\ UNCHANGED <<conf, shown, powered, power, rescan, rebased, lost, success, active, saved>>

Prepared ==
    IF Wish.persistent THEN [original |-> file, content |-> Layout(Staged)] ELSE None

PowerNow == [o \in Outputs |-> IF o \notin shown.lit THEN None
                               ELSE IF o \in powered THEN "on" ELSE "off"]

(* finish_output_apply. *)
Finish(result) ==
    IF Wish.confirm
    THEN /\ active' = [token |-> snap.serial + 1, conf |-> conf, power |-> PowerNow,
                       file |-> Prepared]
         /\ success' = TRUE
         /\ result = "saved" /\ UNCHANGED saved
    ELSE /\ IF Wish.persistent THEN Commit(Prepared, result)
            ELSE result = "saved" /\ UNCHANGED <<file, unsynced>>
         /\ success' = (success \/ result = "saved")
         /\ trusted' = Layout(Staged)
         /\ UNCHANGED active

ApplyStaged(outcome, result) ==
    /\ StagedFrame /\ pc' = "top"
    /\ Wanted(connected, Staged) # {}
    /\ conf' = Staged
    /\ shown' = Shown(connected, Staged)
    /\ LET kept  == (powered \cap shown'.lit) \cup (shown'.lit \ shown.lit)
           asked == [o \in Outputs |-> IF o \notin Wish.enabled THEN power[o]
                                       ELSE IF o \in Wish.powered THEN "on" ELSE "off"]
           gate  == Gate(shown'.lit, kept, asked, outcome)
       IN /\ powered' = gate.powered /\ power' = gate.power
          /\ rescan' = (rescan \/ gate.woken)
    /\ dirty' = TRUE
    /\ rebased' = (rebased /\ ~HardwareChanged)
    /\ lost' = FALSE
    /\ Finish(result)

-----------------------------------------------------------------------------
(* take_topology_reconfiguration_request, observe_output_topology and       *)
(* apply_observed_output_topology, without the debounce (OutputTopology).   *)

TopologyFrame ==
    /\ pc = "topology"
    /\ UNCHANGED <<hardware, conf, power, snap, clients, waiting, saved, passes>>

RescanDue == rescan \/ resident \/ kms \/ Rebased

NoRescan ==
    /\ TopologyFrame /\ pc' = "top" /\ ~RescanDue
    /\ UNCHANGED <<scan, shown, powered, dirty, rescans>>

Observed == Wanted(plugged, conf)

(* The request of a resident rebuild is kept, that of a KMS one is not. *)
NothingToLight ==
    /\ TopologyFrame /\ pc' = "top" /\ RescanDue
    /\ Observed = {}
    /\ scan' = plugged
    /\ disconnected' = TRUE /\ rescan' = TRUE /\ kms' = FALSE
    /\ dirty' = (dirty \/ ~disconnected)
    /\ UNCHANGED <<shown, powered, resident, rebased, hdr, lost>>

Changed == Observed # shown.lit \/ conf.mode # shown.mode

RebuildDue == Changed \/ resident \/ kms \/ Rebased

Observe ==
    /\ TopologyFrame /\ RescanDue /\ Observed # {}
    /\ scan' = plugged
    /\ disconnected' = FALSE /\ dirty' = TRUE

Stable ==
    /\ Observe /\ pc' = "top" /\ ~RebuildDue
    /\ rescan' = FALSE
    /\ UNCHANGED <<shown, powered, resident, rebased, kms, hdr, lost>>

(* The last frame of the old layout is not on screen yet. *)
RebuildBusy ==
    /\ Observe /\ pc' = "top" /\ RebuildDue /\ ~Rebased
    /\ rescan' = TRUE
    /\ UNCHANGED <<shown, powered, resident, rebased, kms, hdr, lost>>

Rebuild ==
    /\ Observe /\ pc' = "top" /\ RebuildDue
    /\ shown' = Shown(plugged, conf)
    /\ powered' = (powered \cap shown'.lit) \cup (shown'.lit \ shown.lit)
    /\ rescan' = FALSE /\ resident' = FALSE /\ rebased' = FALSE /\ kms' = FALSE
    /\ lost' = FALSE
    /\ UNCHANGED hdr

(* While the shell runs, a KMS request with HDR is repeated without it, and *)
(* after a rebase the login is kept alive and the scan repeated: both take  *)
(* up a resident rebuild and forget it.  Other failures end the session.    *)
RebuildFails ==
    /\ Observe /\ RebuildDue
    /\ resident' = FALSE /\ lost' = (lost \/ resident)
    /\ \/ /\ pc' = "top" /\ kms /\ hdr
          /\ rescan' = TRUE /\ kms' = TRUE /\ hdr' = FALSE /\ UNCHANGED rebased
       \/ /\ pc' = "top" /\ ~(kms /\ hdr) /\ Rebased
          /\ rescan' = TRUE /\ kms' = FALSE /\ rebased' = TRUE /\ UNCHANGED hdr
       \/ /\ pc' = "ended"
          /\ rescan' = FALSE /\ kms' = FALSE /\ UNCHANGED <<hdr, rebased>>
    /\ UNCHANGED <<shown, powered>>
-----------------------------------------------------------------------------
TurnHead ==
    \/ NotTurned \/ ApplySensor \/ SensorFails \/ ApplyLid \/ NotExpired \/ Expire \/ Publish
    \/ \E outcome \in Outcomes : PowerGate(outcome)
    \/ PowerIdle

Answering ==
    \/ AnswersRead \/ StaleAnswer \/ Keep \/ RollBack
    \/ \E result \in {"failed", "unsynced"} : KeepFails(result)

Applying ==
    \/ AcquireNone \/ AcquireRefused \/ AcquireBusy \/ Acquire \/ AcquireUnscanned
    \/ ReadyNone \/ ReadyBusy \/ StageRefused \/ Stage \/ Reconcile
    \/ StagedRefused \/ ApplyFails
    \/ \E outcome \in Outcomes, result \in {"saved", "failed", "unsynced"} :
          ApplyStaged(outcome, result)

Rescanning ==
    NoRescan \/ NothingToLight \/ Stable \/ RebuildBusy \/ Rebuild \/ RebuildFails

Loop == TurnHead \/ Answering \/ Applying \/ Rescanning

ApplyNext ==
    \/ \E wish \in Wishes : Submit(wish)
    \/ \E o \in offered, keep \in BOOLEAN : Answer(o.token, keep)
    \/ MoveLid \/ Turn \/ SwitchSession \/ RequestRebuild \/ Edit
    \/ \E o \in Outputs : Replug(o)
    \/ Loop

ApplySpec == ApplyInit /\ [][ApplyNext]_applyVars

(* The loop turns, deadlines pass, frames in flight retire (OutputPipeline) *)
(* and a display that was training its link can be lit in the end.          *)
LiveSpec ==
    /\ ApplySpec
    /\ WF_applyVars(Loop)
    /\ SF_applyVars(Expire)
    /\ SF_applyVars(PowerGate("done"))
    /\ SF_applyVars(Acquire)
    /\ SF_applyVars(Stage \/ StageRefused)
    /\ SF_applyVars(Rebuild)

-----------------------------------------------------------------------------
ApplyTypeOK ==
    /\ pc \in {"top", "lid", "expire", "publish", "power", "confirm", "acquire", "ready",
               "reconcile", "topology", "ended"}
    /\ plugged \subseteq Outputs /\ scan \subseteq Outputs /\ powered \subseteq Outputs
    /\ lid \in BOOLEAN /\ sensor \in {0, 1}
    /\ conf \in Configurations
    /\ shown \in [lit : SUBSET Outputs, mode : Nat, place : Nat, rot : {0, 1}]
    /\ power \in PowerModes
    /\ snap \in [serial : Nat,
                 state : [scan : SUBSET Outputs, lit : SUBSET Outputs, powered : SUBSET Outputs,
                          mode : Nat, rot : {0, 1}, place : Nat, token : Nat]]
    /\ {dirty, rescan, resident, rebased, disconnected, kms, hdr, lost, success, handled,
        confirmed, unsynced} \subseteq BOOLEAN
    /\ queue \in Seq(Requests)
    /\ ready \in ReadyApplies \cup {None}
    /\ active \in Confirmations \cup {None}
    /\ answers \in Seq([token : Nat, keep : BOOLEAN])
    /\ file \in Layouts /\ trusted \in Layouts
    /\ desk \in Desks /\ requests \in Nat /\ moves \in Nat
    /\ offered \subseteq [token : Nat, layout : Layouts]

(* The screen shows the configuration that positions are published from;    *)
(* where other outputs are lit than it wants, a rescan is on its way.       *)
Whole ==
    /\ shown.mode = conf.mode /\ shown.place = conf.place
    /\ shown.rot = Rotation(shown.lit, conf)
    /\ shown.lit = Wanted(scan, conf) \/ rescan

(* A snapshot is never "assembled from two different configurations", and   *)
(* a layout or a rollback is answered as done only when the screen shows    *)
(* it.  Not covered (lost): a rollback whose rebuild failed after a VT      *)
(* switch or with HDR is forgotten by apply_observed_output_topology, so it *)
(* is published and answered while the screen still shows the layout.       *)
AnswersTruthful ==
    [][snap' # snap \/ (success /\ ~success') \/ (confirmed /\ ~confirmed')
       => Whole \/ lost]_applyVars

(* The compositor saves only the running layout, once it is confirmed, over *)
(* the file it was prepared from; and what an answer keeps is the layout    *)
(* offered with its token, not a later one.  When only the sync failed, the *)
(* saved layout is rolled back.                                             *)
KeptIsSaved ==
    [][/\ file' # file /\ moves' = moves => (file' = trusted' /\ active' = None) \/ unsynced'
       /\ trusted' # trusted /\ pc = "confirm" =>
             \A o \in offered : o.token = Head(answers).token => o.layout = trusted']_applyVars

(* A rollback returns to the last confirmed layout, never to one that was   *)
(* itself waiting, and to the lid and the rotation as they are now: "A      *)
(* rollback restores the user's configuration, not an older lid position".  *)
RollbackExact ==
    /\ Layout(IF active = None THEN conf ELSE active.conf) = trusted
    /\ pc \notin {"top", "lid", "ended"} => conf.closed = lid
    /\ shown.rot = Rotation(shown.lit, conf)

(* Every submitted layout is answered, every confirmation ends, and the     *)
(* screen then shows the configuration that is left, unless nothing can be  *)
(* lit or the session has ended.                                            *)
Settles ==
    []<>(\/ pc = "ended" \/ Observed = {}
         \/ /\ queue = <<>> /\ ready = None /\ active = None /\ ~success /\ ~confirmed
            /\ shown = Shown(plugged, conf))
=============================================================================
