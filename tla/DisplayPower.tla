---------------------------- MODULE DisplayPower ----------------------------
(***************************************************************************)
(* Who turns the displays off and on: the inactivity policy, the power      *)
(* button, the wake key, the shell, power-management clients and Settings,  *)
(* all through one map of queued requests that the KMS gate applies.        *)
(*                                                                         *)
(* Instants only ever meet as differences, so the module keeps ages (how    *)
(* long since the last input) and countdowns (how long until the screen-off *)
(* lock).  An age stops counting at MaxAge, past every timeout.  Never, one *)
(* more than MaxAge, stands for an absent timeout: no age reaches it.       *)
(***************************************************************************)
EXTENDS Naturals, FiniteSets

CONSTANTS
    Outputs,        \* every output that can be connected
    Panel,          \* the built-in panel
    Machines,       \* the machines it may run on
    LockAfterDpms,  \* LOCK_AFTER_DPMS_DELAY
    MaxAge

Never == MaxAge + 1
Timeouts == 0 .. Never

Configuration ==
    [lock : Timeouts, dpms : Timeouts, suspend : Timeouts, screenOff : Timeouts]

(***************************************************************************)
(* A machine: whether the mobile shell runs, to which a second output is a  *)
(* desk, the outputs at the start, whether outputs other than the panel     *)
(* come and go, whether Settings applies output configurations, and what    *)
(* the shell may configure: the lock, display and suspend timeouts, and the *)
(* delay after which a dark screen locks.                                   *)
(***************************************************************************)
ASSUME MachinesAssumption ==
    /\ Panel \in Outputs /\ MaxAge \in Nat /\ LockAfterDpms \in Nat
    /\ \A m \in Machines :
          /\ m \in [mobile : BOOLEAN, outputs : SUBSET Outputs, hotplug : BOOLEAN,
                    settings : BOOLEAN, configurations : SUBSET Configuration]
          /\ Panel \in m.outputs
          /\ \A c \in m.configurations :
                c.lock # Never /\ c.lock = c.dpms => c.lock + LockAfterDpms <= MaxAge

VARIABLES
    machine,    \* the machine, which does not change
    cfg,        \* the policy's configuration
    pol,        \* the policy's state, see PolicyType
    requests,   \* output_power_requests
    present,    \* outputs with a scanout
    powered,    \* outputs whose scanout is powered
    locked,     \* the session lock
    inhibitor,  \* a visible idle inhibitor: "none", on a "desk", on the "phone"
    by,         \* who last darkened an output: "user", "idle" or "other"
    last        \* what the last evaluation did, until another step

vars == <<machine, cfg, pol, requests, present, powered, locked, inhibitor, by, last>>

PolicyType ==
    [idle : 0 .. MaxAge, inhibited : BOOLEAN, lockT : BOOLEAN, dpmsT : BOOLEAN,
     suspT : BOOLEAN, blanked : SUBSET Outputs, manual : BOOLEAN,
     lockIn : Timeouts, desk : BOOLEAN, touch : 0 .. MaxAge, phoneT : BOOLEAN]

Power == {"on", "off"}

(* A queued request is the effective state until the KMS gate runs. *)
Lit == {o \in present : requests[o] = "on"
                        \/ (requests[o] = "none" /\ o \in powered)}

Nothing == [o \in Outputs |-> "none"]

Ask(set, power) == [o \in Outputs |-> IF o \in set THEN power ELSE "none"]

Queue(reqs) ==
    [o \in Outputs |-> IF reqs[o] = "none" THEN requests[o] ELSE reqs[o]]

-----------------------------------------------------------------------------
(* The policy's own functions; p is a policy state. *)

ResetIdleInterval(p) ==
    [p EXCEPT !.idle = 0, !.lockT = FALSE, !.dpmsT = FALSE, !.suspT = FALSE]

EffectiveLockTimeout ==
    IF cfg.lock # Never /\ cfg.lock = cfg.dpms
    THEN cfg.lock + LockAfterDpms ELSE cfg.lock

(* Faulty: the suspend timeout ignores the lock's extra delay. *)
RawSuspendTimeout == cfg.suspend

EffectiveSuspendTimeout ==
    IF /\ cfg.suspend # Never /\ EffectiveLockTimeout # Never
       /\ EffectiveLockTimeout > cfg.suspend
    THEN EffectiveLockTimeout ELSE cfg.suspend

(* Beside a desk the phone's dark panel stays dark. *)
Woken(p) == p.blanked \ (IF p.desk THEN {Panel} ELSE {})

WakeBlanked(p) ==
    [p EXCEPT !.manual = FALSE, !.lockIn = Never, !.blanked = @ \ Woken(p)]

(* screen_went_off: the delay it starts, and whether it locks at once. *)
ScreenWentOff(p) ==
    IF cfg.screenOff \in {0, Never} \/ p.lockIn # Never
    THEN p ELSE [p EXCEPT !.lockIn = cfg.screenOff]

LocksAtOnce(default) ==
    IF cfg.screenOff = Never THEN default ELSE cfg.screenOff = 0

PhoneBesideDesk == machine.mobile /\ Panel \in present /\ present # {Panel}

(* set_phone_with_desk: the new state, and whether to lock. *)
LeftDark(p, desk) == p.desk /\ ~desk /\ Panel \in p.blanked

SetPhoneWithDesk(p, desk) ==
    IF p.desk = desk THEN p
    ELSE LET q == [p EXCEPT !.desk = desk, !.touch = 0, !.phoneT = FALSE]
         IN IF LeftDark(p, desk)
            THEN ScreenWentOff([q EXCEPT !.manual = TRUE]) ELSE q

DeskLeaveLocks(p, desk) ==
    LeftDark(p, desk) /\ LocksAtOnce(cfg.lock # Never)

-----------------------------------------------------------------------------
(* evaluate_phone: the panel's own idle clock beside a desk. *)

PhoneDue(p) ==
    /\ p.desk /\ inhibitor # "phone"
    /\ ~p.phoneT /\ Panel \in powered /\ p.touch >= cfg.dpms

EvaluatePhone(p) ==
    IF p.desk /\ inhibitor = "phone"
    THEN [p EXCEPT !.touch = 0, !.phoneT = FALSE]
    ELSE IF PhoneDue(p)
         THEN [p EXCEPT !.phoneT = TRUE, !.blanked = @ \cup {Panel}] ELSE p

(* evaluate: the policy, what it asks of the outputs, lock and suspend. *)

(* Faulty: an inhibitor holds off the screen-off lock too. *)
EvaluateInhibitedFirst(p) ==
    LET r == IF p.inhibited THEN p
             ELSE ResetIdleInterval([p EXCEPT !.inhibited = TRUE])
    IN [pol |-> IF r.manual THEN r ELSE WakeBlanked(r),
        reqs |-> IF r.manual THEN Nothing ELSE Ask(Woken(r), "on"),
        lock |-> FALSE, suspend |-> FALSE]

EvaluateInhibited(p) ==
    LET due == p.lockIn = 0
        q == IF due THEN [p EXCEPT !.lockIn = Never] ELSE p
        r == IF q.inhibited THEN q
             ELSE ResetIdleInterval([q EXCEPT !.inhibited = TRUE])
    IN [pol |-> IF r.manual THEN r ELSE WakeBlanked(r),
        reqs |-> IF r.manual THEN Nothing ELSE Ask(Woken(r), "on"),
        lock |-> due, suspend |-> FALSE]

SuspendScreens(p) == p.desk => powered \cap present = {}

EvaluateIdle(p) ==
    LET due == p.lockIn = 0
        q == IF due THEN [p EXCEPT !.lockIn = Never] ELSE p
        r == IF q.inhibited
             THEN ResetIdleInterval([q EXCEPT !.inhibited = FALSE]) ELSE q
        lockDue == ~r.lockT /\ r.idle >= EffectiveLockTimeout
        dpmsDue == ~r.dpmsT /\ r.idle >= cfg.dpms
        known == r.blanked \cap present
        dark == IF dpmsDue
                THEN (powered \cap present) \ (known \cup
                        (IF r.desk THEN {Panel} ELSE {}))
                ELSE {}
        s == [r EXCEPT !.blanked = known \cup dark, !.lockT = @ \/ lockDue,
                       !.dpmsT = @ \/ dpmsDue]
        t == IF dark # {} THEN ScreenWentOff(s) ELSE s
        suspend == /\ dark = {} /\ ~t.suspT
                   /\ SuspendScreens(r)
                   /\ r.idle >= EffectiveSuspendTimeout
    IN [pol |-> [t EXCEPT !.suspT = @ \/ suspend],
        reqs |-> Ask(dark, "off"),
        lock |-> due \/ lockDue \/ (dark # {} /\ LocksAtOnce(FALSE)),
        suspend |-> suspend]

EvaluatePolicy(p) ==
    IF inhibitor # "none" THEN EvaluateInhibited(p) ELSE EvaluateIdle(p)

(* next_deadline, as the time from now. *)
Ahead(age, timeout) ==
    IF timeout = Never THEN Never ELSE IF age >= timeout THEN 0 ELSE timeout - age

Earliest(set) == CHOOSE t \in set : \A u \in set : t <= u

NextIdleDeadline(p) ==
    IF p.inhibited THEN Never
    ELSE Earliest({IF p.lockT THEN Never ELSE Ahead(p.idle, EffectiveLockTimeout),
           IF p.dpmsT THEN Never ELSE Ahead(p.idle, cfg.dpms),
           IF p.suspT THEN Never ELSE Ahead(p.idle, EffectiveSuspendTimeout)})

(* Faulty: the phone's own clock wakes nobody. *)
NextDeadlineNoPhone(p) == Earliest({NextIdleDeadline(p), p.lockIn})

NextDeadline(p) ==
    Earliest({NextIdleDeadline(p), p.lockIn,
              IF p.desk /\ ~p.phoneT THEN Ahead(p.touch, cfg.dpms) ELSE Never})

-----------------------------------------------------------------------------
(* toggle_now, as the power button turns the screen off and on. *)

TogglePhone(p) ==
    IF Panel \in Lit
    THEN [pol |-> [p EXCEPT !.phoneT = TRUE, !.blanked = @ \cup {Panel}],
          reqs |-> Ask({Panel}, "off"), lock |-> FALSE]
    ELSE [pol |-> [p EXCEPT !.touch = 0, !.phoneT = FALSE,
                            !.blanked = @ \ {Panel}],
          reqs |-> Ask({Panel}, "on"), lock |-> FALSE]

(* Faulty: a press does not mark the screen as turned off by the user. *)
BlankUnmarked(p) == [p EXCEPT !.blanked = @ \cup Lit]

BlankNow(p) ==
    [p EXCEPT !.blanked = @ \cup Lit, !.manual = @ \/ (Lit \ p.blanked # {})]

ToggleOff(p) ==
    [pol |-> ScreenWentOff(BlankNow(p)), reqs |-> Ask(Lit \ p.blanked, "off"),
     lock |-> LocksAtOnce(cfg.lock # Never)]

ToggleOn(p) ==
    [pol |-> [p EXCEPT !.blanked = {}, !.manual = FALSE, !.lockIn = Never],
     reqs |-> Ask(present, "on"), lock |-> FALSE]

ToggleNow(p) ==
    LET r == ResetIdleInterval(p)
    IN IF r.desk THEN TogglePhone(r)
       ELSE IF Lit # {} THEN ToggleOff(r) ELSE ToggleOn(r)

-----------------------------------------------------------------------------
(* Bookkeeping of who darkened an output: an input or another party that    *)
(* lights it makes it "other", an evaluation of the policy does not.        *)

Credit(reqs, who) ==
    [o \in Outputs |-> CASE reqs[o] = "off" -> who
                         [] reqs[o] = "on" -> "other"
                         [] OTHER -> by[o]]

Init ==
    /\ machine \in Machines
    /\ cfg = [lock |-> Never, dpms |-> Never, suspend |-> Never,
              screenOff |-> Never]
    /\ pol = [idle |-> 0, inhibited |-> FALSE, lockT |-> FALSE,
              dpmsT |-> FALSE, suspT |-> FALSE, blanked |-> {},
              manual |-> FALSE, lockIn |-> Never, desk |-> FALSE,
              touch |-> 0, phoneT |-> FALSE]
    /\ requests = Nothing
    /\ present = machine.outputs
    /\ powered = present
    /\ locked = FALSE
    /\ inhibitor = "none"
    /\ by = [o \in Outputs |-> "other"]
    /\ last = "none"

(* synchronize_idle_dpms: the desk, the phone's clock, then the policy. *)
Evaluate ==
    LET desk == PhoneBesideDesk
        p == SetPhoneWithDesk(pol, desk)
        phoneOff == PhoneDue(p)
        e == EvaluatePolicy(EvaluatePhone(p))
        reqs == [o \in Outputs |->
                   IF e.reqs[o] = "none" /\ phoneOff /\ o = Panel
                   THEN "off" ELSE e.reqs[o]]
        lock == DeskLeaveLocks(pol, desk) \/ e.lock
    IN /\ pol' = e.pol
       /\ requests' = Queue(reqs)
       /\ by' = [o \in Outputs |-> IF reqs[o] = "off" THEN "idle" ELSE by[o]]
       /\ locked' = (locked \/ lock)
       /\ last' = IF e.suspend THEN "suspend"
                  ELSE IF reqs # Nothing \/ lock THEN "acted" ELSE "quiet"
       /\ UNCHANGED <<cfg, present, powered, inhibitor>>

(* toggle_screen, after the desk was noticed; a press darkens every output  *)
(* that was lit, or beside a desk the panel.                                *)
ToggleScreen ==
    LET desk == PhoneBesideDesk
        p == SetPhoneWithDesk(pol, desk)
        t == ToggleNow(p)
        off == IF desk THEN Lit \cap {Panel} ELSE Lit
    IN /\ pol' = t.pol
       /\ requests' = Queue(t.reqs)
       /\ by' = [o \in Outputs |-> IF o \in off THEN "user" ELSE Credit(t.reqs, "user")[o]]
       /\ locked' = (locked \/ DeskLeaveLocks(pol, desk) \/ t.lock)
       /\ last' = "none"
       /\ UNCHANGED <<cfg, present, powered, inhibitor>>

PowerButton == ToggleScreen

(* The shell's double tap acts only on a lit screen; either way the desk is *)
(* noticed.                                                                 *)
ShellOff ==
    LET desk == PhoneBesideDesk IN
    \/ /\ IF desk THEN Panel \in Lit ELSE Lit # {}
       /\ ToggleScreen
    \/ /\ IF desk THEN Panel \notin Lit ELSE Lit = {}
       /\ pol' = SetPhoneWithDesk(pol, desk)
       /\ locked' = (locked \/ DeskLeaveLocks(pol, desk))
       /\ last' = "none"
       /\ UNCHANGED <<cfg, requests, present, powered, inhibitor, by>>

(* note_user_activity, and the shell's request to light the screen. *)
NoteActivity ==
    LET r == ResetIdleInterval(pol)
        reqs == Ask(Woken(r), "on")
    IN /\ pol' = WakeBlanked(r)
       /\ requests' = Queue(reqs)
       /\ by' = Credit(reqs, "other")
       /\ last' = "none"

Activity ==
    /\ NoteActivity
    /\ UNCHANGED <<cfg, present, powered, locked, inhibitor>>

(* An unlock notes activity too. *)
Unlock ==
    /\ locked
    /\ locked' = FALSE
    /\ NoteActivity
    /\ UNCHANGED <<cfg, present, powered, inhibitor>>

(* A touch of the lit panel is activity, and restarts the phone's clock. *)
PhoneTouch ==
    LET r == ResetIdleInterval(pol)
        w == WakeBlanked(r)
        reqs == Ask(Woken(r), "on")
    IN /\ machine.mobile /\ Panel \in Lit
       /\ pol' = IF pol.desk THEN [w EXCEPT !.touch = 0, !.phoneT = FALSE] ELSE w
       /\ requests' = Queue(reqs)
       /\ by' = Credit(reqs, "other")
       /\ last' = "none"
       /\ UNCHANGED <<cfg, present, powered, locked, inhibitor>>

(* synchronize_wake_key: activity, and wake_output_now on a dark panel. *)
WakeKey ==
    LET r == ResetIdleInterval(pol)
        w == WakeBlanked(r)
        dark == Panel \in present \ Lit
        reqs == Ask(Woken(r) \cup (IF dark THEN {Panel} ELSE {}), "on")
        blanked == w.blanked \ {Panel}
    IN /\ pol' = IF dark
                 THEN [w EXCEPT !.blanked = blanked, !.lockIn = Never,
                                !.manual = @ /\ blanked # {},
                                !.touch = IF w.desk THEN 0 ELSE @,
                                !.phoneT = IF w.desk THEN FALSE ELSE @]
                 ELSE w
       /\ requests' = Queue(reqs)
       /\ by' = Credit(reqs, "other")
       /\ last' = "none"
       /\ UNCHANGED <<cfg, present, powered, locked, inhibitor>>

(* configure: without a display timeout, everything it blanked is lit. *)
Configure(c) ==
    LET r == ResetIdleInterval(pol)
        wake == c.dpms = Never
        reqs == IF wake THEN Ask(Woken(r), "on") ELSE Nothing
    IN /\ c # cfg
       /\ cfg' = c
       /\ pol' = IF wake THEN WakeBlanked(r) ELSE r
       /\ requests' = Queue(reqs)
       /\ by' = Credit(reqs, "other")
       /\ last' = "none"
       /\ UNCHANGED <<present, powered, locked, inhibitor>>

(* A power-management client owns its choice from here on. *)
External(o, power) ==
    /\ o \in present
    /\ pol' = [pol EXCEPT !.blanked = @ \ {o}]
    /\ requests' = [requests EXCEPT ![o] = power]
    /\ by' = [by EXCEPT ![o] = "other"]
    /\ last' = "none"
    /\ UNCHANGED <<cfg, present, powered, locked, inhibitor>>

SetInhibitor(i) ==
    /\ i # inhibitor
    /\ i = "phone" => machine.mobile
    /\ inhibitor' = i
    /\ last' = "none"
    /\ UNCHANGED <<cfg, pol, requests, present, powered, locked, by>>

(* A new output is created powered; a removed one takes its state along. *)
Plug(o) ==
    /\ machine.hotplug /\ o \notin present
    /\ present' = present \cup {o}
    /\ powered' = powered \cup {o}
    /\ by' = [by EXCEPT ![o] = "other"]
    /\ last' = "none"
    /\ UNCHANGED <<cfg, pol, requests, locked, inhibitor>>

Unplug(o) ==
    /\ machine.hotplug /\ o \in present \ {Panel}
    /\ present' = present \ {o}
    /\ powered' = powered \ {o}
    /\ by' = [by EXCEPT ![o] = "other"]
    /\ last' = "none"
    /\ UNCHANGED <<cfg, pol, requests, locked, inhibitor>>

(* Faulty: a power-off that has to wait is reported as failed. *)
FailedWaiting(reqs, outcome, off) ==
    {o \in Outputs \ present : reqs[o] # "none"}
        \cup (IF outcome = "cleared" THEN {} ELSE off)

(* note_power_failure: outputs that are gone, and a refused batch. *)
Failed(reqs, outcome, off) ==
    {o \in Outputs \ present : reqs[o] # "none"}
        \cup (IF outcome = "refused" THEN off ELSE {})

(* apply_output_power_requests, of the requests reqs.  Power-offs go as one *)
(* batch: they wait together for the pipelines to stop, or all are cleared, *)
(* or one refuses and all are taken back.  Power-ons follow.                *)
Gate(reqs, outcome, credit) ==
    LET off == {o \in present \cap powered : reqs[o] = "off"}
        on == {o \in present \ powered : reqs[o] = "on"}
        failed == Failed(reqs, outcome, off)
    IN /\ off = {} => outcome = "cleared"
       /\ pol' = [pol EXCEPT !.blanked = @ \ failed]
       /\ by' = [o \in Outputs |->
                  IF o \notin present \/ (outcome = "refused" /\ o \in off)
                  THEN "other" ELSE credit[o]]
       /\ powered' = (powered \ (IF outcome = "cleared" THEN off ELSE {})) \cup on
       /\ requests' = IF outcome = "waiting" THEN Ask(off, "off") ELSE Nothing
       /\ last' = "none"
       /\ UNCHANGED <<cfg, present, locked, inhibitor>>

Outcomes == {"cleared", "waiting", "refused"}

Apply ==
    /\ requests # Nothing
    /\ \E outcome \in Outcomes : Gate(requests, outcome, by)

(* Settings asks for the power of every enabled output and runs the gate; a *)
(* rolled back configuration only queues the power from before it.  Neither *)
(* tells the policy.                                                        *)
ApplySettings(power) ==
    LET reqs == [o \in Outputs |-> IF o \in present THEN power[o] ELSE requests[o]]
    IN /\ machine.settings
       /\ \E outcome \in Outcomes :
             Gate(reqs, outcome, [o \in Outputs |-> IF o \in present THEN "other" ELSE by[o]])

RollbackSettings(power) ==
    /\ machine.settings
    /\ requests' = [o \in Outputs |-> IF o \in present THEN power[o] ELSE requests[o]]
    /\ by' = [o \in Outputs |-> IF o \in present THEN "other" ELSE by[o]]
    /\ last' = "none"
    /\ UNCHANGED <<cfg, pol, present, powered, locked, inhibitor>>

Older(age) == IF age = MaxAge THEN age ELSE age + 1

Tick ==
    /\ pol' = [pol EXCEPT !.idle = Older(@), !.touch = Older(@),
                          !.lockIn = IF @ \in {0, Never} THEN @ ELSE @ - 1]
    /\ last' = "none"
    /\ UNCHANGED <<cfg, requests, present, powered, locked, inhibitor, by>>

Step ==
    \/ Evaluate
    \/ PowerButton
    \/ ShellOff
    \/ Activity
    \/ Unlock
    \/ PhoneTouch
    \/ WakeKey
    \/ \E c \in machine.configurations : Configure(c)
    \/ \E o \in Outputs, power \in Power : External(o, power)
    \/ \E power \in [Outputs -> Power] :
          ApplySettings(power) \/ RollbackSettings(power)
    \/ \E i \in {"none", "desk", "phone"} : SetInhibitor(i)
    \/ \E o \in Outputs : Plug(o)
    \/ \E o \in Outputs : Unplug(o)
    \/ Apply
    \/ Tick

Next == Step /\ UNCHANGED machine

Spec == Init /\ [][Next]_vars

(* Time passes, and the maintenance cadence evaluates the policy for ever   *)
(* (only an evaluation leaves a result in `last`).                          *)
LiveSpec == Spec /\ WF_vars(Tick /\ UNCHANGED machine) /\ []<>(last # "none")

-----------------------------------------------------------------------------
TypeOK ==
    /\ machine \in Machines /\ cfg \in Configuration
    /\ pol \in PolicyType
    /\ requests \in [Outputs -> Power \cup {"none"}]
    /\ present \subseteq Outputs /\ powered \subseteq present
    /\ locked \in BOOLEAN
    /\ inhibitor \in {"none", "desk", "phone"}
    /\ by \in [Outputs -> {"user", "idle", "other"}]
    /\ last \in {"none", "quiet", "acted", "suspend"}

(* An output that the power button or the double tap darkened stays dark    *)
(* until an input, a client or a configuration lights it: a playing video   *)
(* (an inhibitor) does not.  In particular a press darkens every lit        *)
(* output, as blank_now says.  Settings can light an output behind the      *)
(* policy's back, and so can a display that is plugged in again before an   *)
(* evaluation, with no inhibitor, has forgotten it: such an output is still *)
(* in blanked_outputs, and a press passes it over.  Beside a phone's panel  *)
(* a press is about the panel alone, which stays.                           *)
UserOffStays ==
    ~machine.settings /\ (machine.hotplug => machine.mobile)
        => \A o \in present : by[o] = "user" => o \notin Lit

(* Every output the policy darkened, by a press or by inactivity, is one    *)
(* that the next input will light: its entry in blanked_outputs is never    *)
(* lost while it is dark, whatever fails, waits or is reconfigured between. *)
DarkWakes ==
    \A o \in present \ Lit : by[o] \in {"user", "idle"} => o \in pol.blanked

(* An idle suspend is asked only of a locked session, when idle locking is  *)
(* on: the suspend timeout yields to the lock's, however the two compare.   *)
SuspendLocked == last = "suspend" /\ cfg.lock # Never => locked

(* Beside a desk an idle suspend waits until every screen is dark. *)
SuspendDark == last = "suspend" /\ pol.desk => powered \cap present = {}

(* After an evaluation that did nothing, with no power change under way,    *)
(* the next deadline lies ahead: the policy "needs no polling; this         *)
(* deadline is the only timer".  Beside a desk a dark panel's own timeout   *)
(* stays due.                                                               *)
DeadlineAhead ==
    last = "quiet" /\ requests = Nothing /\ ~pol.desk => NextDeadline(pol) > 0

(* The loop may sleep until the deadline: an evaluation that acts, with no  *)
(* change of the inhibitor or the desk to wake the loop, was due.           *)
DeadlineCovers ==
    [][(/\ last' \in {"acted", "suspend"}
        /\ pol.inhibited = (inhibitor # "none")
        /\ pol.desk = PhoneBesideDesk) => NextDeadline(pol) = 0]_vars

(* When the desk leaves while the panel is dark, the session is locked or   *)
(* the screen-off lock is counting, unless the same press lit the panel.    *)
DeskLeaveSecures ==
    [][(/\ pol.desk /\ ~pol'.desk
        /\ by[Panel] \in {"user", "idle"} /\ Panel \notin Lit
        /\ cfg.lock # Never \/ cfg.screenOff # Never)
       => locked' \/ pol'.lockIn # Never \/ requests'[Panel] = "on"]_vars

(* A counting screen-off lock ends in a locked session, a lit screen or a   *)
(* user's input, also while a video holds idling off.                       *)
ScreenOffLocks == (pol.lockIn # Never) ~> (locked \/ Lit # {} \/ pol.idle = 0)

(* An idle suspend finds the session locked and, beside a desk, every       *)
(* screen dark, whatever the order of the four timeouts.                    *)
SuspendSafe == SuspendLocked /\ SuspendDark

(* The deadline is right in both directions: nothing is due before it, and  *)
(* it does not keep the loop polling.                                       *)
DeadlineExact == []DeadlineAhead /\ DeadlineCovers

(* A dark screen ends in a locked session also when the desk leaves or a    *)
(* video plays, unless the user comes back first.                           *)
DarkLocks == DeskLeaveSecures /\ ScreenOffLocks
=============================================================================
