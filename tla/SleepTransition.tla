-------------------------- MODULE SleepTransition --------------------------
(***************************************************************************)
(* System sleep: logind announces it and waits for delay inhibitors, a      *)
(* monitor thread passes the announcements on and keeps an inhibitor armed, *)
(* and the compositor locks, darkens the outputs, lets the inhibitor go,    *)
(* and lights the outputs again afterwards.                                 *)
(*                                                                         *)
(* Sleeps are numbered.  An announcement and an inhibitor carry the number  *)
(* of the sleep they belong to, for the properties only: no guard reads it. *)
(***************************************************************************)
EXTENDS Naturals, Sequences, FiniteSets

CONSTANTS
    Scanouts,
    MaxCycles,    \* sleeps that logind attempts
    MaxPending,   \* MAX_PENDING_TRANSITIONS
    MaxPresses,   \* presses of the power button
    MaxLosses,    \* times the bus connection breaks
    MaxRefusals   \* times KMS refuses to darken outputs

ASSUME BoundsAssumption ==
    /\ MaxPending \in Nat \ {0}
    /\ {MaxCycles, MaxPresses, MaxLosses, MaxRefusals} \subseteq Nat

VARIABLES
    phase,      \* logind: "awake", "preparing" or "asleep"
    cycle,      \* the number of the last sleep announced
    bus,        \* PrepareForSleep signals the monitor has not read
    monitor,    \* the monitor thread, see MonitorSteps
    inhibitor,  \* delay_inhibitor: the sleep it delays, 0 for none
    queue,      \* transitions
    pc,         \* the compositor's turn: "sync", "apply" or "release"
    sleep,      \* SleepTransitionState
    own,        \* the sleep that the compositor prepares for
    wasLit,     \* what was lit when it began to prepare
    requests,   \* output_power_requests: "on", "off" or "none"
    poweredOn,  \* the scanouts with Scanout::powered
    locked, presses, losses, refusals

sleepVars == <<phase, cycle, bus, monitor, inhibitor, queue, pc, sleep, own, wasLit,
               requests, poweredOn, locked, presses, losses, refusals>>

MonitorSteps == {"connecting", "subscribed", "reading", "arming", "armed"}

logind == <<phase, cycle>>
display == <<requests, poweredOn, locked, presses, refusals>>
compositor == <<pc, sleep, own, wasLit>>

Preparing(n) == [kind |-> "Preparing", of |-> n]
Resumed == [kind |-> "Resumed", of |-> 0]
Transitions == [kind : {"Preparing", "Resumed"}, of : 0 .. MaxCycles]

Nothing == [o \in Scanouts |-> "none"]
Queue(set, power) ==
    [o \in Scanouts |-> IF o \in set THEN power ELSE requests[o]]

(* Lit as soon as the queued requests have been applied. *)
LitSoon == {o \in Scanouts : requests[o] = "on"
                             \/ (requests[o] = "none" /\ o \in poweredOn)}

SleepInit ==
    /\ phase = "awake" /\ cycle = 0 /\ bus = <<>>
    /\ monitor = "connecting" /\ inhibitor = 0 /\ queue = <<>>
    /\ pc = "sync"
    /\ sleep = [preparing |-> FALSE, pending |-> FALSE, restore |-> {}, blanking |-> {}]
    /\ own = 0 /\ wasLit = {}
    /\ requests = Nothing /\ poweredOn = Scanouts /\ locked = FALSE
    /\ presses = 0 /\ losses = 0 /\ refusals = 0

-----------------------------------------------------------------------------
(* logind.  A signal reaches a monitor that has subscribed. *)

Deliver(signal) ==
    bus' = IF monitor = "connecting" THEN bus ELSE Append(bus, signal)

Announce ==
    /\ phase = "awake" /\ cycle < MaxCycles
    /\ phase' = "preparing" /\ cycle' = cycle + 1
    /\ Deliver(Preparing(cycle + 1))
    /\ UNCHANGED <<monitor, inhibitor, queue, losses, compositor, display>>

(* No inhibitor is held, or InhibitDelayMaxSec is over. *)
FallAsleep ==
    /\ phase = "preparing"
    /\ phase' = "asleep"
    /\ UNCHANGED <<cycle, bus, monitor, inhibitor, queue, losses, compositor, display>>

Wake ==
    /\ phase = "asleep"
    /\ phase' = "awake"
    /\ Deliver(Resumed)
    /\ UNCHANGED <<cycle, monitor, inhibitor, queue, losses, compositor, display>>

-----------------------------------------------------------------------------
(* The monitor thread. *)

(* Faulty: the newest transition is dropped instead. *)
PublishUnlessFull(t) ==
    queue' = IF Len(queue) = MaxPending THEN queue ELSE Append(queue, t)

(* publish: bounded, the oldest transition gives way. *)
Publish(t) ==
    queue' = Append(IF Len(queue) = MaxPending THEN Tail(queue) ELSE queue, t)

Subscribe ==
    /\ monitor = "connecting"
    /\ monitor' = "subscribed"
    /\ UNCHANGED <<bus, inhibitor, queue, losses, logind, compositor, display>>

(* acquire_sleep_delay, once subscribed and after every resume: logind      *)
(* refuses while a sleep is under way, and the one held, if any, is kept.   *)
(* A new one delays the next sleep.                                         *)
AcquireSleepDelay ==
    /\ monitor \in {"subscribed", "arming"}
    /\ monitor' = IF monitor = "subscribed" THEN "reading" ELSE "armed"
    /\ inhibitor' = IF phase = "awake" THEN cycle + 1 ELSE inhibitor
    /\ UNCHANGED <<bus, queue, losses, logind, compositor, display>>

ReadSignal ==
    /\ monitor = "reading" /\ bus # <<>>
    /\ bus' = Tail(bus)
    /\ IF Head(bus).kind = "Preparing"
       THEN Publish(Head(bus)) /\ UNCHANGED monitor
       ELSE monitor' = "arming" /\ UNCHANGED queue
    /\ UNCHANGED <<inhibitor, losses, logind, compositor, display>>

(* The resume is published after the next cycle was armed. *)
PublishResumed ==
    /\ monitor = "armed"
    /\ monitor' = "reading"
    /\ Publish(Resumed)
    /\ UNCHANGED <<bus, inhibitor, losses, logind, compositor, display>>

(* The connection breaks: signals are lost until the monitor reconnects. *)
Disconnect ==
    /\ monitor = "reading" /\ losses < MaxLosses
    /\ losses' = losses + 1
    /\ monitor' = "connecting" /\ bus' = <<>> /\ inhibitor' = 0
    /\ UNCHANGED <<queue, logind, compositor, display>>

-----------------------------------------------------------------------------
(* The compositor's turn, while the monitor thread runs on. *)

(* prepare: repeated announcements change nothing. *)
Prepare ==
    IF sleep.preparing
    THEN UNCHANGED <<sleep, own, wasLit, requests>>
    ELSE /\ sleep' = [preparing |-> TRUE, pending |-> TRUE, restore |-> LitSoon,
                      blanking |-> poweredOn \cup LitSoon]
         /\ requests' = Queue(poweredOn \cup LitSoon, "off")
         /\ own' = Head(queue).of
         /\ wasLit' = LitSoon

Resume ==
    /\ sleep' = [preparing |-> FALSE, pending |-> FALSE, restore |-> {},
                 blanking |-> {}]
    /\ requests' = Queue(sleep.restore, "on")
    /\ UNCHANGED <<own, wasLit>>

(* ensure_session_locked. *)
EnsureSessionLocked == locked' = TRUE

(* synchronize_sleep_transition: at most one transition in a turn; both     *)
(* kinds lock the session first.                                            *)
Synchronize ==
    /\ pc = "sync" /\ pc' = "apply"
    /\ IF queue = <<>>
       THEN UNCHANGED <<queue, sleep, own, wasLit, requests, locked>>
       ELSE /\ queue' = Tail(queue)
            /\ EnsureSessionLocked
            /\ IF Head(queue).kind = "Preparing" THEN Prepare ELSE Resume
    /\ UNCHANGED <<bus, monitor, inhibitor, losses, logind, poweredOn, presses, refusals>>

(* The power gate: power-offs wait together, are done, or are refused. *)
ApplyRequests ==
    LET off == {o \in poweredOn : requests[o] = "off"}
        on == {o \in Scanouts : requests[o] = "on"}
    IN /\ pc = "apply" /\ pc' = "release"
       /\ \/ /\ poweredOn' = (poweredOn \ off) \cup on /\ requests' = Nothing
             /\ UNCHANGED refusals
          \/ /\ off # {}
             /\ poweredOn' = poweredOn \cup on
             /\ \/ /\ requests' = [o \in Scanouts |-> IF o \in off THEN "off" ELSE "none"]
                   /\ UNCHANGED refusals
                \/ /\ refusals < MaxRefusals /\ refusals' = refusals + 1
                   /\ requests' = Nothing
       /\ UNCHANGED <<bus, monitor, inhibitor, queue, losses, logind, sleep, own, wasLit,
                      locked, presses>>

(* Faulty: the inhibitor goes as soon as the requests are queued. *)
BlankedAssumed == sleep.pending

(* take_delay_release_if_blanked: what was lit is dark. *)
Blanked == sleep.pending /\ sleep.blanking \cap poweredOn = {}

(* Faulty: whether the outputs are dark is looked at only once. *)
ReleaseSleepDelayOnce ==
    /\ pc = "release" /\ pc' = "sync"
    /\ sleep' = [sleep EXCEPT !.pending = FALSE]
    /\ inhibitor' = IF Blanked THEN 0 ELSE inhibitor
    /\ UNCHANGED <<bus, monitor, queue, losses, logind, own, wasLit, display>>

ReleaseSleepDelay ==
    /\ pc = "release" /\ pc' = "sync"
    /\ IF Blanked
       THEN sleep' = [sleep EXCEPT !.pending = FALSE] /\ inhibitor' = 0
       ELSE UNCHANGED <<sleep, inhibitor>>
    /\ UNCHANGED <<bus, monitor, queue, losses, logind, own, wasLit, display>>

(* Between turns the user presses the power button, or unlocks. *)
Press ==
    /\ pc = "sync" /\ presses < MaxPresses
    /\ presses' = presses + 1
    /\ requests' = IF LitSoon = {} THEN Queue(Scanouts, "on") ELSE Queue(LitSoon, "off")
    /\ UNCHANGED <<bus, monitor, inhibitor, queue, losses, logind, compositor,
                   poweredOn, locked, refusals>>

Unlock ==
    /\ pc = "sync" /\ locked
    /\ locked' = FALSE
    /\ UNCHANGED <<bus, monitor, inhibitor, queue, losses, logind, compositor,
                   requests, poweredOn, presses, refusals>>

SleepNext ==
    \/ Announce \/ FallAsleep \/ Wake
    \/ Subscribe \/ AcquireSleepDelay \/ ReadSignal \/ PublishResumed \/ Disconnect
    \/ Synchronize \/ ApplyRequests \/ ReleaseSleepDelay
    \/ Press \/ Unlock

SleepSpec == SleepInit /\ [][SleepNext]_sleepVars

(* The kernel wakes the machine, the two threads run, and an output whose   *)
(* pipeline was asked to stop does stop in the end.  logind sleeps once no  *)
(* inhibitor is held; nothing relies on its giving up.                      *)
Darkened == ApplyRequests /\ requests' = Nothing
SleepLiveSpec ==
    /\ SleepSpec
    /\ WF_sleepVars(FallAsleep /\ inhibitor = 0) /\ WF_sleepVars(Wake)
    /\ WF_sleepVars(Subscribe) /\ WF_sleepVars(AcquireSleepDelay)
    /\ WF_sleepVars(ReadSignal) /\ WF_sleepVars(PublishResumed)
    /\ WF_sleepVars(Synchronize) /\ WF_sleepVars(ApplyRequests)
    /\ WF_sleepVars(ReleaseSleepDelay)
    /\ SF_sleepVars(Darkened)

-----------------------------------------------------------------------------
SleepTypeOK ==
    /\ phase \in {"awake", "preparing", "asleep"}
    /\ cycle \in 0 .. MaxCycles
    /\ bus \in Seq(Transitions)
    /\ monitor \in MonitorSteps
    /\ inhibitor \in 0 .. MaxCycles + 1
    /\ queue \in Seq(Transitions) /\ Len(queue) <= MaxPending
    /\ pc \in {"sync", "apply", "release"}
    /\ sleep \in [preparing : BOOLEAN, pending : BOOLEAN,
                  restore : SUBSET Scanouts, blanking : SUBSET Scanouts]
    /\ own \in 0 .. MaxCycles /\ wasLit \subseteq Scanouts
    /\ requests \in [Scanouts -> {"on", "off", "none"}]
    /\ poweredOn \subseteq Scanouts /\ locked \in BOOLEAN
    /\ presses \in 0 .. MaxPresses /\ losses \in 0 .. MaxLosses
    /\ refusals \in 0 .. MaxRefusals

(* The machine that the compositor let go to sleep sleeps with the outputs  *)
(* dark that were lit at the announcement, unless the user pressed the      *)
(* power button: no late resume, refused or waiting power change lights or  *)
(* leaves one.                                                              *)
SleepsDark ==
    phase = "asleep" /\ own = cycle /\ ~sleep.pending /\ presses = 0 /\ sleep.preparing
       => wasLit \cap poweredOn = {}

(* An output lit before the sleep is lit again after it: however often the  *)
(* sleep is announced before the resume is handled, and whatever was        *)
(* dropped between, the outputs to restore are those of the first.          *)
RestoreKept == sleep.preparing => sleep.restore = wasLit

(* Once everything is quiet the compositor is not left preparing: while the *)
(* connection holds, no resume is lost between logind and the compositor,   *)
(* also when the queue overflows.                                           *)
NotStuck ==
    (/\ phase = "awake" /\ bus = <<>> /\ queue = <<>> /\ losses = 0
     /\ monitor = "reading" /\ pc = "sync") => ~sleep.preparing

(* logind never waits for an inhibitor that nobody lets go, unless KMS      *)
(* refused to darken an output, the user lit one, or a broken connection    *)
(* lost an announcement.                                                    *)
SleepHappens ==
    []<>(phase # "preparing" \/ refusals > 0 \/ presses > 0 \/ losses > 0)

(* A sleep takes the lit outputs dark with it and gives back just those.    *)
SleepRestores == SleepsDark /\ RestoreKept
=============================================================================
