--------------------------- MODULE FrameScheduler ---------------------------
(***************************************************************************)
(* The frame scheduler: one timeline per powered output, the damage every   *)
(* output still has to show, and the Flutter frame clocked by the fastest   *)
(* output. Instants are distances from now; serials wrap at Word.           *)
(***************************************************************************)
EXTENDS Integers, FiniteSets, Sequences, Functions

CONSTANTS
    Outputs, Textures, Whole,
    Rank,          \* the order of output ids
    Word,          \* 2^64 in the code
    FirstSerial,   \* next_dirty_serial of the first state
    Setups         \* the displays and what happens to them, see Setup

(* The refresh interval of the connected outputs; whether output            *)
(* transactions are requested and renders may produce no frame; and the     *)
(* bounds of marks, power changes, lateness and phase corrections.          *)
Setup(connected) ==
    [interval : [connected -> Nat \ {0}], textures : SUBSET Textures,
     transactions : BOOLEAN, drops : BOOLEAN, marks : Nat, powerChanges : Nat,
     late : Nat, shift : Nat]

ASSUME SchedulerBounds ==
    /\ Word \in Nat /\ Word % 2 = 0 /\ FirstSerial \in 0 .. Word - 1
    /\ IsFiniteSet(Outputs) /\ Cardinality(Outputs) < Word \div 2
    /\ Whole \notin Textures
    /\ Rank \in [Outputs -> Nat] /\ IsInjective(Rank)
    /\ \A s \in Setups :
          /\ DOMAIN s.interval \subseteq Outputs /\ s \in Setup(DOMAIN s.interval)
          /\ \A o \in DOMAIN s.interval : s.interval[o] > 2 * s.shift

VARIABLES
    setup,         \* which of Setups this is
    timelines,     \* powered output -> [next, shift]: the next edge, from now
    clock,         \* flutter_output
    dirty,         \* dirty_outputs
    serial,        \* next_dirty_serial
    latched,       \* flutter_request_latched
    target,        \* last_flutter_target, from now
    idle,          \* ticks_idle
    asleep,        \* the loop waits in dispatch
    vsync,         \* Flutter awaits a vsync
    waiting,       \* an output transaction waits for the pipelines
    renders,       \* renders on their way: serial, and what they show (history)
    grid,          \* history: the edges of a timeline that never sleeps
    marks, powerChanges

vars == <<setup, timelines, clock, dirty, serial, latched, target, idle, asleep,
          vsync, waiting, renders, grid, marks, powerChanges>>

None == [none |-> TRUE]
NoTarget == -setup.shift - 1
Interval == setup.interval
Connected == DOMAIN Interval
Powered == DOMAIN timelines
NewTimeline == [next |-> 0, shift |-> 0]

-----------------------------------------------------------------------------
(* Serials and damage. *)

NextSerial(s) == IF (s + 1) % Word = 0 THEN 1 ELSE (s + 1) % Word

(* Faulty: serials are compared as numbers. *)
AtOrBeforeUnwrapped(candidate, reference) == candidate <= reference

AtOrBefore(candidate, reference) == (reference - candidate) % Word < Word \div 2

(* Nothing recorded is half the word older than a new serial: the code      *)
(* relies on 2^63 marks never fitting into the life of one record.          *)
SerialsStayClose(s) ==
    LET recent(old) == (s - old) % Word < Word \div 2 IN
    /\ \A o \in DOMAIN dirty :
           /\ recent(dirty[o].serial)
           /\ \A x \in DOMAIN dirty[o].textures : recent(dirty[o].textures[x])
    /\ \A o \in Outputs : \A i \in DOMAIN renders[o] : recent(renders[o][i].serial)

(* The serial of the k-th mark after s: zero is skipped. *)
SerialAfter(s, k) == IF k = 0 THEN s ELSE ((s + k - 1) % (Word - 1)) + 1

(* The entry of o after a mark with serial s and the textures ts. *)
Entry(d, o, s, ts) ==
    LET old == IF o \in DOMAIN d THEN d[o].textures ELSE <<>> IN
    [serial |-> s,
     textures |-> [t \in DOMAIN old \cup ts |-> IF t \in ts THEN s ELSE old[t]]]

Marked(d, o, s, ts) ==
    [p \in DOMAIN d \cup {o} |-> IF p = o THEN Entry(d, o, s, ts) ELSE d[p]]

(* mark_all_dirty and a run of mark_output_dirty, in the order of the ids:  *)
(* [dirty, serial].                                                         *)
MarkEach(d, s, S) ==
    LET place(o) == Cardinality({p \in S : Rank[p] <= Rank[o]}) IN
    [dirty |-> [o \in DOMAIN d \cup S |->
                   IF o \in S THEN Entry(d, o, SerialAfter(s, place(o)), {}) ELSE d[o]],
     serial |-> SerialAfter(s, Cardinality(S))]

(* Renders no longer show what is damaged again: history only. *)
Stale(queue, S, ts) ==
    [o \in Outputs |-> [i \in DOMAIN queue[o] |->
        IF o \in S THEN [queue[o][i] EXCEPT !.covers = @ \ (ts \cup {Whole})]
        ELSE queue[o][i]]]

-----------------------------------------------------------------------------
(* Timelines. *)

Fastest(S) ==
    IF S = {} THEN None
    ELSE CHOOSE o \in S : \A p \in S :
             \/ Interval[o] < Interval[p]
             \/ Interval[o] = Interval[p] /\ Rank[o] <= Rank[p]

(* The tick of a due timeline: the edges missed are skipped. *)
Due(o) == timelines[o].next <= 0
Missed(o) == (-timelines[o].next) \div Interval[o]
TickTarget(o) == timelines[o].next + (Missed(o) + 1) * Interval[o] + timelines[o].shift

TakeTick(o) == IF Due(o) THEN [next |-> TickTarget(o), shift |-> 0] ELSE timelines[o]

(* Faulty: an idle timeline starts anew. *)
SkipElapsedAnew(line, interval) == IF line.next < 0 THEN [line EXCEPT !.next = 0] ELSE line

SkipElapsed(line, interval) ==
    IF line.next < 0 THEN [line EXCEPT !.next = @ % interval] ELSE line

-----------------------------------------------------------------------------
Init ==
    /\ setup \in Setups
    /\ timelines = [o \in Connected |-> NewTimeline]
    /\ clock = Fastest(Connected)
    /\ dirty = <<>> /\ serial = FirstSerial
    /\ latched = FALSE /\ target = NoTarget
    /\ idle = FALSE /\ asleep = FALSE /\ vsync = FALSE
    /\ waiting = FALSE
    /\ renders = [o \in Outputs |-> <<>>]
    /\ grid = [o \in Connected |-> 0]
    /\ marks = 0 /\ powerChanges = 0

(* mark_app_dirty, for buffers, repaints and screenshots. The loop is awake *)
(* when it marks.                                                           *)
MarkAppDirty(o, ts) ==
    /\ ~asleep /\ marks < setup.marks
    /\ marks' = marks + 1
    /\ serial' = NextSerial(serial)
    /\ SerialsStayClose(serial')
    /\ dirty' = Marked(dirty, o, serial', ts)
    /\ renders' = Stale(renders, {o}, ts)
    /\ UNCHANGED <<timelines, clock, latched, target, idle, asleep, vsync,
                   waiting, grid, powerChanges>>

(* Flutter's AwaitVSync callback, on its own thread. *)
AwaitVsync ==
    /\ ~vsync /\ marks < setup.marks
    /\ vsync' = TRUE /\ marks' = marks + 1
    /\ UNCHANGED <<timelines, clock, dirty, serial, latched, target, idle,
                   asleep, waiting, renders, grid,
                   powerChanges>>

(* reconfigure_sources after a change of power. *)
Reconfigure(powered) ==
    LET activated == powered \ Powered
        marked == MarkEach(dirty, serial, activated) IN
    /\ ~asleep /\ powerChanges < setup.powerChanges /\ powered # Powered
    /\ powerChanges' = powerChanges + 1
    /\ timelines' = [o \in powered |-> NewTimeline]
    /\ grid' = [o \in Connected |-> 0]
    /\ clock' = Fastest(powered)
    /\ dirty' = marked.dirty /\ serial' = marked.serial
    /\ SerialsStayClose(serial')
    /\ renders' = Stale(renders, activated, {})
    /\ latched' = (latched /\ powered # {})
    /\ UNCHANGED <<target, idle, asleep, vsync, waiting, marks>>

(* step_with_output_readiness on a due edge, render_authorized_outputs, and *)
(* dispatch_output_ticks. Outputs with a render on its way take no other;   *)
(* some others are not ready either.                                        *)
AnyDue == \E o \in Powered : Due(o)
Room(o) == renders[o] = <<>>

ClockTicks(available, due) ==
    clock \in due \cap available /\ TickTarget(clock) > target

Schedule(available) ==
    LET due == {o \in Powered : Due(o)}
        wanted == latched \/ vsync
        clocked == wanted /\ ClockTicks(available, due)
        marked == IF clocked THEN MarkEach(dirty, serial, Powered)
                  ELSE [dirty |-> dirty, serial |-> serial]
        fresh == IF clocked THEN Powered ELSE {}
        requested == {o \in due \cap available : o \in DOMAIN marked.dirty}
        old == Stale(renders, fresh, {}) IN
    /\ ~asleep /\ ~waiting /\ AnyDue
    /\ available \subseteq {o \in due : Room(o)}
    /\ timelines' = [o \in Powered |-> TakeTick(o)]
    /\ grid' = [o \in Connected |-> IF o \in due THEN grid[o] + timelines[o].shift ELSE grid[o]]
    /\ dirty' = marked.dirty /\ serial' = marked.serial
    /\ fresh # {} => SerialsStayClose(serial')
    /\ renders' = [o \in Outputs |->
           IF o \in requested
           THEN Append(old[o], [serial |-> marked.dirty[o].serial,
                                covers |-> DOMAIN marked.dirty[o].textures \cup {Whole}])
           ELSE old[o]]
    /\ latched' = (wanted /\ ~clocked)
    /\ target' = IF clocked THEN TickTarget(clock) ELSE target
    /\ vsync' = (vsync /\ ~clocked)
    /\ UNCHANGED <<clock, idle, asleep, waiting, marks, powerChanges>>

(* An output change is requested, and later applied. *)
Transaction ==
    /\ ~asleep /\ setup.transactions
    /\ waiting' = ~waiting
    /\ UNCHANGED <<timelines, clock, dirty, serial, latched, target, idle,
                   asleep, vsync, renders, grid, marks,
                   powerChanges>>

(* complete_render: what is left of an entry. *)
Retired(entry, s) ==
    IF AtOrBefore(s, entry.serial)
    THEN [entry EXCEPT !.textures = Restrict(@, {t \in DOMAIN @ : ~AtOrBefore(@[t], s)})]
    ELSE entry

(* publish_completed_flutter_frames: the oldest render of an output. *)
CompleteRender(o) ==
    LET s == Head(renders[o]).serial IN
    /\ ~asleep /\ renders[o] # <<>>
    /\ renders' = [renders EXCEPT ![o] = Tail(@)]
    /\ dirty' = IF o \notin DOMAIN dirty THEN dirty
                ELSE IF dirty[o].serial = s THEN Restrict(dirty, DOMAIN dirty \ {o})
                ELSE [dirty EXCEPT ![o] = Retired(@, s)]
    /\ UNCHANGED <<timelines, clock, serial, latched, target, idle, asleep,
                   vsync, waiting, grid, marks, powerChanges>>

(* The engine had no scene for it, or the render was cancelled. *)
DropRender(o) ==
    /\ setup.drops /\ renders[o] # <<>>
    /\ renders' = [renders EXCEPT ![o] = Tail(@)]
    /\ UNCHANGED <<timelines, clock, dirty, serial, latched, target, idle,
                   asleep, vsync, waiting, grid, marks,
                   powerChanges>>

(* The display reports when a frame was shown: the accumulated and clamped  *)
(* correction of the next edge.                                             *)
ObservePresentation(o, shift) ==
    /\ ~asleep /\ o \in Powered
    /\ timelines' = [timelines EXCEPT ![o].shift = shift]
    /\ UNCHANGED <<clock, dirty, serial, latched, target, idle, asleep,
                   vsync, waiting, renders, grid, marks,
                   powerChanges>>

-----------------------------------------------------------------------------
(* Faulty: damage of the outputs is not looked at. *)
WantsTicksOfFlutter == latched

WantsTicks == latched \/ dirty # <<>>

(* The end of a turn: a due edge was served unless a transaction waits. *)
Sleep ==
    /\ ~asleep /\ (AnyDue => waiting)
    /\ asleep' = TRUE /\ idle' = ~(WantsTicks \/ vsync)
    /\ UNCHANGED <<timelines, clock, dirty, serial, latched, target, vsync,
                   waiting, renders, grid, marks,
                   powerChanges>>

(* dispatch returns, at an edge or for any other event; resume_ticks. *)
Wake ==
    /\ asleep
    /\ asleep' = FALSE /\ idle' = FALSE
    /\ timelines' = IF idle
                    THEN [o \in Powered |-> SkipElapsed(timelines[o], Interval[o])]
                    ELSE timelines
    /\ UNCHANGED <<clock, dirty, serial, latched, target, vsync, waiting, renders, grid, marks, powerChanges>>

(* Time passes: a timeline is late by at most setup.late. *)
Pass ==
    /\ \A o \in Powered : timelines[o].next > -setup.late
    /\ timelines' = [o \in Powered |-> [timelines[o] EXCEPT !.next = @ - 1]]
    /\ grid' = [o \in Connected |-> (grid[o] - 1) % Interval[o]]
    /\ target' = IF target > NoTarget THEN target - 1 ELSE target
    /\ UNCHANGED <<clock, dirty, serial, latched, idle, asleep, vsync, waiting, renders, marks, powerChanges>>

Step ==
    \/ \E o \in Connected, ts \in SUBSET setup.textures : MarkAppDirty(o, ts)
    \/ AwaitVsync \/ Transaction \/ Sleep \/ Wake \/ Pass
    \/ \E powered \in SUBSET Connected : Reconfigure(powered)
    \/ \E available \in SUBSET Connected : Schedule(available)
    \/ \E o \in Outputs : CompleteRender(o) \/ DropRender(o)
    \/ \E o \in Connected, shift \in -setup.shift .. setup.shift :
          ObservePresentation(o, shift)

Next == Step /\ UNCHANGED setup

Spec == Init /\ [][Next]_vars

(* The loop runs, wakes at the edges it waits for and when Flutter asks,    *)
(* outputs become ready for a render again and again, and what they render  *)
(* wakes the loop and is published.                                         *)
Loop(A) == A /\ UNCHANGED setup
LiveSpec ==
    /\ Spec
    /\ WF_vars(Loop(Pass))
    /\ WF_vars(Loop((~idle \/ vsync) /\ Wake))
    /\ \A o \in Outputs :
           /\ SF_vars(Loop(\E available \in SUBSET Connected :
                              o \in available /\ Schedule(available)))
           /\ []<>(renders[o] = <<>>)

-----------------------------------------------------------------------------
TypeOK ==
    /\ Powered \subseteq Connected
    /\ \A o \in Powered : /\ timelines[o].next \in -setup.late .. Interval[o] + setup.shift
                          /\ timelines[o].shift \in -setup.shift .. setup.shift
    /\ clock = Fastest(Powered)
    /\ DOMAIN dirty \subseteq Outputs /\ serial \in 0 .. Word - 1
    /\ \A o \in DOMAIN dirty :
           /\ dirty[o].serial \in 1 .. Word - 1
           /\ DOMAIN dirty[o].textures \subseteq Textures
    /\ \A o \in Outputs : Len(renders[o]) <= 1

(* "completing that older render retires only the texture generations it    *)
(* actually covered": with serials that wrap, the scheduler keeps exactly   *)
(* the damage that OutputDamage describes.                                  *)
DamageOf(o) ==
    IF o \in DOMAIN dirty THEN DOMAIN dirty[o].textures \cup {Whole} ELSE {}

Abstract == INSTANCE OutputDamage WITH
    damage <- [o \in Outputs |-> DamageOf(o)],
    renders <- [o \in Outputs |-> [i \in DOMAIN renders[o] |-> renders[o][i].covers]]

(* The scheduler implements OutputDamage: complete_render retires what its  *)
(* render covered and nothing that was damaged since, also when the serials *)
(* it compares wrap.                                                        *)
DamageKept == Abstract!Spec

(* The debug assertion of flutter_frame_dispatched: Flutter never gets a    *)
(* frame for a presentation that is not after the last one, even when       *)
(* another output becomes its clock.                                        *)
TargetIncreases == vsync /\ ~vsync' => target' > target

(* "Its phase is kept while idle": after any sleep, the next edge is one of *)
(* those a timeline that never slept has.                                   *)
PhaseKept ==
    \A o \in Powered : (timelines[o].next - grid[o]) % Interval[o] = 0

(* Frames are withheld or dropped in this setup. *)
Withheld == setup.drops \/ setup.transactions

(* What is damaged on a lit output is drawn, and Flutter gets its vsync,    *)
(* through idle sleeps, unready outputs and changes of its clock, where     *)
(* no transaction withholds it and every render ends in a frame.            *)
Drawn ==
    /\ \A o \in Outputs : []<>(o \notin DOMAIN dirty \cap Powered \/ Withheld)
    /\ []<>(~vsync \/ Powered = {} \/ Withheld)

(* Flutter's clock keeps the phase of every output and only moves forward,  *)
(* through sleeps, phase corrections and changes of the clock output.       *)
TimelineKept == [][PhaseKept' /\ TargetIncreases]_vars
=============================================================================
