# denial: a TLA+ development of the compositor

denial is a Wayland compositor in Rust (`src/compositor`) whose shell is a
Flutter scene (`src/dart_shell`). `deniald` runs one event loop thread; beside it
are Flutter's raster thread, the Volition worker that commits frames to KMS,
monitor threads for sleep and the lid, the GPU and the display. The development
follows two things through them. One is a frame: from a client's damage to the
screen, and its buffer back to the renderer. The other is the set of displays:
which are connected, configured, lit and asleep, and what happens to a session
while that changes.

Paths below are relative to `src/compositor/src/bin/deniald/` unless they start
with `src/`.

## The system

### Parts, state and operations

| Part | State | Operations |
|---|---|---|
| Frame scheduler (`frame_scheduler.rs`) | per output a dirty entry with a serial, a timeline of edges | mark dirty, tick, request a render, complete a render, reconfigure |
| Buffer broker (`flutter_runtime/output_pipeline.rs`) | per output a pool of at least three buffers; per buffer a state, a reference count, a fence; one authorization | authorize, acquire, transfer, mark ready, publish, retain, release |
| Raster callbacks (`flutter_runtime/renderer/`) | the current raster task | make_current, framebuffer callback, present, raster_idle |
| Output scheduler (`output_scheduler.rs`) | per lit output a pipeline: scanned-out buffer, ready frame, frame in flight, power flags; per buffer a fence slot | publish, acknowledge fences, submit, acknowledge Volition events, complete flips, power off and on, replace |
| Volition (`src/compositor/src/volition/mod.rs`) | a bounded channel, the worker's queue, a pending counter, a cancel flag | submit, attempt, retry, report, shut down |
| DPMS (`dpms.rs`) | requested and deferred power changes, the topology guard | begin a batch, defer it, clear the CRTCs, roll back, wake |
| Idle policy (`idle_policy.rs`) | stage, deadlines, blanked outputs | activity, power key, evaluate, acknowledge or fail a power change |
| Sleep (`sleep_transition.rs`, `system_controls/session.rs`) | transitions, the delay inhibitor, outputs to restore | announce, darken, let logind go, restore |
| Lid (`lid_switch.rs`) | the believed position, a generation | toggle, read logind, apply |
| Topology (`output_topology.rs`, `output_policy.rs`, `flutter_event_loop/reconfiguration.rs`) | connectors, requests for a rescan | observe, choose what is lit, postpone, rebuild |
| Hotplug transaction (`hotplug_transaction.rs`, `kms_pipeline.rs`) | the scanouts, a candidate, a journal of commits | stage, commit, wait, publish, roll back, quarantine |
| Output control (`flutter_event_loop/output_apply.rs`) | queued layouts, a confirmation with its deadline, the saved file, the snapshot | submit, apply, keep, roll back, save, publish |
| KMS session (`kms_session.rs`) | session active, recovery requested | pause, resume, rebase, recover |

`PROJECT.json` lists every part of the system with its sources, also those that
are not modelled.

### How the modelled parts interact

A frame:

1. Damage marks an output dirty. At a tick of its timeline the loop asks whether
   the pipeline can take a frame and the broker has a target, and authorizes one.
2. The raster thread acquires the target, draws, and presents it with a fence;
   another GPU may have to copy it first. At `raster_idle` the frame is complete.
3. The loop takes the frame (`publish_ready`), claims the buffer's fence slot and
   watches the fence. `complete_render` retires the dirty mark.
4. When the fence has signaled and no frame is in flight, `submit_ready` gives it
   to Volition. The worker commits it near the edge, asks again while KMS is
   busy, and reports.
5. The page flip retires the frame. The buffer it replaces loses its reference
   and can be drawn again.

The displays:

1. Connectors, lid and preferences decide which outputs are lit. A rescan is
   held back while an output sleeps, because monitors drop their connector then.
2. A change is a transaction: new surfaces are staged beside the old ones, and a
   failure of any step gives the old ones back.
3. A layout submitted by Settings goes through both. It waits for the user to
   keep it and is rolled back otherwise; what is kept is saved.
4. Power is asked for by inactivity, the power button, clients, Settings and
   system sleep. One gate applies it, and may postpone or refuse it.

The second cuts through the first at any step, and each step has an answer that
may arrive late: a fence, a report, a flip, a reading, a resume.

### What can go wrong

`PROJECT.json` lists the hazards with their lines. In short: an answer of an
older generation is taken for a newer one; a flip overtakes the report of its
commit; a buffer is drawn while something reads it, or is never drawn again; a
power-off, a sleep or a confirmation waits for ever; a display stays dark, or is
lit again against the user; a difference between what is lit and what should be
is forgotten; a failed step leaves half of a configuration; a transient state is
saved as a preference.

## Modules

| Module | Models | Checked through |
|---|---|---|
| `Volition` | the commit worker and its handle | itself |
| `OutputPipeline` | one output: broker, raster callbacks, fence slots, pipeline, Volition seen from outside, KMS, captures, power, replacement | itself |
| `OutputScheduler` | several outputs: positions of pipelines, shared Volition, instances, power batches, stalls, VT switches | itself |
| `FrameDelivery` | one output: the dirty mark, ticks, edges and the places that drop a frame | itself |
| `FrameScheduler` | timelines, damage with wrapping serials, Flutter's clock, idle sleep | `MCFrameScheduler` |
| `OutputDamage` | the abstract promise about damage that `FrameScheduler` implements | property `DamageKept` |
| `DisplayPower` | who turns displays off and on, with the idle policy | `MCDisplayPower` |
| `SleepTransition` | system sleep: logind, the monitor thread, the compositor | itself |
| `OutputPolicy` | which connected outputs are lit (no state) | extended by the next three |
| `OutputPreferences` | the passes of `reconcile_disabled_outputs` | `OutputApply`, proofs |
| `OutputApply` | a submitted layout from its queue to the screen and the file; extends `OutputPreferences` | `MCOutputApply` |
| `OutputTopology` | rescans, their requests and the DPMS guard | `LidTopology` |
| `LidSwitch` | the believed position of the lid | `LidTopology`, proofs |
| `LidTopology` | the composition of the two | `MCOutputTopology` |
| `HotplugTransaction` | one change of the scanouts with its rollback | `MCHotplugTransaction` |
| `OutputPipelineProofs`, `OutputSchedulerProofs`, `DisplayPowerProofs`, `OutputApplyProofs`, `HotplugTransactionProofs` | theorems about the module each is named after | `tlapm` |
| `VolitionProofs` | theorems about `Volition` and `FrameDelivery` | `tlapm` |
| `FrameSchedulerProofs` | theorems about `FrameScheduler`, with the refinement of `OutputDamage` | `tlapm` |
| `LidTopologyProofs` | theorems about `LidSwitch`, `OutputTopology`, their composition, and `SleepTransition` | `tlapm` |

Definitions have the names of the code where there is one; `PROJECT.json` maps
each to its lines. Operators marked "Faulty" are plausible mistakes in the
definition that follows them. No specification uses them.

Some modules have a variable that `Init` chooses and no step changes (`machine`,
`desk`, `setup`): the machine the compositor runs on and how much happens to it.
One run then covers several configurations, each with the bounds it needs.

`TypeOK` says what the variables range over. It is proved for every module that has
one, on its own or inside an inductive invariant.

### Volition

`chan`, `queue` and the worker's program counter `worker` follow `run_scheduler`: the
cancel flag is read at the head of the loop, jobs are drained, the earliest is
waited for and attempted. Time is a counter bounded by the lookahead window.
`KmsAnswers` is the kernel: success, busy or a fatal error.

### OutputPipeline

The whole life of a buffer. Choices worth knowing:

- Every published frame has a fence. Failing to create or export one is fatal in
  the code (`FatalRender`).
- The steps of a loop turn are separate actions because the raster thread, the
  worker and the kernel run between them. Publishing ends with `submit_ready` in
  the code, which cannot submit the fresh frame: its fence is unsignaled.
- `Submit` does not run while a page flip of an earlier scheduler may still be
  delivered (`late`): the dispatch that reports the fence reads the flips sent
  before it, and completions are serviced before submission.
- Tokens are a counter in the code; the model reuses one that nothing mentions.
- The lock and fingerprint gates that drop a ready frame are the nondeterministic
  `SubmitStale`.
- A failed DPMS rollback requests recovery, which is `Replace`. `Replace` also
  stands for hotplug and a Flutter reload. Joining the old worker is part of it.
- A replacement is on new pools, or on the same ones (a reload, a rolled-back
  hotplug). On the same ones nothing waits for the captures and frames of the old
  Flutter: they stay as `strays`, or as fence watches that are no longer live.
  Together these are the `Leftovers`.

### OutputScheduler

Buffers are only named here. `Submit(o)` is one iteration of the loop in
`submit_ready`. A `CommitId` is a position in the pipelines and a buffer index;
`owned` says whether an event's Volition instance is the present one. `Recover`
waits until the events of older instances are read: every turn drains them, and
the bound `Undrained` says how many can be left. `SwitchSession` is one step
because the loop blocks in `service_session_lifecycle` until the session is back;
a flip of the time before may be lost or arrive later.

### FrameDelivery

A serial is abstracted to whether a newer mark exists. `Fast` says whether a
frame started at a tick is ready before the next edge, which decides in
`handle_completions_inner` whether a late successor is dropped, and in
`renders_ahead` whether one is rendered early. The history variable `withdrawn`
records that a power-off was cancelled: it dropped the ready frame and marks
nothing, so the update it carried waits for the next one. The properties excuse
this case.

### FrameScheduler and OutputDamage

Instants are distances from now and serials wrap at `Word`, as 2^64 does. An
output's timeline advances at ticks, is corrected by presentations, and is
skipped forward after an idle sleep. `Schedule(available)` is one turn of
`step_with_output_readiness`, for any set of outputs that can render. `MarkEach`
says at once what the loop of `mark_all_dirty` does output by output: the k-th
output in the order of the ids gets the k-th serial from now (`SerialAfter`), and
zero is no serial.

`OutputDamage` has no serials: a render covers what the output had when it was
requested, and finishing it retires that and nothing damaged since. The
refinement maps a dirty entry to its textures and the whole output. The code
compares serials by half of their range, so it needs them to be close together
(`SerialsStayClose`, which 2^63 marks between two renders would break).

### DisplayPower

Ages and countdowns stand for instants. `EvaluateIdle`, `EvaluateInhibited` and
`EvaluatePhone` are the three branches of the policy's evaluation, and
`NextDeadline` is when the loop will evaluate next. `Gate` applies the queued
requests, and each batch is cleared, waits for a frame in flight, or is refused.
`by` is a history variable: who darkened an output last.

### SleepTransition

Three actors: logind with the kernel, the monitor thread, and the compositor's
turn (`pc`). Announcements and inhibitors carry the number of their sleep, which
only properties read. The queue is bounded as in the code, with its overflow.
`Disconnect` breaks the bus connection: signals sent until the monitor has
subscribed again are lost.

### OutputPolicy, OutputPreferences and OutputApply

`Lit` is `select_outputs`: preferences, the lid, and a fallback when both would
leave everything dark. `OutputPreferences` is the loop that changes preferences
pass by pass until they light the submitted layout.

`OutputApply` is one turn of the loop, step by step. Clients, lid, sensor,
connectors, a VT switch and an editor act between turns only, because the queues
that carry them are filled in the dispatch at the head of a turn. A transaction
is one step that succeeds or fails (`HotplugTransaction` has its inside). A
removal of a sleeping output does not occur (`OutputTopology` has it). Layouts
differ in what they enable and power, in mode, position, persistence and whether
they need a confirmation. Their transforms are left out: the rotation is the
sensor's. `offered` and `trusted` are history: which layout was published with
which token, and the last that was confirmed.

A rebuild may also be requested for a display's colours or by a signal (`kms`), and
may ask for HDR (`hdr`). `RebuildFails` has the three ends of a failed rebuild: a
repetition without HDR, a repetition after a rebase, or the end of the session. The
first two forget that a rollback had asked for the rebuild; the history variable
`lost` records it.

### OutputTopology, LidSwitch and LidTopology

`OutputTopology` follows `observe_output_topology` and
`apply_observed_output_topology`: why a rescan is due, what it
observes, whether the guard holds a removal back, and which requests a success,
a postponement and a failure clear. `LidSwitch` has one thread per reading of
logind. A move of the lid is numbered, so a position says how old it is; the
generation that the code compares is unbounded. `LidTopology` substitutes the
applied position for the topology's `closed`, and applying a position marks the
topology dirty.

### HotplugTransaction

`at` is how far `reconcile_scanouts` and its caller are. `screen` says what each
CRTC shows: nothing, the old frame or the staged one. Every step may fail, up to
`MaxFaults` times in all; failing while rolling back leaves surfaces in
quarantine. `survives` says whether a failure leaves the session running
(`running`): a submitted layout, a scan after a rebase and one that is repeated
without HDR do, if an engine runs; any other failed scan ends it.

A session switch meets a transaction while it waits for its flips. `PauseAndResume`
is one that returns in time: the resume commits the candidates. `PauseOverDeadline`
is one that does not: the wait ends without an error, because a pause empties
`pending`, and the transaction goes on with an inactive device, which takes no clear
and no commit. `Resume` then commits what the session owns, or asks for recovery.
`screen` is what the compositor last committed.

`Refuse` has two reasons. The plan may not be possible: an output or a CRTC with two
surfaces, or a CRTC that another surface holds or that is lit. Or staging it fails.

## Runs

| Run | Bounds | Shows |
|---|---|---|
| `volition` | 2 streams, capacity 2, 3 commits, a window of 2 ticks | `PendingExact`, `ReportedOnce`; `EveryCommitReported` however often KMS is busy; `ShutdownStops`: a shutdown at any moment returns, and no commit enters KMS after it |
| `output_pipeline` | 3 buffers, 2 tokens, transfers, render-ahead, 1 capture at a time, 1 leftover at a replacement | `BuffersSafe` (no tearing, only finished frames shown, no target lent over GPU work; what a replaced Flutter left is not counted), `RefsExact`, `SchedulerAgrees` (a hand-over is accepted, the scanned-out buffer is known, one commit per CRTC), `PowerOffSettles`, `FramesMove` (a target returns, a finished frame is taken) |
| `output_scheduler` | 2 outputs, 2 buffers, stalls and VT switches | `AcknowledgementsMatch`, `CapacitySuffices`, `RetiredIsShown`, `PowerOffSettles` for batches |
| `output_scheduler_ids` | 3 outputs, 3 buffers | a violation of `CommitIdsUnique` |
| `frame_delivery` | slow rendering, render-ahead, 3 updates | `UpdateKept`, `LatestShown` |
| `frame_delivery_fast` | fast rendering, 2 updates | a violation of `LatestShown` |
| `frame_scheduler` | one output with 2 textures and 4 marks; two outputs with intervals 4 and 3; serials modulo 16 from 13 | `DamageKept` (implements `OutputDamage`), `TimelineKept` (phase through sleeps, Flutter's targets increase), `Drawn` |
| `display_power` | two displays with three configurations; a phone and a desk; a panel with Settings; timeouts up to 2 | `UserOffStays`, `DarkWakes`, `SuspendSafe` (locked, and dark beside a desk), `DeadlineExact` (nothing is due before it, and it does not make the loop poll), `DarkLocks` (when the desk leaves and after the screen-off delay) |
| `sleep_transition` | 2 outputs, 3 sleeps, a queue of 2, a press, a refusal and a broken connection | `SleepRestores` (asleep means dark, and what was lit is remembered), `NotStuck`, `SleepHappens` |
| `output_apply` | a panel and a monitor, 5 layouts; desks with two layouts, with one layout and one event, with a closed lid and two events | `LightsRequested`, `OnlyAskedSaved` (only submitted values, nothing for a layout as shown, covered panels kept), `RollbackExact`, `AnswersTruthful`, `KeptIsSaved`, `Settles` |
| `output_topology` | a panel and two monitors where rebuilds are requested; a session that leaves and returns, with two lid moves or with a monitor that drops out; a disabled panel | `ToggleWins`, `PanelsFollowLid`, `AsleepKept`, `NothingForgotten` (a difference has a pending reason, and a monitor that is gone is removed) |
| `hotplug_transaction` | 2 outputs, 3 CRTCs, 5 plans (one gives an output the other's CRTC), 3 failures or long pauses | `LitOwned`, `Compensated`, `ShellAgrees`, `RetrySucceeds` (scans after a rebase go on until a display is lit, the session ends or the plan is refused; plans that can be staged end in a lit display) |

Why the bounds are enough:

- Three buffers is the smallest pool the broker accepts and the tightest: screen,
  flight and ready can hold all of them. The theorems cover larger pools,
  every set of tokens and any number of captures and leftovers.
- Capacity 2 with three commits reaches back-pressure and a retry behind a job
  that is due.
- Two outputs are needed for a batch and for positions to move; three for the
  moved output and the one behind it to collide.
- Four marks from serial 13 of 16 cross the wrap, with damage on both sides of
  it. Intervals 4 and 3 make edges meet in every order.
- A timeout of 1 or 2 puts lock, display and suspend in each order that matters;
  an age past the longest timeout changes nothing more.
- Three sleeps against a queue of two overflow it.
- Two layouts are one that waits and one behind it. With one event beside a
  layout, the event falls at each step of it.
- Three failures are one in a transaction, one in its rollback and one in the
  retry.
- Two moves of the lid and one return put a toggle before, during and after a
  reading of logind. Dropped connectors are checked with one move, because lid and
  connector meet only in the rescan.

No run uses symmetry. Deadlock is checked where the environment never runs out
(`output_pipeline`, `output_scheduler`, `frame_delivery`, `display_power`,
`sleep_transition`). In the others the system may stop: a scheduler that was shut
down, a session that has ended, or a bounded environment with nothing left to do.

### Two disagreements

- `output_scheduler_ids`. `CommitId` is documented as identifying one commit. A
  stream is a position, and `power_off` moves positions. A commit queued before
  the move and one submitted after it can be equal. `AcknowledgementsMatch` shows
  that no acknowledgement is left without a frame; it may be applied to the other one.
- `frame_delivery_fast`. A late successor is dropped so that "the due output
  tick" renders again. Its dirty mark was retired when it was published, so the
  tick has nothing to render unless something else changes.

### Other observations

The following also came up while the code was modelled. No run is about them;
where a property would meet one, it says what it leaves out.

Output control:

- A rollback whose rebuild fails loses `resident_geometry_reconfigure_requested` when
  the session goes on: after a VT switch (`flutter_event_loop/reconfiguration.rs:273`)
  and when HDR is given up (`reconfiguration.rs:263`). The next publication then
  mixes two configurations and answers the rollback, which the comment in
  `flutter_event_loop/output_apply.rs:738` rules out. `AnswersTruthful` excuses
  exactly this (`lost`).
- A requested rebuild (`kms_reconfigure_requested`) that is taken while nothing can be
  lit is dropped: only the resident request is given back
  (`flutter_event_loop/reconfiguration.rs:141`). No property is about that flag.
- When the directory sync after the rename fails (`options.rs:1079`), the layout is
  rolled back and the client told so, but the file holds the new one (`unsynced`).
- The power to which a rollback returns an output that the layout had disabled is
  dropped at the gate (`dpms.rs:414`): the output has no scanout yet and comes back lit.

Sleep and lid:

- `release_sleep_delay_if_ready` (`sleep_transition.rs:123`) lets go whatever
  inhibitor is installed, also one acquired for the next sleep, which a comment in
  `system_controls/session.rs:100` rules out.
- Two readings of the same generation that arrive out of order leave the older
  position (`lid_switch.rs:107`). `PanelsFollowLid` allows one return.

Topology:

- A monitor that drops its connector while it sleeps above a closed lid changes the
  policy from clamshell to the preferences (`output_policy.rs:102`). The guard does
  not hold that back, and the panel is lit.
- A rescan that was asked for clears the guard. A monitor that still sleeps then
  loses its scanout (`AsleepKept` excludes requests).
- So does a rescan for another monitor: one that appears, or a powered one that is
  gone, clears the guard (`dpms.rs`, `defer_missing_outputs`), and a sleeping
  monitor without a connector is dropped with it. `AsleepKept` is about desks with
  one monitor.
- Each wake of any output restarts the one grace period (`dpms.rs`). An output that
  is woken again and again keeps another's removal waiting (`GoneRemoved` excludes
  it).

Hotplug:

- `rollback_required` counts commits only (`hotplug_transaction.rs:177`). When all
  remaining outputs are off, clearing a retired CRTC is not compensated, though the
  error says "previous scanout restored" (`kms_pipeline.rs:966`). `Compensated` and its
  theorem leave out the outputs that were cleared so, and no others.
- The CRTC of a lost output that a scan gives to another connector is refused at
  each scan (`kms_pipeline.rs:750`). If no other plan comes, retrying lights nothing.
- A quarantined surface of an output that has moved to another CRTC makes every
  later plan refuse. In both cases `RetrySucceeds` says only that the scan was made
  and refused.
- A pause longer than two seconds ends `wait_for_page_flips` without an error
  (`kms_pipeline.rs:984`). If the transaction retires a surface, clearing it then
  fails and so does the rollback; otherwise it succeeds with the device inactive.

Frames and power:

- `OutputBufferLease` is to keep a target "unavailable to Flutter" while a capture
  reads it (`flutter_runtime.rs:593`). It keeps the reference in the broker that
  granted it. After a Flutter reload or a rolled-back hotplug a new broker lends the
  same pool and knows neither that capture nor the frames the old engine left on the
  GPU; nothing waits for them (`wayland_frontend/screencopy.rs:402`). `NoTearing`,
  `NoRenderOverGpuWork` and `BuffersSafe` do not count these `Leftovers`.
- A cancelled power-off has dropped the ready frame, and nothing marks the output
  (`output_scheduler.rs:1937`); `UpdateKept` and `LatestShown` excuse it.
- While an output transaction waits, the ticks of the last turn are passed on again
  (`flutter_event_loop/frames.rs:288`).
- Damage of an output that is off keeps the loop waking at every edge
  (`frame_scheduler.rs:421`).
- Settings lights and darkens outputs without telling the idle policy, so a press of
  the power button can pass one over (`idle_policy.rs:624`). A display that is
  unplugged and plugged in again before the policy is evaluated without an inhibitor
  is lit while the policy still has it in `blanked_outputs`, with the same effect
  (`idle_policy.rs:725`). `UserOffStays` excludes machines with Settings, and
  hotplug except on a phone. Beside a desk a past deadline may be reported
  (`idle_policy.rs:782`), which `DeadlineAhead` excludes.

### Fairness

Nothing is assumed of users, clients, captures beginning, power requests, lid,
connectors or recovery. Assumed are:

- Weak fairness of threads that run: Volition's worker, the sleep monitor.
- Weak fairness of the GPU, KMS and page flips: an accepted commit completes or is
  reported stalled. Raster callbacks that were begun end.
- Weak fairness of the loop's services: each turn runs all of them, and every
  source wakes the loop. Time passes.
- Strong fairness where a step is possible again and again and the environment may
  take the chance away in between. `FrameDelivery`: renders may be abandoned, but
  not all. `FrameScheduler`: an output that is ready again and again is scheduled
  at some tick, and its renders end. `SleepTransition`: an output that was asked to
  stop does stop in the end. `LidTopology`: a rebuild is not postponed for ever.
  `OutputApply`: a deadline is met, a pipeline is not busy at every turn, and a
  power change does not wait for ever.
- `DisplayPower`: the policy is evaluated for ever. The loop's maintenance cadence
  does so.
- `HotplugTransaction`: a transaction goes on, and a scan that is due is made, with
  whatever plan. That the plan can be staged is not assumed, nor that the user comes
  back to a session that was left.

## Proofs

All theorems hold for every value of the constants that satisfies the named
assumptions. Those say what is a number, a flag or a set of records of the right
form; the ones that say more are:

- `PipelineConstants`: a pool has at least three buffers, as the broker requires.
- `SchedulerConstants`: at least two framebuffers per output. `VolitionConstants` and
  `BoundsAssumption`: queues have room for something.
- `OutputsAssumption`: connectors have different places in the order.
- `AssignmentsAssumption`: a plan gives no CRTC and no output twice and is not empty.
- `MachinesAssumption`: a machine has its panel, and the model's clock reaches the
  longest timeout with its extra delay.
- `ApplyAssumption`: the value that stands for nothing is none of the records.
- `SchedulerBounds`: the word of the serials is even, as 2^64 is, and there are fewer
  outputs than half of it; ids are ordered; an interval is longer than twice the
  largest correction, which the code clamps to 250 microseconds.
- `TopologyAssumption`: connectors that come and go are those of the desk.

`VolitionProofs` extends `Volition` and `FrameDelivery`, and `LidTopologyProofs`
extends `LidTopology` and `SleepTransition`. The definitions these pairs would share
therefore carry a prefix (`DeliverySpec`, `SleepSpec`). `UpdatesAreKept` also assumes that rendering is not
fast: for fast rendering the code does lose an update (see the disagreements).

Each proof has an inductive invariant: it holds in `Init`, every step keeps it, and
it implies the property. One lemma per action shows that it is kept. An invariant
was tried with TLC on the instance of its run before it was proved.

### VolitionProofs

`ShutdownIsFinal` comes from the small invariant that a joined worker is done.
`PendingIsExact` and `ReportsAreUnique` come from one that gives each order number to
one place: channel, queue, the worker's hands or the reports.

`UpdatesAreKept` is about `FrameDelivery`, for any number of updates. The invariant
adds that the ready frame and the one in flight are one each, and that frames reach
the screen in the order of their ticks (`Ordered`).

### FrameSchedulerProofs

`DamageIsKept` is the refinement of `OutputDamage`, for any outputs and textures and
for serials of any width, wherever they wrap. A comparison of two wrapping serials
says nothing by itself. The proof therefore measures ages: `Since(s, x)` is how many
numbers the serial `x` lies behind the newest one, `s`. While every age is below half
of the word, `serial_at_or_before` compares ages (`ComparesAges`), and a run of marks
makes what was there older without changing its order (`OrderKept`). The invariant
`Kept` says of a dirty entry that none of its textures is younger than itself, and of
a render on its way that it covers exactly the textures of the entry that are not
younger than it (`Shows`): the history variable `covers`, which `OutputDamage` has,
is then what the serials say. The lemmas go along the parts of a step: marks
(`RunKeeps`), requests (`RequestKeeps`), the retirement of a render (`RetireKeeps`);
`ScheduleKeeps` composes the first two, because a tick marks every output and
requests renders in one step of `OutputDamage`.

`TimelineIsKept` rests on arithmetic: a missed tick, a skipped edge and a passing
instant move an edge by a multiple of its interval against a timeline that never
sleeps, and a correction moves both. `SchedulerTypes` adds that an edge stays within
reach, that the fastest lit output is Flutter's clock and that an output has at most
one render on its way.

`MarksInOrder` shows that the closed form `MarkEach` is the loop of the code: nothing
for no output, and one more mark with the next serial for the output that comes last.

### OutputPipelineProofs

`BuffersAreSafe`, `ReferencesHold` and `SchedulerAlwaysAgrees`, with a theorem for
each part. The invariant adds to types and `RefsExact`: a slot lent to Flutter has no
holder and no claim (`Lent`); no two frames share a buffer (`Distinct`); a claim
belongs to the ready or a dropped frame and is signaled only after the GPU is done
(`Fenced`); a live watch carries the token of the present claim and a dead one's token
is on no slot (`Watched`); the commit in flight is in exactly one place (`Tracked`); a
dark output has nothing ready (`Parked`). `RefsExact` alone is not inductive: two
frames on one buffer would break it at the next release. The theorems are about the
present Flutter and broker: what a replaced one left on a reused pool is in the model
and outside of them.

### OutputSchedulerProofs

`AcknowledgementsFindFrames`, `CapacityIsEnough` and `RetirementIsShown`, for any
number of outputs and framebuffers. Commit ids are not unique (see the
disagreements), so it cannot be said which frame a report is about. The invariant
counts instead (`Counted`): of each id there are no more reports and jobs of the
living instance than scheduled frames. With `Jobs` (one job per output, for its frame
in flight) a report then always finds a frame, and the channel never fills. `Located`
says that a commit is in one place on its way, unless the device was reset, and then
only a new scheduler serves: a flip that was left behind is never retired.

### DisplayPowerProofs

`UserKeepsTheScreenOff`, `DarkScreensWake`, `SuspendIsSafe` and `DeadlineIsExact`, for
any machines, outputs and timeouts; `DeskLeaveIsSecured` is the part of `DarkLocks`
that is not liveness. The three branches of an evaluation, the keys and touches and
the gate are functions on the policy's state, and lemmas say what each keeps.
The invariant is about the notes the policy takes: what it holds for blanked is dark
(`BlankedDark`); what an inhibitor would light, the user did not darken, unless the
policy remembers that they did (`UserMarked`); the idle lock fires once and the
session is locked since (`LockNoted`); an inhibitor that was noticed has lit what it
may light (`InhibitorLit`). `SuspendSafe` is not inductive without `LockNoted`, nor
`UserOffStays` without `UserMarked`.

### LidTopologyProofs

`ToggleAlwaysWins` is about `LidSwitch`, for any number of moves, returns and readers:
a reading of the current generation was begun after the newest toggle.
`CompositionImplements` shows that a behaviour of `LidTopology` is one of `LidSwitch`
and of `OutputTopology`, so what holds of either holds of the two together
(`ToggleWinsWithTopology`).

`RemovalsAreRemembered` is the part of `NothingForgotten` that is not liveness: what
is lit is what the policy wants, or a rescan is due, or the guard has noted the
removal it holds back (`Held`). `SleepingMonitorStays` adds, for
desks with one monitor beside panels that are off (`Sole`), that the guard knows the
monitor while it sleeps (`AsleepParked`).
`LidIsFollowed` needs to know where the newest position of the lid is (`Truth`): in an
unread toggle, in a reading of the current generation that is on its way, or in what
is believed. A reading that fails breaks this, so the property is about desks where
logind answers.

The rest of the module is about `SleepTransition`.
`OutputsSleepAndReturn` and `ResumeIsNeverLost`, for any number of sleeps and any
length of the queue. What logind said last may be on the bus, in the monitor's hands,
in the queue or acted on: `Latest` finds it, and the invariant says that for a machine
that is awake it is the resume, as long as the connection has held. `Darkening` says
that until the user presses the button, all that was lit is being darkened, and is
dark once the inhibitor was let go.

### OutputApplyProofs

First the passes of `OutputPreferences` alone (`SubmittedLayoutLit`,
`OnlyAskedIsSaved`), for any outputs and panels in any order: preferences have moved
only to their submitted values, covered panels and absent outputs have not moved, and
at the end nothing is left to move.

Then the turns of the loop (`StagedLayoutIsLit`, `StagedLayoutSavesAsked`,
`RollbacksAreExact`, `AnswersAreTruthful`, `KeptLayoutsAreSaved`), for any layouts and
any number of clients and events. The invariant adds that nothing is staged while a
layout waits for its answer (`Alone`); that the configuration to return to differs from
the running one in the user's layout alone, and the prepared file holds the running
layout (`Returnable`); that the screen shows the configuration unless a rebuild is due
(`OnScreen`), or one was `lost`; and that a token is published with one layout only
(`Offers`). Most steps touch none of this: `QuietKeeps` covers them.

Which outputs are lit is a second layer (`Scanned`, theorem `ScansAreDue`): a layout is
staged for the connectors of the last scan, a hotplug since then has asked for a
rescan, and where other outputs are lit than the configuration wants, a rescan or a
rollback's rebuild is due. `AnswersAreTruthful` needs both.

### HotplugTransactionProofs

`LitIsOwned`, `CommitsAreCompensated`, `ShellAndScanoutsAgree` and
`CrtcsAreExclusive`, for any outputs, CRTCs and number of failures. The invariant
follows the journal through a transaction and its undoing: which surfaces it holds
(`Journal`), that no two share a CRTC and an unpowered one is dark (`Surfaces`), on
which CRTCs a staged frame can be (`Frames`), and when the new topology is published
(`Ended`). `CommitsAreCompensated` also speaks of failures before any commit. For those
the invariant says that until something is committed only retired CRTCs change, and
that an output which moves keeps its power (`Untouched`): so if nothing was committed
when the retired CRTCs were cleared, they belonged to outputs that the new topology
leaves out.

### Only model-checked

- Liveness: `EveryCommitReported`, the part of `ShutdownStops` that says a shutdown
  returns, `PowerOffSettles`, `FramesMove`, `LatestShown`, `Drawn`, the part of
  `DarkLocks` about the screen-off delay, `SleepHappens`, `Settles`,
  `RetrySucceeds`, `GoneRemoved`. The prover has no rules for fairness that would do.
- The runs `output_scheduler_ids` and `frame_delivery_fast`, which show violations.
- That `MarkEach` is the whole loop: `MarksInOrder` proves the loop's first step and
  one step after any others, and composing them is induction over the outputs.

Every other property of the runs is a theorem. Of `ShutdownStops`, `DarkLocks` and
`NothingForgotten` the part that is not liveness is one.

## Not modelled

- Authentication and the session lock, beyond the fact that the session is locked.
  The conversations are with PAM, a fingerprint daemon and a gatekeeper.
- Client buffer release and presentation feedback. A release depends on the
  renderer's textures and the driver's fences, which have no model here.
- The Wayland frontend: input routing, grabs, text input, selections, XWayland.
  It is one thread over protocol objects of an external library.
- Window layout, colour, gamma, modes and scales: sequential arithmetic.
- The worker of the GPU transfer, drawing, formats and plane properties: GPU and
  driver I/O. Their effect on a buffer is in `OutputPipeline`.
- The ambient display: its refreshes draw beside the pipeline of a dark output.
- Settings, portal, plugins, notifications, tray and other services: parsing,
  D-Bus and socket I/O.
- The Dart shell and applications. To the compositor they are a source of updates.

Two compositions are left out because their product is beyond small instances:
`OutputPipeline` with the worker of `Volition` in place of its view from outside,
and `OutputApply` with the inside of `HotplugTransaction`.
