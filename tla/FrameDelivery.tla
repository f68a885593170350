---------------------------- MODULE FrameDelivery ----------------------------
(***************************************************************************)
(* Whether what clients drew last reaches the screen: the dirty mark of    *)
(* one output (frame_scheduler.rs), the frames made from it, and the       *)
(* places that drop a frame (output_scheduler.rs).                         *)
(*                                                                         *)
(* A mark is known by whether it is the newest: `dirty` says that the      *)
(* output has an entry in dirty_outputs, and a frame is `newest` while no  *)
(* mark was set since its tick took the entry's serial.  Time is counted   *)
(* in edges of the output's timeline: a tick asks for a frame to be shown  *)
(* at the next edge, and `elapsed` says that this edge has passed.         *)
(* Buffers and fences are in OutputPipeline.                               *)
(***************************************************************************)
EXTENDS Naturals

CONSTANTS
    Fast,         \* a frame started at a tick is rendered before the next edge
    RenderAhead,  \* DENIAL_RENDER_AHEAD
    MaxUpdates    \* bound: updates in a behaviour

ASSUME DeliveryConstants ==
    /\ Fast \in BOOLEAN /\ RenderAhead \in BOOLEAN /\ MaxUpdates \in Nat

VARIABLES
    updates,      \* updates so far
    dirty,        \* dirty_outputs has an entry for the output
    tick,         \* an edge has passed and its tick was not taken
    raster,       \* the frame Flutter was asked for, at most one
    ready,        \* OutputPipelineFrames::ready, at most one
    flight,       \* OutputPipelineFrames::in_flight, at most one
    shown,        \* the frame on screen is the newest
    powered,      \* Scanout::powered
    poweringOff,  \* OutputPipeline::powering_off
    withdrawn     \* history: a power-off was cancelled since the last mark

deliveryVars == <<updates, dirty, tick, raster, ready, flight, shown, powered,
                  poweringOff, withdrawn>>

Frames == [newest : BOOLEAN, elapsed : BOOLEAN]

(* Types, and what an output without a pipeline cannot have: power_off     *)
(* leaves no frame behind.                                                 *)
DeliveryTypeOK ==
    /\ updates \in 0 .. MaxUpdates
    /\ dirty \in BOOLEAN /\ tick \in BOOLEAN /\ shown \in BOOLEAN
    /\ raster \subseteq Frames /\ ready \subseteq Frames /\ flight \subseteq Frames
    /\ powered \in BOOLEAN /\ poweringOff \in BOOLEAN /\ withdrawn \in BOOLEAN
    /\ ~powered => ready = {} /\ flight = {} /\ ~poweringOff

DeliveryInit ==
    /\ updates = 0 /\ dirty = FALSE /\ tick = FALSE
    /\ raster = {} /\ ready = {} /\ flight = {}
    /\ shown = TRUE /\ powered = TRUE /\ poweringOff = FALSE /\ withdrawn = FALSE

Outdated(S) == {[newest |-> FALSE, elapsed |-> f.elapsed] : f \in S}
Elapsed(S) == {[newest |-> f.newest, elapsed |-> TRUE] : f \in S}

(* mark_app_dirty: the entry gets a new serial                             *)
MarkDirty ==
    /\ dirty' = TRUE /\ shown' = FALSE /\ withdrawn' = FALSE
    /\ raster' = Outdated(raster) /\ ready' = Outdated(ready) /\ flight' = Outdated(flight)

-----------------------------------------------------------------------------
(* Client damage or a new Dart scene                                       *)
Update ==
    /\ updates < MaxUpdates
    /\ updates' = updates + 1
    /\ MarkDirty
    /\ UNCHANGED <<tick, powered, poweringOff>>

(* An edge of the timeline passes.  Flips may come edges late, whatever    *)
(* the rendering speed.                                                    *)
Edge ==
    /\ Fast => raster = {}
    /\ tick' = TRUE
    /\ raster' = Elapsed(raster) /\ ready' = Elapsed(ready) /\ flight' = Elapsed(flight)
    /\ UNCHANGED <<updates, dirty, shown, powered, poweringOff, withdrawn>>

RenderAvailable ==
    /\ powered /\ ~poweringOff /\ raster = {}
    /\ ready = {} \/ (RenderAhead /\ ~Fast)

(* step_with_output_readiness: only a dirty, available output is rendered  *)
TakeTick ==
    /\ tick
    /\ tick' = FALSE
    /\ raster' = IF dirty /\ RenderAvailable
                 THEN {[newest |-> TRUE, elapsed |-> FALSE]} ELSE raster
    /\ UNCHANGED <<updates, dirty, ready, flight, shown, powered, poweringOff, withdrawn>>

(* an authorization expires or is cancelled, or a render is abandoned      *)
Abandon ==
    /\ raster # {}
    /\ raster' = {}
    /\ UNCHANGED <<updates, dirty, tick, ready, flight, shown, powered, poweringOff, withdrawn>>

(* Faulty: the entry goes whatever its serial                              *)
CompleteAnyRender(f) == FALSE

(* complete_render: the entry goes if its serial is the frame's            *)
CompleteRender(f) == dirty /\ ~f.newest

(* publish_ready, then complete_render.  Without a lit pipeline the frame  *)
(* is dropped.                                                             *)
Publish ==
    \E f \in raster :
        /\ ~powered \/ poweringOff \/ ready = {}
        /\ raster' = {}
        /\ ready' = IF powered /\ ~poweringOff THEN {f} ELSE ready
        /\ dirty' = CompleteRender(f)
        /\ UNCHANGED <<updates, tick, flight, shown, powered, poweringOff, withdrawn>>

Submit ==
    /\ powered /\ ~poweringOff /\ ready # {} /\ flight = {}
    /\ flight' = ready /\ ready' = {}
    /\ UNCHANGED <<updates, dirty, tick, raster, shown, powered, poweringOff, withdrawn>>

(* a successor whose edge is gone too is dropped if a new one can make it  *)
Successor == IF Fast THEN {g \in ready : ~g.elapsed} ELSE ready

(* handle_completions: the frame flips at its edge or at a later one       *)
CompleteFlip ==
    \E f \in flight :
        /\ f.elapsed
        /\ flight' = {}
        /\ shown' = f.newest
        /\ ready' = Successor
        /\ UNCHANGED <<updates, dirty, tick, raster, powered, poweringOff, withdrawn>>

-----------------------------------------------------------------------------
(* begin_power_off waits for the frame in flight                           *)
BeginPowerOff ==
    /\ powered /\ flight # {}
    /\ ready' = {}
    /\ poweringOff' = TRUE
    /\ UNCHANGED <<updates, dirty, tick, raster, flight, shown, powered, withdrawn>>

(* power_off removes the pipeline, and reconfigure the timeline            *)
PowerOff ==
    /\ powered /\ flight = {}
    /\ ready' = {}
    /\ powered' = FALSE /\ poweringOff' = FALSE
    /\ tick' = FALSE
    /\ UNCHANGED <<updates, dirty, raster, flight, shown, withdrawn>>

(* cancel_power_off: the output is wanted again                            *)
CancelPowerOff ==
    /\ poweringOff
    /\ poweringOff' = FALSE /\ withdrawn' = TRUE
    /\ UNCHANGED <<updates, dirty, tick, raster, ready, flight, shown, powered>>

(* KMS refuses to clear the output: the power-off is begun and cancelled   *)
PowerOffFails ==
    /\ powered /\ flight = {}
    /\ ready' = {}
    /\ poweringOff' = FALSE /\ withdrawn' = TRUE
    /\ UNCHANGED <<updates, dirty, tick, raster, flight, shown, powered>>

(* Faulty: reconfigure does not mark the output                            *)
WakeUnmarked ==
    /\ ~powered
    /\ powered' = TRUE
    /\ shown' = FALSE
    /\ UNCHANGED <<updates, dirty, tick, raster, ready, flight, poweringOff, withdrawn>>

(* power_on, then reconfigure marks the output, whose screen stays dark    *)
(* until a new frame                                                       *)
PowerOn ==
    /\ ~powered
    /\ powered' = TRUE
    /\ MarkDirty
    /\ UNCHANGED <<updates, tick, poweringOff>>

Power == PowerOff \/ PowerOn \/ BeginPowerOff \/ CancelPowerOff \/ PowerOffFails

DeliveryNext ==
    \/ Update \/ Edge \/ TakeTick \/ Abandon \/ Publish \/ Submit \/ CompleteFlip
    \/ Power

DeliverySpec == DeliveryInit /\ [][DeliveryNext]_deliveryVars

(* The timeline, the loop and KMS keep going, Flutter does not give up     *)
(* every frame, and a power-off that was begun is finished or withdrawn.   *)
DeliveryFairSpec ==
    /\ DeliverySpec
    /\ WF_deliveryVars(Edge) /\ WF_deliveryVars(TakeTick)
    /\ SF_deliveryVars(Publish) /\ WF_deliveryVars(Submit) /\ WF_deliveryVars(CompleteFlip)
    /\ WF_deliveryVars(poweringOff /\ (PowerOff \/ PowerOffFails))

-----------------------------------------------------------------------------
(* An update is never lost on a lit output: until it is on screen the      *)
(* output is dirty, or a frame with it waits for the screen.  Dropping a   *)
(* frame (handle_completions, begin_power_off, an abandoned render) and    *)
(* retiring a dirty mark (complete_render) must keep to this.  The one     *)
(* excuse is a power-off that was cancelled, which has dropped the ready   *)
(* frame and marks nothing.                                                *)
UpdateKept ==
    powered /\ ~poweringOff /\ ~withdrawn =>
        dirty \/ shown \/ \E f \in ready \cup flight : f.newest

(* When updates stop, the last one is shown, however frames, edges and     *)
(* power changes fell: a lit output is not left with an old frame for      *)
(* good, and after a cancelled power-off the next update repairs it.       *)
LatestShown == []<>(powered => shown \/ withdrawn)
=============================================================================
