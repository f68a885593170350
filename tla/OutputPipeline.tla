--------------------------- MODULE OutputPipeline ---------------------------
(***************************************************************************)
(* One physical output's frame pipeline: the buffer broker that lends the  *)
(* output's framebuffers to Flutter (flutter_runtime/output_pipeline.rs),  *)
(* the scheduler that owns rendered frames until KMS has shown them        *)
(* (output_scheduler.rs), and the CRTC.  A frame moves                     *)
(*                                                                         *)
(*   broker slot --publish--> Ready --submit--> Scheduled (Volition)       *)
(*     --KMS accepts--> Submitted --page flip--> scanning                  *)
(*                                                                         *)
(* The raster thread, the GPU, the Volition worker, the display hardware   *)
(* and the compositor's event loop take their steps in any order.  The     *)
(* handlers of the event loop run for every output in turn and touch no    *)
(* state of another output; a power-off batch and Volition's capacity are  *)
(* what outputs share, and show here as DeferPowerOff and as a Submit that *)
(* is not taken.                                                           *)
(***************************************************************************)
EXTENDS Integers, FiniteSets

CONSTANTS
    BufferCount,   \* framebuffers of the output's pool
    Tokens,        \* render-fence tokens (next_ready_fence_token)
    None,          \* no frame, no token
    Transfers,     \* TRUE: frames are copied to another GPU before scanout
    RenderAhead,   \* DENIAL_RENDER_AHEAD
    MaxLeases,     \* bound: captures of one buffer, and buffers with captures or leftovers
    MaxLeftovers   \* bound: fence watches and strays a replacement leaves behind

Buffers == 0 .. BufferCount - 1

ASSUME PipelineConstants ==
    /\ BufferCount \in Nat /\ BufferCount >= 3
    /\ None \notin Buffers /\ None \notin Tokens
    /\ Transfers \in BOOLEAN /\ RenderAhead \in BOOLEAN
    /\ MaxLeases \in Nat /\ MaxLeftovers \in Nat

VARIABLES
    \* OutputBufferBroker
    slot,          \* BufferState of each buffer; a Pending slot's frame waits in ready_frames
    refs,          \* output_refs of each buffer
    authorized,    \* authorized_request.is_some()
    rasterizing,   \* the producer is between make_current and raster_idle
    \* the GPU
    gpu,           \* the commands that the fence of a frame of this Flutter follows are unfinished
    \* OutputPipeline
    powered,       \* the output has a pipeline; otherwise its buffer is parked
    scanning,      \* the framebuffer on screen, or parked
    ready,         \* OutputPipelineFrames::ready
    flight,        \* OutputPipelineFrames::in_flight
    poweringOff,
    wake,          \* wake_modeset.is_some()
    \* ReadyFenceSlot of each buffer; users is 1 exactly while a token is set
    token,
    signaled,
    discard,       \* discard_users_on_signal = 1
    watches,       \* fence watches installed in the event loop
    \* the rest of the compositor
    leases,        \* screencopy reads of each buffer in progress that this broker granted
    strays,        \* buffers that a capture or unpublished frame of a replaced Flutter still uses
    request,       \* output_power_requests for this output
    \* Volition and KMS
    job,           \* the output's commit: queued in Volition, or accepted and not yet acknowledged
    scan,          \* the framebuffer the CRTC scans out; None when it is off
    next,          \* the framebuffer of an accepted commit that has not flipped
    flips,         \* page flips of this scheduler's commits, not yet retired
    late           \* a page flip of a replaced scheduler's commit is still to be read

broker == <<slot, refs, authorized, rasterizing>>
fences == <<token, signaled, discard, watches>>
pipeline == <<powered, scanning, ready, flight, poweringOff, wake>>
kms == <<job, scan, next, flips, late>>
vars == <<broker, gpu, pipeline, fences, leases, strays, request, kms>>

Idle == [stage |-> "none", frame |-> 0]
Watches == [index : Buffers, token : Tokens, live : BOOLEAN]

BrokerType ==
    /\ slot \in [Buffers -> {"Free", "Rendering", "Transferring", "Ready", "Pending"}]
    /\ refs \in [Buffers -> Nat]
    /\ leases \in [Buffers -> 0 .. MaxLeases]
    /\ strays \subseteq Buffers
    /\ gpu \in [Buffers -> BOOLEAN]
    /\ authorized \in BOOLEAN /\ rasterizing \in BOOLEAN

FenceType ==
    /\ token \in [Buffers -> Tokens \cup {None}]
    /\ signaled \in [Buffers -> BOOLEAN]
    /\ discard \in [Buffers -> BOOLEAN]
    /\ watches \subseteq Watches

PipelineType ==
    /\ powered \in BOOLEAN /\ poweringOff \in BOOLEAN /\ wake \in BOOLEAN
    /\ scanning \in Buffers
    /\ ready \in Buffers \cup {None}
    /\ flight \in [stage : {"none", "scheduled", "submitted"}, frame : Buffers]
    /\ request \in {"none", "on", "off"}

KmsType ==
    /\ job \in [stage : {"none", "queued", "sent"}, frame : Buffers]
    /\ scan \in Buffers \cup {None}
    /\ next \in Buffers \cup {None}
    /\ flips \in 0 .. 1
    /\ late \in BOOLEAN

TypeOK == BrokerType /\ FenceType /\ PipelineType /\ KmsType

Init ==
    /\ slot = [b \in Buffers |-> "Free"]
    /\ refs = [b \in Buffers |-> IF b = 0 THEN 1 ELSE 0]
    /\ authorized = FALSE /\ rasterizing = FALSE
    /\ gpu = [b \in Buffers |-> FALSE]
    /\ powered = TRUE /\ poweringOff = FALSE /\ wake = FALSE
    /\ scanning = 0 /\ ready = None /\ flight = Idle
    /\ token = [b \in Buffers |-> None]
    /\ signaled = [b \in Buffers |-> FALSE]
    /\ discard = [b \in Buffers |-> FALSE]
    /\ watches = {}
    /\ leases = [b \in Buffers |-> 0] /\ strays = {}
    /\ request = "none"
    /\ job = Idle /\ scan = 0 /\ next = None /\ flips = 0 /\ late = FALSE

-----------------------------------------------------------------------------
(* The broker, driven by the event loop's ticks and by Flutter's raster    *)
(* thread.                                                                 *)

FreeTarget(b) == slot[b] = "Free" /\ refs[b] = 0

TargetAvailable ==
    /\ ~authorized
    /\ \A b \in Buffers : slot[b] = "Free"
    /\ \E b \in Buffers : FreeTarget(b)

(* render_available; with RenderAhead the production estimate decides      *)
RenderAvailable == powered /\ ~poweringOff /\ (ready = None \/ RenderAhead)

Authorize ==
    /\ RenderAvailable
    /\ TargetAvailable
    /\ authorized' = TRUE
    /\ UNCHANGED <<slot, refs, rasterizing, gpu, pipeline, fences, leases, strays, request,
                   kms>>

(* cancelled, expired after two intervals, or completed without a scene    *)
DropAuthorization ==
    /\ authorized
    /\ authorized' = FALSE
    /\ UNCHANGED <<slot, refs, rasterizing, gpu, pipeline, fences, leases, strays, request,
                   kms>>

RetireAbandoned(s) ==
    [b \in Buffers |-> IF s[b] = "Rendering" /\ refs[b] = 0 THEN "Free" ELSE s[b]]

MakeCurrent ==
    /\ ~rasterizing
    /\ rasterizing' = TRUE
    /\ slot' = RetireAbandoned(slot)
    /\ UNCHANGED <<refs, authorized, gpu, pipeline, fences, leases, strays, request, kms>>

Acquire ==
    \E b \in Buffers :
        /\ rasterizing /\ authorized
        /\ \A c \in Buffers : slot[c] # "Ready"
        /\ FreeTarget(b) /\ \A c \in 0 .. b - 1 : ~FreeTarget(c)
        /\ slot' = [slot EXCEPT ![b] = "Rendering"]
        /\ authorized' = FALSE
        /\ UNCHANGED <<refs, rasterizing, gpu, pipeline, fences, leases, strays, request, kms>>

(* the present callback; a failed blit leaves the slot Rendering           *)
Present ==
    \E b \in Buffers :
        /\ rasterizing /\ slot[b] = "Rendering"
        /\ \A c \in Buffers \ {b} : slot[c] # "Ready"
        /\ slot' = [slot EXCEPT ![b] = IF Transfers THEN "Transferring" ELSE "Ready"]
        /\ gpu' = [gpu EXCEPT ![b] = TRUE]
        /\ UNCHANGED <<refs, authorized, rasterizing, pipeline, fences, leases, strays, request,
                       kms>>

(* the transfer worker's completion: mark_ready, then finish_transfer      *)
TransferDone ==
    \E b \in Buffers :
        /\ slot[b] = "Transferring"
        /\ \A c \in Buffers \ {b} : slot[c] # "Ready"
        /\ slot' = [slot EXCEPT ![b] = "Pending"]
        /\ UNCHANGED <<refs, authorized, rasterizing, gpu, pipeline, fences, leases, strays,
                       request, kms>>

RasterIdle ==
    /\ rasterizing
    /\ rasterizing' = FALSE
    /\ slot' = RetireAbandoned([b \in Buffers |->
                    IF slot[b] = "Ready" THEN "Pending" ELSE slot[b]])
    /\ UNCHANGED <<refs, authorized, gpu, pipeline, fences, leases, strays, request, kms>>

(* external: a frame's fence signals; a transfer's final fence exists only *)
(* once the transfer is done                                               *)
GpuDone ==
    \E b \in Buffers :
        /\ gpu[b] /\ slot[b] # "Transferring"
        /\ gpu' = [gpu EXCEPT ![b] = FALSE]
        /\ UNCHANGED <<broker, pipeline, fences, leases, strays, request, kms>>

-----------------------------------------------------------------------------
(* The event loop: publication, fences, submission and page flips.         *)

(* Faulty: no reference is given back                                      *)
ReleaseNothing(S) == refs' = refs

ReleaseOutput(S) == refs' = [b \in Buffers |-> IF b \in S THEN refs[b] - 1 ELSE refs[b]]

ReleaseUser(S) ==
    /\ token' = [b \in Buffers |-> IF b \in S THEN None ELSE token[b]]
    /\ signaled' = [b \in Buffers |-> signaled[b] /\ b \notin S]
    /\ discard' = [b \in Buffers |-> discard[b] /\ b \notin S]

(* discard_ready_frame for the frames D, at most the ready one: its        *)
(* storage comes back at once when rendered, else when its fence signals   *)
Rendered(D) == {b \in D : signaled[b]}

(* Faulty: the fence slot of a dropped frame is cleared at once            *)
DiscardUser(D) == ReleaseUser(D)

DiscardReady(D) ==
    /\ token' = [b \in Buffers |-> IF b \in Rendered(D) THEN None ELSE token[b]]
    /\ signaled' = [b \in Buffers |-> signaled[b] /\ b \notin D]
    /\ discard' = [b \in Buffers |-> discard[b] \/ (b \in D /\ ~signaled[b])]

HandoffAvailable == ~powered \/ poweringOff \/ ready = None

(* the checks of publish_ready and of the broker's publish                 *)
Publishable(b) ==
    /\ token[b] = None /\ ~signaled[b] /\ ~discard[b]
    /\ powered => ready = None
    /\ refs[b] = 0

UsedTokens == {w.token : w \in watches} \cup {token[b] : b \in Buffers}

Publish ==
    \E b \in Buffers, t \in Tokens \ UsedTokens :
        /\ slot[b] = "Pending"
        /\ HandoffAvailable
        /\ Publishable(b)
        /\ slot' = [slot EXCEPT ![b] = "Free"]
        /\ refs' = [refs EXCEPT ![b] = 1]
        /\ token' = [token EXCEPT ![b] = t]
        /\ watches' = watches \cup {[index |-> b, token |-> t, live |-> TRUE]}
        /\ IF powered /\ ~poweringOff
           THEN ready' = b /\ discard' = discard
           ELSE ready' = ready /\ discard' = [discard EXCEPT ![b] = TRUE]
        /\ UNCHANGED <<authorized, rasterizing, gpu, powered, scanning, flight, poweringOff,
                       wake, signaled, leases, strays, request, kms>>

(* Faulty: a signal counts for any generation of the buffer                *)
AcknowledgeAnyToken ==
    \E w \in watches :
        LET b == w.index IN
        /\ w.live => ~gpu[b]
        /\ watches' = watches \ {w}
        /\ IF token[b] = None
           THEN UNCHANGED <<refs, token, signaled, discard>>
           ELSE /\ token' = [token EXCEPT ![b] = IF discard[b] THEN None ELSE @]
                /\ signaled' = [signaled EXCEPT ![b] = ~discard[b]]
                /\ discard' = [discard EXCEPT ![b] = FALSE]
                /\ ReleaseOutput({c \in {b} : discard[c]})
        /\ UNCHANGED <<slot, authorized, rasterizing, gpu, pipeline, leases, strays, request,
                       kms>>

(* acknowledge_ready_fences for one signal.  A watch outlives the          *)
(* scheduler that installed it; it is live while its frame's buffer is     *)
AcknowledgeFence ==
    \E w \in watches :
        LET b == w.index IN
        /\ w.live => ~gpu[b]
        /\ watches' = watches \ {w}
        /\ IF token[b] # w.token
           THEN UNCHANGED <<refs, token, signaled, discard>>
           ELSE /\ token' = [token EXCEPT ![b] = IF discard[b] THEN None ELSE @]
                /\ signaled' = [signaled EXCEPT ![b] = ~discard[b]]
                /\ discard' = [discard EXCEPT ![b] = FALSE]
                /\ ReleaseOutput({c \in {b} : discard[c]})
        /\ UNCHANGED <<slot, authorized, rasterizing, gpu, pipeline, leases, strays, request,
                       kms>>

(* submit_ready for this output.  The dispatch that reported the ready     *)
(* frame's fence also read every earlier page flip, and the loop services  *)
(* completions before it submits: no flip of a replaced scheduler is left. *)
Submittable == powered /\ ~poweringOff /\ flight.stage = "none" /\ ready # None

(* wrong fingerprint epoch, or a wake frame the lock screen does not allow *)
SubmitStale ==
    /\ Submittable
    /\ ready' = None
    /\ ReleaseOutput(Rendered({ready}))
    /\ DiscardReady({ready})
    /\ UNCHANGED <<slot, authorized, rasterizing, gpu, powered, scanning, flight, poweringOff,
                   wake, watches, leases, strays, request, kms>>

(* the enabling modeset, synchronous and with a page-flip event; when it   *)
(* fails the frame stays ready and the attempt is repeated later           *)
SubmitWake ==
    /\ Submittable /\ signaled[ready] /\ wake /\ ~late
    /\ flight' = [stage |-> "submitted", frame |-> ready]
    /\ wake' = FALSE
    /\ ready' = None
    /\ ReleaseUser({ready})
    /\ scan' = ready /\ flips' = flips + 1
    /\ UNCHANGED <<broker, gpu, powered, scanning, poweringOff, watches, leases, strays,
                   request, job, next, late>>

Submit ==
    /\ Submittable /\ signaled[ready] /\ ~wake /\ ~late
    /\ flight' = [stage |-> "scheduled", frame |-> ready]
    /\ job' = [stage |-> "queued", frame |-> ready]
    /\ ready' = None
    /\ ReleaseUser({ready})
    /\ UNCHANGED <<broker, gpu, powered, scanning, poweringOff, wake, watches, leases, strays,
                   request, scan, next, flips, late>>

(* Volition's worker enters the queued commit into KMS.  KMS refuses it    *)
(* while an earlier flip is outstanding, and the worker retries.           *)
VolitionCommit ==
    /\ job.stage = "queued" /\ next = None
    /\ next' = job.frame
    /\ job' = [job EXCEPT !.stage = "sent"]
    /\ UNCHANGED <<broker, gpu, pipeline, fences, leases, strays, request, scan, flips, late>>

(* external: the CRTC latches the committed framebuffer and sends an event *)
(* that names the CRTC and no framebuffer                                  *)
PageFlip ==
    /\ next # None
    /\ scan' = next /\ next' = None /\ flips' = flips + 1
    /\ UNCHANGED <<broker, gpu, pipeline, fences, leases, strays, request, job, late>>

AcknowledgeSubmission ==
    /\ job.stage = "sent" /\ flight.stage = "scheduled"
    /\ flight' = [flight EXCEPT !.stage = "submitted"]
    /\ job' = Idle
    /\ UNCHANGED <<broker, gpu, powered, scanning, ready, poweringOff, wake, fences, leases,
                   strays, request, scan, next, flips, late>>

(* handle_completions for one page flip: it retires the submitted frame,   *)
(* releases the framebuffer that left the screen, and drops a ready frame  *)
(* whose target has passed when the estimate says that a new one can make  *)
(* the next edge.  A flip that overtook its acknowledgement waits.         *)
CompleteFlip ==
    /\ flips > 0 /\ flight.stage = "submitted"
    /\ flips' = flips - 1
    /\ flight' = Idle
    /\ scanning' = flight.frame
    /\ \E D \in SUBSET ({ready} \ {None}) :
        /\ ready' = IF D = {} THEN ready ELSE None
        /\ ReleaseOutput({scanning} \cup Rendered(D))
        /\ DiscardReady(D)
    /\ UNCHANGED <<slot, authorized, rasterizing, gpu, powered, poweringOff, wake, watches,
                   leases, strays, request, job, scan, next, late>>

(* a page flip that no frame waits for is dropped (Stale)                  *)
DropLateFlip ==
    /\ late /\ flight.stage = "none"
    /\ late' = FALSE
    /\ UNCHANGED <<broker, gpu, pipeline, fences, leases, strays, request, job, scan, next,
                   flips>>

(* What a replaced Flutter has left on the pool's buffers: strays, and     *)
(* published frames, each with the watch of its fence                      *)
Leftovers == strays \cup {w.index : w \in {v \in watches : ~v.live}}

(* screencopy at an output tick reads the framebuffer on screen            *)
RetainForScreencopy ==
    /\ powered /\ ~poweringOff
    /\ slot[scanning] = "Free" /\ refs[scanning] > 0
    /\ leases[scanning] < MaxLeases
    /\ Cardinality({scanning} \cup Leftovers \cup {b \in Buffers : leases[b] > 0}) <= MaxLeases
    /\ leases' = [leases EXCEPT ![scanning] = @ + 1]
    /\ refs' = [refs EXCEPT ![scanning] = @ + 1]
    /\ UNCHANGED <<slot, authorized, rasterizing, gpu, pipeline, fences, strays, request, kms>>

FinishCapture(b) ==
    /\ leases[b] > 0
    /\ leases' = [leases EXCEPT ![b] = @ - 1]
    /\ ReleaseOutput({b})
    /\ UNCHANGED <<slot, authorized, rasterizing, gpu, pipeline, fences, strays, request, kms>>

FinishScreencopy == \E b \in Buffers : FinishCapture(b)

-----------------------------------------------------------------------------
(* Display power (apply_output_power_requests, for this output).           *)

(* the loop applies a request in the turn that collects it; only one that  *)
(* was deferred can be overtaken by the next                               *)
RequestPower ==
    \E v \in {"on", "off"} :
        /\ request = "none" \/ (poweringOff /\ request = "off")
        /\ request' = v
        /\ UNCHANGED <<broker, gpu, pipeline, fences, leases, strays, kms>>

(* begin_power_off drops the ready frame                                   *)
BeginPowerOff ==
    /\ request = "off" /\ powered
    /\ ready' = None
    /\ LET D == {ready} \ {None} IN ReleaseOutput(Rendered(D)) /\ DiscardReady(D)

(* Faulty: a deferred request is not kept                                  *)
DeferPowerOffOnce ==
    /\ BeginPowerOff
    /\ poweringOff' = TRUE
    /\ request' = "none"
    /\ UNCHANGED <<slot, authorized, rasterizing, gpu, powered, scanning, flight, wake, watches,
                   leases, strays, kms>>

(* this output, or another one of the batch, has a frame in flight         *)
DeferPowerOff ==
    /\ BeginPowerOff
    /\ poweringOff' = TRUE
    /\ UNCHANGED <<slot, authorized, rasterizing, gpu, powered, scanning, flight, wake, watches,
                   leases, strays, request, kms>>

PowerOff ==
    /\ BeginPowerOff
    /\ flight.stage = "none"
    /\ powered' = FALSE /\ poweringOff' = FALSE /\ wake' = FALSE
    /\ scan' = None
    /\ request' = "none"
    /\ UNCHANGED <<slot, authorized, rasterizing, gpu, scanning, flight, watches, leases,
                   strays, job, next, flips, late>>

(* KMS refuses to clear an output of the batch; the cleared ones are       *)
(* restored                                                                *)
PowerOffFails ==
    /\ BeginPowerOff
    /\ flight.stage = "none"
    /\ poweringOff' = FALSE
    /\ request' = "none"
    /\ UNCHANGED <<slot, authorized, rasterizing, gpu, powered, scanning, flight, wake, watches,
                   leases, strays, kms>>

(* the parked framebuffer is not shown again: the next frame wakes the CRTC *)
PowerOn ==
    /\ request = "on" /\ ~powered
    /\ powered' = TRUE /\ wake' = TRUE
    /\ request' = "none"
    /\ UNCHANGED <<broker, gpu, scanning, ready, flight, poweringOff, fences, leases, strays,
                   kms>>

(* the output already is what was asked for                                *)
PowerUnchanged ==
    /\ request = (IF powered THEN "on" ELSE "off")
    /\ poweringOff' = FALSE
    /\ request' = "none"
    /\ UNCHANGED <<broker, gpu, powered, scanning, ready, flight, wake, fences, leases, strays,
                   kms>>

-----------------------------------------------------------------------------
(* Captures and unpublished frames.  An unfinished published frame has a   *)
(* fence watch instead.                                                    *)
Unfinished == {b \in Buffers : leases[b] > 0 \/ (gpu[b] /\ token[b] = None)}

(* Flutter, its broker and the scheduler start again, on the same pools (a *)
(* Flutter reload, a rolled-back hotplug) or on new ones.  Nothing waits   *)
(* for captures or for frames on the GPU.  On the same pools they go on    *)
(* beside the new broker, which does not know them: a capture's lease      *)
(* belongs to the old handler.  Fence watches stay installed, and a page   *)
(* flip of the old scheduler may still be on its way; f counts those the   *)
(* baseline causes.                                                        *)
Rebuild(f) ==
    /\ \/ scanning' = scanning /\ strays' = strays \cup Unfinished
       \/ scanning' = 0 /\ strays' = {}
    /\ Cardinality(watches) + Cardinality(strays') <= MaxLeftovers
    /\ slot' = [b \in Buffers |-> "Free"]
    /\ authorized' = FALSE /\ rasterizing' = FALSE
    /\ gpu' = [b \in Buffers |-> FALSE]
    /\ refs' = [b \in Buffers |-> IF b = scanning' THEN 1 ELSE 0]
    /\ ready' = None /\ flight' = Idle /\ poweringOff' = FALSE /\ wake' = FALSE
    /\ token' = [b \in Buffers |-> None]
    /\ signaled' = [b \in Buffers |-> FALSE]
    /\ discard' = [b \in Buffers |-> FALSE]
    /\ watches' = {[w EXCEPT !.live = FALSE] : w \in watches}
    /\ leases' = [b \in Buffers |-> 0]
    /\ job' = Idle /\ next' = None /\ flips' = f
    /\ scan' = IF powered THEN scanning' ELSE None
    /\ late' \in {FALSE, late \/ next # None \/ flips > 0}
    /\ UNCHANGED <<powered, request>>

(* Faulty: the baseline commit asks for a page-flip event                  *)
ReplaceWithEvents == Rebuild(IF powered THEN 1 ELSE 0)

(* Recovery, hotplug or a Flutter reload: Volition is stopped and KMS gets *)
(* a synchronous baseline that asks for no event                           *)
Replace == Rebuild(0)

(* a stray capture or frame ends; the handler it reports to is the old one *)
FinishStray ==
    \E b \in strays :
        /\ strays' = strays \ {b}
        /\ UNCHANGED <<broker, gpu, pipeline, fences, leases, request, kms>>

Raster == MakeCurrent \/ Acquire \/ Present \/ RasterIdle \/ TransferDone
Loop ==
    \/ Publish \/ AcknowledgeFence \/ Submit \/ SubmitWake
    \/ AcknowledgeSubmission \/ CompleteFlip \/ DropLateFlip
Power == PowerOff \/ PowerOn \/ PowerUnchanged
Hardware == GpuDone \/ VolitionCommit \/ PageFlip

Next ==
    \/ Raster \/ Loop \/ Power \/ Hardware
    \/ Authorize \/ DropAuthorization \/ SubmitStale
    \/ RetainForScreencopy \/ FinishScreencopy
    \/ RequestPower \/ DeferPowerOff \/ PowerOffFails \/ Replace \/ FinishStray

Spec == Init /\ [][Next]_vars

(* The GPU, the worker and the display finish what they were given, the    *)
(* event loop serves each of its queues on every turn, Flutter ends each   *)
(* raster task, and each capture ends.  Nothing is said of users or        *)
(* recoveries, and captures may start for ever.                            *)
FairSpec ==
    /\ Spec
    /\ WF_vars(GpuDone) /\ WF_vars(RasterIdle \/ TransferDone)
    /\ WF_vars(VolitionCommit \/ PageFlip \/ AcknowledgeSubmission \/ CompleteFlip
                 \/ DropLateFlip)
    /\ WF_vars(Publish \/ AcknowledgeFence) /\ WF_vars(Submit \/ SubmitWake)
    /\ WF_vars(PowerOff \/ PowerUnchanged)
    /\ \A b \in Buffers : WF_vars(FinishCapture(b))

-----------------------------------------------------------------------------
(* The framebuffers the display hardware or Volition may still read.       *)
OnDisplay ==
    ({scan, next} \ {None}) \cup (IF job.stage = "none" THEN {} ELSE {job.frame})

(* Flutter is never given a framebuffer that is on screen, on its way to   *)
(* the screen or being read by a capture of the present broker: what its   *)
(* refs and slot states say, together, about every other holder (no        *)
(* tearing).  It says nothing of the Leftovers of a replaced Flutter on a  *)
(* pool that is used again: a capture that began before goes on reading    *)
(* (screencopy keeps its lease until the copy's fence), and the new broker *)
(* may lend the buffer, although OutputBufferLease's comment promises that *)
(* it stays unavailable.                                                   *)
NoTearing ==
    \A b \in Buffers :
        slot[b] # "Free" => b \notin OnDisplay /\ leases[b] = 0 /\ b # scanning

(* Every framebuffer handed to Volition or KMS has finished rendering:     *)
(* commits carry no in-fence, so the render fence must have signaled first *)
(* (the comment in submit_ready).  A fence signal of an older generation   *)
(* of the same buffer must not count.                                      *)
DisplayedIsRendered == \A b \in OnDisplay : ~gpu[b]

(* A framebuffer Flutter renders into has no earlier GPU work outstanding, *)
(* even when its last frame was dropped before it was rendered: what       *)
(* discard_ready_frame's comment demands.  As above, the frames of a       *)
(* replaced Flutter are not counted: nothing waits for them.               *)
NoRenderOverGpuWork == \A b \in Buffers : slot[b] = "Rendering" => ~gpu[b]

One(p) == IF p THEN 1 ELSE 0

(* The frames that hold a reference to b                                   *)
Holders(b) ==
    One(b = scanning) + One(b = ready) + One(flight.stage # "none" /\ flight.frame = b)
      + One(discard[b])

(* A buffer's output_refs counts exactly its holders: the frame on screen  *)
(* or parked, the ready frame, the one in flight, a dropped one still on   *)
(* the GPU, and captures.  No release can fail for want of an owner, and   *)
(* no buffer is lost to the pool.                                          *)
RefsExact == \A b \in Buffers : refs[b] = Holders(b) + leases[b]

(* Whenever the loop takes a finished frame from Flutter, publish_ready    *)
(* and the broker accept it: none of their errors, which would end the     *)
(* session, can be returned.                                               *)
HandoffAccepted ==
    \A b \in Buffers : slot[b] = "Pending" /\ HandoffAvailable => Publishable(b)

(* The scheduler's record of the screen is the screen: with no frame in    *)
(* flight the CRTC of a lit output shows `scanning`, and a page flip that  *)
(* will retire a frame belongs to that frame, although the event does not  *)
(* name it.                                                                *)
ScreenKnown ==
    /\ flight.stage = "none" => scan = IF powered /\ ~wake THEN scanning ELSE None
    /\ flips > 0 /\ flight.stage # "none" => scan = flight.frame

(* A CRTC never has two commits at once: one is entered into KMS only when *)
(* the flip of the one before has been retired.                            *)
OneCommit == job.stage = "queued" => next = None /\ flips = 0

(* A deferred power-off does not wait for ever: the frame in flight        *)
(* retires and the output is cleared, unless the request is withdrawn.     *)
PowerOffSettles == []<>~poweringOff

(* Whatever is rendered, dropped, captured or shown, a framebuffer always  *)
(* becomes free for Flutter again.                                         *)
TargetReturns == []<>(\E b \in Buffers : FreeTarget(b))

(* A finished frame does not stay in Flutter's hands: the loop takes it.   *)
FrameTaken == []<>(\A b \in Buffers : slot[b] # "Pending")

(* Between replacements of Flutter a framebuffer is drawn or read by one at *)
(* a time: the present Flutter, its GPU work, the screen and the captures   *)
(* it granted never meet in it (acquire, discard_ready_frame and            *)
(* submit_ready each rely on another's bookkeeping for that).  Leftovers of *)
(* a replaced Flutter can meet the new one's frames on a reused pool.       *)
BuffersSafe == NoTearing /\ DisplayedIsRendered /\ NoRenderOverGpuWork

(* Flutter, the scheduler and KMS agree on whose turn it is: frames are     *)
(* accepted, flips belong to the frame they retire, and commits of a CRTC   *)
(* do not overlap.                                                          *)
SchedulerAgrees == HandoffAccepted /\ ScreenKnown /\ OneCommit

(* Frames keep moving: a target becomes free again and a finished frame is  *)
(* taken, whatever is dropped, captured or powered off.                     *)
FramesMove == TargetReturns /\ FrameTaken
=============================================================================
