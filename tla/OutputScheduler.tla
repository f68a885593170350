--------------------------- MODULE OutputScheduler ---------------------------
(***************************************************************************)
(* What the outputs of one scheduler share (output_scheduler.rs, dpms.rs): *)
(* the vector of pipelines, whose positions name the streams of Volition's *)
(* commits, Volition's capacity and event queue, display-power batches     *)
(* that turn several outputs off together, and the session's VT switches   *)
(* and recoveries, which replace the scheduler (kms_session.rs).           *)
(*                                                                         *)
(* OutputPipeline has the buffers and fences of one output; here a ready   *)
(* frame is rendered, and a framebuffer is its index in the output's pool. *)
(* Outputs are numbers, in the order of the scanouts.                      *)
(***************************************************************************)
EXTENDS Naturals, Sequences, FiniteSets, Functions

CONSTANTS
    OutputCount,   \* scanouts of the device
    BufferCount,   \* framebuffers of an output's pool
    Stalls,        \* bound: whether a presentation ever stalls
    Switches       \* bound: whether the session ever leaves its VT

Outputs == 1 .. OutputCount
Buffers == 0 .. BufferCount - 1
Dark == BufferCount
Undrained == 1              \* bound: events added in the turn that replaces
Capacity == OutputCount     \* lookahead_capacity

ASSUME SchedulerConstants ==
    /\ OutputCount \in Nat \ {0} /\ BufferCount \in Nat \ {0, 1}
    /\ Stalls \in BOOLEAN /\ Switches \in BOOLEAN

VARIABLES
    pipelines,     \* OutputScheduler::pipelines, lit outputs by position
    scanning,      \* the framebuffer index on screen, or parked
    ready,         \* outputs with a rendered frame to submit
    flight,        \* OutputPipelineFrames::in_flight
    poweringOff,
    wake,          \* outputs that the next frame wakes with a modeset
    requests,      \* output_power_requests that were deferred
    queue,         \* Volition's jobs
    events,        \* VolitionEvents, with `owned` while the instance lives
    kms,           \* outputs with an accepted commit that has not flipped
    flips,         \* outputs with a page flip to retire
    screen,        \* the framebuffer index each CRTC shows, Dark when off
    rebased        \* RuntimeState::scanout_rebased

frames == <<pipelines, scanning, ready, flight, poweringOff, wake>>
display == <<kms, flips, screen>>
vars == <<frames, requests, queue, events, display, rebased>>

CommitIds == [stream : 1 .. OutputCount, frame : Buffers]
Idle == [stage |-> "none", id |-> [stream |-> 1, frame |-> 0]]
Lit == Range(pipelines)
Nothing == [o \in Outputs |-> "none"]

(* Types, and what only a lit output has: power_off leaves nothing behind. *)
TypeOK ==
    /\ pipelines \in Seq(Outputs) /\ IsInjective(pipelines)
    /\ scanning \in [Outputs -> Buffers]
    /\ flight \in [Outputs -> [stage : {"none", "scheduled", "submitted"}, id : CommitIds]]
    /\ requests \in [Outputs -> {"none", "on", "off"}]
    /\ queue \subseteq [output : Outputs, id : CommitIds]
    /\ events \in Seq([id : CommitIds, stalled : BOOLEAN, owned : BOOLEAN])
    /\ screen \in [Outputs -> Buffers \cup {Dark}]
    /\ rebased \in BOOLEAN
    /\ ready \cup poweringOff \cup wake \cup kms \cup flips \subseteq Lit
    /\ \A o \in Outputs \ Lit : flight[o] = Idle

Init ==
    /\ pipelines = [i \in Outputs |-> i]
    /\ scanning = [o \in Outputs |-> 0]
    /\ ready = {} /\ flight = [o \in Outputs |-> Idle]
    /\ poweringOff = {} /\ wake = {}
    /\ requests = Nothing
    /\ queue = {} /\ events = <<>> /\ kms = {} /\ flips = {}
    /\ screen = scanning /\ rebased = FALSE

-----------------------------------------------------------------------------
(* Faulty: the latch is not looked at                                      *)
ServingRebased == TRUE

(* The loop serves frames and power only while the scheduler's record of   *)
(* the screen can be trusted                                               *)
Serving == ~rebased

(* A frame of the output is published and its fence signals                *)
PublishReady(o) ==
    /\ Serving /\ o \in Lit \ (poweringOff \cup ready)
    /\ ready' = ready \cup {o}
    /\ UNCHANGED <<pipelines, scanning, flight, poweringOff, wake, requests, queue, events,
                   display, rebased>>

(* Faulty: a frame in flight does not hold the next one back               *)
SubmittableInFlight(o) == o \in ready \ poweringOff

Submittable(o) == o \in ready \ poweringOff /\ flight[o].stage = "none"

(* submit_ready, one output of its loop: the commit is named by the        *)
(* pipeline's position and the framebuffer's index                         *)
Submit(o) ==
    \E i \in DOMAIN pipelines, b \in Buffers \ {scanning[o]} :
        LET id == [stream |-> i, frame |-> b] IN
        /\ Serving /\ pipelines[i] = o /\ Submittable(o)
        /\ ready' = ready \ {o}
        /\ IF o \in wake
           THEN /\ flight' = [flight EXCEPT ![o] = [stage |-> "submitted", id |-> id]]
                /\ wake' = wake \ {o}
                /\ kms' = kms \cup {o}
                /\ queue' = queue
           ELSE /\ Cardinality(queue) < Capacity
                /\ flight' = [flight EXCEPT ![o] = [stage |-> "scheduled", id |-> id]]
                /\ queue' = queue \cup {[output |-> o, id |-> id]}
                /\ UNCHANGED <<wake, kms>>
        /\ UNCHANGED <<pipelines, scanning, poweringOff, requests, events, flips, screen,
                       rebased>>

Report(c, stalled) == [id |-> c.id, stalled |-> stalled, owned |-> TRUE]

(* Volition's worker: KMS takes a commit when the last one has flipped.    *)
(* One that it goes on refusing is reported as stalled.                    *)
VolitionCommit(o) ==
    \E c \in queue, stalled \in {FALSE, Stalls} :
        /\ c.output = o /\ (stalled \/ o \notin kms)
        /\ queue' = queue \ {c}
        /\ kms' = IF stalled THEN kms ELSE kms \cup {o}
        /\ events' = Append(events, Report(c, stalled))
        /\ UNCHANGED <<frames, requests, flips, screen, rebased>>

(* external: the display latches the commit                                *)
PageFlip(o) ==
    /\ o \in kms \ flips
    /\ kms' = kms \ {o}
    /\ flips' = flips \cup {o}
    /\ screen' = [screen EXCEPT ![o] = flight[o].id.frame]
    /\ UNCHANGED <<frames, requests, queue, events, rebased>>

(* handle_completions for one flip; a scheduled frame's flip waits         *)
CompleteFlip(o) ==
    /\ Serving /\ o \in flips /\ flight[o].stage = "submitted"
    /\ flips' = flips \ {o}
    /\ scanning' = [scanning EXCEPT ![o] = flight[o].id.frame]
    /\ flight' = [flight EXCEPT ![o] = Idle]
    /\ UNCHANGED <<pipelines, ready, poweringOff, wake, requests, queue, events, kms, screen,
                   rebased>>

-----------------------------------------------------------------------------
(* What clients, the idle policy and keys ask for in one turn is merged    *)
(* into the requests that were deferred                                    *)
Merged(asked) == [o \in Outputs |-> IF asked[o] = "none" THEN requests[o] ELSE asked[o]]
Asked == [Outputs -> {"none", "on", "off"}]

(* To ask for what an output has, or already waits for, changes nothing    *)
Change(o) == IF o \in Lit \ poweringOff THEN "off" ELSE "on"
Changes == {asked \in Asked : \A o \in Outputs : asked[o] \in {"none", Change(o)}}

(* A set as a vector, in any order and in one that it is sorted by         *)
Orders(S) == Bijection(1 .. Cardinality(S), S)
InOrder(S, Before(_, _)) ==
    {v \in Orders(S) : \A i, j \in DOMAIN v : i < j => Before(v[i], v[j])}

(* The order of the scanouts                                               *)
Below(o, p) == o < p

(* The pipelines that stay keep their order                                *)
Earlier(o, p) ==
    \E i, j \in DOMAIN pipelines : i < j /\ pipelines[i] = o /\ pipelines[j] = p

Off(r) == {o \in Lit : r[o] = "off"}
On(r) == {o \in Outputs \ Lit : r[o] = "on"}
Kept(r) == {o \in Lit : r[o] = "on"}

(* Faulty: the batch waits until no output at all has a frame in flight    *)
WaitingForAll(r) == \E o \in Lit : flight[o].stage # "none"

(* begin_power_off said that an output of the batch has a frame in flight  *)
Waiting(r) == \E o \in Off(r) : flight[o].stage # "none"

(* apply_output_power_requests, in the turn that collects them.  A batch   *)
(* with a frame in flight is deferred as a whole; otherwise KMS clears its *)
(* outputs, or refuses and the batch is cancelled.  What is asked for      *)
(* while the latch is set waits for the new scheduler: it is asked then.   *)
ApplyPower(asked) ==
    LET r == Merged(asked)
        off == Off(r)
        on == On(r)
        waits == Waiting(r)
    IN /\ Serving /\ r # Nothing
       /\ \E done \in IF waits THEN {{}} ELSE {off, {}} :
             /\ \E kept \in InOrder(Lit \ done, Earlier), added \in InOrder(on, Below) :
                   pipelines' = kept \o added
             /\ wake' = (wake \ done) \cup on
             /\ screen' = [o \in Outputs |-> IF o \in done THEN Dark ELSE screen[o]]
       /\ ready' = ready \ off
       /\ poweringOff' = IF waits THEN (poweringOff \ Kept(r)) \cup off
                         ELSE poweringOff \ (Kept(r) \cup off)
       /\ requests' = [o \in Outputs |-> IF waits /\ o \in off THEN "off" ELSE "none"]
       /\ UNCHANGED <<scanning, flight, queue, events, kms, flips, rebased>>

-----------------------------------------------------------------------------
(* recover_stalled_kms_presentation: Volition is shut down and the device  *)
(* reset.  A flip event that was sent before may still be read later.      *)
ResetDevice ==
    /\ queue' = {} /\ kms' = {} /\ flips' \in SUBSET kms
    /\ screen' = [o \in Outputs |-> Dark]
    /\ rebased' = TRUE

Scheduled(id) ==
    {i \in DOMAIN pipelines :
        flight[pipelines[i]].stage = "scheduled" /\ flight[pipelines[i]].id = id}

(* Faulty: events of a replaced instance are acknowledged                  *)
OwnsAll(e) == TRUE

Owns(e) == e.owned

(* acknowledge_volition_events for one event: the first pipeline that has  *)
(* scheduled this commit, or a recovery                                    *)
Acknowledge ==
    /\ events # <<>>
    /\ events' = Tail(events)
    /\ LET e == Head(events) IN
       \/ /\ ~Owns(e)
          /\ UNCHANGED <<flight, queue, display, rebased>>
       \/ /\ Owns(e) /\ e.stalled
          /\ ResetDevice
          /\ flight' = flight
       \/ /\ Owns(e) /\ ~e.stalled
          /\ \E i \in Scheduled(e.id) :
                /\ \A k \in Scheduled(e.id) : i <= k
                /\ flight' = [flight EXCEPT ![pipelines[i]].stage = "submitted"]
          /\ UNCHANGED <<queue, display, rebased>>
    /\ UNCHANGED <<pipelines, scanning, ready, poweringOff, wake, requests>>

(* presentation_stall: KMS withholds the flip of a submitted frame         *)
Stall ==
    /\ Stalls /\ Serving
    /\ \E o \in Lit : flight[o].stage = "submitted"
    /\ ResetDevice
    /\ UNCHANGED <<frames, requests, events>>

(* service_session_lifecycle, from the pause of the session to its return: *)
(* the loop serves nothing else.  Commits that Volition tries in between   *)
(* are refused, and flips may be lost.  Back on its VT each lit output is  *)
(* committed synchronously with the framebuffer its pool calls current and *)
(* without an event (rebase_kms_scanouts); where that fails the device is  *)
(* reset.                                                                  *)
SwitchSession ==
    /\ Switches
    /\ \E tried \in SUBSET queue : \E order \in Orders(tried) :
        /\ events' = events \o [i \in DOMAIN order |-> Report(order[i], TRUE)]
        /\ \/ ResetDevice
           \/ /\ queue' = queue \ tried
              /\ kms' = {} /\ flips' \in SUBSET kms
              /\ screen' = [o \in Outputs |-> IF o \in Lit THEN scanning[o] ELSE Dark]
              /\ rebased' = TRUE
    /\ UNCHANGED <<frames, requests>>

(* The latch makes the next turns rebuild the topology: each lit output    *)
(* shows its current framebuffer, and a new scheduler with a new Volition  *)
(* takes over.  It reads and drops flips that are still under way before   *)
(* it has a frame (OutputPipeline).  The turn has drained the events; few  *)
(* can have been added since.                                              *)
Replace ==
    /\ rebased
    /\ Len(events) <= Undrained
    /\ pipelines' \in InOrder(Lit, Below)
    /\ ready' = {} /\ flight' = [o \in Outputs |-> Idle]
    /\ poweringOff' = {} /\ wake' = {}
    /\ queue' = {} /\ kms' = {} /\ flips' = {}
    /\ screen' = [o \in Outputs |-> IF o \in Lit THEN scanning[o] ELSE Dark]
    /\ events' = [i \in DOMAIN events |-> [events[i] EXCEPT !.owned = FALSE]]
    /\ rebased' = FALSE
    /\ UNCHANGED <<scanning, requests>>

Next ==
    \/ \E o \in Outputs :
        \/ PublishReady(o) \/ Submit(o)
        \/ VolitionCommit(o) \/ PageFlip(o) \/ CompleteFlip(o)
    \/ \E asked \in Changes : ApplyPower(asked)
    \/ Acknowledge \/ Stall \/ SwitchSession \/ Replace

Spec == Init /\ [][Next]_vars

(* The loop drains its queues and applies requests on every turn; the      *)
(* worker and the display finish each output's commit.                     *)
FairSpec ==
    /\ Spec
    /\ WF_vars(ApplyPower(Nothing)) /\ WF_vars(Acknowledge) /\ WF_vars(Replace)
    /\ \A o \in Outputs : WF_vars(VolitionCommit(o) \/ PageFlip(o) \/ CompleteFlip(o))

-----------------------------------------------------------------------------
(* Every event of the living instance finds a scheduled frame: "Volition   *)
(* accepted a commit with no pending output frame", which ends the         *)
(* session, is never returned, although positions move with display power  *)
(* and old instances' events are still queued.                             *)
AcknowledgementsMatch ==
    \A i \in DOMAIN events : Owns(events[i]) => Scheduled(events[i].id) # {}

(* A capacity of one job per scanout is enough: submit_ready is never told *)
(* Backpressured.                                                          *)
CapacitySuffices == \A o \in Lit : Submittable(o) => Cardinality(queue) < Capacity

(* A deferred power-off ends, whatever the other outputs of the batch and  *)
(* those outside it do and however often the session is switched and the   *)
(* scheduler replaced.                                                     *)
PowerOffSettles == \A o \in Outputs : []<>(o \notin poweringOff)

(* What the scheduler records as shown, and so frees the framebuffer       *)
(* before it, is what the CRTC shows, although a flip event names no frame *)
(* and a VT switch loses flips or delivers them late: the scheduler "must  *)
(* be recreated before it interprets any later page-flip event using its   *)
(* pre-pause ownership" (rebase_kms_scanouts).                             *)
RetiredIsShown ==
    [][\A o \in Outputs : scanning'[o] # scanning[o] => scanning'[o] = screen[o]]_vars

(* "Identifies one commit in the compositor-owned presentation streams"    *)
(* (CommitId): no two scheduled commits have the same id.                  *)
CommitIdsUnique ==
    \A o, p \in Outputs :
        flight[o].stage = "scheduled" /\ flight[p].stage = "scheduled"
            /\ flight[o].id = flight[p].id => o = p
=============================================================================
