------------------------------ MODULE Volition ------------------------------
(***************************************************************************)
(* The Volition commit scheduler (compositor/src/volition/mod.rs): the     *)
(* compositor thread hands render-complete frames to a worker thread,      *)
(* which waits for each frame's submission time and enters it into KMS     *)
(* with nonblocking atomic commits.  A refused commit goes back into the   *)
(* queue a little later, until its retry window has closed.                *)
(*                                                                         *)
(* Time is relative and in units of LOOKAHEAD_RETRY_INTERVAL: `ready` is   *)
(* the time until ready_at (negative when overdue) and `left` the time     *)
(* until expires_at.  A commit is known by its arrival number `order`.     *)
(***************************************************************************)
EXTENDS Integers, Sequences, FiniteSets, Functions

CONSTANTS
    Streams,      \* the CRTCs commits are for
    Capacity,     \* lookahead capacity: in-flight jobs accepted at once
    MaxLead,      \* largest not_before, in retry intervals
    MaxWait,      \* LOOKAHEAD_MAX_WAIT, in retry intervals
    MaxLate,      \* bound: the worker is never descheduled for longer
    MaxCommits    \* bound: commits accepted in a behaviour

ASSUME VolitionConstants ==
    /\ Capacity \in Nat \ {0}
    /\ MaxLead \in Nat /\ MaxWait \in Nat /\ MaxLate \in Nat
    /\ MaxCommits \in Nat

Unset == MaxWait + 1     \* expires_at: None

VARIABLES
    owner,       \* "open", "closing" (sender dropped, joining) or "joined"
    cancelled,   \* the flag shared with the worker
    pending,     \* jobs accepted and not yet settled
    chan,        \* the bounded channel
    accepted,    \* how many commits were Queued; also the arrival numbers
    worker,      \* the worker's place in run_scheduler
    connected,   \* the worker's view of the channel
    queue,       \* the worker's heap
    hand,        \* what became of the popped commit, until it is reported
    events,      \* events reported and not yet drained by the owner
    busy         \* CRTCs with a page flip outstanding (KMS)

vars == <<owner, cancelled, pending, chan, accepted, worker, connected, queue,
          hand, events, busy>>

Jobs == [stream : Streams, order : 1 .. MaxCommits, ready : (-MaxLate) .. MaxLead + 1,
         left : 0 .. Unset]

Events == [stream : Streams, order : 1 .. MaxCommits,
           kind : {"Submitted", "Stalled", "Failed"}]

TypeOK ==
    /\ owner \in {"open", "closing", "joined"}
    /\ cancelled \in BOOLEAN
    /\ pending \in 0 .. Capacity
    /\ chan \in Seq(Jobs)
    /\ accepted \in 0 .. MaxCommits
    /\ worker \in {"top", "drain", "peek", "settle", "report", "done"}
    /\ connected \in BOOLEAN
    /\ queue \in SUBSET Jobs
    /\ hand \in SUBSET Events
    /\ events \in Seq(Events)
    /\ busy \in SUBSET Streams

Init ==
    /\ owner = "open" /\ cancelled = FALSE
    /\ pending = 0 /\ chan = <<>> /\ accepted = 0
    /\ worker = "top" /\ connected = TRUE /\ queue = {} /\ hand = {}
    /\ events = <<>> /\ busy = {}

-----------------------------------------------------------------------------
(* The compositor thread *)

\* try_submit: the pending count is taken first, then the channel slot.  The
\* owner always holds the receiver's peer, so the channel is never found
\* disconnected while the worker lives.
TrySubmit(s, lead) ==
    /\ owner = "open"
    /\ accepted < MaxCommits
    /\ pending < Capacity
    /\ Len(chan) < Capacity
    /\ pending' = pending + 1
    /\ accepted' = accepted + 1
    /\ chan' = Append(chan, [stream |-> s, order |-> accepted + 1,
                             ready |-> lead, left |-> Unset])
    /\ UNCHANGED <<owner, cancelled, worker, connected, queue, hand, events, busy>>

\* shutdown: cancel, then drop the sender ...
BeginShutdown ==
    /\ owner = "open"
    /\ cancelled' = TRUE
    /\ owner' = "closing"
    /\ UNCHANGED <<pending, chan, accepted, worker, connected, queue, hand, events, busy>>

\* Faulty: shutdown detaches the worker instead of joining it.
DetachWorker ==
    /\ owner = "closing"
    /\ owner' = "joined"
    /\ UNCHANGED <<cancelled, pending, chan, accepted, worker, connected, queue,
                   hand, events, busy>>

\* ... then unpark and join the worker.
Join ==
    /\ owner = "closing"
    /\ worker = "done"
    /\ owner' = "joined"
    /\ UNCHANGED <<cancelled, pending, chan, accepted, worker, connected, queue,
                   hand, events, busy>>

\* VolitionEvents::drain_into
DrainEvents ==
    /\ events # <<>>
    /\ events' = <<>>
    /\ UNCHANGED <<owner, cancelled, pending, chan, accepted, worker, connected,
                   queue, hand, busy>>

-----------------------------------------------------------------------------
(* The worker thread *)

\* The loop head reads the flag; shutdown may begin right after the read.
LoopHead ==
    /\ worker = "top"
    /\ worker' = IF cancelled THEN "done" ELSE "drain"
    /\ UNCHANGED <<owner, cancelled, pending, chan, accepted, connected, queue, hand,
                   events, busy>>

\* drain_jobs and schedule_job
DrainJobs ==
    /\ worker = "drain"
    /\ worker' = "peek"
    /\ IF connected
       THEN /\ queue' = queue \cup Range(chan)
            /\ chan' = <<>>
            /\ connected' = (owner = "open")
       ELSE UNCHANGED <<chan, queue, connected>>
    /\ UNCHANGED <<owner, cancelled, pending, accepted, hand, events, busy>>

\* recv or recv_timeout returned a job: an empty or a not yet due queue.
Receive ==
    /\ worker = "peek" /\ connected /\ chan # <<>>
    /\ \A j \in queue : j.ready > 0
    /\ queue' = queue \cup {Head(chan)}
    /\ chan' = Tail(chan)
    /\ worker' = "top"
    /\ UNCHANGED <<owner, cancelled, pending, accepted, connected, hand, events, busy>>

\* recv or recv_timeout found the sender gone: an idle worker returns, a
\* waiting one remembers it.  Without a sender, an empty queue ends the loop
\* and a parked worker is woken by shutdown's unpark.
Disconnected ==
    /\ worker = "peek" /\ owner # "open" /\ chan = <<>>
    /\ \A j \in queue : j.ready > 0
    /\ connected' = FALSE
    /\ worker' = IF queue = {} THEN "done" ELSE "top"
    /\ UNCHANGED <<owner, cancelled, pending, chan, accepted, queue, hand, events, busy>>

\* schedule_order: the earliest ready_at, then the oldest arrival.
Earliest(j) ==
    \A k \in queue : j.ready < k.ready \/ (j.ready = k.ready /\ j.order <= k.order)

\* What the nonblocking ioctl may return: EBUSY while the CRTC has a flip
\* outstanding; otherwise success, an interruption, an error KMS recovery can
\* cure, or any other error.
KmsAnswers(s) ==
    IF s \in busy THEN {"retryable"} ELSE {"ok", "retryable", "recoverable", "fatal"}

\* Faulty: every attempt opens a new retry window.
WindowReopened(left) == MaxWait

\* expires_at.get_or_insert: the first attempt opens the retry window.
Window(left) == IF left = Unset THEN MaxWait ELSE left

\* LOOKAHEAD_RETRY_INTERVAL after the attempt.
RetryAt == 1

\* lookahead_failure_disposition, and Submitted for a commit KMS took.
Disposition(answer, left) ==
    CASE answer = "ok" -> "Submitted"
      [] answer = "retryable" /\ left > 0 -> "Retry"
      [] answer \in {"retryable", "recoverable"} -> "Stalled"
      [] OTHER -> "Failed"

\* Faulty: a commit is also reported when it is put back for a retry.
AttemptReportingRetries ==
    /\ worker = "peek"
    /\ \E j \in queue, answer \in {"ok", "retryable", "recoverable", "fatal"} :
        /\ Earliest(j) /\ j.ready <= 0
        /\ answer \in KmsAnswers(j.stream)
        /\ LET tried == [j EXCEPT !.left = Window(@)]
               kind  == Disposition(answer, tried.left)
           IN  /\ busy' = IF kind = "Submitted" THEN busy \cup {j.stream} ELSE busy
               /\ queue' = IF kind = "Retry"
                           THEN (queue \ {j}) \cup {[tried EXCEPT !.ready = RetryAt]}
                           ELSE queue \ {j}
               /\ worker' = "settle"
               /\ hand' = {[stream |-> j.stream, order |-> j.order,
                            kind |-> IF kind = "Retry" THEN "Stalled" ELSE kind]}
    /\ UNCHANGED <<owner, cancelled, pending, chan, accepted, connected, events>>

\* Pop the first due commit and try it.  A commit to retry is reinserted
\* RetryAt later.
Attempt ==
    /\ worker = "peek"
    /\ \E j \in queue, answer \in {"ok", "retryable", "recoverable", "fatal"} :
        /\ Earliest(j) /\ j.ready <= 0
        /\ answer \in KmsAnswers(j.stream)
        /\ LET tried == [j EXCEPT !.left = Window(@)]
               kind  == Disposition(answer, tried.left)
           IN  /\ busy' = IF kind = "Submitted" THEN busy \cup {j.stream} ELSE busy
               /\ IF kind = "Retry"
                  THEN /\ queue' = (queue \ {j}) \cup {[tried EXCEPT !.ready = RetryAt]}
                       /\ worker' = "top"
                       /\ hand' = hand
                  ELSE /\ queue' = queue \ {j}
                       /\ worker' = "settle"
                       /\ hand' = {[stream |-> j.stream, order |-> j.order, kind |-> kind]}
    /\ UNCHANGED <<owner, cancelled, pending, chan, accepted, connected, events>>

\* Faulty: the capacity of a commit KMS took is given back only at its flip.
SettleFailuresOnly ==
    /\ worker = "settle"
    /\ pending' = IF \E e \in hand : e.kind = "Submitted" THEN pending ELSE pending - 1
    /\ worker' = "report"
    /\ UNCHANGED <<owner, cancelled, chan, accepted, connected, queue, hand, events, busy>>

\* finish_job gives the capacity back ...
Settle ==
    /\ worker = "settle"
    /\ pending' = pending - 1
    /\ worker' = "report"
    /\ UNCHANGED <<owner, cancelled, chan, accepted, connected, queue, hand, events, busy>>

\* ... and then reports.
Report ==
    /\ worker = "report"
    /\ \E e \in hand : events' = Append(events, e)
    /\ hand' = {}
    /\ worker' = "top"
    /\ UNCHANGED <<owner, cancelled, pending, chan, accepted, connected, queue, busy>>

-----------------------------------------------------------------------------
(* KMS and time *)

PageFlip(s) ==
    /\ s \in busy
    /\ busy' = busy \ {s}
    /\ UNCHANGED <<owner, cancelled, pending, chan, accepted, worker, connected,
                   queue, hand, events>>

Later(j) == [j EXCEPT !.ready = @ - 1,
                      !.left = IF @ \in {0, Unset} THEN @ ELSE @ - 1]

Tick ==
    /\ worker # "done"
    /\ \E j \in queue \cup Range(chan) : j.ready > 0 \/ j.left \in 1 .. MaxWait
    /\ \A j \in queue \cup Range(chan) : j.ready > -MaxLate
    /\ queue' = {Later(j) : j \in queue}
    /\ chan' = [i \in DOMAIN chan |-> Later(chan[i])]
    /\ UNCHANGED <<owner, cancelled, pending, accepted, worker, connected, hand,
                   events, busy>>

Worker == LoopHead \/ DrainJobs \/ Receive \/ Disconnected \/ Attempt \/ Settle \/ Report

Next ==
    \/ \E s \in Streams, lead \in 0 .. MaxLead : TrySubmit(s, lead)
    \/ BeginShutdown \/ Join \/ DrainEvents
    \/ LoopHead \/ DrainJobs \/ Receive \/ Disconnected \/ Attempt \/ Settle \/ Report
    \/ \E s \in Streams : PageFlip(s)
    \/ Tick

Spec == Init /\ [][Next]_vars

\* The operating system keeps running the worker and the clock, and join
\* returns when the worker has ended.
FairSpec == Spec /\ WF_vars(Worker) /\ WF_vars(Tick) /\ WF_vars(Join)

-----------------------------------------------------------------------------
(* Properties *)

Orders(jobs) == {j.order : j \in jobs}

\* The capacity counter shared by both threads is exact: it counts the jobs in
\* the channel, in the heap and in the worker's hand, so capacity is neither
\* leaked nor granted twice, and the channel never refuses an admitted job.
PendingExact ==
    /\ pending = Len(chan) + Cardinality(queue) + IF worker = "settle" THEN 1 ELSE 0
    /\ pending < Capacity => Len(chan) < Capacity

\* A commit is in one place only: it is never both queued and reported, and
\* never reported twice, however often it was retried.
ReportedOnce ==
    /\ \A i, k \in DOMAIN events : events[i].order = events[k].order => i = k
    /\ Orders(Range(events)) \cap Orders(queue \cup Range(chan) \cup hand) = {}
    /\ Orders(hand) \cap Orders(queue \cup Range(chan)) = {}

\* Once shutdown has returned, the worker enters nothing into KMS: the owner
\* may rebuild the scanout state.
NoCommitAfterShutdown == [][owner = "joined" => busy' \subseteq busy]_vars

\* Every accepted commit is reported, or the scheduler is cancelled: a CRTC
\* that stays busy delays neither its own commit for ever nor another's.
EveryCommitReported ==
    \A n \in 1 .. MaxCommits :
        (n \in Orders(queue \cup Range(chan) \cup hand)) ~>
            (cancelled \/ n \notin Orders(queue \cup Range(chan) \cup hand))

\* shutdown returns: the worker leaves its waits when the sender is dropped.
ShutdownReturns == (owner = "closing") ~> (owner = "joined")

\* shutdown returns, and from then on KMS is left alone.
ShutdownStops == ShutdownReturns /\ NoCommitAfterShutdown
=============================================================================
