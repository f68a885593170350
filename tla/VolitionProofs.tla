--------------------------- MODULE VolitionProofs ---------------------------
(***************************************************************************)
(* Proofs about the Volition commit scheduler, for any number of CRTCs,    *)
(* any capacity, any retry window and any number of commits; and about the *)
(* delivery of updates to it.                                              *)
(***************************************************************************)
EXTENDS Volition, FrameDelivery, FiniteSetTheorems, SequenceTheorems, TLAPS

-----------------------------------------------------------------------------
(* Shutdown *)

\* The worker has ended by the time shutdown returns, and stays ended.
JoinedIsDone == owner = "joined" => worker = "done"

\* shutdown joins the worker: no step of it follows.
THEOREM JoinedIsDoneInvariant == Spec => []JoinedIsDone
<1>1. Init => JoinedIsDone
  BY DEF Init, JoinedIsDone
<1>2. JoinedIsDone /\ [Next]_vars => JoinedIsDone'
  BY DEF JoinedIsDone, Next, vars, TrySubmit, BeginShutdown, Join, DrainEvents,
         LoopHead, DrainJobs, Receive, Disconnected, Attempt, Settle, Report, PageFlip, Tick
<1> QED
  BY <1>1, <1>2, PTL DEF Spec

\* Nothing enters KMS after Volition::shutdown has returned.
THEOREM ShutdownIsFinal == Spec => NoCommitAfterShutdown
<1>1. JoinedIsDone /\ [Next]_vars => [owner = "joined" => busy' \subseteq busy]_vars
  BY DEF JoinedIsDone, Next, vars, TrySubmit, BeginShutdown, Join, DrainEvents,
         LoopHead, DrainJobs, Receive, Disconnected, Attempt, Settle, Report, PageFlip, Tick
<1> QED
  BY <1>1, JoinedIsDoneInvariant, PTL DEF Spec, NoCommitAfterShutdown

-----------------------------------------------------------------------------
(* Cardinalities *)

\* A sequence of jobs with distinct orders holds as many jobs as it is long.
LEMMA DistinctRange ==
  ASSUME NEW S, NEW seq \in Seq(S),
         \A i, k \in DOMAIN seq : seq[i] = seq[k] => i = k
  PROVE  IsFiniteSet(Range(seq)) /\ Cardinality(Range(seq)) = Len(seq)
<1>1. Len(seq) \in Nat /\ DOMAIN seq = 1 .. Len(seq)
  BY LenProperties
<1>2. seq \in Bijection(1 .. Len(seq), Range(seq))
  BY <1>1 DEF Bijection, Injection, IsInjective, Surjection, Range
<1>3. ExistsBijection(1 .. Len(seq), Range(seq))
  BY <1>2 DEF ExistsBijection
<1> QED
  BY <1>1, <1>3, FS_CountingElements, FS_NatBijection

\* Letting time pass neither merges nor loses jobs.
LEMMA LaterKeepsCount ==
  ASSUME NEW Q \in SUBSET Jobs, IsFiniteSet(Q),
         \A j, k \in Q : j.order = k.order => j = k
  PROVE  LET L == {Later(j) : j \in Q}
         IN  IsFiniteSet(L) /\ Cardinality(L) = Cardinality(Q)
<1> DEFINE L == {Later(j) : j \in Q}
<1> DEFINE f == [j \in Q |-> Later(j)]
<1>1. \A j \in Q : Later(j).order = j.order
  BY DEF Later, Jobs
<1>2. f \in Bijection(Q, L)
  BY <1>1 DEF Bijection, Injection, IsInjective, Surjection
<1>3. ExistsBijection(Q, L)
  BY <1>2 DEF ExistsBijection
<1> QED
  BY <1>3, FS_Bijection

-----------------------------------------------------------------------------
(* The inductive invariant *)

\* Orders are arrival numbers, and a commit is in one place only.
Placed ==
    /\ \A i \in DOMAIN chan : chan[i].order <= accepted
    /\ \A j \in queue : j.order <= accepted
    /\ \A e \in hand : e.order <= accepted
    /\ \A i \in DOMAIN events : events[i].order <= accepted
    /\ \A i, k \in DOMAIN chan : chan[i].order = chan[k].order => i = k
    /\ \A j, k \in queue : j.order = k.order => j = k
    /\ \A i, k \in DOMAIN events : events[i].order = events[k].order => i = k
    /\ \A i \in DOMAIN chan, j \in queue : chan[i].order # j.order
    /\ \A e \in hand, i \in DOMAIN chan : e.order # chan[i].order
    /\ \A e \in hand, j \in queue : e.order # j.order
    /\ \A i \in DOMAIN events, k \in DOMAIN chan : events[i].order # chan[k].order
    /\ \A i \in DOMAIN events, j \in queue : events[i].order # j.order
    /\ \A i \in DOMAIN events, e \in hand : events[i].order # e.order
    /\ \A e, d \in hand : e = d
    /\ hand # {} <=> worker \in {"settle", "report"}

\* The counter shared by the two threads.
Counted ==
    /\ IsFiniteSet(queue)
    /\ pending = Len(chan) + Cardinality(queue) + IF worker = "settle" THEN 1 ELSE 0

IndInv == TypeOK /\ Placed /\ Counted

\* An empty scheduler satisfies the invariant.
LEMMA InitIndInv == Init => IndInv
<1> SUFFICES ASSUME Init PROVE IndInv
  OBVIOUS
<1>1. Len(chan) = 0 /\ DOMAIN chan = {} /\ DOMAIN events = {}
  BY DEF Init
<1>2. TypeOK
  <2>1. chan \in Seq(Jobs) /\ events \in Seq(Events)
    BY EmptySeq DEF Init
  <2>2. queue \in SUBSET Jobs /\ hand \in SUBSET Events /\ busy \in SUBSET Streams
    BY DEF Init
  <2>3. pending \in 0 .. Capacity /\ accepted \in 0 .. MaxCommits
    BY VolitionConstants DEF Init
  <2> QED
    BY <2>1, <2>2, <2>3 DEF Init, TypeOK
<1>3. Placed
  BY <1>1 DEF Init, Placed
<1>4. Counted
  BY <1>1, FS_EmptySet DEF Init, Counted
<1> QED
  BY <1>2, <1>3, <1>4 DEF IndInv

\* The pending count stays within the capacity: try_submit admits nothing
\* beyond it, and only counted jobs are given back.
LEMMA NextIndInv == IndInv /\ [Next]_vars => IndInv'
<1> SUFFICES ASSUME IndInv, [Next]_vars
             PROVE  IndInv'
  OBVIOUS
<1> USE VolitionConstants
<1>t. /\ chan \in Seq(Jobs) /\ Len(chan) \in Nat /\ DOMAIN chan = 1 .. Len(chan)
      /\ events \in Seq(Events) /\ Len(events) \in Nat /\ DOMAIN events = 1 .. Len(events)
      /\ Cardinality(queue) \in Nat
      /\ Unset \in Nat
  BY LenProperties, FS_CardinalityType DEF IndInv, TypeOK, Counted, Unset
<1>1. ASSUME NEW s \in Streams, NEW lead \in 0 .. MaxLead, TrySubmit(s, lead)
      PROVE  IndInv'
  <2> DEFINE new == [stream |-> s, order |-> accepted + 1, ready |-> lead, left |-> Unset]
  <2>1. new \in Jobs /\ new.order = accepted + 1
    BY <1>1, <1>t DEF TrySubmit, IndInv, TypeOK, Jobs
  <2>2. /\ chan' \in Seq(Jobs) /\ Len(chan') = Len(chan) + 1
        /\ DOMAIN chan' = 1 .. Len(chan) + 1
        /\ \A i \in 1 .. Len(chan) : chan'[i] = chan[i]
        /\ chan'[Len(chan) + 1] = new
    BY <1>1, <1>t, <2>1, AppendProperties DEF TrySubmit
  <2>3. TypeOK'
    BY <1>1, <1>t, <2>2 DEF TrySubmit, IndInv, TypeOK
  <2>4. Placed'
    <3>1. /\ accepted \in Nat /\ accepted' = accepted + 1
          /\ UNCHANGED <<queue, hand, events, worker>>
      BY <1>1 DEF TrySubmit, IndInv, TypeOK
    <3>2. /\ \A j \in queue : j.order \in Nat
          /\ \A e \in hand : e.order \in Nat
          /\ \A i \in DOMAIN events : events[i].order \in Nat
          /\ \A i \in DOMAIN chan : chan[i].order \in Nat
      <4>1. \A i \in DOMAIN events : events[i] \in Events
        BY <1>t
      <4>2. \A i \in DOMAIN chan : chan[i] \in Jobs
        BY <1>t
      <4> QED
        BY <4>1, <4>2 DEF IndInv, TypeOK, Jobs, Events
    <3> HIDE DEF new
    <3>3. \A i \in DOMAIN chan' :
             \/ i \in DOMAIN chan /\ chan'[i] = chan[i]
             \/ i = Len(chan) + 1 /\ chan'[i].order = accepted + 1
      BY <1>t, <2>1, <2>2
    <3>4. \A i, k \in DOMAIN chan' : chan'[i].order = chan'[k].order => i = k
      BY <3>1, <3>2, <3>3 DEF IndInv, Placed
    <3>5. \A i \in DOMAIN chan' : chan'[i].order <= accepted'
      BY <3>1, <3>2, <3>3 DEF IndInv, Placed
    <3>6. \A i \in DOMAIN chan', j \in queue : chan'[i].order # j.order
      BY <3>1, <3>2, <3>3 DEF IndInv, Placed
    <3>7. \A i \in DOMAIN chan', e \in hand : chan'[i].order # e.order
      BY <3>1, <3>2, <3>3 DEF IndInv, Placed
    <3>8. \A i \in DOMAIN events, k \in DOMAIN chan' : events[i].order # chan'[k].order
      BY <3>1, <3>2, <3>3 DEF IndInv, Placed
    <3> QED
      BY <3>1, <3>2, <3>4, <3>5, <3>6, <3>7, <3>8 DEF IndInv, Placed
  <2>5. Counted'
    BY <1>1, <1>t, <2>2 DEF TrySubmit, IndInv, TypeOK, Counted
  <2> QED
    BY <2>3, <2>4, <2>5 DEF IndInv
<1>2. CASE BeginShutdown
  BY <1>2 DEF BeginShutdown, IndInv, TypeOK, Placed, Counted
<1>3. CASE Join
  BY <1>3 DEF Join, IndInv, TypeOK, Placed, Counted
<1>4. CASE DrainEvents
  BY <1>4 DEF DrainEvents, IndInv, TypeOK, Placed, Counted
<1>5. CASE LoopHead
  BY <1>5 DEF LoopHead, IndInv, TypeOK, Placed, Counted
<1>6. CASE Receive
  <2>1. /\ Head(chan) = chan[1] /\ chan[1] \in Jobs /\ Len(chan) >= 1
        /\ chan' \in Seq(Jobs) /\ Len(chan') = Len(chan) - 1
        /\ DOMAIN chan' = 1 .. Len(chan) - 1
        /\ \A i \in 1 .. Len(chan) - 1 : chan'[i] = chan[i + 1]
    BY <1>6, <1>t, HeadTailProperties, EmptySeq, LenProperties DEF Receive
  <2>2. chan[1] \notin queue
    BY <1>t, <2>1 DEF IndInv, Placed
  <2>3. IsFiniteSet(queue') /\ Cardinality(queue') = Cardinality(queue) + 1
    BY <1>6, <2>1, <2>2, FS_AddElement DEF Receive, IndInv, Counted
  <2>4. TypeOK'
    BY <1>6, <2>1 DEF Receive, IndInv, TypeOK
  <2>5. Placed'
    <3>1. /\ queue' = queue \cup {chan[1]} /\ 1 \in DOMAIN chan
          /\ worker = "peek" /\ worker' = "top"
          /\ UNCHANGED <<accepted, hand, events>>
      BY <1>6, <1>t, <2>1 DEF Receive
    <3>2. \A i \in DOMAIN chan' : /\ i \in Nat /\ i + 1 \in DOMAIN chan /\ i + 1 # 1
                                  /\ chan'[i] = chan[i + 1]
      BY <1>t, <2>1
    <3>3. /\ \A i, k \in DOMAIN chan' : chan'[i].order = chan'[k].order => i = k
          /\ \A i \in DOMAIN chan' : chan'[i].order <= accepted
      BY <3>2 DEF IndInv, Placed
    <3>4. /\ \A j, k \in queue' : j.order = k.order => j = k
          /\ \A j \in queue' : j.order <= accepted
      BY <3>1 DEF IndInv, Placed
    <3>5. \A i \in DOMAIN chan', j \in queue' : chan'[i].order # j.order
      BY <3>1, <3>2 DEF IndInv, Placed
    <3>6. /\ \A e \in hand, i \in DOMAIN chan' : e.order # chan'[i].order
          /\ \A i \in DOMAIN events, k \in DOMAIN chan' : events[i].order # chan'[k].order
      BY <3>2 DEF IndInv, Placed
    <3>7. /\ \A e \in hand, j \in queue' : e.order # j.order
          /\ \A i \in DOMAIN events, j \in queue' : events[i].order # j.order
      BY <3>1 DEF IndInv, Placed
    <3> QED
      BY <3>1, <3>3, <3>4, <3>5, <3>6, <3>7 DEF IndInv, Placed
  <2>6. Counted'
    BY <1>6, <1>t, <2>1, <2>3 DEF Receive, IndInv, Counted
  <2> QED
    BY <2>4, <2>5, <2>6 DEF IndInv
<1>7. CASE Disconnected
  <2>1. /\ worker = "peek" /\ worker' \in {"done", "top"} /\ connected' \in BOOLEAN
        /\ UNCHANGED <<owner, cancelled, pending, chan, accepted, queue, hand, events, busy>>
    BY <1>7 DEF Disconnected
  <2>2. TypeOK'
    BY <2>1 DEF IndInv, TypeOK
  <2>3. Placed'
    BY <2>1 DEF IndInv, Placed
  <2>4. Counted'
    BY <2>1 DEF IndInv, Counted
  <2> QED
    BY <2>2, <2>3, <2>4 DEF IndInv
<1>8. CASE Attempt
  <2>1. PICK j \in queue, answer \in {"ok", "retryable", "recoverable", "fatal"} :
           /\ Earliest(j) /\ j.ready <= 0
           /\ LET tried == [j EXCEPT !.left = Window(@)]
                  kind  == Disposition(answer, tried.left)
              IN  /\ busy' = IF kind = "Submitted" THEN busy \cup {j.stream} ELSE busy
                  /\ IF kind = "Retry"
                     THEN /\ queue' = (queue \ {j}) \cup {[tried EXCEPT !.ready = RetryAt]}
                          /\ worker' = "top"
                          /\ hand' = hand
                     ELSE /\ queue' = queue \ {j}
                          /\ worker' = "settle"
                          /\ hand' = {[stream |-> j.stream, order |-> j.order, kind |-> kind]}
    BY <1>8 DEF Attempt
  <2> DEFINE tried == [j EXCEPT !.left = Window(@)]
             kind  == Disposition(answer, tried.left)
             again == [tried EXCEPT !.ready = RetryAt]
  <2>2. j \in Jobs
    BY DEF IndInv, TypeOK
  <2>3. /\ again \in Jobs /\ again.order = j.order
    <3>1. \E l \in 0 .. Unset : tried = [j EXCEPT !.left = l]
      <4>1. Window(j.left) \in 0 .. Unset
        BY <2>2 DEF Jobs, Unset, Window
      <4> QED
        BY <4>1
    <3>2. tried \in Jobs /\ tried.order = j.order
      BY <2>2, <3>1 DEF Jobs
    <3>3. RetryAt \in (-MaxLate) .. MaxLead + 1
      BY DEF RetryAt
    <3> HIDE DEF tried
    <3> QED
      BY <3>2, <3>3 DEF Jobs
  <2>4. kind \in {"Submitted", "Retry", "Stalled", "Failed"}
    BY DEF Disposition
  <2>5. IsFiniteSet(queue \ {j}) /\ Cardinality(queue \ {j}) = Cardinality(queue) - 1
    BY FS_RemoveElement DEF IndInv, Counted
  <2>6. UNCHANGED <<owner, cancelled, pending, chan, accepted, connected, events>> /\ worker = "peek"
    BY <1>8 DEF Attempt
  <2>7. CASE kind = "Retry"
    <3>1. queue' = (queue \ {j}) \cup {again} /\ worker' = "top" /\ hand' = hand /\ busy' = busy
      BY <2>1, <2>7
    <3>2. again \notin queue \ {j}
      BY <2>3 DEF IndInv, Placed
    <3>3. IsFiniteSet(queue') /\ Cardinality(queue') = Cardinality(queue)
      <4> HIDE DEF again
      <4>1. /\ IsFiniteSet((queue \ {j}) \cup {again})
            /\ Cardinality((queue \ {j}) \cup {again}) = Cardinality(queue \ {j}) + 1
        BY <2>5, <3>2, FS_AddElement
      <4> QED
        BY <1>t, <2>5, <3>1, <4>1
    <3>4. TypeOK'
      BY <2>3, <2>6, <3>1 DEF IndInv, TypeOK
    <3>5. Placed'
      <4> HIDE DEF again
      <4> QED BY <2>3, <2>6, <3>1 DEF IndInv, Placed
    <3>6. Counted'
      BY <2>6, <3>1, <3>3 DEF IndInv, Counted
    <3> QED
      BY <3>4, <3>5, <3>6 DEF IndInv
  <2>8. CASE kind # "Retry"
    <3> DEFINE e == [stream |-> j.stream, order |-> j.order, kind |-> kind]
    <3>1. /\ queue' = queue \ {j} /\ worker' = "settle" /\ hand' = {e}
          /\ busy' \in SUBSET Streams
      <4>1. busy' = IF kind = "Submitted" THEN busy \cup {j.stream} ELSE busy
        BY <2>1
      <4>2. busy' \in SUBSET Streams
        BY <2>2, <4>1 DEF Jobs, IndInv, TypeOK
      <4> QED BY <2>1, <2>8, <4>2
    <3>2. e \in Events /\ e.order = j.order
      BY <2>2, <2>4, <2>8 DEF Jobs, Events
    <3> HIDE DEF e, kind
    <3>4. TypeOK'
      BY <2>6, <3>1, <3>2 DEF IndInv, TypeOK
    <3>5. Placed'
      BY <2>6, <3>1, <3>2 DEF IndInv, Placed
    <3>6. Counted'
      BY <1>t, <2>5, <2>6, <3>1 DEF IndInv, Counted
    <3> QED
      BY <3>4, <3>5, <3>6 DEF IndInv
  <2> QED
    BY <2>7, <2>8
<1>9. CASE Settle
  BY <1>9, <1>t DEF Settle, IndInv, TypeOK, Placed, Counted
<1>10. CASE Report
  <2>1. PICK e \in hand : events' = Append(events, e)
    BY <1>10 DEF Report
  <2>2. e \in Events
    BY DEF IndInv, TypeOK
  <2>3. /\ events' \in Seq(Events) /\ DOMAIN events' = 1 .. Len(events) + 1
        /\ \A i \in 1 .. Len(events) : events'[i] = events[i]
        /\ events'[Len(events) + 1] = e
    BY <1>t, <2>1, <2>2, AppendProperties
  <2>4. TypeOK'
    BY <1>10, <2>3 DEF Report, IndInv, TypeOK
  <2>5. Placed'
    BY <1>10, <1>t, <2>3 DEF Report, IndInv, Placed
  <2>6. Counted'
    BY <1>10 DEF Report, IndInv, Counted
  <2> QED
    BY <2>4, <2>5, <2>6 DEF IndInv
<1>11. ASSUME NEW s \in Streams, PageFlip(s)
       PROVE  IndInv'
  <2>1. /\ busy' \subseteq busy
        /\ UNCHANGED <<owner, cancelled, pending, chan, accepted, worker, connected,
                       queue, hand, events>>
    BY <1>11 DEF PageFlip
  <2>2. TypeOK'
    BY <2>1 DEF IndInv, TypeOK
  <2>3. Placed'
    BY <2>1 DEF IndInv, Placed
  <2>4. Counted'
    BY <2>1 DEF IndInv, Counted
  <2> QED
    BY <2>2, <2>3, <2>4 DEF IndInv
<1>12. CASE Tick
  <2>1. \A j \in Jobs : j.ready > -MaxLate => Later(j) \in Jobs /\ Later(j).order = j.order
    <3> SUFFICES ASSUME NEW j \in Jobs, j.ready > -MaxLate
                 PROVE  Later(j) \in Jobs /\ Later(j).order = j.order
      OBVIOUS
    <3>1. \E r \in (-MaxLate) .. MaxLead + 1, l \in 0 .. Unset :
             Later(j) = [j EXCEPT !.ready = r, !.left = l]
      <4>1. j.ready - 1 \in (-MaxLate) .. MaxLead + 1
        BY DEF Jobs
      <4>2. (IF j.left \in {0, Unset} THEN j.left ELSE j.left - 1) \in 0 .. Unset
        BY <1>t DEF Jobs
      <4> QED
        BY <4>1, <4>2 DEF Later
    <3> QED
      BY <3>1 DEF Jobs
  <2>2. \A i \in DOMAIN chan : chan[i] \in Jobs /\ chan[i].ready > -MaxLate
    <3>1. \A j \in Range(chan) : j.ready > -MaxLate
      BY <1>12, Zenon DEF Tick
    <3>2. \A i \in DOMAIN chan : chan[i] \in Range(chan)
      BY Zenon DEF Range
    <3>3. \A i \in DOMAIN chan : chan[i] \in Jobs
      BY <1>t
    <3> QED
      BY <3>1, <3>2, <3>3, Zenon
  <2>3. /\ chan' \in Seq(Jobs) /\ Len(chan') = Len(chan) /\ DOMAIN chan' = DOMAIN chan
        /\ \A i \in DOMAIN chan : chan'[i].order = chan[i].order
    <3>1. chan' = [i \in DOMAIN chan |-> Later(chan[i])]
      BY <1>12, Zenon DEF Tick
    <3>2. chan \in Seq(Jobs) /\ Len(chan) \in Nat /\ DOMAIN chan = 1 .. Len(chan)
      BY <1>t, LenProperties
    <3>3. \A i \in DOMAIN chan : Later(chan[i]) \in Jobs /\ Later(chan[i]).order = chan[i].order
      BY <2>1, <2>2, Zenon
    <3>4. \A i \in 1 .. Len(chan) : Later(chan[i]) \in Jobs
      BY <3>2, <3>3, Zenon
    <3> HIDE DEF Later, Jobs
    <3>5. chan' \in Seq(Jobs) /\ DOMAIN chan' = DOMAIN chan
      BY <3>1, <3>2, <3>4, IsASeq
    <3>6. Len(chan') = Len(chan)
      BY <3>2, <3>5, LenProperties
    <3> QED
      BY <3>1, <3>3, <3>5, <3>6
  <2>4. IsFiniteSet(queue') /\ Cardinality(queue') = Cardinality(queue)
    BY <1>12, LaterKeepsCount DEF Tick, IndInv, TypeOK, Placed, Counted
  <2>5. /\ queue' \subseteq Jobs
        /\ \A k \in queue' : \E j \in queue : k = Later(j) /\ k.order = j.order
    BY <1>12, <2>1 DEF Tick, IndInv, TypeOK
  <2>6. TypeOK'
    BY <1>12, <2>3, <2>5 DEF Tick, IndInv, TypeOK
  <2>7. Placed'
    <3>1. UNCHANGED <<accepted, hand, events, worker>>
      BY <1>12 DEF Tick
    <3>2. \A j, k \in queue' : j.order = k.order => j = k
      BY <2>5 DEF IndInv, Placed
    <3>3. \A k \in queue' :
             /\ k.order <= accepted
             /\ \A i \in DOMAIN chan : chan[i].order # k.order
             /\ \A e \in hand : e.order # k.order
             /\ \A i \in DOMAIN events : events[i].order # k.order
      BY <2>5 DEF IndInv, Placed
    <3> QED
      BY <2>3, <3>1, <3>2, <3>3 DEF IndInv, Placed
  <2>8. Counted'
    BY <1>12, <2>3, <2>4 DEF Tick, IndInv, Counted
  <2> QED
    BY <2>6, <2>7, <2>8 DEF IndInv
<1>13. CASE DrainJobs
  <2>1. CASE ~connected
    BY <1>13, <2>1 DEF DrainJobs, IndInv, TypeOK, Placed, Counted
  <2>2. CASE connected
    <3>1. \A i, k \in DOMAIN chan : chan[i] = chan[k] => i = k
      BY DEF IndInv, Placed
    <3>2. IsFiniteSet(Range(chan)) /\ Cardinality(Range(chan)) = Len(chan)
      BY <1>t, <3>1, DistinctRange
    <3>3. queue \cap Range(chan) = {}
      BY DEF IndInv, Placed, Range
    <3>4. IsFiniteSet(queue') /\ Cardinality(queue') = Cardinality(queue) + Len(chan)
      <4>1. queue' = queue \cup Range(chan) /\ IsFiniteSet(queue)
        BY <1>13, <2>2 DEF DrainJobs, IndInv, Counted
      <4>2. /\ IsFiniteSet(queue \cup Range(chan))
            /\ Cardinality(queue \cup Range(chan)) =
                 Cardinality(queue) + Cardinality(Range(chan)) - Cardinality(queue \cap Range(chan))
        BY <3>2, <4>1, FS_Union
      <4>3. Cardinality(queue \cap Range(chan)) = 0
        BY <3>3, FS_EmptySet
      <4> QED
        BY <1>t, <3>2, <4>1, <4>2, <4>3
    <3>5. chan' = <<>> /\ Len(chan') = 0
      BY <1>13, <2>2 DEF DrainJobs
    <3>6. Range(chan) \subseteq Jobs
      BY <1>t DEF Range
    <3>7. TypeOK'
      BY <1>13, <2>2, <3>5, <3>6 DEF DrainJobs, IndInv, TypeOK
    <3>8. Placed'
      BY <1>13, <2>2, <3>5 DEF DrainJobs, IndInv, Placed, Range
    <3>9. Counted'
      BY <1>13, <2>2, <1>t, <3>4, <3>5 DEF DrainJobs, IndInv, Counted
    <3> QED
      BY <3>7, <3>8, <3>9 DEF IndInv
  <2> QED
    BY <2>1, <2>2
<1>14. CASE UNCHANGED vars
  BY <1>14 DEF vars, IndInv, TypeOK, Placed, Counted
<1> QED
  BY <1>1, <1>2, <1>3, <1>4, <1>5, <1>6, <1>7, <1>8, <1>9, <1>10, <1>11, <1>12, <1>13, <1>14
     DEF Next

\* Where every accepted job is and what it counts for, after any steps of both
\* threads.
THEOREM IndInvInvariant == Spec => []IndInv
  BY InitIndInv, NextIndInv, PTL DEF Spec

\* Every variable keeps its type; in particular the shared counter never
\* leaves 0 .. Capacity.
THEOREM TypeCorrect == Spec => []TypeOK
  BY IndInvInvariant, PTL DEF IndInv

\* The capacity counter is exact, and an admitted job always finds room in
\* the channel: try_submit's TrySendError::Full branch is dead.
THEOREM PendingIsExact == Spec => []PendingExact
<1>1. IndInv => PendingExact
  BY LenProperties, FS_CardinalityType, VolitionConstants
     DEF IndInv, TypeOK, Counted, PendingExact
<1> QED
  BY <1>1, IndInvInvariant, PTL

\* A commit is reported at most once and is nowhere else when it is.
THEOREM ReportsAreUnique == Spec => []ReportedOnce
<1>1. ASSUME IndInv PROVE ReportedOnce
  <2>1. \A i, k \in DOMAIN events : events[i].order = events[k].order => i = k
    BY <1>1 DEF IndInv, Placed
  <2>2. \A e \in Range(events), j \in queue \cup Range(chan) \cup hand : e.order # j.order
    BY <1>1 DEF IndInv, Placed, Range
  <2>3. \A e \in hand, j \in queue \cup Range(chan) : e.order # j.order
    BY <1>1 DEF IndInv, Placed, Range
  <2>4. Orders(Range(events)) \cap Orders(queue \cup Range(chan) \cup hand) = {}
    BY <2>2 DEF Orders
  <2>5. Orders(hand) \cap Orders(queue \cup Range(chan)) = {}
    BY <2>3 DEF Orders
  <2> QED
    BY <2>1, <2>4, <2>5 DEF ReportedOnce
<1> QED
  BY <1>1, IndInvInvariant, PTL

-----------------------------------------------------------------------------
(* The frames that reach Volition: FrameDelivery.  No update is lost while  *)
(* elapsed successors are kept, for any number of updates.                  *)

(* Each place holds one frame.                                             *)
Single == \A f, g \in flight : f = g
SingleReady == \A f, g \in ready : f = g

(* Frames reach the screen in the order of their ticks, so nothing behind  *)
(* a newest frame is older than it.                                        *)
Ordered ==
    /\ shown => \A f \in flight \cup ready \cup raster : f.newest
    /\ (\E f \in flight : f.newest) => \A f \in ready \cup raster : f.newest
    /\ (\E f \in ready : f.newest) => \A f \in raster : f.newest

DeliveryInv == DeliveryTypeOK /\ Single /\ SingleReady /\ Ordered /\ UpdateKept

(* Marking an output makes every frame made before it an old one.          *)
LEMMA Marked ==
    ASSUME NEW S \in SUBSET Frames
    PROVE  /\ Outdated(S) \in SUBSET Frames
           /\ \A f \in Outdated(S) : f.newest = FALSE
           /\ S = {} => Outdated(S) = {}
           /\ (\A f, g \in S : f = g) => \A f, g \in Outdated(S) : f = g
<1>1. ASSUME NEW f \in Outdated(S)
      PROVE  f \in Frames /\ f.newest = FALSE
  <2>1. PICK g \in S : f = [newest |-> FALSE, elapsed |-> g.elapsed]
    BY DEF Outdated
  <2>2. g.elapsed \in BOOLEAN
    BY DEF Frames
  <2> QED
    BY <2>1, <2>2 DEF Frames
<1>2. /\ S = {} => Outdated(S) = {}
      /\ (\A f, g \in S : f = g) => \A f, g \in Outdated(S) : f = g
  BY Zenon DEF Outdated
<1> QED
  BY <1>1, <1>2

(* An edge changes no frame's age.                                         *)
LEMMA Aged ==
    ASSUME NEW S \in SUBSET Frames
    PROVE  /\ Elapsed(S) \in SUBSET Frames
           /\ \A f \in Elapsed(S) : \E g \in S : (f.newest <=> g.newest)
           /\ \A g \in S : \E f \in Elapsed(S) : (f.newest <=> g.newest)
           /\ S = {} => Elapsed(S) = {}
           /\ (\A f, g \in S : f = g) => \A f, g \in Elapsed(S) : f = g
<1>1. ASSUME NEW f \in Elapsed(S) PROVE f \in Frames
  <2>1. PICK g \in S : f = [newest |-> g.newest, elapsed |-> TRUE]
    BY DEF Elapsed
  <2>2. g.newest \in BOOLEAN
    BY DEF Frames
  <2> QED
    BY <2>1, <2>2 DEF Frames
<1>2. \A f \in Elapsed(S) : \E g \in S : (f.newest <=> g.newest)
  BY DEF Elapsed, Frames
<1>3. \A g \in S : \E f \in Elapsed(S) : (f.newest <=> g.newest)
  <2> TAKE g \in S
  <2> DEFINE f == [newest |-> g.newest, elapsed |-> TRUE]
  <2>1. f \in Elapsed(S)
    BY DEF Elapsed
  <2> QED
    BY <2>1
<1>4. /\ S = {} => Elapsed(S) = {}
      /\ (\A f, g \in S : f = g) => \A f, g \in Elapsed(S) : f = g
  BY DEF Elapsed
<1> QED
  BY <1>1, <1>2, <1>3, <1>4

(* The invariant holds at the start.                                       *)
LEMMA DeliveryStarts ==
    ASSUME MaxUpdates \in Nat
    PROVE  DeliveryInit => DeliveryInv
<1> SUFFICES ASSUME DeliveryInit PROVE DeliveryInv
  OBVIOUS
<1>1. updates \in 0 .. MaxUpdates
  BY DEF DeliveryInit
<1>2. DeliveryTypeOK
  BY <1>1, Zenon DEF DeliveryInit, DeliveryTypeOK
<1>3. Single /\ SingleReady /\ Ordered /\ UpdateKept
  BY Zenon DEF DeliveryInit, Single, SingleReady, Ordered, UpdateKept
<1> QED
  BY <1>2, <1>3 DEF DeliveryInv

(* Every step keeps the invariant when an elapsed successor is kept.       *)
LEMMA DeliveryKeeps ==
    ASSUME Fast = FALSE, RenderAhead \in BOOLEAN, MaxUpdates \in Nat
    PROVE  DeliveryInv /\ [DeliveryNext]_deliveryVars => DeliveryInv'
<1> SUFFICES ASSUME DeliveryInv, [DeliveryNext]_deliveryVars PROVE DeliveryInv'
  OBVIOUS
<1> USE DEF DeliveryInv
<1>0. raster \in SUBSET Frames /\ ready \in SUBSET Frames /\ flight \in SUBSET Frames
  BY DEF DeliveryTypeOK
<1>1. CASE Update
  <2>1. /\ raster' = Outdated(raster) /\ ready' = Outdated(ready) /\ flight' = Outdated(flight)
        /\ dirty' = TRUE /\ shown' = FALSE /\ withdrawn' = FALSE
        /\ UNCHANGED <<tick, powered, poweringOff>>
    BY <1>1 DEF Update, MarkDirty
  <2>2. updates' \in 0 .. MaxUpdates
    BY <1>1 DEF Update, DeliveryTypeOK
  <2>3. DeliveryTypeOK' /\ Single' /\ SingleReady'
    BY <1>0, <2>1, <2>2, Marked DEF DeliveryTypeOK, Single, SingleReady
  <2>4. Ordered' /\ UpdateKept'
    BY <1>0, <2>1, Marked DEF Ordered, UpdateKept
  <2> QED
    BY <2>3, <2>4
<1>2. CASE Edge
  <2>1. DeliveryTypeOK'
    BY <1>0, <1>2, Aged DEF Edge, DeliveryTypeOK
  <2>2. Single' /\ SingleReady'
    BY <1>0, <1>2, Aged DEF Edge, Single, SingleReady
  <2>3. /\ raster' = Elapsed(raster) /\ ready' = Elapsed(ready) /\ flight' = Elapsed(flight)
        /\ UNCHANGED <<dirty, shown, powered, poweringOff, withdrawn>>
    BY <1>2 DEF Edge
  <2>4. /\ \A f \in raster' : \E g \in raster : (f.newest <=> g.newest)
        /\ \A f \in ready' : \E g \in ready : (f.newest <=> g.newest)
        /\ \A f \in flight' : \E g \in flight : (f.newest <=> g.newest)
        /\ \A g \in ready : \E f \in ready' : (f.newest <=> g.newest)
        /\ \A g \in flight : \E f \in flight' : (f.newest <=> g.newest)
    BY <1>0, <2>3, Aged
  <2>5. Ordered'
    BY <2>3, <2>4, Zenon DEF Ordered
  <2>6. UpdateKept'
    BY <2>3, <2>4, Zenon DEF UpdateKept
  <2> QED
    BY <2>1, <2>2, <2>5, <2>6
<1>3. CASE TakeTick
  <2>1. raster' = raster \/ raster' = {[newest |-> TRUE, elapsed |-> FALSE]}
    BY <1>3 DEF TakeTick
  <2>a. [newest |-> TRUE, elapsed |-> FALSE] \in Frames
    BY DEF Frames
  <2>b. [newest |-> TRUE, elapsed |-> FALSE].newest
    OBVIOUS
  <2>2. raster' \subseteq Frames /\ \A f \in raster' : f \in raster \/ f.newest
    BY <2>1, <2>a, <2>b, <1>0, Zenon
  <2>3. /\ tick' = FALSE
        /\ UNCHANGED <<updates, dirty, ready, flight, shown, powered, poweringOff, withdrawn>>
    BY <1>3 DEF TakeTick
  <2>4. DeliveryTypeOK' /\ Single' /\ SingleReady'
    BY <2>2, <2>3 DEF DeliveryTypeOK, Single, SingleReady
  <2>5. Ordered' /\ UpdateKept'
    BY <2>2, <2>3 DEF Ordered, UpdateKept
  <2> QED
    BY <2>4, <2>5
<1>4. CASE Abandon
  BY <1>4 DEF Abandon, DeliveryTypeOK, Single, SingleReady, Ordered, UpdateKept
<1>5. CASE Publish
  <2>0. PICK f \in raster :
           /\ ~powered \/ poweringOff \/ ready = {}
           /\ raster' = {}
           /\ ready' = IF powered /\ ~poweringOff THEN {f} ELSE ready
           /\ dirty' = CompleteRender(f)
           /\ UNCHANGED <<updates, tick, flight, shown, powered, poweringOff, withdrawn>>
    BY <1>5, Zenon DEF Publish
  <2>1. DeliveryTypeOK' /\ Single' /\ SingleReady'
    BY <2>0 DEF DeliveryTypeOK, Single, SingleReady, CompleteRender, Frames
  <2>2. Ordered'
    BY <2>0 DEF Ordered
  <2>3. UpdateKept'
    BY <2>0 DEF UpdateKept, CompleteRender, DeliveryTypeOK, Frames
  <2> QED
    BY <2>1, <2>2, <2>3
<1>6. CASE Submit
  BY <1>6 DEF Submit, DeliveryTypeOK, Single, SingleReady, Ordered, UpdateKept
<1>7. CASE CompleteFlip
  <2>0. PICK f \in flight : flight' = {} /\ shown' = f.newest
    BY <1>7 DEF CompleteFlip
  <2>1. ready' = ready /\ UNCHANGED <<updates, dirty, tick, raster, powered, poweringOff, withdrawn>>
    BY <1>7 DEF CompleteFlip, Successor
  <2>2. DeliveryTypeOK' /\ Single' /\ SingleReady'
    BY <2>0, <2>1 DEF DeliveryTypeOK, Single, SingleReady, Frames
  <2>3. Ordered' /\ UpdateKept'
    BY <2>0, <2>1 DEF Ordered, UpdateKept, Single, DeliveryTypeOK, Frames
  <2> QED
    BY <2>2, <2>3
<1>8. CASE Power
  <2>1. CASE PowerOff
    BY <2>1 DEF PowerOff, DeliveryTypeOK, Single, SingleReady, Ordered, UpdateKept
  <2>2. CASE PowerOn
    BY <1>0, <2>2, Marked DEF PowerOn, MarkDirty, DeliveryTypeOK, Single, SingleReady, Ordered, UpdateKept
  <2>3. CASE BeginPowerOff
    BY <2>3 DEF BeginPowerOff, DeliveryTypeOK, Single, SingleReady, Ordered, UpdateKept
  <2>4. CASE CancelPowerOff
    BY <2>4 DEF CancelPowerOff, DeliveryTypeOK, Single, SingleReady, Ordered, UpdateKept
  <2>5. CASE PowerOffFails
    BY <2>5 DEF PowerOffFails, DeliveryTypeOK, Single, SingleReady, Ordered, UpdateKept
  <2> QED
    BY <1>8, <2>1, <2>2, <2>3, <2>4, <2>5 DEF Power
<1>9. CASE UNCHANGED deliveryVars
  BY <1>9 DEF deliveryVars, DeliveryTypeOK, Single, SingleReady, Ordered, UpdateKept
<1> QED
  BY <1>1, <1>2, <1>3, <1>4, <1>5, <1>6, <1>7, <1>8, <1>9 DEF DeliveryNext

(* With a production estimate that keeps every elapsed successor           *)
(* (handle_completions does not drop it), no update is ever lost: a mark   *)
(* is retired only by a frame that carries it, and frames are shown in     *)
(* order.                                                                  *)
THEOREM UpdatesAreKept ==
    ASSUME Fast = FALSE
    PROVE  DeliverySpec => []UpdateKept
<1>0. RenderAhead \in BOOLEAN /\ MaxUpdates \in Nat
  BY DeliveryConstants
<1>1. DeliveryInit => DeliveryInv
  BY <1>0, DeliveryStarts
<1>2. DeliveryInv /\ [DeliveryNext]_deliveryVars => DeliveryInv'
  BY <1>0, DeliveryKeeps
<1>3. DeliveryInv => UpdateKept
  BY DEF DeliveryInv
<1> QED
  BY <1>1, <1>2, <1>3, PTL DEF DeliverySpec
=============================================================================
