----------------------- MODULE OutputSchedulerProofs ------------------------
(***************************************************************************)
(* Acknowledgements, capacity and retirement in one scheduler, for any     *)
(* number of outputs and framebuffers, although the ids of commits are not *)
(* unique.                                                                 *)
(***************************************************************************)
EXTENDS OutputScheduler, FiniteSetTheorems, SequenceTheorems, TLAPS

(* An output has at most one job, which is for its frame in flight; an     *)
(* output without one has nothing in flight at all.                        *)
Jobs ==
    /\ \A c, d \in queue : c.output = d.output => c = d
    /\ \A c \in queue : /\ flight[c.output].stage # "none"
                        /\ flight[c.output].id = c.id
    /\ \A o \in Outputs : flight[o].stage = "none" => flight[o] = Idle

(* A commit is in one place on its way from the queue to the retired flip, *)
(* as long as no device was reset: then only a new scheduler serves.       *)
Located ==
    ~rebased =>
       /\ \A c \in queue : c.output \notin kms \cup flips
       /\ kms \cap flips = {}
       /\ \A o \in kms \cup flips : flight[o].stage # "none"
       /\ \A o \in flips : screen[o] = flight[o].id.frame

(* Ids are ambiguous, so reports are counted: of each id there are no more *)
(* reports and jobs of the living instance than scheduled frames.          *)
Reported(seq, id) == {i \in DOMAIN seq : seq[i].owned /\ seq[i].id = id}
Queued(id) == {c \in queue : c.id = id}
Awaiting(id) == {o \in Outputs : flight[o].stage = "scheduled" /\ flight[o].id = id}
Counted ==
    \A id \in CommitIds :
       Cardinality(Reported(events, id)) + Cardinality(Queued(id)) <= Cardinality(Awaiting(id))

IInv == TypeOK /\ Jobs /\ Located /\ Counted

-----------------------------------------------------------------------------
(* Vectors and counts *)

\* Positions are counted.
LEMMA CountUpTo == \A n \in Nat : IsFiniteSet(1 .. n) /\ Cardinality(1 .. n) = n
<1> TAKE n \in Nat
<1>1. Cardinality(1 .. n) = IF 1 > n THEN 0 ELSE n - 1 + 1
  BY FS_Interval
<1> QED
  BY <1>1, FS_Interval

\* A vector is a function of positions, and each of its elements is one.
LEMMA Vector ==
  ASSUME NEW S
  PROVE  /\ \A n \in Nat : \A s \in [1 .. n -> S] : s \in Seq(S)
         /\ \A s \in Seq(S) : \A i \in DOMAIN s : s[i] \in S
OBVIOUS

\* A set grows by at most one.
LEMMA AtMostOneMore ==
  ASSUME NEW S, IsFiniteSet(S), NEW x
  PROVE  Cardinality(S \cup {x}) \in Nat /\ Cardinality(S \cup {x}) <= Cardinality(S) + 1
<1>1. Cardinality(S \cup {x}) = IF x \in S THEN Cardinality(S) ELSE Cardinality(S) + 1
  BY FS_AddElement, Zenon
<1>2. Cardinality(S) \in Nat
  BY FS_CardinalityType
<1> QED
  BY <1>1, <1>2

\* Orders: a vector of exactly the set's elements, each once.
LEMMA Enumerates ==
  ASSUME NEW S, IsFiniteSet(S), NEW s \in Orders(S)
  PROVE  /\ s \in Seq(S) /\ DOMAIN s = 1 .. Cardinality(S)
         /\ IsInjective(s) /\ Range(s) = S
<1> DEFINE n == Cardinality(S)
<1>1. n \in Nat
  BY FS_CardinalityType
<1>2. s \in [1 .. n -> S] /\ IsInjective(s) /\ \A x \in S : \E i \in 1 .. n : s[i] = x
  BY DEF Orders, Bijection, Injection, Surjection
<1>3. s \in Seq(S) /\ DOMAIN s = 1 .. n
  BY <1>1, <1>2, Vector
<1>4. Range(s) = S
  BY <1>2 DEF Range
<1> QED
  BY <1>2, <1>3, <1>4

\* InOrder by the number of the scanout.
LEMMA Sorted ==
  ASSUME NEW S, IsFiniteSet(S), NEW s \in InOrder(S, Below)
  PROVE  s \in Seq(S) /\ IsInjective(s) /\ Range(s) = S
<1>1. s \in Orders(S)
  BY DEF InOrder
<1> QED
  BY <1>1, Enumerates

\* InOrder by the positions in the vector of pipelines.
LEMMA Retained ==
  ASSUME NEW S, IsFiniteSet(S), NEW s \in InOrder(S, Earlier)
  PROVE  s \in Seq(S) /\ IsInjective(s) /\ Range(s) = S
<1>1. s \in Orders(S)
  BY DEF InOrder
<1> QED
  BY <1>1, Enumerates

\* The outputs of a device are finitely many.
LEMMA OutputsFinite == IsFiniteSet(Outputs) /\ Cardinality(Outputs) = OutputCount
BY SchedulerConstants, FS_Interval DEF Outputs

\* Reports are finitely many.
LEMMA ReportedFinite ==
  ASSUME NEW E, NEW seq \in Seq(E), NEW id
  PROVE  IsFiniteSet(Reported(seq, id)) /\ Cardinality(Reported(seq, id)) \in Nat
<1>1. DOMAIN seq = 1 .. Len(seq) /\ Len(seq) \in Nat
  BY LenProperties
<1>2. IsFiniteSet(DOMAIN seq)
  BY <1>1, FS_Interval
<1>3. Reported(seq, id) \in SUBSET DOMAIN seq
  BY DEF Reported
<1>4. IsFiniteSet(Reported(seq, id))
  BY <1>2, <1>3, FS_Subset
<1> QED
  BY <1>4, FS_CardinalityType

\* The worker's Report: one more of its id, and no other.
LEMMA ReportedAppend ==
  ASSUME NEW E, NEW seq \in Seq(E), NEW e \in E, NEW id
  PROVE  Cardinality(Reported(Append(seq, e), id)) =
            Cardinality(Reported(seq, id)) + (IF e.owned /\ e.id = id THEN 1 ELSE 0)
<1> DEFINE n == Len(seq)
           t == Append(seq, e)
<1>1. /\ DOMAIN seq = 1 .. n /\ n \in Nat
      /\ DOMAIN t = 1 .. n + 1
      /\ \A i \in 1 .. n : t[i] = seq[i]
      /\ t[n + 1] = e
  BY AppendProperties, LenProperties
<1>2. IsFiniteSet(Reported(seq, id)) /\ Cardinality(Reported(seq, id)) \in Nat
  BY ReportedFinite
<1>3. n + 1 \notin Reported(seq, id)
  BY <1>1 DEF Reported
<1>4. CASE e.owned /\ e.id = id
  <2>1. Reported(t, id) = Reported(seq, id) \cup {n + 1}
    BY <1>1, <1>4 DEF Reported
  <2>2. Cardinality(Reported(seq, id) \cup {n + 1}) = Cardinality(Reported(seq, id)) + 1
    BY <1>2, <1>3, FS_AddElement
  <2> QED
    BY <1>4, <2>1, <2>2
<1>5. CASE ~(e.owned /\ e.id = id)
  <2>1. Reported(t, id) = Reported(seq, id)
    BY <1>1, <1>5 DEF Reported
  <2> QED
    BY <1>2, <1>5, <2>1
<1> QED
  BY <1>4, <1>5

\* acknowledge_volition_events takes the first event: one report less if it is one of this id.
LEMMA ReportedTail ==
  ASSUME NEW E, NEW seq \in Seq(E), seq # <<>>, NEW id
  PROVE  Cardinality(Reported(seq, id)) =
            Cardinality(Reported(Tail(seq), id))
               + (IF Head(seq).owned /\ Head(seq).id = id THEN 1 ELSE 0)
<1> DEFINE n == Len(seq)
           t == Tail(seq)
           old == Reported(seq, id)
           new == Reported(t, id)
           shift == [i \in new |-> i + 1]
<1>1. /\ DOMAIN seq = 1 .. n /\ n \in Nat /\ n > 0
      /\ DOMAIN t = 1 .. n - 1
      /\ \A i \in 1 .. n - 1 : t[i] = seq[i + 1]
      /\ Head(seq) = seq[1]
  BY HeadTailProperties, LenProperties, EmptySeq
<1>2. t \in Seq(E)
  BY HeadTailProperties
<1>3. /\ IsFiniteSet(old) /\ Cardinality(old) \in Nat
      /\ IsFiniteSet(new) /\ Cardinality(new) \in Nat
  BY <1>2, ReportedFinite
<1>4. Cardinality(old \ {1}) = Cardinality(new)
  <2>1. new \subseteq 1 .. n - 1 /\ old \subseteq 1 .. n
    BY <1>1 DEF Reported
  <2>2. shift \in [new -> old \ {1}]
    BY <1>1, <2>1 DEF Reported
  <2>3. \A i, j \in new : shift[i] = shift[j] => i = j
    BY <2>1
  <2>4. \A k \in old \ {1} : \E i \in new : shift[i] = k
    <3> TAKE k \in old \ {1}
    <3>1. k \in 2 .. n /\ seq[k].owned /\ seq[k].id = id
      BY <1>1 DEF Reported
    <3>2. k - 1 \in 1 .. n - 1 /\ t[k - 1] = seq[k]
      BY <1>1, <3>1
    <3>3. k - 1 \in new
      BY <1>1, <3>1, <3>2 DEF Reported
    <3> QED
      BY <3>1, <3>3
  <2>5. shift \in Bijection(new, old \ {1})
    BY <2>2, <2>3, <2>4 DEF Bijection, Injection, Surjection, IsInjective
  <2> QED
    BY <1>3, <2>5, FS_Bijection DEF ExistsBijection
<1>5. 1 \in old <=> Head(seq).owned /\ Head(seq).id = id
  BY <1>1 DEF Reported
<1>6. Cardinality(old \ {1}) = IF 1 \in old THEN Cardinality(old) - 1 ELSE Cardinality(old)
  BY <1>3, FS_RemoveElement
<1> QED
  BY <1>3, <1>4, <1>5, <1>6

\* Reports one after the other are counted separately.
LEMMA ReportedConcat ==
  ASSUME NEW E, NEW s \in Seq(E), NEW t \in Seq(E), NEW id
  PROVE  Cardinality(Reported(s \o t, id)) =
            Cardinality(Reported(s, id)) + Cardinality(Reported(t, id))
<1> DEFINE n == Len(s)
           m == Len(t)
           a == Reported(s, id)
           b == Reported(t, id)
           c == {i \in n + 1 .. n + m : t[i - n].owned /\ t[i - n].id = id}
           shift == [i \in b |-> i + n]
<1>1. /\ DOMAIN s = 1 .. n /\ n \in Nat
      /\ DOMAIN t = 1 .. m /\ m \in Nat
  BY LenProperties
<1>2. /\ DOMAIN (s \o t) = 1 .. n + m
      /\ \A i \in 1 .. n + m : (s \o t)[i] = IF i <= n THEN s[i] ELSE t[i - n]
  BY ConcatProperties, <1>1, LenProperties
<1>3. /\ IsFiniteSet(a) /\ Cardinality(a) \in Nat
      /\ IsFiniteSet(b) /\ Cardinality(b) \in Nat
  BY ReportedFinite
<1>4. Reported(s \o t, id) = a \cup c
  <2>1. \A i : i \in Reported(s \o t, id) <=> i \in a \/ i \in c
    <3> TAKE i
    <3>1. CASE i \in 1 .. n
      BY <1>1, <1>2, <3>1 DEF Reported
    <3>2. CASE i \in n + 1 .. n + m
      BY <1>1, <1>2, <3>2 DEF Reported
    <3>3. CASE i \notin 1 .. n + m
      BY <1>1, <1>2, <3>3 DEF Reported
    <3> QED
      BY <1>1, <3>1, <3>2, <3>3
  <2> QED
    BY <2>1
<1>5. a \cap c = {}
  BY <1>1 DEF Reported
<1>6. IsFiniteSet(c) /\ Cardinality(c) = Cardinality(b)
  <2>1. b \subseteq 1 .. m
    BY <1>1 DEF Reported
  <2>2. shift \in [b -> c]
    <3> SUFFICES ASSUME NEW i \in b PROVE i + n \in c
      OBVIOUS
    <3>1. i \in 1 .. m /\ t[i].owned /\ t[i].id = id
      BY <2>1 DEF Reported
    <3>2. i + n \in n + 1 .. n + m /\ (i + n) - n = i
      BY <1>1, <3>1
    <3> QED
      BY <3>1, <3>2
  <2>3. \A i, j \in b : shift[i] = shift[j] => i = j
    BY <1>1, <2>1
  <2>4. \A k \in c : \E i \in b : shift[i] = k
    <3> TAKE k \in c
    <3>1. k - n \in 1 .. m /\ (k - n) + n = k
      BY <1>1
    <3>2. k - n \in b
      BY <1>1, <3>1 DEF Reported
    <3> QED
      BY <3>1, <3>2
  <2>5. shift \in Bijection(b, c)
    BY <2>2, <2>3, <2>4 DEF Bijection, Injection, Surjection, IsInjective
  <2> QED
    BY <1>3, <2>5, FS_Bijection DEF ExistsBijection
<1> HIDE DEF a, b, c
<1>7. Cardinality(a \cup c) = Cardinality(a) + Cardinality(c) - Cardinality(a \cap c)
  BY <1>3, <1>6, FS_Union, Zenon
<1> QED
  <2>1. Cardinality(a \cap c) = 0
    BY <1>5, FS_EmptySet, Zenon
  <2>2. Cardinality(a \cup c) = Cardinality(a) + Cardinality(b)
    BY <1>3, <1>6, <1>7, <2>1
  <2> QED
    BY <1>4, <2>2 DEF a, b

-----------------------------------------------------------------------------
(* The invariant *)

\* Jobs and scheduled frames are finitely many, as the outputs are.
LEMMA CountsFinite ==
  ASSUME TypeOK, Jobs
  PROVE  /\ IsFiniteSet(queue)
         /\ \A id : /\ IsFiniteSet(Queued(id)) /\ Cardinality(Queued(id)) \in Nat
                    /\ IsFiniteSet(Awaiting(id)) /\ Cardinality(Awaiting(id)) \in Nat
                    /\ Cardinality(Reported(events, id)) \in Nat
<1> DEFINE where == [c \in queue |-> c.output]
<1>1. where \in [queue -> Outputs] /\ \A c, d \in queue : where[c] = where[d] => c = d
  BY DEF TypeOK, Jobs
<1>2. where \in Injection(queue, Outputs)
  BY <1>1 DEF Injection, IsInjective
<1>3. IsFiniteSet(queue)
  BY <1>2, OutputsFinite, FS_Injection
<1>4. ASSUME NEW id
      PROVE  /\ IsFiniteSet(Queued(id)) /\ Cardinality(Queued(id)) \in Nat
             /\ IsFiniteSet(Awaiting(id)) /\ Cardinality(Awaiting(id)) \in Nat
             /\ Cardinality(Reported(events, id)) \in Nat
  <2>1. Queued(id) \in SUBSET queue /\ Awaiting(id) \in SUBSET Outputs
    BY DEF Queued, Awaiting
  <2>2. IsFiniteSet(Queued(id)) /\ IsFiniteSet(Awaiting(id))
    BY <1>3, <2>1, OutputsFinite, FS_Subset
  <2>3. Cardinality(Queued(id)) \in Nat /\ Cardinality(Awaiting(id)) \in Nat
    BY <2>2, FS_CardinalityType
  <2>4. events \in Seq([id : CommitIds, stalled : BOOLEAN, owned : BOOLEAN])
    BY DEF TypeOK
  <2>5. Cardinality(Reported(events, id)) \in Nat
    BY <2>4, ReportedFinite
  <2> QED
    BY <2>2, <2>3, <2>5
<1> QED
  BY <1>3, <1>4

\* The scheduler starts with every output lit and idle.
LEMMA InitInvariant == Init => IInv
<1> SUFFICES ASSUME Init PROVE IInv
  OBVIOUS
<1>1. pipelines \in Seq(Outputs) /\ IsInjective(pipelines)
  <2>1. pipelines \in [1 .. OutputCount -> Outputs]
    BY DEF Init, Outputs
  <2>2. pipelines \in Seq(Outputs)
    BY <2>1, SchedulerConstants, Vector
  <2> QED
    BY <2>2 DEF Init, IsInjective
<1>2. Lit = Outputs
  <2>1. DOMAIN pipelines = Outputs /\ \A i \in Outputs : pipelines[i] = i
    BY DEF Init
  <2> QED
    BY <2>1 DEF Lit, Range
<1>3. Idle \in [stage : {"none", "scheduled", "submitted"}, id : CommitIds] /\ 0 \in Buffers
  BY SchedulerConstants DEF Idle, CommitIds, Buffers
<1>4. TypeOK
  <2>1. events \in Seq([id : CommitIds, stalled : BOOLEAN, owned : BOOLEAN])
    BY EmptySeq DEF Init
  <2>2. /\ scanning \in [Outputs -> Buffers] /\ screen \in [Outputs -> Buffers \cup {Dark}]
        /\ flight \in [Outputs -> [stage : {"none", "scheduled", "submitted"}, id : CommitIds]]
        /\ requests \in [Outputs -> {"none", "on", "off"}]
    BY <1>3 DEF Init, Nothing
  <2>3. /\ queue = {} /\ rebased = FALSE
        /\ ready = {} /\ poweringOff = {} /\ wake = {} /\ kms = {} /\ flips = {}
    BY DEF Init
  <2> QED
    BY <1>1, <1>2, <2>1, <2>2, <2>3 DEF TypeOK
<1>5. Jobs /\ Located
  BY <1>3 DEF Init, Jobs, Located, Idle
<1>6. Counted
  <2>1. \A id : Reported(events, id) = {} /\ Queued(id) = {} /\ Awaiting(id) = {}
    BY DEF Init, Reported, Queued, Awaiting, Idle
  <2>2. \A id : /\ Cardinality(Reported(events, id)) = 0
                /\ Cardinality(Queued(id)) = 0 /\ Cardinality(Awaiting(id)) = 0
    BY <2>1, FS_EmptySet, Zenon
  <2> QED
    BY <2>2 DEF Counted
<1> QED
  BY <1>4, <1>5, <1>6 DEF IInv

\* A frame that is published concerns nothing but the output's mailbox.
LEMMA PublishKeeps ==
  ASSUME IInv, NEW o \in Outputs, PublishReady(o)
  PROVE  IInv'
<1>1. /\ o \in Lit /\ ready' = ready \cup {o}
      /\ UNCHANGED <<pipelines, scanning, flight, poweringOff, wake, requests, queue, events,
                     kms, flips, screen, rebased>>
  BY Zenon DEF PublishReady, display
<1>2. Lit' = Lit
  BY <1>1 DEF Lit
<1>3. TypeOK'
  BY <1>1, <1>2 DEF IInv, TypeOK
<1>4. Jobs' /\ Located'
  BY <1>1, Zenon DEF IInv, Jobs, Located
<1>5. Counted'
  BY <1>1, Zenon DEF IInv, Counted, Queued, Awaiting
<1> QED
  BY <1>3, <1>4, <1>5 DEF IInv

\* submit_ready: the new frame is a scheduled one of its id, and at most one new job is.
LEMMA SubmitKeeps ==
  ASSUME IInv, NEW o \in Outputs, Submit(o)
  PROVE  IInv'
<1>0. PICK i \in DOMAIN pipelines, b \in Buffers \ {scanning[o]} :
        LET id == [stream |-> i, frame |-> b] IN
        /\ Serving /\ pipelines[i] = o /\ Submittable(o)
        /\ ready' = ready \ {o}
        /\ IF o \in wake
           THEN /\ flight' = [flight EXCEPT ![o] = [stage |-> "submitted", id |-> id]]
                /\ wake' = wake \ {o}
                /\ kms' = kms \cup {o}
                /\ queue' = queue
           ELSE /\ Cardinality(queue) < Capacity
                /\ flight' = [flight EXCEPT ![o] = [stage |-> "scheduled", id |-> id]]
                /\ queue' = queue \cup {[output |-> o, id |-> id]}
                /\ UNCHANGED <<wake, kms>>
        /\ UNCHANGED <<pipelines, scanning, poweringOff, requests, events, flips, screen,
                       rebased>>
  BY Zenon DEF Submit
<1> DEFINE new == [stream |-> i, frame |-> b]
           job == [output |-> o, id |-> new]
<1>1. /\ ~rebased /\ pipelines[i] = o /\ o \in ready /\ flight[o].stage = "none"
      /\ ready' = ready \ {o}
      /\ UNCHANGED <<pipelines, scanning, poweringOff, requests, events, flips, screen, rebased>>
  BY <1>0, Zenon DEF Serving, Submittable
<1>2. Lit' = Lit
  BY <1>1 DEF Lit
<1>3. new \in CommitIds
  <2>1. pipelines \in Seq(Outputs) /\ IsInjective(pipelines)
    BY DEF IInv, TypeOK
  <2>2. DOMAIN pipelines = 1 .. Len(pipelines) /\ Len(pipelines) \in Nat
    BY <2>1, LenProperties
  <2>3. Len(pipelines) <= OutputCount
    <3>1. pipelines \in Injection(1 .. Len(pipelines), Outputs)
      BY <2>1, <2>2 DEF Injection, IsInjective
    <3>2. Cardinality(1 .. Len(pipelines)) = Len(pipelines)
      BY <2>2, CountUpTo
    <3> QED
      BY <3>1, <3>2, OutputsFinite, FS_Injection
  <2> QED
    BY <2>2, <2>3, SchedulerConstants DEF CommitIds
<1>4. /\ flight[o] = Idle /\ \A c \in queue : c.output # o
      /\ o \notin kms \cup flips /\ o \in Lit
  BY <1>1 DEF IInv, Jobs, Located, TypeOK
<1>5. CASE o \in wake
  <2>1. /\ flight' = [flight EXCEPT ![o] = [stage |-> "submitted", id |-> new]]
        /\ wake' = wake \ {o} /\ kms' = kms \cup {o} /\ queue' = queue
    BY <1>0, <1>5
  <2>2. TypeOK'
    BY <1>1, <1>2, <1>3, <1>4, <2>1 DEF IInv, TypeOK
  <2>3. \A p \in Outputs : p # o => flight'[p] = flight[p]
    BY <2>1 DEF IInv, TypeOK
  <2>4. flight'[o] = [stage |-> "submitted", id |-> new]
    BY <2>1 DEF IInv, TypeOK
  <2>5. Jobs'
    BY <1>4, <2>1, <2>3, <2>4 DEF IInv, Jobs, TypeOK
  <2>6. Located'
    BY <1>1, <1>4, <2>1, <2>3, <2>4 DEF IInv, Located, TypeOK
  <2>7. \A id : Awaiting(id)' = Awaiting(id) /\ Queued(id)' = Queued(id)
    BY <1>1, <2>1, <2>3, <2>4 DEF Awaiting, Queued
  <2>8. Counted'
    BY <1>1, <2>7, Zenon DEF IInv, Counted
  <2> QED
    BY <2>2, <2>5, <2>6, <2>8 DEF IInv
<1>6. CASE o \notin wake
  <2>1. /\ flight' = [flight EXCEPT ![o] = [stage |-> "scheduled", id |-> new]]
        /\ wake' = wake /\ kms' = kms /\ queue' = queue \cup {job}
    BY <1>0, <1>6
  <2>2. TypeOK'
    BY <1>1, <1>2, <1>3, <1>4, <2>1 DEF IInv, TypeOK
  <2>3. \A p \in Outputs : p # o => flight'[p] = flight[p]
    BY <2>1 DEF IInv, TypeOK
  <2>4. flight'[o] = [stage |-> "scheduled", id |-> new]
    BY <2>1 DEF IInv, TypeOK
  <2>5. Jobs'
    BY <1>4, <2>1, <2>3, <2>4 DEF IInv, Jobs, TypeOK
  <2>6. Located'
    BY <1>1, <1>4, <2>1, <2>3, <2>4 DEF IInv, Located, TypeOK
  <2>7. Counted'
    <3> SUFFICES ASSUME NEW id \in CommitIds
                 PROVE  Cardinality(Reported(events, id)) + Cardinality(Queued(id)')
                           <= Cardinality(Awaiting(id)')
      BY <1>1, Zenon DEF Counted
    <3>1. /\ IsFiniteSet(Queued(id)) /\ Cardinality(Queued(id)) \in Nat
          /\ IsFiniteSet(Awaiting(id)) /\ Cardinality(Awaiting(id)) \in Nat
          /\ Cardinality(Reported(events, id)) \in Nat
      BY CountsFinite DEF IInv
    <3>2. Cardinality(Reported(events, id)) + Cardinality(Queued(id)) <= Cardinality(Awaiting(id))
      BY DEF IInv, Counted
    <3>3. CASE id = new
      <4>1. Queued(id)' = Queued(id) \cup {job}
        BY <2>1, <3>3 DEF Queued
      <4>2. Awaiting(id)' = Awaiting(id) \cup {o} /\ o \notin Awaiting(id)
        BY <1>1, <2>3, <2>4, <3>3 DEF Awaiting
      <4>3. Cardinality(Queued(id) \cup {job}) <= Cardinality(Queued(id)) + 1
            /\ Cardinality(Queued(id) \cup {job}) \in Nat
        BY <3>1, AtMostOneMore
      <4>4. Cardinality(Awaiting(id) \cup {o}) = Cardinality(Awaiting(id)) + 1
        BY <3>1, <4>2, FS_AddElement
      <4> QED
        BY <3>1, <3>2, <4>1, <4>2, <4>3, <4>4
    <3>4. CASE id # new
      <4>1. Queued(id)' = Queued(id)
        BY <2>1, <3>4 DEF Queued
      <4>2. Awaiting(id)' = Awaiting(id)
        BY <1>1, <2>3, <2>4, <3>4 DEF Awaiting
      <4> QED
        BY <3>2, <4>1, <4>2
    <3> QED
      BY <3>3, <3>4
  <2> QED
    BY <2>2, <2>5, <2>6, <2>7 DEF IInv
<1> QED
  BY <1>5, <1>6

\* The worker turns a job into a report of the same id.
LEMMA VolitionCommitKeeps ==
  ASSUME IInv, NEW o \in Outputs, VolitionCommit(o)
  PROVE  IInv'
<1>1. PICK c \in queue, stalled \in {FALSE, Stalls} :
        /\ c.output = o /\ (stalled \/ o \notin kms)
        /\ queue' = queue \ {c}
        /\ kms' = IF stalled THEN kms ELSE kms \cup {o}
        /\ events' = Append(events, Report(c, stalled))
        /\ UNCHANGED <<frames, requests, flips, screen, rebased>>
  BY Zenon DEF VolitionCommit
<1>2. UNCHANGED <<pipelines, scanning, ready, flight, poweringOff, wake, requests, flips, screen,
                  rebased>>
  BY <1>1 DEF frames
<1>3. Lit' = Lit
  BY <1>2 DEF Lit
<1> DEFINE Events == [id : CommitIds, stalled : BOOLEAN, owned : BOOLEAN]
<1>4. /\ events \in Seq(Events) /\ Report(c, stalled) \in Events
      /\ Report(c, stalled).owned /\ Report(c, stalled).id = c.id
      /\ c.id \in CommitIds
  BY SchedulerConstants DEF IInv, TypeOK, Report
<1>5. flight[c.output].stage # "none" /\ o \in Lit
  BY <1>1 DEF IInv, Jobs, TypeOK, Idle
<1>6. TypeOK'
  <2>1. events' \in Seq(Events)
    BY <1>1, <1>4, AppendProperties
  <2>2. queue' \subseteq queue /\ kms' \subseteq kms \cup {o}
    BY <1>1
  <2> QED
    BY <1>2, <1>3, <1>5, <2>1, <2>2 DEF IInv, TypeOK
<1>7. Jobs'
  BY <1>1, <1>2 DEF IInv, Jobs
<1>8. Located'
  <2> SUFFICES ASSUME ~rebased
               PROVE  /\ \A d \in queue' : d.output \notin kms' \cup flips
                      /\ kms' \cap flips = {}
                      /\ \A p \in kms' \cup flips : flight[p].stage # "none"
                      /\ \A p \in flips : screen[p] = flight[p].id.frame
    BY <1>2, Zenon DEF Located
  <2>1. /\ \A d \in queue : d.output \notin kms \cup flips
        /\ kms \cap flips = {}
        /\ \A p \in kms \cup flips : flight[p].stage # "none"
        /\ \A p \in flips : screen[p] = flight[p].id.frame
    BY DEF IInv, Located
  <2>2. \A d \in queue' : d \in queue /\ d.output # o
    BY <1>1 DEF IInv, Jobs
  <2>3. kms' \subseteq kms \cup {o}
    BY <1>1
  <2> QED
    BY <1>1, <1>5, <2>1, <2>2, <2>3
<1>9. Counted'
  <2> SUFFICES ASSUME NEW id \in CommitIds
               PROVE  Cardinality(Reported(events', id)) + Cardinality(Queued(id)')
                         <= Cardinality(Awaiting(id)')
    BY Zenon DEF Counted, Reported
  <2>1. /\ IsFiniteSet(Queued(id)) /\ Cardinality(Queued(id)) \in Nat
        /\ Cardinality(Awaiting(id)) \in Nat
        /\ Cardinality(Reported(events, id)) \in Nat
    BY CountsFinite DEF IInv
  <2>2. Cardinality(Reported(events, id)) + Cardinality(Queued(id)) <= Cardinality(Awaiting(id))
    BY DEF IInv, Counted
  <2>3. Awaiting(id)' = Awaiting(id)
    BY <1>2 DEF Awaiting
  <2>4. Cardinality(Reported(events', id)) =
           Cardinality(Reported(events, id)) + (IF c.id = id THEN 1 ELSE 0)
    <3> DEFINE e == Report(c, stalled)
    <3> HIDE DEF e, Events
    <3>1. events \in Seq(Events) /\ e \in Events /\ events' = Append(events, e)
      BY <1>1, <1>4 DEF e
    <3>2. Cardinality(Reported(Append(events, e), id)) =
             Cardinality(Reported(events, id)) + (IF e.owned /\ e.id = id THEN 1 ELSE 0)
      BY <3>1, ReportedAppend
    <3>3. e.owned /\ e.id = c.id
      BY <1>4 DEF e
    <3> QED
      BY <3>1, <3>2, <3>3
  <2>5. Queued(id)' = Queued(id) \ {c} /\ (c \in Queued(id) <=> c.id = id)
    BY <1>1 DEF Queued
  <2>6. Cardinality(Queued(id) \ {c}) =
           IF c \in Queued(id) THEN Cardinality(Queued(id)) - 1 ELSE Cardinality(Queued(id))
    BY <2>1, FS_RemoveElement, Zenon
  <2>7. Cardinality(Queued(id)') =
           IF c.id = id THEN Cardinality(Queued(id)) - 1 ELSE Cardinality(Queued(id))
    BY <2>5, <2>6
  <2> QED
    BY <2>1, <2>2, <2>3, <2>4, <2>7
<1> QED
  BY <1>6, <1>7, <1>8, <1>9 DEF IInv

\* The display latches the frame that is in flight.
LEMMA PageFlipKeeps ==
  ASSUME IInv, NEW o \in Outputs, PageFlip(o)
  PROVE  IInv'
<1>1. /\ o \in kms /\ kms' = kms \ {o} /\ flips' = flips \cup {o}
      /\ screen' = [screen EXCEPT ![o] = flight[o].id.frame]
      /\ UNCHANGED <<pipelines, scanning, ready, flight, poweringOff, wake, requests, queue,
                     events, rebased>>
  BY DEF PageFlip, frames
<1>2. Lit' = Lit
  BY <1>1 DEF Lit
<1>3. flight[o].id.frame \in Buffers
  BY DEF IInv, TypeOK, CommitIds
<1>4. TypeOK'
  BY <1>1, <1>2, <1>3 DEF IInv, TypeOK
<1>5. Jobs'
  BY <1>1, Zenon DEF IInv, Jobs
<1>6. \A p \in Outputs : screen'[p] = IF p = o THEN flight[o].id.frame ELSE screen[p]
  BY <1>1 DEF IInv, TypeOK
<1>7. flips \subseteq Outputs
  BY DEF IInv, TypeOK, Lit, Range
<1>8. Located'
  BY <1>1, <1>6, <1>7 DEF IInv, Located
<1>9. Counted'
  BY <1>1, Zenon DEF IInv, Counted, Queued, Awaiting
<1> QED
  BY <1>4, <1>5, <1>8, <1>9 DEF IInv

\* handle_completions: the flip is that of the only frame in flight, which has no job.
LEMMA CompleteFlipKeeps ==
  ASSUME IInv, NEW o \in Outputs, CompleteFlip(o)
  PROVE  IInv'
<1>1. /\ ~rebased /\ o \in flips /\ flight[o].stage = "submitted"
      /\ flips' = flips \ {o}
      /\ scanning' = [scanning EXCEPT ![o] = flight[o].id.frame]
      /\ flight' = [flight EXCEPT ![o] = Idle]
      /\ UNCHANGED <<pipelines, ready, poweringOff, wake, requests, queue, events, kms, screen,
                     rebased>>
  BY DEF CompleteFlip, Serving
<1>2. Lit' = Lit
  BY <1>1 DEF Lit
<1>3. /\ flight[o].id.frame \in Buffers
      /\ Idle \in [stage : {"none", "scheduled", "submitted"}, id : CommitIds]
  BY SchedulerConstants DEF IInv, TypeOK, CommitIds, Idle, Buffers
<1>4. TypeOK'
  BY <1>1, <1>2, <1>3 DEF IInv, TypeOK
<1>5. \A p \in Outputs : flight'[p] = IF p = o THEN Idle ELSE flight[p]
  BY <1>1 DEF IInv, TypeOK
<1>6. o \notin kms /\ \A c \in queue : c.output # o
  BY <1>1 DEF IInv, Located
<1>7. /\ \A c \in queue : c.output \in Outputs
      /\ kms \cup flips \subseteq Outputs
  BY DEF IInv, TypeOK, Lit, Range
<1>8. Jobs'
  BY <1>1, <1>5, <1>6, <1>7 DEF IInv, Jobs
<1>9. Located'
  BY <1>1, <1>5, <1>6, <1>7 DEF IInv, Located
<1>10. \A id : Awaiting(id)' = Awaiting(id) /\ Queued(id)' = Queued(id)
  BY <1>1, <1>5 DEF Awaiting, Queued, Idle
<1>11. Counted'
  BY <1>1, <1>10, Zenon DEF IInv, Counted
<1> QED
  BY <1>4, <1>8, <1>9, <1>11 DEF IInv

\* One frame leaves the set of scheduled frames of its id, and no other set.
LEMMA SubmittedLeaves ==
  ASSUME NEW S, IsFiniteSet(S), NEW x \in S
  PROVE  Cardinality(S \ {x}) = Cardinality(S) - 1
BY FS_RemoveElement, Zenon

\* acknowledge_volition_events: a report and a scheduled frame of its id go together.
LEMMA AcknowledgeKeeps ==
  ASSUME IInv, Acknowledge
  PROVE  IInv'
<1> DEFINE e == Head(events)
           Events == [id : CommitIds, stalled : BOOLEAN, owned : BOOLEAN]
<1>1. /\ events # <<>> /\ events' = Tail(events)
      /\ UNCHANGED <<pipelines, scanning, ready, poweringOff, wake, requests>>
  BY Zenon DEF Acknowledge
<1>2. \/ ~e.owned /\ UNCHANGED <<flight, queue, kms, flips, screen, rebased>>
      \/ e.owned /\ e.stalled /\ ResetDevice /\ flight' = flight
      \/ /\ e.owned /\ UNCHANGED <<queue, kms, flips, screen, rebased>>
         /\ \E i \in Scheduled(e.id) :
               flight' = [flight EXCEPT ![pipelines[i]].stage = "submitted"]
  BY Zenon DEF Acknowledge, Owns, display
<1>3. Lit' = Lit
  BY <1>1 DEF Lit
<1>4. events \in Seq(Events) /\ events' \in Seq(Events) /\ e.id \in CommitIds
  <2>1. events \in Seq(Events)
    BY DEF IInv, TypeOK
  <2>2. e \in Events /\ Tail(events) \in Seq(Events)
    BY <1>1, <2>1, HeadTailProperties
  <2> QED
    BY <1>1, <2>1, <2>2
<1>5. \A id : /\ Cardinality(Reported(events', id)) \in Nat
              /\ Cardinality(Reported(events, id)) =
                    Cardinality(Reported(events', id)) + (IF e.owned /\ e.id = id THEN 1 ELSE 0)
  <2> HIDE DEF Events, e
  <2> TAKE id
  <2>1. Cardinality(Reported(events', id)) \in Nat
    BY <1>4, ReportedFinite
  <2>2. Cardinality(Reported(events, id)) =
           Cardinality(Reported(Tail(events), id)) + (IF e.owned /\ e.id = id THEN 1 ELSE 0)
    BY <1>1, <1>4, ReportedTail DEF e
  <2> QED
    BY <1>1, <2>1, <2>2
<1>6. \A id \in CommitIds :
         /\ Cardinality(Reported(events, id)) + Cardinality(Queued(id)) <= Cardinality(Awaiting(id))
         /\ Cardinality(Queued(id)) \in Nat /\ Cardinality(Awaiting(id)) \in Nat
         /\ IsFiniteSet(Awaiting(id))
  BY CountsFinite DEF IInv, Counted
<1>7. CASE ~e.owned /\ UNCHANGED <<flight, queue, kms, flips, screen, rebased>>
  <2>1. TypeOK'
    BY <1>1, <1>3, <1>4, <1>7 DEF IInv, TypeOK
  <2>2. Jobs' /\ Located'
    BY <1>7, Zenon DEF IInv, Jobs, Located
  <2>3. \A id : Awaiting(id)' = Awaiting(id) /\ Queued(id)' = Queued(id)
    BY <1>7, Zenon DEF Awaiting, Queued
  <2>4. \A id \in CommitIds : Cardinality(Reported(events', id)) = Cardinality(Reported(events, id))
    BY <1>5, <1>7
  <2>5. Counted'
    BY <1>6, <2>3, <2>4, Zenon DEF Counted, Reported
  <2> QED
    BY <2>1, <2>2, <2>5 DEF IInv
<1>8. CASE e.owned /\ e.stalled /\ ResetDevice /\ flight' = flight
  <2>1. /\ queue' = {} /\ kms' = {} /\ flips' \in SUBSET kms
        /\ screen' = [o \in Outputs |-> Dark]
        /\ rebased' = TRUE /\ flight' = flight
    BY <1>8 DEF ResetDevice
  <2>2. TypeOK'
    BY <1>1, <1>3, <1>4, <2>1 DEF IInv, TypeOK
  <2>3. Jobs' /\ Located'
    BY <2>1 DEF IInv, Jobs, Located
  <2>4. \A id : Awaiting(id)' = Awaiting(id) /\ Queued(id)' = {}
    BY <2>1 DEF Awaiting, Queued
  <2>5. \A id \in CommitIds :
           Cardinality(Reported(events', id)) + 0 <= Cardinality(Awaiting(id))
    BY <1>5, <1>6
  <2>6. Counted'
    BY <2>4, <2>5, FS_EmptySet, Zenon DEF Counted, Reported
  <2> QED
    BY <2>2, <2>3, <2>6 DEF IInv
<1>9. CASE /\ e.owned /\ UNCHANGED <<queue, kms, flips, screen, rebased>>
           /\ \E i \in Scheduled(e.id) :
                 flight' = [flight EXCEPT ![pipelines[i]].stage = "submitted"]
  <2>1. PICK i \in Scheduled(e.id) : flight' = [flight EXCEPT ![pipelines[i]].stage = "submitted"]
    BY <1>9
  <2> DEFINE o == pipelines[i]
  <2>2. o \in Outputs /\ flight[o].stage = "scheduled" /\ flight[o].id = e.id
    BY DEF Scheduled, IInv, TypeOK
  <2>3. o \in Lit
    BY DEF Scheduled, Lit, Range
  <2> HIDE DEF o
  <2>4. flight' = [flight EXCEPT ![o].stage = "submitted"]
    BY <2>1 DEF o
  <2>5. /\ flight'[o] = [stage |-> "submitted", id |-> flight[o].id]
        /\ \A p \in Outputs : p # o => flight'[p] = flight[p]
    BY <2>2, <2>4 DEF IInv, TypeOK
  <2>6. TypeOK'
    BY <1>1, <1>3, <1>4, <1>9, <2>2, <2>3, <2>4, <2>5 DEF IInv, TypeOK
  <2>7. \A p \in Outputs : /\ flight'[p].id = flight[p].id
                           /\ flight'[p].stage = "none" <=> flight[p].stage = "none"
                           /\ flight'[p].stage = "none" => flight'[p] = flight[p]
    BY <2>2, <2>5
  <2>8. /\ \A c \in queue : c.output \in Outputs
        /\ kms \cup flips \subseteq Outputs
    BY DEF IInv, TypeOK, Lit, Range
  <2>9. Jobs'
    BY <1>9, <2>7, <2>8 DEF IInv, Jobs
  <2>10. Located'
    BY <1>9, <2>7, <2>8 DEF IInv, Located
  <2>11. Counted'
    <3> SUFFICES ASSUME NEW id \in CommitIds
                 PROVE  Cardinality(Reported(events', id)) + Cardinality(Queued(id)')
                           <= Cardinality(Awaiting(id)')
      BY Zenon DEF Counted, Reported
    <3>1. Queued(id)' = Queued(id)
      BY <1>9 DEF Queued
    <3>2. CASE id = e.id
      <4>1. Awaiting(id)' = Awaiting(id) \ {o} /\ o \in Awaiting(id)
        BY <2>2, <2>5, <3>2 DEF Awaiting
      <4>2. Cardinality(Awaiting(id) \ {o}) = Cardinality(Awaiting(id)) - 1
        BY <1>6, <4>1, SubmittedLeaves
      <4>3. Cardinality(Reported(events, id)) = Cardinality(Reported(events', id)) + 1
        BY <1>5, <1>9, <3>2
      <4>4. Cardinality(Awaiting(id)') = Cardinality(Awaiting(id)) - 1
        BY <4>1, <4>2
      <4> QED
        BY <1>5, <1>6, <3>1, <4>3, <4>4
    <3>3. CASE id # e.id
      <4>1. Awaiting(id)' = Awaiting(id)
        BY <2>2, <2>5, <3>3 DEF Awaiting
      <4>2. Cardinality(Reported(events, id)) = Cardinality(Reported(events', id))
        BY <1>5, <3>3
      <4> QED
        BY <1>6, <3>1, <4>1, <4>2
    <3> QED
      BY <3>2, <3>3
  <2> QED
    BY <2>6, <2>9, <2>10, <2>11 DEF IInv
<1> QED
  BY <1>2, <1>7, <1>8, <1>9

\* presentation_stall and the recovery: the latch makes the rest of the record irrelevant.
LEMMA StallKeeps ==
  ASSUME IInv, Stall
  PROVE  IInv'
<1>1. /\ queue' = {} /\ kms' = {} /\ flips' \in SUBSET kms
      /\ screen' = [o \in Outputs |-> Dark] /\ rebased' = TRUE
      /\ UNCHANGED <<pipelines, scanning, ready, flight, poweringOff, wake, requests, events>>
  BY DEF Stall, ResetDevice, frames
<1>2. Lit' = Lit
  BY <1>1 DEF Lit
<1>3. TypeOK'
  BY <1>1, <1>2 DEF IInv, TypeOK
<1>4. Jobs' /\ Located'
  BY <1>1 DEF IInv, Jobs, Located
<1>5. \A id : Awaiting(id)' = Awaiting(id) /\ Cardinality(Queued(id)') = 0
  <2>1. \A id : Awaiting(id)' = Awaiting(id) /\ Queued(id)' = {}
    BY <1>1 DEF Awaiting, Queued
  <2> QED
    BY <2>1, FS_EmptySet, Zenon
<1>6. \A id \in CommitIds :
         /\ Cardinality(Reported(events, id)) + Cardinality(Queued(id)) <= Cardinality(Awaiting(id))
         /\ Cardinality(Queued(id)) \in Nat /\ Cardinality(Awaiting(id)) \in Nat
         /\ Cardinality(Reported(events, id)) \in Nat
  BY CountsFinite DEF IInv, Counted
<1>7. \A id \in CommitIds : Cardinality(Reported(events, id)) + 0 <= Cardinality(Awaiting(id))
  BY <1>6
<1>8. Counted'
  BY <1>1, <1>5, <1>7, Zenon DEF Counted, Reported
<1> QED
  BY <1>3, <1>4, <1>8 DEF IInv

\* A VT switch: the jobs that Volition tried are reported, each once.
LEMMA TriedReports ==
  ASSUME IInv, NEW tried \in SUBSET queue, NEW order \in Orders(tried)
  PROVE  LET added == [i \in DOMAIN order |-> Report(order[i], TRUE)] IN
         /\ added \in Seq([id : CommitIds, stalled : BOOLEAN, owned : BOOLEAN])
         /\ \A id : /\ IsFiniteSet({c \in tried : c.id = id})
                    /\ Cardinality({c \in tried : c.id = id}) \in Nat
                    /\ Cardinality(Reported(added, id)) <= Cardinality({c \in tried : c.id = id})
<1> DEFINE added == [i \in DOMAIN order |-> Report(order[i], TRUE)]
           Events == [id : CommitIds, stalled : BOOLEAN, owned : BOOLEAN]
<1>1. IsFiniteSet(queue) /\ IsFiniteSet(tried)
  BY CountsFinite, FS_Subset DEF IInv
<1>2. /\ order \in Seq(tried) /\ DOMAIN order = 1 .. Cardinality(tried)
      /\ IsInjective(order)
  BY <1>1, Enumerates
<1>3. Cardinality(tried) \in Nat
  BY <1>1, FS_CardinalityType
<1>4. \A i \in DOMAIN order : order[i] \in tried
  BY <1>2, Vector
<1>5. \A i \in DOMAIN order : Report(order[i], TRUE) \in Events
  BY <1>4 DEF IInv, TypeOK, Report
<1>6. added \in Seq(Events)
  <2>1. added \in [1 .. Cardinality(tried) -> Events]
    BY <1>2, <1>5
  <2> QED
    <3> HIDE DEF added, Events
    <3> QED
      BY <1>3, <2>1, Vector
<1>7. ASSUME NEW id
      PROVE  /\ IsFiniteSet({c \in tried : c.id = id})
             /\ Cardinality({c \in tried : c.id = id}) \in Nat
             /\ Cardinality(Reported(added, id)) <= Cardinality({c \in tried : c.id = id})
  <2> DEFINE mine == {c \in tried : c.id = id}
             job == [i \in Reported(added, id) |-> order[i]]
  <2>1. mine \in SUBSET tried
    OBVIOUS
  <2>2. IsFiniteSet(mine)
    BY <1>1, <2>1, FS_Subset
  <2>3. \A i \in Reported(added, id) : i \in DOMAIN order /\ order[i] \in mine
    BY <1>4 DEF Reported, Report
  <2>4. job \in Injection(Reported(added, id), mine)
    BY <1>2, <2>3 DEF Injection, IsInjective
  <2> HIDE DEF mine, job, added
  <2>5. Cardinality(Reported(added, id)) <= Cardinality(mine)
    BY <2>2, <2>4, FS_Injection
  <2>6. Cardinality(mine) \in Nat
    BY <2>2, FS_CardinalityType
  <2> QED
    BY <2>2, <2>5, <2>6 DEF mine
<1> QED
  BY <1>6, <1>7

\* service_session_lifecycle: it adds reports only for jobs that are gone when the loop goes on.
LEMMA SwitchSessionKeeps ==
  ASSUME IInv, SwitchSession
  PROVE  IInv'
<1>1. PICK tried \in SUBSET queue : \E order \in Orders(tried) :
        /\ events' = events \o [i \in DOMAIN order |-> Report(order[i], TRUE)]
        /\ \/ ResetDevice
           \/ /\ queue' = queue \ tried
              /\ kms' = {} /\ flips' \in SUBSET kms
              /\ screen' = [o \in Outputs |-> IF o \in Lit THEN scanning[o] ELSE Dark]
              /\ rebased' = TRUE
  BY Zenon DEF SwitchSession
<1>2. PICK order \in Orders(tried) :
        /\ events' = events \o [i \in DOMAIN order |-> Report(order[i], TRUE)]
        /\ \/ ResetDevice
           \/ /\ queue' = queue \ tried
              /\ kms' = {} /\ flips' \in SUBSET kms
              /\ screen' = [o \in Outputs |-> IF o \in Lit THEN scanning[o] ELSE Dark]
              /\ rebased' = TRUE
  BY <1>1, Zenon
<1> DEFINE added == [i \in DOMAIN order |-> Report(order[i], TRUE)]
           Events == [id : CommitIds, stalled : BOOLEAN, owned : BOOLEAN]
           mine(id) == {c \in tried : c.id = id}
<1>3. /\ queue' \subseteq queue \ tried \/ queue' = {}
      /\ kms' = {} /\ flips' \in SUBSET kms /\ rebased' = TRUE
  BY <1>2 DEF ResetDevice
<1>4. screen' \in [Outputs -> Buffers \cup {Dark}]
  BY <1>2 DEF ResetDevice, IInv, TypeOK
<1>5. UNCHANGED <<pipelines, scanning, ready, flight, poweringOff, wake, requests>>
  BY Zenon DEF SwitchSession, frames
<1>6. Lit' = Lit
  BY <1>5 DEF Lit
<1>7. /\ events \in Seq(Events) /\ added \in Seq(Events)
      /\ \A id : /\ IsFiniteSet(mine(id)) /\ Cardinality(mine(id)) \in Nat
                 /\ Cardinality(Reported(added, id)) <= Cardinality(mine(id))
  BY TriedReports, Zenon DEF IInv, TypeOK
<1>8. events' \in Seq(Events) /\ events' = events \o added
  BY <1>2, <1>7, ConcatProperties
<1>9. TypeOK'
  BY <1>3, <1>4, <1>5, <1>6, <1>8 DEF IInv, TypeOK
<1>10. Jobs'
  <2>1. queue' \subseteq queue
    BY <1>3
  <2> QED
    BY <1>5, <2>1 DEF IInv, Jobs
<1>11. Located'
  BY <1>3 DEF Located
<1>12. Counted'
  <2> SUFFICES ASSUME NEW id \in CommitIds
               PROVE  Cardinality(Reported(events', id)) + Cardinality(Queued(id)')
                         <= Cardinality(Awaiting(id)')
    BY Zenon DEF Counted, Reported
  <2>1. /\ IsFiniteSet(Queued(id)) /\ Cardinality(Queued(id)) \in Nat
        /\ Cardinality(Awaiting(id)) \in Nat
        /\ Cardinality(Reported(events, id)) \in Nat
    BY CountsFinite DEF IInv
  <2>2. Cardinality(Reported(events, id)) + Cardinality(Queued(id)) <= Cardinality(Awaiting(id))
    BY DEF IInv, Counted
  <2>3. Awaiting(id)' = Awaiting(id)
    BY <1>5 DEF Awaiting
  <2>4. /\ Cardinality(Reported(events', id)) =
              Cardinality(Reported(events, id)) + Cardinality(Reported(added, id))
        /\ Cardinality(Reported(added, id)) \in Nat
    <3> HIDE DEF added, Events
    <3> QED
      BY <1>7, <1>8, ReportedConcat, ReportedFinite
  <2> HIDE DEF added
  <2>5. Queued(id)' \in SUBSET (Queued(id) \ mine(id))
    BY <1>3 DEF Queued
  <2>6. mine(id) \subseteq Queued(id)
    BY DEF Queued
  <2>7. Cardinality(Queued(id)') \in Nat
        /\ Cardinality(Queued(id)') <= Cardinality(Queued(id)) - Cardinality(mine(id))
    <3> DEFINE M == mine(id)
               Q == Queued(id)
               R == Queued(id)'
    <3>1. IsFiniteSet(Q) /\ M \subseteq Q /\ R \in SUBSET (Q \ M)
      BY <2>1, <2>5, <2>6
    <3> HIDE DEF M, Q, R
    <3>2. Q \cap M = M
      BY <3>1
    <3>3. IsFiniteSet(Q \ M) /\ Cardinality(Q \ M) = Cardinality(Q) - Cardinality(Q \cap M)
      BY <3>1, FS_Difference, Zenon
    <3>4. IsFiniteSet(R) /\ Cardinality(R) <= Cardinality(Q \ M)
      BY <3>1, <3>3, FS_Subset, Zenon
    <3>5. Cardinality(R) \in Nat
      BY <3>4, FS_CardinalityType
    <3>6. Cardinality(Q \cap M) = Cardinality(M)
      BY <3>2, Zenon
    <3>7. Cardinality(R) <= Cardinality(Q) - Cardinality(M)
      BY <3>3, <3>4, <3>6
    <3> QED
      BY <3>5, <3>7 DEF M, Q, R
  <2>8. Cardinality(Reported(added, id)) <= Cardinality(mine(id)) /\ Cardinality(mine(id)) \in Nat
    BY <1>7, Zenon
  <2> HIDE DEF mine
  <2> QED
    BY <2>1, <2>2, <2>3, <2>4, <2>7, <2>8
<1> QED
  BY <1>9, <1>10, <1>11, <1>12 DEF IInv

\* A new scheduler: nothing is in flight, and no queued event is one of its own.
LEMMA ReplaceKeeps ==
  ASSUME IInv, Replace
  PROVE  IInv'
<1> DEFINE Events == [id : CommitIds, stalled : BOOLEAN, owned : BOOLEAN]
<1>1. /\ pipelines' \in InOrder(Lit, Below)
      /\ ready' = {} /\ flight' = [o \in Outputs |-> Idle]
      /\ poweringOff' = {} /\ wake' = {}
      /\ queue' = {} /\ kms' = {} /\ flips' = {}
      /\ screen' = [o \in Outputs |-> IF o \in Lit THEN scanning[o] ELSE Dark]
      /\ events' = [i \in DOMAIN events |-> [events[i] EXCEPT !.owned = FALSE]]
      /\ rebased' = FALSE /\ scanning' = scanning /\ requests' = requests
  BY Zenon DEF Replace
<1>2. Lit \in SUBSET Outputs
  BY DEF IInv, TypeOK, Lit, Range
<1>3. IsFiniteSet(Lit)
  BY <1>2, OutputsFinite, FS_Subset
<1>4. pipelines' \in Seq(Lit) /\ IsInjective(pipelines') /\ Lit' = Lit
  BY <1>1, <1>3, Sorted DEF Lit
<1>5. pipelines' \in Seq(Outputs)
  BY <1>2, <1>4
<1>6. Idle \in [stage : {"none", "scheduled", "submitted"}, id : CommitIds]
  BY SchedulerConstants DEF Idle, CommitIds, Buffers
<1>7. events' \in Seq(Events)
  <2>1. events \in Seq(Events)
    BY DEF IInv, TypeOK
  <2>2. DOMAIN events = 1 .. Len(events) /\ Len(events) \in Nat
    BY <2>1, LenProperties
  <2>3. \A i \in DOMAIN events : [events[i] EXCEPT !.owned = FALSE] \in Events
    <3> HIDE DEF Events
    <3>1. \A i \in DOMAIN events : events[i] \in Events
      BY <2>1, Vector
    <3> QED
      BY <3>1 DEF Events
  <2>4. events' \in [1 .. Len(events) -> Events]
    BY <1>1, <2>2, <2>3
  <2> QED
    <3> HIDE DEF Events
    <3> QED
      BY <2>2, <2>4, Vector
<1>8. TypeOK'
  <2>1. /\ scanning' \in [Outputs -> Buffers]
        /\ screen' \in [Outputs -> Buffers \cup {Dark}]
        /\ flight' \in [Outputs -> [stage : {"none", "scheduled", "submitted"}, id : CommitIds]]
        /\ requests' \in [Outputs -> {"none", "on", "off"}]
    BY <1>1, <1>6 DEF IInv, TypeOK
  <2>2. \A o \in Outputs : flight'[o] = Idle
    BY <1>1
  <2> QED
    BY <1>1, <1>4, <1>5, <1>7, <2>1, <2>2 DEF TypeOK
<1>9. Jobs' /\ Located'
  BY <1>1 DEF Jobs, Located
<1>10. Counted'
  <2>1. \A i \in DOMAIN events' : ~events'[i].owned
    <3>1. events \in Seq(Events)
      BY DEF IInv, TypeOK
    <3>2. \A i \in DOMAIN events : events[i] \in Events
      <4> HIDE DEF Events
      <4> QED
        BY <3>1, Vector
    <3> QED
      BY <1>1, <3>2
  <2>2. \A id : Reported(events', id) = {} /\ Queued(id)' = {} /\ Awaiting(id)' = {}
    BY <1>1, <2>1 DEF Reported, Queued, Awaiting, Idle
  <2>3. \A id : /\ Cardinality(Reported(events', id)) = 0
                /\ Cardinality(Queued(id)') = 0 /\ Cardinality(Awaiting(id)') = 0
    BY <2>2, FS_EmptySet, Zenon
  <2> QED
    BY <2>3 DEF Counted, Reported
<1> QED
  BY <1>8, <1>9, <1>10 DEF IInv

\* The vector of pipelines after power changes: those that stay, then those that were added.
LEMMA JoinedVectors ==
  ASSUME NEW U, NEW s \in Seq(U), NEW t \in Seq(U), IsInjective(s), IsInjective(t),
         Range(s) \cap Range(t) = {}
  PROVE  /\ s \o t \in Seq(U) /\ IsInjective(s \o t)
         /\ Range(s \o t) = Range(s) \cup Range(t)
<1> DEFINE n == Len(s)
           m == Len(t)
           v == s \o t
<1>1. /\ DOMAIN s = 1 .. n /\ n \in Nat
      /\ DOMAIN t = 1 .. m /\ m \in Nat
  BY LenProperties
<1>2. /\ v \in Seq(U)
      /\ DOMAIN v = 1 .. n + m
      /\ \A i \in 1 .. n + m : v[i] = IF i <= n THEN s[i] ELSE t[i - n]
  BY <1>1, ConcatProperties, LenProperties
<1> DEFINE A == Range(s)
           B == Range(t)
<1>3. A \cap B = {}
  OBVIOUS
<1>4. /\ \A i \in 1 .. n : s[i] \in A
      /\ \A i \in 1 .. m : t[i] \in B
  BY <1>1 DEF Range
<1> HIDE DEF n, m, v, A, B
<1>5. /\ \A i \in 1 .. n : v[i] = s[i] /\ v[i] \in A
      /\ \A i \in n + 1 .. n + m : i - n \in 1 .. m /\ v[i] = t[i - n] /\ v[i] \in B
  BY <1>1, <1>2, <1>4
<1>6. IsInjective(v)
  <2> SUFFICES ASSUME NEW i \in 1 .. n + m, NEW j \in 1 .. n + m, v[i] = v[j]
               PROVE  i = j
    BY <1>2 DEF IsInjective
  <2>1. CASE i \in 1 .. n /\ j \in 1 .. n
    BY <1>1, <1>5, <2>1 DEF IsInjective
  <2>2. CASE i \in n + 1 .. n + m /\ j \in n + 1 .. n + m
    <3>1. t[i - n] = t[j - n] /\ i - n \in 1 .. m /\ j - n \in 1 .. m
      BY <1>5, <2>2
    <3>2. i - n = j - n
      BY <1>1, <3>1 DEF IsInjective
    <3> QED
      BY <1>1, <3>2
  <2>3. CASE \/ i \in 1 .. n /\ j \in n + 1 .. n + m
             \/ j \in 1 .. n /\ i \in n + 1 .. n + m
    <3>1. v[i] \in A \cap B
      BY <1>5, <2>3
    <3> QED
      BY <1>3, <3>1
  <2> QED
    BY <1>1, <2>1, <2>2, <2>3
<1>7. Range(v) = A \cup B
  <2>1. \A x \in A : x \in Range(v)
    <3> TAKE x \in A
    <3>1. PICK i \in 1 .. n : s[i] = x
      BY <1>1 DEF Range, A
    <3>2. i \in DOMAIN v /\ v[i] = x
      BY <1>1, <1>2, <1>5, <3>1
    <3> QED
      BY <3>2 DEF Range
  <2>2. \A x \in B : x \in Range(v)
    <3> TAKE x \in B
    <3>1. PICK i \in 1 .. m : t[i] = x
      BY <1>1 DEF Range, B
    <3>2. n + i \in n + 1 .. n + m /\ (n + i) - n = i
      BY <1>1
    <3>3. n + i \in DOMAIN v /\ v[n + i] = x
      BY <1>1, <1>2, <1>5, <3>1, <3>2
    <3> QED
      BY <3>3 DEF Range
  <2>3. Range(v) \subseteq A \cup B
    <3>1. \A i \in DOMAIN v : v[i] \in A \cup B
      BY <1>1, <1>2, <1>5
    <3> QED
      BY <3>1 DEF Range
  <2> QED
    BY <2>1, <2>2, <2>3
<1> QED
  BY <1>2, <1>6, <1>7 DEF v, A, B

\* apply_output_power_requests: an output is cleared only while it has nothing in flight.
LEMMA ApplyPowerKeeps ==
  ASSUME IInv, NEW asked, ApplyPower(asked)
  PROVE  IInv'
<1> DEFINE r == Merged(asked)
           off == Off(r)
           on == On(r)
           waits == Waiting(r)
<1> HIDE DEF r, off, on, waits
<1>1. /\ ~rebased
      /\ \E done \in IF waits THEN {{}} ELSE {off, {}} :
            /\ \E kept \in InOrder(Lit \ done, Earlier), added \in InOrder(on, Below) :
                  pipelines' = kept \o added
            /\ wake' = (wake \ done) \cup on
            /\ screen' = [o \in Outputs |-> IF o \in done THEN Dark ELSE screen[o]]
      /\ ready' = ready \ off
      /\ poweringOff' = IF waits THEN (poweringOff \ Kept(r)) \cup off
                        ELSE poweringOff \ (Kept(r) \cup off)
      /\ requests' = [o \in Outputs |-> IF waits /\ o \in off THEN "off" ELSE "none"]
      /\ UNCHANGED <<scanning, flight, queue, events, kms, flips, rebased>>
  BY Zenon DEF ApplyPower, Serving, r, off, on, waits
<1>2. PICK done \in IF waits THEN {{}} ELSE {off, {}} :
        /\ \E kept \in InOrder(Lit \ done, Earlier), added \in InOrder(on, Below) :
              pipelines' = kept \o added
        /\ wake' = (wake \ done) \cup on
        /\ screen' = [o \in Outputs |-> IF o \in done THEN Dark ELSE screen[o]]
  BY <1>1, Zenon
<1>3. PICK kept \in InOrder(Lit \ done, Earlier), added \in InOrder(on, Below) :
        pipelines' = kept \o added
  BY <1>2, Zenon
<1>4. Lit \subseteq Outputs /\ off \subseteq Lit /\ on \subseteq Outputs \ Lit
  BY DEF IInv, TypeOK, Lit, Range, Off, On, off, on
<1>5. done = {} \/ (done = off /\ ~waits)
  BY <1>2
<1>6. done \subseteq off /\ \A o \in done : flight[o].stage = "none"
  BY <1>5 DEF off, waits, Waiting
<1> DEFINE stay == Lit \ done
<1> HIDE DEF stay
<1>7. /\ kept \in Seq(stay) /\ IsInjective(kept) /\ Range(kept) = stay
      /\ added \in Seq(on) /\ IsInjective(added) /\ Range(added) = on
  <2>1. stay \in SUBSET Outputs /\ on \in SUBSET Outputs
    BY <1>4 DEF stay
  <2>2. IsFiniteSet(stay) /\ IsFiniteSet(on)
    BY <2>1, OutputsFinite, FS_Subset
  <2>3. kept \in InOrder(stay, Earlier)
    BY Zenon DEF stay
  <2> QED
    BY <2>2, <2>3, Retained, Sorted
<1>8. stay \cap on = {}
  BY <1>4 DEF stay
<1>9. kept \in Seq(Outputs) /\ added \in Seq(Outputs)
  <2>1. stay \subseteq Outputs /\ on \subseteq Outputs
    BY <1>4 DEF stay
  <2> QED
    BY <1>7, <2>1
<1>10. /\ pipelines' \in Seq(Outputs) /\ IsInjective(pipelines')
       /\ Range(pipelines') = Range(kept) \cup Range(added)
  <2>1. Range(kept) \cap Range(added) = {}
    BY <1>7, <1>8
  <2>2. IsInjective(kept) /\ IsInjective(added)
    BY <1>7
  <2> QED
    BY <1>3, <1>9, <2>1, <2>2, JoinedVectors
<1>11. Lit' = stay \cup on
  BY <1>7, <1>10 DEF Lit
<1>12. \A o \in kms \cup flips : o \in stay
  BY <1>1, <1>6 DEF IInv, Located, TypeOK, stay
<1>13. ready' \cup poweringOff' \cup wake' \subseteq Lit'
  <2>1. ready \cup poweringOff \cup wake \subseteq Lit
    BY DEF IInv, TypeOK
  <2>2. ready' \subseteq Lit \ off
    BY <1>1, <2>1
  <2>3. wake' \subseteq (Lit \ done) \cup on
    BY <1>2, <2>1
  <2>4. poweringOff' \subseteq Lit \ done
    <3>1. CASE waits
      <4>1. done = {}
        BY <1>5, <3>1
      <4> QED
        BY <1>1, <1>4, <2>1, <3>1, <4>1
    <3>2. CASE ~waits
      BY <1>1, <1>6, <2>1, <3>2
    <3> QED
      BY <3>1, <3>2
  <2> QED
    BY <1>6, <1>11, <2>2, <2>3, <2>4 DEF stay
<1>14. TypeOK'
  <2>1. \A o \in Outputs \ Lit' : flight'[o] = Idle
    <3> TAKE o \in Outputs \ Lit'
    <3>1. o \notin Lit \/ o \in done
      BY <1>11 DEF stay
    <3>2. flight[o] = Idle
      BY <1>6, <3>1 DEF IInv, TypeOK, Jobs
    <3> QED
      BY <1>1, <3>2
  <2>2. /\ requests' \in [Outputs -> {"none", "on", "off"}]
        /\ screen' \in [Outputs -> Buffers \cup {Dark}]
    BY <1>1, <1>2 DEF IInv, TypeOK
  <2>3. kms' \cup flips' \subseteq Lit'
    BY <1>1, <1>11, <1>12
  <2>4. /\ scanning' \in [Outputs -> Buffers]
        /\ flight' \in [Outputs -> [stage : {"none", "scheduled", "submitted"}, id : CommitIds]]
        /\ queue' \subseteq [output : Outputs, id : CommitIds]
        /\ events' \in Seq([id : CommitIds, stalled : BOOLEAN, owned : BOOLEAN])
        /\ rebased' \in BOOLEAN
    BY <1>1 DEF IInv, TypeOK
  <2> QED
    BY <1>10, <1>13, <2>1, <2>2, <2>3, <2>4 DEF TypeOK
<1>15. Jobs'
  BY <1>1, Zenon DEF IInv, Jobs
<1>16. Located'
  <2>1. \A o \in flips : o \in Outputs /\ o \notin done
    BY <1>4, <1>12 DEF stay
  <2>2. \A o \in flips : screen'[o] = screen[o]
    BY <1>2, <2>1
  <2> QED
    BY <1>1, <2>2 DEF IInv, Located
<1>17. Counted'
  BY <1>1, Zenon DEF IInv, Counted, Queued, Awaiting, Reported
<1> QED
  BY <1>14, <1>15, <1>16, <1>17 DEF IInv

\* Every step of the scheduler, the worker, the display and the session keeps the invariant.
LEMMA StepKeeps == IInv /\ [Next]_vars => IInv'
<1> SUFFICES ASSUME IInv, [Next]_vars PROVE IInv'
  OBVIOUS
<1>1. ASSUME NEW o \in Outputs,
             PublishReady(o) \/ Submit(o) \/ VolitionCommit(o) \/ PageFlip(o) \/ CompleteFlip(o)
      PROVE  IInv'
  BY <1>1, PublishKeeps, SubmitKeeps, VolitionCommitKeeps, PageFlipKeeps, CompleteFlipKeeps
<1>2. ASSUME NEW asked \in Changes, ApplyPower(asked) PROVE IInv'
  BY <1>2, ApplyPowerKeeps
<1>3. CASE Acknowledge \/ Stall \/ SwitchSession \/ Replace
  BY <1>3, AcknowledgeKeeps, StallKeeps, SwitchSessionKeeps, ReplaceKeeps
<1>4. CASE UNCHANGED vars
  <2>1. UNCHANGED <<pipelines, scanning, ready, flight, poweringOff, wake, requests, queue,
                    events, kms, flips, screen, rebased>>
    BY <1>4 DEF vars, frames, display
  <2>2. TypeOK'
    BY <2>1, Zenon DEF IInv, TypeOK, Lit
  <2>3. Jobs' /\ Located'
    BY <2>1, Zenon DEF IInv, Jobs, Located
  <2>4. Counted'
    BY <2>1, Zenon DEF IInv, Counted, Queued, Awaiting, Reported
  <2> QED
    BY <2>2, <2>3, <2>4 DEF IInv
<1> QED
  BY <1>1, <1>2, <1>3, <1>4, Zenon DEF Next

-----------------------------------------------------------------------------
(* What follows *)

\* Each job is for its output's frame in flight, a commit is in one place until its flip is
\* retired, and of each id no more reports and jobs exist than scheduled frames.
THEOREM SchedulerInvariant == Spec => []IInv
<1> QED
  BY InitInvariant, StepKeeps, PTL DEF Spec

\* The invariant has the types, and a dark output keeps nothing.
THEOREM TypeCorrect == Spec => []TypeOK
<1>1. IInv => TypeOK
  BY DEF IInv
<1> QED
  BY <1>1, SchedulerInvariant, PTL

\* acknowledge_volition_events always finds a scheduled frame for an event of the living
\* instance, whatever moved the positions that commits are named by.
THEOREM AcknowledgementsFindFrames == Spec => []AcknowledgementsMatch
<1>1. IInv => AcknowledgementsMatch
  <2> SUFFICES ASSUME IInv, NEW i \in DOMAIN events, events[i].owned
               PROVE  Scheduled(events[i].id) # {}
    BY Zenon DEF AcknowledgementsMatch, Owns
  <2> DEFINE Events == [id : CommitIds, stalled : BOOLEAN, owned : BOOLEAN]
             id == events[i].id
  <2>1. id \in CommitIds
    <3>1. events \in Seq(Events)
      BY DEF IInv, TypeOK
    <3> HIDE DEF Events
    <3>2. events[i] \in Events
      BY <3>1, Vector
    <3> QED
      BY <3>2 DEF Events
  <2>2. i \in Reported(events, id)
    BY DEF Reported
  <2> HIDE DEF id
  <2>3. IsFiniteSet(Reported(events, id))
    <3>1. events \in Seq(Events)
      BY DEF IInv, TypeOK
    <3> HIDE DEF Events
    <3> QED
      BY <3>1, ReportedFinite
  <2>4. Cardinality(Reported(events, id)) # 0
    BY <2>2, <2>3, FS_EmptySet, Zenon
  <2>5. /\ Cardinality(Reported(events, id)) + Cardinality(Queued(id)) <= Cardinality(Awaiting(id))
        /\ Cardinality(Reported(events, id)) \in Nat /\ Cardinality(Queued(id)) \in Nat
        /\ Cardinality(Awaiting(id)) \in Nat /\ IsFiniteSet(Awaiting(id))
    BY <2>1, CountsFinite DEF IInv, Counted
  <2>6. Cardinality(Awaiting(id)) # 0
    BY <2>4, <2>5
  <2>7. Awaiting(id) # {}
    BY <2>5, <2>6, FS_EmptySet, Zenon
  <2>8. PICK o \in Outputs : flight[o].stage = "scheduled" /\ flight[o].id = id
    BY <2>7 DEF Awaiting
  <2>9. o \in Lit
    BY <2>8 DEF IInv, TypeOK, Idle
  <2>10. PICK k \in DOMAIN pipelines : pipelines[k] = o
    BY <2>9 DEF Lit, Range
  <2> QED
    BY <2>8, <2>10 DEF Scheduled, id
<1> QED
  BY <1>1, SchedulerInvariant, PTL

\* submit_ready is never told Backpressured: the other outputs have at most one job each.
THEOREM CapacityIsEnough == Spec => []CapacitySuffices
<1>1. IInv => CapacitySuffices
  <2> SUFFICES ASSUME IInv, NEW o \in Lit, Submittable(o)
               PROVE  Cardinality(queue) < OutputCount
    BY DEF CapacitySuffices, Capacity
  <2> DEFINE others == Outputs \ {o}
             where == [c \in queue |-> c.output]
  <2>1. o \in Outputs /\ flight[o].stage = "none"
    BY DEF Submittable, IInv, TypeOK, Lit, Range
  <2>2. where \in [queue -> others] /\ \A c, d \in queue : where[c] = where[d] => c = d
    BY <2>1 DEF IInv, TypeOK, Jobs
  <2>3. where \in Injection(queue, others)
    BY <2>2 DEF Injection, IsInjective
  <2> HIDE DEF others, where
  <2>4. IsFiniteSet(others) /\ Cardinality(others) = OutputCount - 1
    BY <2>1, OutputsFinite, FS_RemoveElement DEF others
  <2>5. IsFiniteSet(queue) /\ Cardinality(queue) <= Cardinality(others)
    BY <2>3, <2>4, FS_Injection
  <2>6. Cardinality(queue) \in Nat
    BY <2>5, FS_CardinalityType
  <2> QED
    BY <2>4, <2>5, <2>6, SchedulerConstants
<1> QED
  BY <1>1, SchedulerInvariant, PTL

\* handle_completions records as shown only what the CRTC shows: a flip event that a VT switch
\* or a reset left behind is never taken for that of a later frame.
THEOREM RetirementIsShown == Spec => RetiredIsShown
<1> DEFINE P == \A o \in Outputs : scanning'[o] # scanning[o] => scanning'[o] = screen[o]
<1>1. IInv /\ [Next]_vars => [P]_vars
  <2> SUFFICES ASSUME IInv, Next PROVE P
    OBVIOUS
  <2>1. ASSUME NEW o \in Outputs, CompleteFlip(o) PROVE P
    <3>1. /\ ~rebased /\ o \in flips
          /\ scanning' = [scanning EXCEPT ![o] = flight[o].id.frame]
      BY <2>1 DEF CompleteFlip, Serving
    <3>2. screen[o] = flight[o].id.frame
      BY <3>1 DEF IInv, Located
    <3> QED
      BY <3>1, <3>2 DEF IInv, TypeOK
  <2>2. CASE scanning' = scanning
    BY <2>2
  <2>3. ASSUME NEW o \in Outputs, PublishReady(o) \/ Submit(o) \/ VolitionCommit(o) \/ PageFlip(o)
        PROVE  scanning' = scanning
    BY <2>3, Zenon DEF PublishReady, Submit, VolitionCommit, PageFlip, frames
  <2>4. ASSUME NEW asked, ApplyPower(asked) PROVE scanning' = scanning
    BY <2>4, Zenon DEF ApplyPower
  <2>5. Acknowledge \/ Stall \/ SwitchSession \/ Replace => scanning' = scanning
    BY Zenon DEF Acknowledge, Stall, SwitchSession, Replace, frames
  <2> HIDE DEF P
  <2> QED
    BY <2>1, <2>2, <2>3, <2>4, <2>5, Zenon DEF Next
<1> QED
  BY <1>1, SchedulerInvariant, PTL DEF Spec, RetiredIsShown
=============================================================================
