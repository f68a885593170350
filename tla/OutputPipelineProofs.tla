------------------------ MODULE OutputPipelineProofs ------------------------
(***************************************************************************)
(* The inductive invariant of OutputPipeline, for every pool of at least   *)
(* three buffers and every set of tokens: the steps of Flutter and the     *)
(* GPU, of the display, and those of captures, power and replacement keep  *)
(* it, and the ownership and display properties follow.                    *)
(***************************************************************************)
EXTENDS OutputPipeline, TLAPS

InFlight == flight.stage # "none"

(* A slot lent to Flutter has no holder and no fence.                      *)
Lent == \A b \in Buffers : slot[b] # "Free" => refs[b] = 0 /\ token[b] = None

(* No two frames of the scheduler use the same buffer.                     *)
Distinct ==
    /\ ready # scanning
    /\ InFlight => flight.frame # scanning /\ flight.frame # ready
    /\ \A b \in Buffers : discard[b] =>
          b # scanning /\ b # ready /\ (InFlight => b # flight.frame)

(* A fence slot is claimed by the ready frame or a dropped one, and is     *)
(* signaled only after the GPU is done.                                    *)
Fenced ==
    \A b \in Buffers :
        /\ token[b] # None <=> (ready = b \/ discard[b])
        /\ signaled[b] => ready = b /\ ~gpu[b]
        /\ gpu[b] /\ slot[b] = "Free" => token[b] # None
        /\ slot[b] = "Rendering" => ~gpu[b]

(* A live watch is for the buffer's present claim, not yet signaled; the   *)
(* token of any other watch is on no slot.                                 *)
Watched ==
    \A w \in watches :
        IF w.live
        THEN token[w.index] = w.token /\ ~signaled[w.index]
        ELSE \A b \in Buffers : token[b] # w.token

(* Where the commit of the frame in flight is.                             *)
Tracked ==
    /\ ~InFlight =>
         /\ job.stage = "none" /\ next = None /\ flips = 0
         /\ scan = IF powered /\ ~wake THEN scanning ELSE None
    /\ InFlight => powered /\ ~wake /\ ~late
    /\ flight.stage = "scheduled" => job.stage # "none" /\ job.frame = flight.frame
    /\ flight.stage = "submitted" => job.stage = "none"
    /\ job.stage = "queued" => next = None /\ flips = 0
    /\ InFlight /\ job.stage = "queued" => scan = scanning
    /\ InFlight /\ job.stage # "queued" =>
         \/ next = flight.frame /\ flips = 0
         \/ next = None /\ flips = 1 /\ scan = flight.frame
    /\ InFlight => scan \in {None, scanning, flight.frame}

Parked ==
    /\ ~powered => ready = None /\ ~poweringOff /\ ~wake
    /\ poweringOff => ready = None

IndInv ==
    /\ TypeOK /\ Lent /\ RefsExact /\ Distinct /\ Fenced /\ Watched /\ Tracked /\ Parked

(* What the proofs need of the pool and the token set.                     *)
LEMMA Constants == 0 \in Buffers /\ None \notin Buffers /\ None \notin Tokens
BY PipelineConstants DEF Buffers

(* A buffer with no reference has no holder of any kind.                   *)
LEMMA Unheld ==
    ASSUME IndInv, NEW b \in Buffers, refs[b] = 0
    PROVE  /\ b # scanning /\ b # ready /\ ~discard[b] /\ leases[b] = 0
           /\ ~(InFlight /\ flight.frame = b)
           /\ token[b] = None
<1>1. refs[b] = Holders(b) + leases[b]
  BY DEF IndInv, RefsExact
<1>2. leases[b] \in Nat
  BY PipelineConstants DEF IndInv, TypeOK, BrokerType
<1>3. /\ b # scanning /\ b # ready /\ ~discard[b] /\ leases[b] = 0
      /\ ~(InFlight /\ flight.frame = b)
  BY <1>1, <1>2 DEF Holders, One, InFlight
<1>4. token[b] = None
  BY <1>3 DEF IndInv, Fenced
<1> QED
  BY <1>3, <1>4

(* The holders of a buffer exclude each other.                             *)
LEMMA Held ==
    ASSUME IndInv, NEW b \in Buffers
    PROVE  /\ refs[b] \in Nat /\ leases[b] \in Nat
           /\ b = scanning \/ b = ready \/ discard[b] \/ (InFlight /\ b = flight.frame)
                => refs[b] = 1 + leases[b]
           /\ ~(b = scanning \/ b = ready \/ discard[b] \/ (InFlight /\ b = flight.frame))
                => refs[b] = leases[b]
<1>1. refs[b] = Holders(b) + leases[b] /\ refs[b] \in Nat /\ leases[b] \in Nat
  BY PipelineConstants DEF IndInv, RefsExact, TypeOK, BrokerType
<1> QED
  BY <1>1 DEF Holders, One, InFlight, IndInv, Distinct

(* What dropping the ready frame (D holds it, or nothing), and at a page   *)
(* flip releasing the scanned one (S), does to buffers and fences.         *)
LEMMA Dropped ==
    ASSUME IndInv, NEW D \in SUBSET ({ready} \ {None}), NEW S \in SUBSET {scanning},
           DiscardReady(D), ReleaseOutput(S \cup Rendered(D)),
           ready' = IF D = {} THEN ready ELSE None,
           slot' = slot, gpu' = gpu, watches' = watches
    PROVE  /\ refs' \in [Buffers -> Nat] /\ FenceType'
           /\ Lent' /\ Fenced' /\ Watched'
           /\ \A b \in Buffers :
                /\ refs'[b] = IF b \in S \/ (b \in D /\ signaled[b]) THEN refs[b] - 1
                                                                    ELSE refs[b]
                /\ discard'[b] = (discard[b] \/ (b \in D /\ ~signaled[b]))
<1> USE Constants
<1>0. /\ ready \in Buffers \cup {None} /\ scanning \in Buffers /\ ready # scanning
      /\ FenceType
      /\ \A b \in Buffers : signaled[b] \in BOOLEAN /\ discard[b] \in BOOLEAN
  BY DEF IndInv, TypeOK, PipelineType, FenceType, Distinct
<1>1. \A b \in Buffers :
        /\ b \in D => b = ready
        /\ refs'[b] = IF b \in S \/ (b \in D /\ signaled[b]) THEN refs[b] - 1 ELSE refs[b]
        /\ token'[b] = IF b \in D /\ signaled[b] THEN None ELSE token[b]
        /\ signaled'[b] = (signaled[b] /\ b \notin D)
        /\ discard'[b] = (discard[b] \/ (b \in D /\ ~signaled[b]))
  BY <1>0 DEF DiscardReady, ReleaseOutput, Rendered
<1>2. \A b \in Buffers : b \in S \/ b \in D => refs[b] \in Nat /\ refs[b] >= 1
  <2> SUFFICES ASSUME NEW b \in Buffers, b \in S \/ b \in D
               PROVE refs[b] \in Nat /\ refs[b] >= 1
    OBVIOUS
  <2>1. b = scanning \/ b = ready
    BY <1>1
  <2> QED
    BY <2>1, Held
<1>3. refs' \in [Buffers -> Nat]
  <2>1. \A b \in Buffers : refs'[b] \in Nat
    <3> SUFFICES ASSUME NEW b \in Buffers PROVE refs'[b] \in Nat
      OBVIOUS
    <3>1. refs[b] \in Nat
      BY Held
    <3> QED
      BY <3>1, <1>1, <1>2
  <2> QED
    BY <2>1 DEF ReleaseOutput
<1>4. FenceType'
  <2>1. watches' \subseteq Watches
    BY <1>0 DEF FenceType
  <2>2. \A b \in Buffers : token'[b] \in Tokens \cup {None}
    BY <1>0, <1>1 DEF FenceType
  <2> QED
    BY <2>1, <2>2 DEF FenceType, DiscardReady
<1>5. Lent'
  BY <1>1, <1>2 DEF IndInv, Lent
<1>6. Fenced'
  <2> SUFFICES ASSUME NEW b \in Buffers
               PROVE /\ token'[b] # None <=> (ready' = b \/ discard'[b])
                     /\ signaled'[b] => ready' = b /\ ~gpu'[b]
                     /\ gpu'[b] /\ slot'[b] = "Free" => token'[b] # None
                     /\ slot'[b] = "Rendering" => ~gpu'[b]
    BY DEF Fenced
  <2>1. /\ token[b] # None <=> (ready = b \/ discard[b])
        /\ signaled[b] => ready = b /\ ~gpu[b]
        /\ gpu[b] /\ slot[b] = "Free" => token[b] # None
        /\ slot[b] = "Rendering" => ~gpu[b]
        /\ discard[b] => b # ready
    BY DEF IndInv, Fenced, Distinct
  <2>2. CASE D = {}
    BY <2>1, <2>2, <1>1, Zenon
  <2>3. CASE D = {ready} /\ ready \in Buffers
    BY <2>1, <2>3, <1>1, <1>0, Zenon
  <2> QED
    BY <2>2, <2>3, <1>0
<1>7. Watched'
  <2> SUFFICES ASSUME NEW w \in watches
               PROVE IF w.live THEN token'[w.index] = w.token /\ ~signaled'[w.index]
                               ELSE \A b \in Buffers : token'[b] # w.token
    BY DEF Watched
  <2>1. w.index \in Buffers /\ w.token \in Tokens
    BY <1>0 DEF FenceType, Watches
  <2>2. IF w.live THEN token[w.index] = w.token /\ ~signaled[w.index]
                  ELSE \A b \in Buffers : token[b] # w.token
    BY DEF IndInv, Watched
  <2> QED
    BY <2>1, <2>2, <1>1, Zenon
<1> QED
  BY <1>1, <1>3, <1>4, <1>5, <1>6, <1>7

(* Dropping the ready frame while the others keep their buffers.           *)
LEMMA DroppedOnly ==
    ASSUME IndInv, NEW D \in SUBSET ({ready} \ {None}),
           DiscardReady(D), ReleaseOutput(Rendered(D)),
           ready' = IF D = {} THEN ready ELSE None,
           UNCHANGED <<slot, gpu, watches, scanning, flight, leases>>
    PROVE  /\ refs' \in [Buffers -> Nat] /\ FenceType'
           /\ Lent' /\ Fenced' /\ Watched' /\ RefsExact' /\ Distinct'
<1> USE Constants
<1>1. ReleaseOutput({} \cup Rendered(D))
  BY DEF ReleaseOutput
<1>2. /\ refs' \in [Buffers -> Nat] /\ FenceType' /\ Lent' /\ Fenced' /\ Watched'
      /\ \A b \in Buffers :
           /\ refs'[b] = IF b \in D /\ signaled[b] THEN refs[b] - 1 ELSE refs[b]
           /\ discard'[b] = (discard[b] \/ (b \in D /\ ~signaled[b]))
  <2>1. {} \in SUBSET {scanning}
    OBVIOUS
  <2>2. slot' = slot /\ gpu' = gpu /\ watches' = watches
    OBVIOUS
  <2>3. /\ refs' \in [Buffers -> Nat] /\ FenceType' /\ Lent' /\ Fenced' /\ Watched'
        /\ \A b \in Buffers :
             /\ refs'[b] = IF b \in {} \/ (b \in D /\ signaled[b]) THEN refs[b] - 1
                                                                  ELSE refs[b]
             /\ discard'[b] = (discard[b] \/ (b \in D /\ ~signaled[b]))
    BY <1>1, <2>1, <2>2, Dropped, Zenon
  <2> QED
    BY <2>3
<1>3. /\ ready \in Buffers \cup {None}
      /\ \A b \in Buffers : signaled[b] \in BOOLEAN /\ discard[b] \in BOOLEAN
  BY DEF IndInv, TypeOK, PipelineType, FenceType
<1>4. Distinct'
  <2>0. Distinct /\ scanning \in Buffers
    BY DEF IndInv, TypeOK, PipelineType
  <2>1. CASE D = {}
    BY <2>0, <2>1, <1>2, <1>3 DEF Distinct, InFlight
  <2>2. CASE D = {ready} /\ ready \in Buffers
    <3>1. ready' = None
      BY <2>2
    <3>2. \A b \in Buffers : discard'[b] => discard[b] \/ b = ready
      BY <2>2, <1>2, Zenon
    <3>3. flight \in [stage : {"none", "scheduled", "submitted"}, frame : Buffers]
      BY DEF IndInv, TypeOK, PipelineType
    <3> QED
      BY <2>0, <2>2, <3>1, <3>2, <3>3 DEF Distinct, InFlight
  <2> QED
    BY <2>1, <2>2, <1>3
<1>5. RefsExact'
  <2> SUFFICES ASSUME NEW b \in Buffers PROVE (refs[b] = Holders(b) + leases[b])'
    BY DEF RefsExact
  <2>1. /\ refs[b] = Holders(b) + leases[b]
        /\ discard[b] => b # scanning /\ b # ready /\ (InFlight => b # flight.frame)
        /\ ready # scanning
        /\ InFlight => flight.frame # scanning /\ flight.frame # ready
        /\ refs[b] \in Nat /\ leases[b] \in Nat
    BY Held DEF IndInv, RefsExact, Distinct
  <2>2. CASE D = {}
    BY <2>1, <2>2, <1>2, <1>3 DEF Holders, One
  <2>3. CASE D = {ready} /\ ready \in Buffers
    <3>1. CASE b = ready
      <4>1. ~discard[b] /\ b # scanning /\ ~(InFlight /\ flight.frame = b) /\ ready' = None
        BY <2>1, <2>3, <3>1
      <4>2. CASE signaled[b]
        <5>1. refs'[b] = refs[b] - 1 /\ ~discard'[b]
          BY <2>3, <3>1, <4>1, <4>2, <1>2, Zenon
        <5> QED
          BY <2>1, <3>1, <4>1, <5>1 DEF Holders, One, InFlight
      <4>3. CASE ~signaled[b]
        <5>1. refs'[b] = refs[b] /\ discard'[b]
          BY <2>3, <3>1, <4>1, <4>3, <1>2, Zenon
        <5> QED
          BY <2>1, <3>1, <4>1, <5>1 DEF Holders, One, InFlight
      <4> QED
        BY <4>2, <4>3
    <3>2. CASE b # ready
      BY <2>1, <2>3, <3>2, <1>2, <1>3 DEF Holders, One, InFlight
    <3> QED
      BY <3>1, <3>2
  <2> QED
    BY <2>2, <2>3, <1>3
<1> QED
  BY <1>2, <1>4, <1>5

(* A step of Flutter or the GPU leaves the rest as it is.                  *)
LEMMA BrokerStep ==
    ASSUME IndInv, UNCHANGED <<refs, leases, pipeline, fences, request, kms>>
    PROVE  /\ FenceType' /\ PipelineType' /\ KmsType'
           /\ RefsExact' /\ Distinct' /\ Watched' /\ Tracked' /\ Parked'
<1> USE DEF IndInv, TypeOK, pipeline, fences, kms
<1>1. FenceType' /\ PipelineType' /\ KmsType'
  BY DEF FenceType, PipelineType, KmsType
<1>2. RefsExact' /\ Distinct'
  BY DEF RefsExact, Holders, Distinct, InFlight
<1>3. Watched' /\ Tracked' /\ Parked'
  BY DEF Watched, Tracked, Parked, InFlight
<1> QED
  BY <1>1, <1>2, <1>3

(* Authorize: an authorization touches no buffer.                          *)
LEMMA AuthorizeKeeps == IndInv /\ Authorize => IndInv'
<1> SUFFICES ASSUME IndInv, Authorize PROVE IndInv'
  OBVIOUS
<1> USE Constants DEF IndInv, fences, pipeline, kms
<1>1. UNCHANGED <<refs, leases, pipeline, fences, request, kms>>
  BY Zenon DEF Authorize
<1>2. BrokerType'
  BY DEF Authorize, BrokerType, TypeOK
<1>3. Lent'
  BY DEF Authorize, Lent, TypeOK, BrokerType, FenceType
<1>4. Fenced'
  BY DEF Authorize, Fenced, TypeOK, BrokerType, FenceType
<1> QED
  BY <1>1, <1>2, <1>3, <1>4, BrokerStep DEF TypeOK

(* DropAuthorization: so does giving it up.                                *)
LEMMA DropAuthorizationKeeps == IndInv /\ DropAuthorization => IndInv'
<1> SUFFICES ASSUME IndInv, DropAuthorization PROVE IndInv'
  OBVIOUS
<1> USE Constants DEF IndInv, fences, pipeline, kms
<1>1. UNCHANGED <<refs, leases, pipeline, fences, request, kms>>
  BY Zenon DEF DropAuthorization
<1>2. BrokerType'
  BY Zenon DEF DropAuthorization, BrokerType, TypeOK
<1>3. Lent'
  BY DEF DropAuthorization, Lent, TypeOK, BrokerType, FenceType
<1>4. Fenced'
  BY DEF DropAuthorization, Fenced, TypeOK, BrokerType, FenceType
<1> QED
  BY <1>1, <1>2, <1>3, <1>4, BrokerStep DEF TypeOK

(* MakeCurrent: abandoned renders had no holder.                           *)
LEMMA MakeCurrentKeeps == IndInv /\ MakeCurrent => IndInv'
<1> SUFFICES ASSUME IndInv, MakeCurrent PROVE IndInv'
  OBVIOUS
<1> USE Constants DEF IndInv, fences, pipeline, kms, RetireAbandoned
<1>1. UNCHANGED <<refs, leases, pipeline, fences, request, kms>>
  BY Zenon DEF MakeCurrent
<1>2. BrokerType'
  BY DEF MakeCurrent, BrokerType, TypeOK
<1>3. Lent'
  BY DEF MakeCurrent, Lent, TypeOK, BrokerType, FenceType
<1>4. Fenced'
  BY DEF MakeCurrent, Fenced, TypeOK, BrokerType, FenceType
<1> QED
  BY <1>1, <1>2, <1>3, <1>4, BrokerStep DEF TypeOK

(* Acquire: the free target has no holder and no fence (Unheld).           *)
LEMMA AcquireKeeps == IndInv /\ Acquire => IndInv'
<1> SUFFICES ASSUME IndInv, Acquire PROVE IndInv'
  OBVIOUS
<1> USE Constants DEF IndInv, fences, pipeline, kms
<1>0. PICK b \in Buffers : Acquire!(b)
  BY Zenon DEF Acquire
<1>1. UNCHANGED <<refs, leases, pipeline, fences, request, kms>>
  BY <1>0, Zenon DEF broker
<1>2. BrokerType'
  BY <1>0, Zenon DEF BrokerType, TypeOK
<1>3. Lent'
  BY <1>0, Unheld DEF Lent, FreeTarget, TypeOK, BrokerType
<1>4. Fenced'
  BY <1>0, Unheld DEF Fenced, FreeTarget, TypeOK, BrokerType
<1> QED
  BY <1>1, <1>2, <1>3, <1>4, BrokerStep DEF TypeOK

(* Present: a rendered slot is still unheld.                               *)
LEMMA PresentKeeps == IndInv /\ Present => IndInv'
<1> SUFFICES ASSUME IndInv, Present PROVE IndInv'
  OBVIOUS
<1> USE Constants DEF IndInv, fences, pipeline, kms
<1>0. PICK b \in Buffers : Present!(b)
  BY Zenon DEF Present
<1>a. slot[b] # "Free" /\ slot'[b] # "Free" /\ slot'[b] # "Rendering"
      /\ slot'[b] = IF Transfers THEN "Transferring" ELSE "Ready"
  BY <1>0 DEF TypeOK, BrokerType
<1>1. UNCHANGED <<refs, leases, pipeline, fences, request, kms>>
  BY <1>0, Zenon DEF broker
<1>2. BrokerType'
  BY <1>0 DEF BrokerType, TypeOK
<1>3. Lent'
  BY <1>0 DEF Lent, TypeOK, BrokerType, FenceType
<1>4. Fenced'
  BY <1>0, <1>a DEF Fenced, Lent, TypeOK, BrokerType
<1> QED
  BY <1>1, <1>2, <1>3, <1>4, BrokerStep DEF TypeOK

(* TransferDone: a transferred slot is still unheld.                       *)
LEMMA TransferDoneKeeps == IndInv /\ TransferDone => IndInv'
<1> SUFFICES ASSUME IndInv, TransferDone PROVE IndInv'
  OBVIOUS
<1> USE Constants DEF IndInv, fences, pipeline, kms
<1>0. PICK b \in Buffers : TransferDone!(b)
  BY Zenon DEF TransferDone
<1>a. \A c \in Buffers : slot'[c] # "Free" => slot[c] # "Free"
  BY <1>0 DEF TypeOK, BrokerType
<1>1. UNCHANGED <<refs, leases, pipeline, fences, request, kms>>
  BY <1>0, Zenon DEF broker
<1>2. BrokerType'
  BY <1>0 DEF BrokerType, TypeOK
<1>3. Lent'
  BY <1>0, <1>a DEF Lent
<1>4. Fenced'
  BY <1>0 DEF Fenced, TypeOK, BrokerType, FenceType
<1> QED
  BY <1>1, <1>2, <1>3, <1>4, BrokerStep DEF TypeOK

(* RasterIdle: a finished slot is still unheld.                            *)
LEMMA RasterIdleKeeps == IndInv /\ RasterIdle => IndInv'
<1> SUFFICES ASSUME IndInv, RasterIdle PROVE IndInv'
  OBVIOUS
<1> USE Constants DEF IndInv, fences, pipeline, kms, RetireAbandoned
<1>1. UNCHANGED <<refs, leases, pipeline, fences, request, kms>>
  BY Zenon DEF RasterIdle
<1>2. BrokerType'
  BY Zenon DEF RasterIdle, BrokerType, TypeOK
<1>3. Lent'
  BY DEF RasterIdle, Lent, TypeOK, BrokerType, FenceType
<1>4. Fenced'
  BY DEF RasterIdle, Fenced, TypeOK, BrokerType, FenceType
<1> QED
  BY <1>1, <1>2, <1>3, <1>4, BrokerStep DEF TypeOK

(* GpuDone: finished GPU work only helps.                                  *)
LEMMA GpuDoneKeeps == IndInv /\ GpuDone => IndInv'
<1> SUFFICES ASSUME IndInv, GpuDone PROVE IndInv'
  OBVIOUS
<1> USE Constants DEF IndInv, fences, pipeline, kms, broker
<1>0. PICK b \in Buffers : GpuDone!(b)
  BY Zenon DEF GpuDone
<1>1. UNCHANGED <<refs, leases, pipeline, fences, request, kms>>
  BY <1>0, Zenon DEF broker
<1>2. BrokerType'
  BY <1>0 DEF BrokerType, TypeOK
<1>3. Lent'
  BY <1>0 DEF Lent, TypeOK, BrokerType, FenceType
<1>4. Fenced'
  BY <1>0 DEF Fenced, TypeOK, BrokerType, FenceType
<1> QED
  BY <1>1, <1>2, <1>3, <1>4, BrokerStep DEF TypeOK

(* Publish: the new frame takes the first reference and an unused token.   *)
LEMMA PublishKeeps == IndInv /\ Publish => IndInv'
<1> SUFFICES ASSUME IndInv, Publish PROVE IndInv'
  OBVIOUS
<1> USE Constants DEF IndInv, fences, pipeline, kms
<1>0. PICK b \in Buffers, t \in Tokens \ UsedTokens : Publish!(b, t)
  BY Zenon DEF Publish
<1>a. /\ b # scanning /\ b # ready /\ ~discard[b] /\ leases[b] = 0
      /\ ~(InFlight /\ flight.frame = b)
      /\ token[b] = None
  BY <1>0, Unheld DEF Publishable
<1>b. /\ t \in Tokens /\ t # None
      /\ \A w \in watches : w.token # t
      /\ \A c \in Buffers : token[c] # t
  BY DEF UsedTokens
<1>c. /\ \A c \in Buffers \ {b} :
           slot'[c] = slot[c] /\ refs'[c] = refs[c] /\ token'[c] = token[c]
             /\ discard'[c] = discard[c]
      /\ slot'[b] = "Free" /\ refs'[b] = 1 /\ token'[b] = t
      /\ signaled' = signaled /\ ~signaled[b]
  BY <1>0 DEF TypeOK, BrokerType, FenceType, Publishable
<1>e. \/ ready = None /\ ready' = b /\ ~discard'[b] /\ powered /\ ~poweringOff
      \/ ready' = ready /\ discard'[b] /\ ~(powered /\ ~poweringOff)
  BY <1>0, <1>a DEF Publishable, TypeOK, FenceType
<1>1. BrokerType'
  BY <1>0 DEF BrokerType, TypeOK
<1>2. FenceType'
  <2>1. [index |-> b, token |-> t, live |-> TRUE] \in Watches
    BY <1>b DEF Watches
  <2>2. watches' \subseteq Watches
    BY <1>0, <2>1, Zenon DEF TypeOK, FenceType
  <2>3. discard' \in [Buffers -> BOOLEAN]
    BY <1>0, Zenon DEF TypeOK, FenceType
  <2> QED
    BY <1>0, <1>b, <2>2, <2>3, Zenon DEF TypeOK, FenceType
<1>3. PipelineType'
  BY <1>0 DEF PipelineType, TypeOK
<1>4. KmsType'
  BY <1>0 DEF KmsType, TypeOK
<1>5. Lent'
  BY <1>c DEF Lent
<1>6. RefsExact'
  <2> SUFFICES ASSUME NEW c \in Buffers PROVE (refs[c] = Holders(c) + leases[c])'
    BY DEF RefsExact
  <2>1. UNCHANGED <<scanning, flight, leases>>
    BY <1>0
  <2>2. CASE c = b
    BY <2>1, <2>2, <1>a, <1>c, <1>e DEF Holders, One, InFlight
  <2>3. CASE c # b
    <3>1. refs'[c] = refs[c] /\ discard'[c] = discard[c] /\ (c = ready' <=> c = ready)
      BY <2>3, <1>c, <1>e
    <3>2. refs[c] = Holders(c) + leases[c]
      BY DEF RefsExact
    <3> QED
      BY <2>1, <3>1, <3>2 DEF Holders, One
  <2> QED
    BY <2>2, <2>3
<1>7. Distinct'
  <2>1. UNCHANGED <<scanning, flight>> /\ scanning \in Buffers
    BY <1>0 DEF TypeOK, PipelineType
  <2>2. \A c \in Buffers : discard'[c] => discard[c] \/ (c = b /\ ready' = ready)
    BY <1>a, <1>c, <1>e
  <2> QED
    BY <2>1, <2>2, <1>a, <1>e DEF Distinct, InFlight
<1>8. Fenced'
  <2> SUFFICES ASSUME NEW c \in Buffers
               PROVE /\ token'[c] # None <=> (ready' = c \/ discard'[c])
                     /\ signaled'[c] => ready' = c /\ ~gpu'[c]
                     /\ gpu'[c] /\ slot'[c] = "Free" => token'[c] # None
                     /\ slot'[c] = "Rendering" => ~gpu'[c]
    BY DEF Fenced
  <2>1. CASE c = b
    BY <2>1, <1>a, <1>b, <1>c, <1>e
  <2>2. CASE c # b
    <3>1. gpu' = gpu /\ (c = ready' <=> c = ready)
      BY <2>2, <1>0, <1>e
    <3> QED
      BY <2>2, <3>1, <1>c DEF Fenced
  <2> QED
    BY <2>1, <2>2
<1>9. Watched'
  <2> SUFFICES ASSUME NEW w \in watches'
               PROVE IF w.live THEN token'[w.index] = w.token /\ ~signaled'[w.index]
                               ELSE \A c \in Buffers : token'[c] # w.token
    BY DEF Watched
  <2>1. CASE w \in watches
    <3>1. w.index \in Buffers /\ w.token \in Tokens
      BY <2>1 DEF TypeOK, FenceType, Watches
    <3>2. IF w.live THEN token[w.index] = w.token /\ ~signaled[w.index]
                    ELSE \A c \in Buffers : token[c] # w.token
      BY <2>1 DEF Watched
    <3> QED
      BY <2>1, <3>1, <3>2, <1>a, <1>b, <1>c
  <2>2. CASE w = [index |-> b, token |-> t, live |-> TRUE]
    BY <2>2, <1>c
  <2> QED
    BY <2>1, <2>2, <1>0
<1>10. Tracked'
  BY <1>0 DEF Tracked, InFlight
<1>11. Parked'
  BY <1>0 DEF Parked
<1> QED
  BY <1>1, <1>2, <1>3, <1>4, <1>5, <1>6, <1>7, <1>8, <1>9, <1>10, <1>11 DEF TypeOK

(* AcknowledgeFence: the signal finds its own claim, or none.              *)
LEMMA AcknowledgeFenceKeeps == IndInv /\ AcknowledgeFence => IndInv'
<1> SUFFICES ASSUME IndInv, AcknowledgeFence PROVE IndInv'
  OBVIOUS
<1> USE Constants DEF IndInv, fences, pipeline, kms, ReleaseOutput
<1>0. PICK w \in watches : AcknowledgeFence!(w)
  BY DEF AcknowledgeFence
<1>a. w \in Watches /\ w.index \in Buffers /\ w.token \in Tokens
      /\ w.live \in BOOLEAN /\ watches' \subseteq watches
      /\ discard[w.index] \in BOOLEAN /\ signaled[w.index] \in BOOLEAN
  BY <1>0 DEF TypeOK, FenceType, Watches
<1>b. CASE token[w.index] # w.token
  <2>1. UNCHANGED <<slot, refs, authorized, rasterizing, gpu, pipeline, token, signaled,
                    discard, leases, strays, request, kms>>
    BY <1>0, <1>b
  <2>2. FenceType' /\ Watched'
    BY <2>1, <1>a DEF TypeOK, FenceType, Watched
  <2>3. BrokerType' /\ PipelineType' /\ KmsType'
    BY <2>1 DEF TypeOK, BrokerType, PipelineType, KmsType
  <2>4. Lent' /\ RefsExact' /\ Distinct'
    BY <2>1 DEF Lent, RefsExact, Holders, Distinct, InFlight
  <2>5. Fenced' /\ Tracked' /\ Parked'
    BY <2>1 DEF Fenced, Tracked, Parked, InFlight
  <2> QED
    BY <2>2, <2>3, <2>4, <2>5 DEF TypeOK
<1>c. CASE token[w.index] = w.token
  <2> DEFINE b == w.index
  <2> HIDE DEF IndInv
  <2>0. IndInv /\ w.live /\ ~gpu[b] /\ ~signaled[b] /\ (ready = b \/ discard[b])
    <3>1. w.live /\ ~signaled[b]
      BY <1>a, <1>c DEF IndInv, Watched
    <3> QED
      BY <3>1, <1>0, <1>a, <1>c DEF IndInv, Fenced
  <2>1. /\ UNCHANGED <<slot, authorized, rasterizing, gpu, pipeline, leases, strays, request, kms>>
        /\ token' = [token EXCEPT ![b] = IF discard[b] THEN None ELSE @]
        /\ signaled' = [signaled EXCEPT ![b] = ~discard[b]]
        /\ discard' = [discard EXCEPT ![b] = FALSE]
        /\ refs' = [c \in Buffers |-> IF c \in {d \in {b} : discard[d]} THEN refs[c] - 1
                                                                        ELSE refs[c]]
    BY <1>0, <1>c DEF ReleaseOutput
  <2>2. /\ \A c \in Buffers \ {b} :
             /\ refs'[c] = refs[c] /\ token'[c] = token[c]
             /\ signaled'[c] = signaled[c] /\ discard'[c] = discard[c]
        /\ ~discard'[b] /\ signaled'[b] = ~discard[b]
        /\ discard[b] => refs'[b] = refs[b] - 1 /\ token'[b] = None
        /\ ~discard[b] => refs'[b] = refs[b] /\ token'[b] = token[b]
    BY <2>1, <1>a, Zenon DEF IndInv, TypeOK, FenceType
  <2> HIDE DEF b
  <2>b. b \in Buffers
    BY <1>a DEF b
  <2>c. /\ \A c \in Buffers : refs[c] \in Nat /\ leases[c] \in Nat
        /\ discard[b] => refs[b] = 1 + leases[b]
    BY <2>0, <2>b, Held
  <2>3. BrokerType'
    <3>1. \A c \in Buffers : refs'[c] \in Nat
      BY <2>2, <2>b, <2>c
    <3>2. refs' = [c \in Buffers |-> refs'[c]]
      BY <2>1, Zenon
    <3>3. refs' \in [Buffers -> Nat]
      BY <3>1, <3>2, Zenon
    <3> QED
      BY <2>1, <3>3, Zenon DEF IndInv, TypeOK, BrokerType
  <2>4. FenceType'
    <3>1. token' \in [Buffers -> Tokens \cup {None}]
      BY <2>1, <2>b DEF IndInv, TypeOK, FenceType
    <3>2. watches' \subseteq Watches
      BY <1>a DEF IndInv, TypeOK, FenceType
    <3> QED
      BY <2>1, <3>1, <3>2 DEF IndInv, TypeOK, FenceType
  <2>5. PipelineType' /\ KmsType' /\ Tracked' /\ Parked'
    BY <2>1 DEF IndInv, TypeOK, PipelineType, KmsType, Tracked, Parked, InFlight
  <2>6. Lent'
    <3> SUFFICES ASSUME NEW c \in Buffers, slot[c] # "Free"
                 PROVE refs'[c] = 0 /\ token'[c] = None
      BY <2>1 DEF Lent
    <3>1. refs[c] = 0 /\ token[c] = None
      BY DEF IndInv, Lent
    <3>2. c # b
      BY <3>1, <1>a, <1>c DEF b
    <3> QED
      BY <3>1, <3>2, <2>2
  <2>7. RefsExact'
    <3> SUFFICES ASSUME NEW c \in Buffers PROVE (refs[c] = Holders(c) + leases[c])'
      BY DEF RefsExact
    <3>1. refs[c] = Holders(c) + leases[c] /\ UNCHANGED <<scanning, ready, flight, leases>>
      BY <2>1 DEF IndInv, RefsExact
    <3>2. CASE c # b
      BY <3>1, <3>2, <2>2 DEF Holders, One
    <3>3. CASE c = b /\ ~discard[b]
      BY <3>1, <3>3, <2>2 DEF Holders, One
    <3>4. CASE c = b /\ discard[b]
      <4>1. c # scanning /\ c # ready /\ ~(InFlight /\ flight.frame = c)
        BY <3>4, <2>b DEF IndInv, Distinct
      <4>2. refs'[c] = leases[c] /\ ~discard'[c] /\ leases[c] \in Nat
        BY <3>4, <2>2, <2>c
      <4> QED
        BY <4>1, <4>2, <3>1 DEF Holders, One, InFlight
    <3> QED
      BY <3>2, <3>3, <3>4
  <2>8. Distinct'
    <3>1. \A c \in Buffers : discard'[c] => discard[c]
      BY <2>2, <2>b
    <3> QED
      BY <3>1, <2>1 DEF IndInv, Distinct, InFlight
  <2>9. Fenced'
    <3> SUFFICES ASSUME NEW c \in Buffers
                 PROVE /\ token'[c] # None <=> (ready = c \/ discard'[c])
                       /\ signaled'[c] => ready = c /\ ~gpu[c]
                       /\ gpu[c] /\ slot[c] = "Free" => token'[c] # None
                       /\ slot[c] = "Rendering" => ~gpu[c]
      BY <2>1 DEF Fenced
    <3>1. /\ token[c] # None <=> (ready = c \/ discard[c])
          /\ signaled[c] => ready = c /\ ~gpu[c]
          /\ gpu[c] /\ slot[c] = "Free" => token[c] # None
          /\ slot[c] = "Rendering" => ~gpu[c]
          /\ discard[c] => c # ready
      BY DEF IndInv, Fenced, Distinct
    <3>2. CASE c # b
      BY <3>1, <3>2, <2>2
    <3>3. CASE c = b
      BY <3>1, <3>3, <2>2, <2>0, Zenon DEF b
    <3> QED
      BY <3>2, <3>3
  <2>10. Watched'
    <3> SUFFICES ASSUME NEW v \in watches, v # w
                 PROVE IF v.live THEN token'[v.index] = v.token /\ ~signaled'[v.index]
                                 ELSE \A c \in Buffers : token'[c] # v.token
      BY <1>0 DEF Watched
    <3>1. v \in Watches /\ v.index \in Buffers /\ v.token \in Tokens /\ v.live \in BOOLEAN
      BY DEF IndInv, TypeOK, FenceType, Watches
    <3>2. IF v.live THEN token[v.index] = v.token /\ ~signaled[v.index]
                    ELSE \A c \in Buffers : token[c] # v.token
      BY DEF IndInv, Watched
    <3>3. CASE ~v.live
      BY <3>1, <3>2, <3>3, <2>2, <2>b
    <3>4. CASE v.live
      <4>1. v.index # b
        <5> SUFFICES ASSUME v.index = b PROVE FALSE
          OBVIOUS
        <5>1. v.token = w.token /\ v.index = w.index /\ v.live = w.live
          BY <3>2, <3>4, <2>0, <1>c, <1>a, <3>1 DEF b
        <5>2. v = w
          BY <5>1, <3>1, <1>a DEF Watches
        <5> QED
          BY <5>2
      <4> QED
        BY <4>1, <3>1, <3>2, <3>4, <2>2
    <3> QED
      BY <3>1, <3>3, <3>4
  <2> QED
    BY <2>3, <2>4, <2>5, <2>6, <2>7, <2>8, <2>9, <2>10 DEF IndInv, TypeOK
<1> QED
  BY <1>b, <1>c

(* SubmitStale: the dropped frame keeps its reference until rendered.      *)
LEMMA SubmitStaleKeeps == IndInv /\ SubmitStale => IndInv'
<1> SUFFICES ASSUME IndInv, SubmitStale PROVE IndInv'
  OBVIOUS
<1> USE Constants DEF IndInv, fences, pipeline, kms, Submittable
<1> DEFINE D == {ready} \ {None}
<1>d. /\ refs' \in [Buffers -> Nat] /\ FenceType'
      /\ Lent' /\ Fenced' /\ Watched' /\ RefsExact' /\ Distinct'
  <2>1. D \in SUBSET ({ready} \ {None}) /\ D = {ready}
    BY DEF SubmitStale, Submittable
  <2>2. DiscardReady(D) /\ ReleaseOutput(Rendered(D))
    BY <2>1 DEF SubmitStale, BeginPowerOff
  <2>3. /\ ready' = IF D = {} THEN ready ELSE None
        /\ UNCHANGED <<slot, gpu, watches, scanning, flight, leases>>
    BY <2>1 DEF SubmitStale, BeginPowerOff
  <2> QED
    BY <2>1, <2>2, <2>3, DroppedOnly, Zenon
<1> HIDE DEF D
<1>1. BrokerType'
  BY <1>d DEF SubmitStale, BrokerType, TypeOK
<1>2. FenceType'
  BY <1>d
<1>3. PipelineType'
  BY DEF SubmitStale, PipelineType, TypeOK
<1>4. KmsType'
  BY DEF SubmitStale, KmsType, TypeOK
<1>5. Lent'
  BY <1>d
<1>6. RefsExact'
  BY <1>d
<1>7. Distinct'
  BY <1>d
<1>8. Fenced'
  BY <1>d
<1>9. Watched'
  BY <1>d
<1>10. Tracked'
  BY DEF SubmitStale, Tracked, InFlight
<1>11. Parked'
  BY DEF SubmitStale, Parked
<1> QED
  BY <1>1, <1>2, <1>3, <1>4, <1>5, <1>6, <1>7, <1>8, <1>9, <1>10, <1>11 DEF TypeOK

-----------------------------------------------------------------------------

(* The ready frame becomes the one in flight: its reference moves along,   *)
(* and its signaled fence slot is free for the buffer's next frame.        *)
LEMMA Taken ==
    ASSUME IndInv, Submittable, signaled[ready], ReleaseUser({ready}), ready' = None,
           flight'.frame = ready, flight'.stage # "none",
           UNCHANGED <<slot, refs, leases, gpu, scanning, watches>>
    PROVE  FenceType' /\ Lent' /\ RefsExact' /\ Distinct' /\ Fenced' /\ Watched'
<1> USE Constants
<1>a. /\ ready \in Buffers /\ scanning \in Buffers /\ ready # scanning
      /\ ~discard[ready] /\ ~InFlight
      /\ \A c \in Buffers : discard[c] \in BOOLEAN /\ signaled[c] \in BOOLEAN
  BY DEF IndInv, Submittable, TypeOK, PipelineType, FenceType, Distinct, InFlight
<1>b. \A c \in Buffers :
        /\ token'[c] = IF c = ready THEN None ELSE token[c]
        /\ signaled'[c] = (signaled[c] /\ c # ready)
        /\ discard'[c] = discard[c]
  BY <1>a DEF ReleaseUser
<1>1. FenceType'
  <2>1. \A c \in Buffers : token'[c] \in Tokens \cup {None}
    BY <1>b DEF IndInv, TypeOK, FenceType
  <2>2. /\ token' \in [Buffers -> Tokens \cup {None}]
        /\ signaled' \in [Buffers -> BOOLEAN] /\ discard' \in [Buffers -> BOOLEAN]
    BY <2>1, Zenon DEF ReleaseUser
  <2> QED
    BY <2>2 DEF IndInv, TypeOK, FenceType
<1>2. Lent'
  BY <1>a, <1>b DEF IndInv, Lent
<1>3. RefsExact'
  <2> SUFFICES ASSUME NEW c \in Buffers PROVE (refs[c] = Holders(c) + leases[c])'
    BY DEF RefsExact
  <2>1. refs[c] = Holders(c) + leases[c] /\ discard'[c] = discard[c]
    BY <1>b DEF IndInv, RefsExact
  <2>2. CASE c = ready
    BY <2>1, <2>2, <1>a DEF Holders, One, InFlight
  <2>3. CASE c # ready
    BY <2>1, <2>3, <1>a DEF Holders, One, InFlight
  <2> QED
    BY <2>2, <2>3
<1>4. Distinct'
  BY <1>a, <1>b DEF IndInv, Distinct, InFlight
<1>5. Fenced'
  BY <1>a, <1>b DEF IndInv, Fenced, Distinct
<1>6. Watched'
  <2> SUFFICES ASSUME NEW w \in watches
               PROVE IF w.live THEN token'[w.index] = w.token /\ ~signaled'[w.index]
                               ELSE \A c \in Buffers : token'[c] # w.token
    BY DEF Watched
  <2>1. w.index \in Buffers /\ w.token \in Tokens
    BY DEF IndInv, TypeOK, FenceType, Watches
  <2>2. IF w.live THEN token[w.index] = w.token /\ ~signaled[w.index]
                  ELSE \A c \in Buffers : token[c] # w.token
    BY DEF IndInv, Watched
  <2>3. CASE w.live
    <3>1. w.index # ready
      BY <2>2, <2>3
    <3> QED
      BY <2>1, <2>2, <2>3, <3>1, <1>b, Zenon
  <2>4. CASE ~w.live
    BY <2>1, <2>2, <2>4, <1>b
  <2> QED
    BY <2>3, <2>4
<1> QED
  BY <1>1, <1>2, <1>3, <1>4, <1>5, <1>6

(* SubmitWake: the modeset shows the frame at once, its event follows.     *)
LEMMA SubmitWakeKeeps == IndInv /\ SubmitWake => IndInv'
<1> SUFFICES ASSUME IndInv, SubmitWake PROVE IndInv'
  OBVIOUS
<1> USE Constants
<1>a. /\ Submittable /\ signaled[ready] /\ ReleaseUser({ready}) /\ ready' = None
      /\ flight' = [stage |-> "submitted", frame |-> ready]
      /\ UNCHANGED <<broker, gpu, powered, scanning, poweringOff, watches, leases, strays,
                     request>>
  BY Zenon DEF SubmitWake
<1>b. /\ wake /\ ~late /\ wake' = FALSE /\ scan' = ready /\ flips' = flips + 1
      /\ job' = job /\ next' = next /\ late' = late
  BY Zenon DEF SubmitWake
<1>c. ready \in Buffers
  BY <1>a DEF IndInv, Submittable, TypeOK, PipelineType
<1>1. FenceType' /\ Lent' /\ RefsExact' /\ Distinct' /\ Fenced' /\ Watched'
  BY <1>a, Taken DEF broker
<1>2. BrokerType'
  BY <1>a DEF IndInv, TypeOK, BrokerType, broker
<1>3. PipelineType'
  BY <1>a, <1>b, <1>c, Zenon DEF IndInv, TypeOK, PipelineType
<1>d. flips = 0 /\ job.stage = "none" /\ next = None /\ powered
  BY <1>a DEF IndInv, Tracked, InFlight, Submittable
<1>e. /\ flight'.stage = "submitted" /\ flight'.frame = ready /\ flips' = 1
      /\ job'.stage = "none" /\ next' = None /\ powered'
  BY <1>a, <1>b, <1>d
<1>4. KmsType'
  BY <1>b, <1>c, <1>e DEF IndInv, TypeOK, KmsType
<1>5. Tracked'
  BY <1>b, <1>e DEF Tracked, InFlight
<1>6. Parked'
  BY <1>a, <1>b DEF IndInv, Parked
<1> QED
  BY <1>1, <1>2, <1>3, <1>4, <1>5, <1>6 DEF IndInv, TypeOK

(* Submit: the frame waits in Volition, the screen is as before.           *)
LEMMA SubmitKeeps == IndInv /\ Submit => IndInv'
<1> SUFFICES ASSUME IndInv, Submit PROVE IndInv'
  OBVIOUS
<1> USE Constants
<1>a. /\ Submittable /\ signaled[ready] /\ ReleaseUser({ready}) /\ ready' = None
      /\ flight' = [stage |-> "scheduled", frame |-> ready]
      /\ UNCHANGED <<broker, gpu, powered, scanning, poweringOff, watches, leases, strays,
                     request>>
  BY Zenon DEF Submit
<1>b. /\ ~wake /\ ~late /\ wake' = wake
      /\ job' = [stage |-> "queued", frame |-> ready]
      /\ scan' = scan /\ next' = next /\ flips' = flips /\ late' = late
  BY Zenon DEF Submit
<1>c. ready \in Buffers
  BY <1>a DEF IndInv, Submittable, TypeOK, PipelineType
<1>1. FenceType' /\ Lent' /\ RefsExact' /\ Distinct' /\ Fenced' /\ Watched'
  BY <1>a, Taken DEF broker
<1>2. BrokerType'
  BY <1>a DEF IndInv, TypeOK, BrokerType, broker
<1>3. PipelineType'
  BY <1>a, <1>b, <1>c DEF IndInv, TypeOK, PipelineType
<1>d. flips = 0 /\ next = None /\ powered /\ scan = scanning
  BY <1>a, <1>b DEF IndInv, Tracked, InFlight, Submittable
<1>e. /\ flight'.stage = "scheduled" /\ flight'.frame = ready
      /\ job'.stage = "queued" /\ job'.frame = ready
      /\ flips' = 0 /\ next' = None /\ powered' /\ scan' = scanning'
  BY <1>a, <1>b, <1>d
<1>4. KmsType'
  BY <1>b, <1>c DEF IndInv, TypeOK, KmsType
<1>5. Tracked'
  BY <1>b, <1>e DEF Tracked, InFlight
<1>6. Parked'
  BY <1>a, <1>b DEF IndInv, Parked
<1> QED
  BY <1>1, <1>2, <1>3, <1>4, <1>5, <1>6 DEF IndInv, TypeOK

(* A step that moves no frame leaves the buffers and fences as they are.    *)
LEMMA DisplayStep ==
    ASSUME IndInv, UNCHANGED <<broker, gpu, fences, leases, strays, scanning, ready>>,
           InFlight' = InFlight, flight'.frame = flight.frame
    PROVE  BrokerType' /\ FenceType' /\ Lent' /\ RefsExact' /\ Distinct' /\ Fenced' /\ Watched'
<1> USE DEF IndInv, TypeOK, broker, fences
<1>1. BrokerType' /\ FenceType'
  BY DEF BrokerType, FenceType
<1>2. Lent' /\ Fenced' /\ Watched'
  BY DEF Lent, Fenced, Watched
<1>3. RefsExact' /\ Distinct'
  BY DEF RefsExact, Holders, Distinct, InFlight
<1> QED
  BY <1>1, <1>2, <1>3

(* VolitionCommit: the commit is of the frame in flight.                   *)
LEMMA VolitionCommitKeeps == IndInv /\ VolitionCommit => IndInv'
<1> SUFFICES ASSUME IndInv, VolitionCommit PROVE IndInv'
  OBVIOUS
<1> USE Constants DEF IndInv, fences, pipeline, kms, broker
<1>1. /\ UNCHANGED <<broker, gpu, fences, leases, strays, scanning, ready>>
      /\ InFlight' = InFlight /\ flight'.frame = flight.frame
  BY DEF VolitionCommit, InFlight, TypeOK, PipelineType
<1>2. PipelineType'
  BY DEF VolitionCommit, PipelineType, TypeOK
<1>3. KmsType'
  BY DEF VolitionCommit, KmsType, TypeOK
<1>4. Tracked'
  BY DEF VolitionCommit, Tracked, InFlight, TypeOK, PipelineType, KmsType
<1>5. Parked'
  BY DEF VolitionCommit, Parked
<1> QED
  BY <1>1, <1>2, <1>3, <1>4, <1>5, DisplayStep DEF TypeOK

(* PageFlip: the flip is of the frame in flight.                           *)
LEMMA PageFlipKeeps == IndInv /\ PageFlip => IndInv'
<1> SUFFICES ASSUME IndInv, PageFlip PROVE IndInv'
  OBVIOUS
<1> USE Constants DEF IndInv, fences, pipeline, kms, broker
<1>1. /\ UNCHANGED <<broker, gpu, fences, leases, strays, scanning, ready>>
      /\ InFlight' = InFlight /\ flight'.frame = flight.frame
  BY DEF PageFlip, InFlight, TypeOK, PipelineType
<1>2. PipelineType'
  BY DEF PageFlip, PipelineType, TypeOK
<1>3. KmsType'
  BY DEF PageFlip, KmsType, TypeOK, Tracked, InFlight
<1>f. /\ next # None /\ scan' = next /\ next' = None /\ flips' = flips + 1
      /\ UNCHANGED <<powered, scanning, flight, wake, job, late>>
  BY Zenon DEF PageFlip
<1>g. InFlight /\ job.stage # "queued" /\ next = flight.frame /\ flips = 0
  BY <1>f DEF Tracked
<1>4. Tracked'
  <2>1. scan' = flight.frame /\ flips' = 1
    BY <1>f, <1>g
  <2> QED
    BY <1>f, <1>g, <2>1 DEF Tracked, InFlight
<1>5. Parked'
  BY DEF PageFlip, Parked
<1> QED
  BY <1>1, <1>2, <1>3, <1>4, <1>5, DisplayStep DEF TypeOK

(* AcknowledgeSubmission: only the stage changes.                          *)
LEMMA AcknowledgeSubmissionKeeps == IndInv /\ AcknowledgeSubmission => IndInv'
<1> SUFFICES ASSUME IndInv, AcknowledgeSubmission PROVE IndInv'
  OBVIOUS
<1> USE Constants DEF IndInv, fences, pipeline, kms, Idle, broker
<1>1. /\ UNCHANGED <<broker, gpu, fences, leases, strays, scanning, ready>>
      /\ InFlight' = InFlight /\ flight'.frame = flight.frame
  BY DEF AcknowledgeSubmission, InFlight, TypeOK, PipelineType
<1>2. PipelineType'
  BY DEF AcknowledgeSubmission, PipelineType, TypeOK
<1>3. KmsType'
  BY DEF AcknowledgeSubmission, KmsType, TypeOK
<1>4. Tracked'
  BY DEF AcknowledgeSubmission, Tracked, InFlight
<1>5. Parked'
  BY DEF AcknowledgeSubmission, Parked
<1> QED
  BY <1>1, <1>2, <1>3, <1>4, <1>5, DisplayStep DEF TypeOK

(* CompleteFlip: the frame in flight becomes the one on screen, which leaves.*)
LEMMA CompleteFlipKeeps == IndInv /\ CompleteFlip => IndInv'
<1> SUFFICES ASSUME IndInv, CompleteFlip PROVE IndInv'
  OBVIOUS
<1> USE Constants
<1>0. PICK D \in SUBSET ({ready} \ {None}) :
        /\ ready' = IF D = {} THEN ready ELSE None
        /\ ReleaseOutput({scanning} \cup Rendered(D))
        /\ DiscardReady(D)
  BY ZenonT(60) DEF CompleteFlip
<1>s. flight.stage = "submitted"
  BY Zenon DEF CompleteFlip
<1>k. /\ flips > 0 /\ flips' = flips - 1
      /\ job' = job /\ next' = next /\ scan' = scan /\ late' = late /\ request' = request
      /\ powered' = powered /\ poweringOff' = poweringOff /\ wake' = wake
  BY Zenon DEF CompleteFlip
<1>a. /\ InFlight /\ flight.frame \in Buffers /\ flight.frame # scanning
      /\ flight.frame # ready /\ ~discard[flight.frame]
      /\ scanning' = flight.frame /\ ~InFlight'
      /\ ready \in Buffers \cup {None} /\ scanning \in Buffers /\ scanning # ready
      /\ \A c \in Buffers : discard[c] \in BOOLEAN /\ signaled[c] \in BOOLEAN
      /\ UNCHANGED <<slot, gpu, leases, watches>>
  BY DEF CompleteFlip, IndInv, TypeOK, PipelineType, FenceType, Distinct, InFlight, Idle
<1>b. /\ refs' \in [Buffers -> Nat] /\ FenceType' /\ Lent' /\ Fenced' /\ Watched'
      /\ \A b \in Buffers :
           /\ refs'[b] = IF b \in {scanning} \/ (b \in D /\ signaled[b]) THEN refs[b] - 1
                                                                        ELSE refs[b]
           /\ discard'[b] = (discard[b] \/ (b \in D /\ ~signaled[b]))
  <2>1. {scanning} \in SUBSET {scanning}
    OBVIOUS
  <2>2. slot' = slot /\ gpu' = gpu /\ watches' = watches
    BY <1>a
  <2> QED
    BY <1>0, <2>1, <2>2, Dropped, Zenon
<1>c. D = {} \/ (D = {ready} /\ ready \in Buffers)
  BY <1>a
<1>1. BrokerType'
  BY <1>b DEF CompleteFlip, IndInv, TypeOK, BrokerType
<1>2. PipelineType'
  BY <1>a, <1>0 DEF CompleteFlip, Idle, IndInv, TypeOK, PipelineType
<1>3. KmsType'
  BY <1>k DEF IndInv, TypeOK, KmsType
<1>4. RefsExact'
  <2> SUFFICES ASSUME NEW c \in Buffers PROVE (refs[c] = Holders(c) + leases[c])'
    BY DEF RefsExact
  <2>1. /\ refs[c] = Holders(c) + leases[c] /\ refs[c] \in Nat /\ leases[c] \in Nat
        /\ discard[c] => c # scanning /\ c # ready
        /\ leases'[c] = leases[c]
    BY <1>a, Held DEF IndInv, RefsExact, Distinct
  <2>2. CASE c = scanning
    <3>1. refs'[c] = refs[c] - 1 /\ c # scanning' /\ c # ready' /\ ~discard[c] /\ ~discard'[c]
      BY <1>0, <1>a, <1>b, <1>c, <2>1, <2>2
    <3> QED
      BY <2>1, <2>2, <3>1, <1>a DEF Holders, One, InFlight
  <2>3. CASE c = flight.frame
    <3>1. refs'[c] = refs[c] /\ c = scanning' /\ c # ready' /\ ~discard[c] /\ ~discard'[c]
      BY <1>0, <1>a, <1>b, <1>c, <2>1, <2>3
    <3> QED
      BY <2>1, <2>3, <3>1, <1>a DEF Holders, One, InFlight
  <2>4. CASE c # scanning /\ c # flight.frame /\ c \notin D
    <3>1. /\ refs'[c] = refs[c] /\ c # scanning' /\ (c = ready' <=> c = ready)
          /\ discard'[c] = discard[c]
      BY <1>0, <1>a, <1>b, <1>c, <2>1, <2>4
    <3> QED
      BY <2>1, <2>4, <3>1, <1>a DEF Holders, One, InFlight
  <2>5. CASE c # scanning /\ c # flight.frame /\ c \in D
    <3>1. c = ready /\ c # ready' /\ c # scanning' /\ ~discard[c]
      BY <1>0, <1>a, <1>c, <2>1, <2>5
    <3>2. CASE signaled[c]
      <4>1. refs'[c] = refs[c] - 1 /\ ~discard'[c]
        BY <1>b, <2>5, <3>1, <3>2, Zenon
      <4> QED
        BY <2>1, <2>5, <3>1, <4>1, <1>a DEF Holders, One, InFlight
    <3>3. CASE ~signaled[c]
      <4>1. refs'[c] = refs[c] /\ discard'[c]
        BY <1>b, <2>5, <3>1, <3>3, Zenon
      <4> QED
        BY <2>1, <2>5, <3>1, <4>1, <1>a DEF Holders, One, InFlight
    <3> QED
      BY <3>2, <3>3
  <2> QED
    BY <2>2, <2>3, <2>4, <2>5
<1>5. Distinct'
  <2>1. ready' = None \/ (D = {} /\ ready' = ready)
    BY <1>0, <1>c
  <2>2. \A c \in Buffers : discard'[c] => c # flight.frame /\ c # ready'
    <3> SUFFICES ASSUME NEW c \in Buffers, discard'[c]
                 PROVE c # flight.frame /\ c # ready'
      OBVIOUS
    <3>1. discard[c] => c # ready /\ c # flight.frame
      BY <1>a DEF IndInv, Distinct
    <3>2. discard[c] \/ c \in D
      BY <1>b, Zenon
    <3> QED
      BY <1>0, <1>a, <1>c, <3>1, <3>2
  <2> QED
    BY <2>1, <2>2, <1>a DEF Distinct
<1>6. Tracked'
  <2>1. /\ flips = 1 /\ next = None /\ scan = flight.frame /\ job.stage = "none"
        /\ powered /\ ~wake
    <3>1. job.stage = "none" /\ powered /\ ~wake
      BY <1>a, <1>s DEF IndInv, Tracked
    <3>2. \/ next = flight.frame /\ flips = 0
          \/ next = None /\ flips = 1 /\ scan = flight.frame
      BY <1>a, <3>1 DEF IndInv, Tracked
    <3> QED
      BY <1>k, <3>1, <3>2
  <2>2. flips' = 0
    BY <2>1, <1>k
  <2> QED
    BY <2>1, <2>2, <1>a, <1>k DEF Tracked, InFlight
<1>7. Parked'
  BY <1>0, <1>k DEF IndInv, Parked
<1> QED
  BY <1>b, <1>1, <1>2, <1>3, <1>4, <1>5, <1>6, <1>7 DEF IndInv, TypeOK

(* DropLateFlip: only the late event goes.                                 *)
LEMMA DropLateFlipKeeps == IndInv /\ DropLateFlip => IndInv'
<1> SUFFICES ASSUME IndInv, DropLateFlip PROVE IndInv'
  OBVIOUS
<1> USE Constants DEF IndInv, fences, pipeline, kms, broker
<1>1. /\ UNCHANGED <<broker, gpu, fences, leases, strays, scanning, ready>>
      /\ InFlight' = InFlight /\ flight'.frame = flight.frame
  BY DEF DropLateFlip, InFlight, TypeOK, PipelineType
<1>2. PipelineType'
  BY DEF DropLateFlip, PipelineType, TypeOK
<1>3. KmsType'
  BY Zenon DEF DropLateFlip, KmsType, TypeOK
<1>4. Tracked'
  BY DEF DropLateFlip, Tracked, InFlight
<1>5. Parked'
  BY DEF DropLateFlip, Parked
<1> QED
  BY <1>1, <1>2, <1>3, <1>4, <1>5, DisplayStep DEF TypeOK

(* RetainForScreencopy: a capture adds one holder.                         *)
LEMMA RetainForScreencopyKeeps == IndInv /\ RetainForScreencopy => IndInv'
<1> SUFFICES ASSUME IndInv, RetainForScreencopy PROVE IndInv'
  OBVIOUS
<1> USE Constants DEF IndInv, fences, pipeline, kms
<1>a. /\ scanning \in Buffers /\ slot[scanning] = "Free"
      /\ refs[scanning] \in Nat /\ leases[scanning] \in Nat /\ leases[scanning] < MaxLeases
      /\ refs' = [refs EXCEPT ![scanning] = refs[scanning] + 1]
      /\ leases' = [leases EXCEPT ![scanning] = leases[scanning] + 1]
  <2>1. /\ slot[scanning] = "Free" /\ leases[scanning] < MaxLeases
        /\ refs' = [refs EXCEPT ![scanning] = refs[scanning] + 1]
        /\ leases' = [leases EXCEPT ![scanning] = leases[scanning] + 1]
    BY Zenon DEF RetainForScreencopy
  <2>2. scanning \in Buffers
    BY DEF TypeOK, PipelineType
  <2>3. refs[scanning] \in Nat /\ leases[scanning] \in Nat
    BY <2>2, PipelineConstants DEF TypeOK, BrokerType
  <2> QED
    BY <2>1, <2>2, <2>3
<1>1. BrokerType'
  <2>1. leases[scanning] + 1 \in 0 .. MaxLeases
    BY <1>a, PipelineConstants
  <2> QED
    BY <1>a, <2>1 DEF RetainForScreencopy, BrokerType, TypeOK
<1>2. FenceType'
  BY DEF RetainForScreencopy, FenceType, TypeOK
<1>3. PipelineType'
  BY DEF RetainForScreencopy, PipelineType, TypeOK
<1>4. KmsType'
  BY DEF RetainForScreencopy, KmsType, TypeOK
<1>5. Lent'
  BY DEF RetainForScreencopy, Lent, TypeOK, BrokerType, FenceType
<1>6. RefsExact'
  <2> SUFFICES ASSUME NEW c \in Buffers PROVE (refs[c] = Holders(c) + leases[c])'
    BY DEF RefsExact
  <2>0. UNCHANGED <<scanning, ready, flight, discard>>
    BY Zenon DEF RetainForScreencopy
  <2>1. refs[c] = Holders(c) + leases[c] /\ Holders(c)' = Holders(c) /\ Holders(c) \in Nat
    <3>1. refs[c] = Holders(c) + leases[c]
      BY DEF RefsExact
    <3> QED
      BY <2>0, <3>1 DEF Holders, One
  <2>2. CASE c = scanning
    BY <2>1, <2>2, <1>a DEF TypeOK, BrokerType
  <2>3. CASE c # scanning
    BY <2>1, <2>3, <1>a DEF TypeOK, BrokerType
  <2> QED
    BY <2>2, <2>3
<1>7. Distinct'
  BY DEF RetainForScreencopy, Distinct, InFlight
<1>8. Fenced'
  BY DEF RetainForScreencopy, Fenced, TypeOK, BrokerType, FenceType
<1>9. Watched'
  BY DEF RetainForScreencopy, Watched, TypeOK, FenceType
<1>10. Tracked'
  BY DEF RetainForScreencopy, Tracked, InFlight
<1>11. Parked'
  BY DEF RetainForScreencopy, Parked
<1> QED
  BY <1>1, <1>2, <1>3, <1>4, <1>5, <1>6, <1>7, <1>8, <1>9, <1>10, <1>11 DEF TypeOK

(* FinishScreencopy: a capture gives back what it took.                    *)
LEMMA FinishScreencopyKeeps == IndInv /\ FinishScreencopy => IndInv'
<1> SUFFICES ASSUME IndInv, FinishScreencopy PROVE IndInv'
  OBVIOUS
<1> USE Constants DEF IndInv, fences, pipeline, kms, ReleaseOutput,
    FinishCapture
<1>0. PICK b \in Buffers : FinishCapture(b)
  BY Zenon DEF FinishScreencopy
<1>a. /\ \A c \in Buffers : leases'[c] = IF c = b THEN leases[c] - 1 ELSE leases[c]
      /\ \A c \in Buffers : refs'[c] = IF c = b THEN refs[c] - 1 ELSE refs[c]
      /\ \A c \in Buffers : refs[c] \in Nat /\ leases[c] \in 0 .. MaxLeases
      /\ \A c \in Buffers : Holders(c)' = Holders(c) /\ Holders(c) \in Nat
      /\ \A c \in Buffers : refs[c] = Holders(c) + leases[c]
      /\ leases[b] > 0
  <2>1. \A c \in Buffers : Holders(c)' = Holders(c) /\ Holders(c) \in Nat
    BY <1>0 DEF Holders, One
  <2> QED
    BY <1>0, <2>1 DEF TypeOK, BrokerType, RefsExact
<1>1. BrokerType'
  <2>1. \A c \in Buffers : refs'[c] \in Nat /\ leases'[c] \in 0 .. MaxLeases
    <3> SUFFICES ASSUME NEW c \in Buffers
                 PROVE refs'[c] \in Nat /\ leases'[c] \in 0 .. MaxLeases
      OBVIOUS
    <3>1. MaxLeases \in Nat
      BY PipelineConstants
    <3> QED
      BY <1>a, <3>1
  <2>2. refs' \in [Buffers -> Nat]
    BY <1>0, <2>1
  <2>3. leases' \in [Buffers -> 0 .. MaxLeases]
    BY <1>0, <2>1 DEF TypeOK, BrokerType
  <2> QED
    BY <1>0, <2>2, <2>3 DEF BrokerType, TypeOK
<1>2. FenceType'
  BY <1>0 DEF FenceType, TypeOK
<1>3. PipelineType'
  BY <1>0 DEF PipelineType, TypeOK
<1>4. KmsType'
  BY <1>0 DEF KmsType, TypeOK
<1>5. Lent'
  <2> SUFFICES ASSUME NEW c \in Buffers, slot[c] # "Free"
               PROVE refs'[c] = 0 /\ token'[c] = None
    BY <1>0 DEF Lent
  <2>1. refs[c] = 0 /\ token[c] = None
    BY DEF Lent
  <2>2. c # b
    BY <2>1, <1>a
  <2> QED
    BY <1>0, <1>a, <2>1, <2>2
<1>6. RefsExact'
  <2> SUFFICES ASSUME NEW c \in Buffers PROVE (refs[c] = Holders(c) + leases[c])'
    BY DEF RefsExact
  <2> QED
    BY <1>a
<1>7. Distinct'
  BY <1>0 DEF Distinct, InFlight
<1>8. Fenced'
  BY <1>0 DEF Fenced, TypeOK, BrokerType, FenceType
<1>9. Watched'
  BY <1>0 DEF Watched, TypeOK, FenceType
<1>10. Tracked'
  BY <1>0 DEF Tracked, InFlight
<1>11. Parked'
  BY <1>0 DEF Parked
<1> QED
  BY <1>1, <1>2, <1>3, <1>4, <1>5, <1>6, <1>7, <1>8, <1>9, <1>10, <1>11 DEF TypeOK

(* RequestPower: a request touches no frame.                               *)
LEMMA RequestPowerKeeps == IndInv /\ RequestPower => IndInv'
<1> SUFFICES ASSUME IndInv, RequestPower PROVE IndInv'
  OBVIOUS
<1> USE Constants DEF IndInv, fences, pipeline, kms, broker
<1>1. /\ UNCHANGED <<broker, gpu, fences, leases, strays, scanning, ready>>
      /\ InFlight' = InFlight /\ flight'.frame = flight.frame
  BY DEF RequestPower, InFlight, TypeOK, PipelineType
<1>u. UNCHANGED <<powered, scanning, ready, flight, poweringOff, wake, job, scan, next, flips, late>>
  BY Zenon DEF RequestPower
<1>2. PipelineType'
  BY DEF RequestPower, PipelineType, TypeOK
<1>3. KmsType'
  BY DEF RequestPower, KmsType, TypeOK
<1>4. Tracked'
  BY <1>u DEF Tracked, InFlight
<1>5. Parked'
  BY <1>u DEF Parked
<1> QED
  BY <1>1, <1>2, <1>3, <1>4, <1>5, DisplayStep DEF TypeOK

(* A power-off drops the ready frame.                                       *)
LEMMA DropStep ==
    ASSUME IndInv, BeginPowerOff,
           UNCHANGED <<slot, authorized, rasterizing, gpu, watches, scanning, flight, leases,
                       strays>>
    PROVE  BrokerType' /\ FenceType' /\ Lent' /\ RefsExact' /\ Distinct' /\ Fenced' /\ Watched'
<1> DEFINE D == {ready} \ {None}
<1>1. D \in SUBSET ({ready} \ {None}) /\ D = {ready} \ {None}
  OBVIOUS
<1>2. DiscardReady(D) /\ ReleaseOutput(Rendered(D)) /\ ready' = None
  BY Zenon DEF BeginPowerOff
<1>3. ready' = IF D = {} THEN ready ELSE None
  BY <1>2
<1>4. /\ refs' \in [Buffers -> Nat] /\ FenceType'
      /\ Lent' /\ Fenced' /\ Watched' /\ RefsExact' /\ Distinct'
  BY <1>1, <1>2, <1>3, DroppedOnly, Zenon
<1>5. BrokerType'
  BY <1>4 DEF IndInv, TypeOK, BrokerType
<1> QED
  BY <1>4, <1>5

(* DeferPowerOff: the ready frame is dropped.                              *)
LEMMA DeferPowerOffKeeps == IndInv /\ DeferPowerOff => IndInv'
<1> SUFFICES ASSUME IndInv, DeferPowerOff PROVE IndInv'
  OBVIOUS
<1> USE Constants DEF IndInv, fences, pipeline, kms, BeginPowerOff
<1>1. /\ BeginPowerOff
      /\ UNCHANGED <<slot, authorized, rasterizing, gpu, watches, scanning, flight, leases,
                       strays>>
  BY Zenon DEF DeferPowerOff, BeginPowerOff
<1>2. PipelineType'
  BY DEF DeferPowerOff, PipelineType, TypeOK
<1>3. KmsType'
  BY DEF DeferPowerOff, KmsType, TypeOK
<1>4. Tracked'
  BY DEF DeferPowerOff, Tracked, InFlight
<1>5. Parked'
  BY Zenon DEF DeferPowerOff, Parked
<1> QED
  BY <1>1, <1>2, <1>3, <1>4, <1>5, DropStep DEF TypeOK

(* PowerOff: nothing is in flight when the CRTC goes dark.                 *)
LEMMA PowerOffKeeps == IndInv /\ PowerOff => IndInv'
<1> SUFFICES ASSUME IndInv, PowerOff PROVE IndInv'
  OBVIOUS
<1> USE Constants DEF IndInv, fences, pipeline, kms, BeginPowerOff
<1>1. /\ BeginPowerOff
      /\ UNCHANGED <<slot, authorized, rasterizing, gpu, watches, scanning, flight, leases,
                       strays>>
  BY Zenon DEF PowerOff, BeginPowerOff
<1>2. PipelineType'
  BY Zenon DEF PowerOff, PipelineType, TypeOK
<1>3. KmsType'
  BY Zenon DEF PowerOff, KmsType, TypeOK
<1>4. Tracked'
  BY DEF PowerOff, Tracked, InFlight
<1>5. Parked'
  BY DEF PowerOff, Parked
<1> QED
  BY <1>1, <1>2, <1>3, <1>4, <1>5, DropStep DEF TypeOK

(* PowerOffFails: the ready frame is dropped, the screen stays.            *)
LEMMA PowerOffFailsKeeps == IndInv /\ PowerOffFails => IndInv'
<1> SUFFICES ASSUME IndInv, PowerOffFails PROVE IndInv'
  OBVIOUS
<1> USE Constants DEF IndInv, fences, pipeline, kms, BeginPowerOff
<1>1. /\ BeginPowerOff
      /\ UNCHANGED <<slot, authorized, rasterizing, gpu, watches, scanning, flight, leases,
                       strays>>
  BY Zenon DEF PowerOffFails, BeginPowerOff
<1>2. PipelineType'
  BY Zenon DEF PowerOffFails, PipelineType, TypeOK
<1>3. KmsType'
  BY DEF PowerOffFails, KmsType, TypeOK
<1>4. Tracked'
  BY DEF PowerOffFails, Tracked, InFlight
<1>5. Parked'
  BY Zenon DEF PowerOffFails, Parked
<1> QED
  BY <1>1, <1>2, <1>3, <1>4, <1>5, DropStep DEF TypeOK

(* PowerOn: the parked buffer stays parked.                                *)
LEMMA PowerOnKeeps == IndInv /\ PowerOn => IndInv'
<1> SUFFICES ASSUME IndInv, PowerOn PROVE IndInv'
  OBVIOUS
<1> USE Constants DEF IndInv, fences, pipeline, kms, broker
<1>1. /\ UNCHANGED <<broker, gpu, fences, leases, strays, scanning, ready>>
      /\ InFlight' = InFlight /\ flight'.frame = flight.frame
  BY DEF PowerOn, InFlight, TypeOK, PipelineType
<1>2. PipelineType'
  BY DEF PowerOn, PipelineType, TypeOK
<1>3. KmsType'
  BY DEF PowerOn, KmsType, TypeOK
<1>4. Tracked'
  BY DEF PowerOn, Tracked, InFlight
<1>5. Parked'
  BY DEF PowerOn, Parked
<1> QED
  BY <1>1, <1>2, <1>3, <1>4, <1>5, DisplayStep DEF TypeOK

(* PowerUnchanged: no frame is touched.                                    *)
LEMMA PowerUnchangedKeeps == IndInv /\ PowerUnchanged => IndInv'
<1> SUFFICES ASSUME IndInv, PowerUnchanged PROVE IndInv'
  OBVIOUS
<1> USE Constants DEF IndInv, fences, pipeline, kms, broker
<1>1. /\ UNCHANGED <<broker, gpu, fences, leases, strays, scanning, ready>>
      /\ InFlight' = InFlight /\ flight'.frame = flight.frame
  BY DEF PowerUnchanged, InFlight, TypeOK, PipelineType
<1>2. PipelineType'
  BY Zenon DEF PowerUnchanged, PipelineType, TypeOK
<1>3. KmsType'
  BY DEF PowerUnchanged, KmsType, TypeOK
<1>4. Tracked'
  BY DEF PowerUnchanged, Tracked, InFlight
<1>5. Parked'
  BY DEF PowerUnchanged, Parked
<1> QED
  BY <1>1, <1>2, <1>3, <1>4, <1>5, DisplayStep DEF TypeOK

(* Replace: the new scheduler starts from one buffer.                      *)
LEMMA ReplaceKeeps == IndInv /\ Replace => IndInv'
<1> SUFFICES ASSUME IndInv, Replace PROVE IndInv'
  OBVIOUS
<1> USE Constants DEF IndInv, fences, pipeline, kms, Rebuild, Idle
<1>a. /\ scanning' \in Buffers /\ ready' = None /\ flight' = Idle /\ ~InFlight'
      /\ \A c \in Buffers :
           /\ slot'[c] = "Free" /\ token'[c] = None /\ ~signaled'[c] /\ ~discard'[c]
           /\ ~gpu'[c] /\ leases'[c] = 0
           /\ refs'[c] = IF c = scanning' THEN 1 ELSE 0
      /\ job' = Idle /\ next' = None /\ flips' = 0 /\ poweringOff' = FALSE /\ wake' = FALSE
      /\ scan' = IF powered THEN scanning' ELSE None
      /\ powered' = powered
  BY DEF Replace, TypeOK, PipelineType, InFlight
<1>b. \A v \in watches' : v \in Watches /\ ~v.live
  <2> SUFFICES ASSUME NEW w \in watches
               PROVE [w EXCEPT !.live = FALSE] \in Watches /\ ~[w EXCEPT !.live = FALSE].live
    BY Zenon DEF Replace
  <2>1. w \in Watches
    BY DEF TypeOK, FenceType
  <2> QED
    BY <2>1, Zenon DEF Watches
<1>1. BrokerType'
  <2>1. leases' = [c \in Buffers |-> 0] /\ 0 \in 0 .. MaxLeases
    BY PipelineConstants DEF Replace
  <2>2. refs' \in [Buffers -> Nat]
    BY DEF Replace
  <2>3. leases' \in [Buffers -> 0 .. MaxLeases]
    BY <2>1
  <2>4. strays' \subseteq Buffers
    BY DEF Replace, Unfinished, TypeOK, BrokerType
  <2> QED
    BY <2>2, <2>3, <2>4, Zenon DEF Replace, BrokerType
<1>2. FenceType'
  BY <1>b DEF Replace, FenceType
<1>3. PipelineType'
  <2>1. flight' \in [stage : {"none", "scheduled", "submitted"}, frame : Buffers]
    BY <1>a
  <2>2. powered \in BOOLEAN /\ request \in {"none", "on", "off"} /\ request' = request
    BY DEF Replace, TypeOK, PipelineType
  <2> QED
    BY <1>a, <2>1, <2>2, Zenon DEF PipelineType
<1>4. KmsType'
  <2>1. late' \in BOOLEAN
    BY ZenonT(60) DEF Replace, TypeOK, KmsType
  <2> QED
    BY <1>a, <2>1 DEF KmsType
<1>5. Lent'
  BY <1>a DEF Lent
<1>6. RefsExact'
  <2> SUFFICES ASSUME NEW c \in Buffers PROVE (refs[c] = Holders(c) + leases[c])'
    BY DEF RefsExact
  <2>1. c # ready' /\ ~discard'[c] /\ leases'[c] = 0
    BY <1>a
  <2>2. CASE c = scanning'
    BY <2>1, <2>2, <1>a DEF Holders, One, InFlight
  <2>3. CASE c # scanning'
    BY <2>1, <2>3, <1>a DEF Holders, One, InFlight
  <2> QED
    BY <2>2, <2>3
<1>7. Distinct'
  BY <1>a DEF Distinct
<1>8. Fenced'
  BY <1>a DEF Fenced
<1>9. Watched'
  BY <1>a, <1>b, Zenon DEF Watched, Watches
<1>10. Tracked'
  BY <1>a DEF Tracked, InFlight
<1>11. Parked'
  BY <1>a DEF Parked
<1> QED
  BY <1>1, <1>2, <1>3, <1>4, <1>5, <1>6, <1>7, <1>8, <1>9, <1>10, <1>11 DEF TypeOK

(* FinishStray: the new broker keeps no account of the old one's work.     *)
LEMMA FinishStrayKeeps == IndInv /\ FinishStray => IndInv'
<1> SUFFICES ASSUME IndInv, FinishStray PROVE IndInv'
  OBVIOUS
<1>0. /\ UNCHANGED <<broker, gpu, pipeline, fences, leases, request, kms>>
      /\ strays' \subseteq strays
  BY DEF FinishStray
<1>1. UNCHANGED <<refs, leases, pipeline, fences, request, kms>>
  BY <1>0 DEF broker
<1>2. BrokerType'
  BY <1>0 DEF IndInv, TypeOK, BrokerType, broker
<1>3. Lent' /\ Fenced'
  BY <1>0 DEF IndInv, TypeOK, BrokerType, FenceType, Lent, Fenced, broker, pipeline, fences
<1> QED
  BY <1>1, <1>2, <1>3, BrokerStep DEF IndInv, TypeOK

(* The first frame on screen: every part of the invariant at start.        *)
LEMMA InitKeeps == Init => IndInv
<1> SUFFICES ASSUME Init PROVE IndInv
  OBVIOUS
<1> USE Constants, PipelineConstants
<1>1. TypeOK
  <2>1. refs \in [Buffers -> Nat]
    BY DEF Init
  <2>2. leases \in [Buffers -> 0 .. MaxLeases]
    <3>1. 0 \in 0 .. MaxLeases
      OBVIOUS
    <3> QED
      BY <3>1 DEF Init
  <2>3. BrokerType
    BY <2>1, <2>2, Zenon DEF Init, BrokerType
  <2>4. FenceType
    BY DEF Init, FenceType
  <2>5. PipelineType /\ KmsType
    <3>1. /\ Idle \in [stage : {"none", "scheduled", "submitted"}, frame : Buffers]
          /\ Idle \in [stage : {"none", "queued", "sent"}, frame : Buffers]
      BY DEF Idle
    <3>2. PipelineType
      BY <3>1, Zenon DEF Init, PipelineType
    <3>3. flips \in 0 .. 1
      BY DEF Init
    <3> QED
      BY <3>1, <3>2, <3>3, Zenon DEF Init, KmsType
  <2> QED
    BY <2>3, <2>4, <2>5 DEF TypeOK
<1>2. RefsExact
  <2> SUFFICES ASSUME NEW b \in Buffers PROVE refs[b] = Holders(b) + leases[b]
    BY DEF RefsExact
  <2>1. b # ready /\ ~discard[b] /\ leases[b] = 0 /\ flight.stage = "none" /\ scanning = 0
    BY DEF Init, Idle
  <2>2. CASE b = 0
    BY <2>1, <2>2 DEF Init, Holders, One
  <2>3. CASE b # 0
    BY <2>1, <2>3 DEF Init, Holders, One
  <2> QED
    BY <2>2, <2>3
<1>3. Lent /\ Distinct /\ Fenced /\ Watched /\ Parked
  BY DEF Init, Idle, Lent, Distinct, InFlight, Fenced, Watched, Parked
<1>4. Tracked
  BY DEF Init, Idle, Tracked, InFlight
<1> QED
  BY <1>1, <1>2, <1>3, <1>4 DEF IndInv

(* Every step keeps the invariant.                                         *)
LEMMA NextKeeps == IndInv /\ [Next]_vars => IndInv'
<1> SUFFICES ASSUME IndInv, [Next]_vars PROVE IndInv'
  OBVIOUS
<1>1. CASE Raster
  BY <1>1, MakeCurrentKeeps, AcquireKeeps, PresentKeeps, RasterIdleKeeps,
     TransferDoneKeeps
     DEF Raster
<1>2. CASE Loop
  BY <1>2, PublishKeeps, AcknowledgeFenceKeeps, SubmitKeeps, SubmitWakeKeeps,
     AcknowledgeSubmissionKeeps, CompleteFlipKeeps, DropLateFlipKeeps
     DEF Loop
<1>3. CASE Power
  BY <1>3, PowerOffKeeps, PowerOnKeeps, PowerUnchangedKeeps
     DEF Power
<1>4. CASE Hardware
  BY <1>4, GpuDoneKeeps, VolitionCommitKeeps, PageFlipKeeps
     DEF Hardware
<1>5. ASSUME \/ Authorize \/ DropAuthorization \/ SubmitStale
             \/ RetainForScreencopy \/ FinishScreencopy
             \/ RequestPower \/ DeferPowerOff \/ PowerOffFails \/ Replace
             \/ FinishStray
      PROVE  IndInv'
  BY <1>5, AuthorizeKeeps, DropAuthorizationKeeps, SubmitStaleKeeps,
     RetainForScreencopyKeeps, FinishScreencopyKeeps, RequestPowerKeeps,
     DeferPowerOffKeeps, PowerOffFailsKeeps, ReplaceKeeps, FinishStrayKeeps
<1>6. CASE UNCHANGED vars
  <2>1. UNCHANGED <<broker, gpu, pipeline, fences, leases, strays, request, kms>>
    BY <1>6 DEF vars
  <2>2. UNCHANGED <<refs, leases, pipeline, fences, request, kms>>
    BY <2>1 DEF broker
  <2>3. BrokerType' /\ Lent' /\ Fenced'
    BY <2>1 DEF IndInv, TypeOK, BrokerType, Lent, Fenced, broker, pipeline, fences
  <2> QED
    BY <2>2, <2>3, BrokerStep DEF IndInv, TypeOK
<1> QED
  BY <1>1, <1>2, <1>3, <1>4, <1>5, <1>6 DEF Next

(* The inductive invariant: who holds each buffer, which claim its fence   *)
(* belongs to and where its commit is, after every handler of the loop.    *)
THEOREM Inductive == Spec => []IndInv
BY InitKeeps, NextKeeps, PTL DEF Spec

(* The broker, the fence slots, the pipeline and the commit stay well      *)
(* formed; at most one unretired page flip is counted, and no power-off or *)
(* replacement leaves a frame in flight behind.                            *)
THEOREM TypesHold == Spec => []TypeOK
<1>1. IndInv => TypeOK
  BY DEF IndInv
<1> QED
  BY <1>1, Inductive, PTL

(* References are exact: Broker::release_output never finds a buffer       *)
(* without an owner and no buffer leaks.                                   *)
THEOREM ReferencesHold == Spec => []RefsExact
<1>1. IndInv => RefsExact
  BY DEF IndInv
<1> QED
  BY <1>1, Inductive, PTL

(* Every framebuffer in OnDisplay is the scanned one or the one in flight. *)
LEMMA DisplayHeld ==
    ASSUME IndInv, NEW b \in OnDisplay
    PROVE  b \in Buffers /\ (b = scanning \/ (InFlight /\ b = flight.frame))
<1> USE Constants
<1>1. flight.frame \in Buffers /\ scanning \in Buffers /\ job.frame \in Buffers
  BY DEF IndInv, TypeOK, PipelineType, KmsType
<1>2. CASE b = scan /\ b # None
  BY <1>1, <1>2 DEF IndInv, Tracked, InFlight
<1>3. CASE b = next /\ b # None
  BY <1>1, <1>3 DEF IndInv, Tracked, InFlight
<1>4. CASE job.stage # "none" /\ b = job.frame
  BY <1>1, <1>4 DEF IndInv, Tracked, InFlight, TypeOK, PipelineType
<1> QED
  BY <1>2, <1>3, <1>4 DEF OnDisplay

(* No tearing: whatever the interleaving of raster thread, event loop,     *)
(* worker, GPU, page flips, power changes and recoveries, Broker::acquire  *)
(* never lends a buffer that is shown, about to be shown or read by a      *)
(* capture that this broker granted.  A capture that outlives its Flutter  *)
(* on a reused pool (Leftovers) is outside: the code does not protect it.  *)
THEOREM NoTearingHolds == Spec => []NoTearing
<1>1. IndInv => NoTearing
  <2> SUFFICES ASSUME IndInv, NEW b \in Buffers, slot[b] # "Free"
               PROVE  b \notin OnDisplay /\ leases[b] = 0 /\ b # scanning
    BY DEF NoTearing
  <2>1. refs[b] = 0
    BY DEF IndInv, Lent
  <2>2. b # scanning /\ leases[b] = 0 /\ ~(InFlight /\ flight.frame = b)
    BY <2>1, Unheld
  <2> QED
    BY <2>2, DisplayHeld
<1> QED
  BY <1>1, Inductive, PTL

(* Only rendered frames reach KMS: the fence tokens of submit_ready and    *)
(* acknowledge_ready_fences replace the in-fence the commits do not carry. *)
THEOREM DisplayedIsRenderedHolds == Spec => []DisplayedIsRendered
<1>1. IndInv => DisplayedIsRendered
  <2> SUFFICES ASSUME IndInv, NEW b \in OnDisplay PROVE ~gpu[b]
    BY DEF DisplayedIsRendered
  <2>1. b \in Buffers /\ (b = scanning \/ (InFlight /\ b = flight.frame))
    BY DisplayHeld
  <2>2. refs[b] # 0
    BY <2>1, Unheld
  <2>3. slot[b] = "Free"
    BY <2>1, <2>2 DEF IndInv, Lent
  <2>4. b # ready /\ ~discard[b]
    BY <2>1 DEF IndInv, Distinct
  <2>5. token[b] = None
    BY <2>1, <2>4 DEF IndInv, Fenced
  <2> QED
    BY <2>1, <2>3, <2>5 DEF IndInv, Fenced
<1> QED
  BY <1>1, Inductive, PTL

(* A dropped frame's storage waits for its fence (discard_ready_frame), so *)
(* Flutter never draws over unfinished GPU work.                           *)
THEOREM NoRenderOverGpuWorkHolds == Spec => []NoRenderOverGpuWork
<1>1. IndInv => NoRenderOverGpuWork
  BY DEF IndInv, Fenced, NoRenderOverGpuWork
<1> QED
  BY <1>1, Inductive, PTL

(* publish_ready and Broker::publish accept every frame the loop takes.    *)
THEOREM HandoffAcceptedHolds == Spec => []HandoffAccepted
<1>1. IndInv => HandoffAccepted
  <2> SUFFICES ASSUME IndInv, NEW b \in Buffers, slot[b] = "Pending", HandoffAvailable
               PROVE  Publishable(b)
    BY DEF HandoffAccepted
  <2>1. refs[b] = 0 /\ token[b] = None
    BY DEF IndInv, Lent
  <2>2. ~discard[b] /\ b # ready
    BY <2>1, Unheld
  <2>3. ~signaled[b]
    BY <2>2 DEF IndInv, Fenced
  <2>4. powered => ready = None
    BY DEF HandoffAvailable, IndInv, Parked
  <2> QED
    BY <2>1, <2>2, <2>3, <2>4 DEF Publishable
<1> QED
  BY <1>1, Inductive, PTL

(* A page flip retires the frame it belongs to, although it names only the *)
(* CRTC, and CRTC and scheduler agree on what is shown.                    *)
THEOREM ScreenKnownHolds == Spec => []ScreenKnown
<1>1. IndInv => ScreenKnown
  <2> SUFFICES ASSUME IndInv PROVE ScreenKnown
    OBVIOUS
  <2>1. flips \in 0 .. 1
    BY DEF IndInv, TypeOK, KmsType
  <2> QED
    BY <2>1 DEF IndInv, Tracked, InFlight, ScreenKnown
<1> QED
  BY <1>1, Inductive, PTL

(* Volition never has a commit of a CRTC to enter while KMS still owes the *)
(* flip of the one before.                                                 *)
THEOREM OneCommitHolds == Spec => []OneCommit
<1>1. IndInv => OneCommit
  BY DEF IndInv, Tracked, OneCommit
<1> QED
  BY <1>1, Inductive, PTL

(* No framebuffer is drawn while it is shown, read by a capture of this    *)
(* broker or still on the GPU for this Flutter; the Leftovers of a         *)
(* replaced Flutter are not covered.                                       *)
THEOREM BuffersAreSafe == Spec => []BuffersSafe
<1>1. NoTearing /\ DisplayedIsRendered /\ NoRenderOverGpuWork => BuffersSafe
  BY DEF BuffersSafe
<1> QED
  BY <1>1, NoTearingHolds, DisplayedIsRenderedHolds, NoRenderOverGpuWorkHolds, PTL

(* Flutter, the scheduler and KMS agree on every frame.                    *)
THEOREM SchedulerAlwaysAgrees == Spec => []SchedulerAgrees
<1>1. HandoffAccepted /\ ScreenKnown /\ OneCommit => SchedulerAgrees
  BY DEF SchedulerAgrees
<1> QED
  BY <1>1, HandoffAcceptedHolds, ScreenKnownHolds, OneCommitHolds, PTL
=============================================================================
