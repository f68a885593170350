------------------------- MODULE OutputApplyProofs -------------------------
(***************************************************************************)
(* A submitted layout, for any outputs, panels, connector order, layouts    *)
(* and clients: what its passes do to the preferences, and what the turns   *)
(* of the loop do to the configuration, the screen, the file and the        *)
(* layout that waits for its confirmation.                                  *)
(***************************************************************************)
EXTENDS OutputApply, TLAPS, SequenceTheorems, WellFoundedInduction

-----------------------------------------------------------------------------
(* A nonempty set of outputs has a first one. *)
LEMMA FirstIsMember ==
    ASSUME NEW S, S \subseteq Outputs, S # {}
    PROVE  First(S) \in S
<1> DEFINE ranks == {Rank[o] : o \in S}
<1>1. ranks \subseteq Nat /\ ranks # {}
  BY OutputsAssumption
<1> DEFINE less == {ss \in Nat \X Nat : ss[1] < ss[2]}
<1>2. IsWellFoundedOn(less, Nat)
  BY NatLessThanWellFounded, Zenon DEF OpToRel
<1>3. \E m \in ranks : \A n \in ranks : ~ (<<n, m>> \in less)
  <2> HIDE DEF less, ranks
  <2> QED
    BY <1>1, <1>2, WFMin, Zenon
<1>4. PICK m \in ranks : \A n \in ranks : ~ (<<n, m>> \in less)
  BY <1>3
<1>5. \A n \in ranks : m <= n
  <2> TAKE n \in ranks
  <2>1. m \in Nat /\ n \in Nat
    BY <1>1
  <2>2. ~ (<<n, m>> \in less)
    BY <1>4
  <2>3. <<n, m>> \in less <=> n < m
    <3> HIDE DEF ranks
    <3>1. <<n, m>> \in Nat \X Nat /\ <<n, m>>[1] = n /\ <<n, m>>[2] = m
      BY <2>1
    <3>2. QED
      BY <3>1
  <2>4. QED
    BY <2>1, <2>2, <2>3
<1>6. PICK o \in S : Rank[o] = m
  OBVIOUS
<1>7. \A p \in S : Rank[o] <= Rank[p]
  BY <1>5, <1>6
<1>8. QED
  BY <1>7 DEF First

(* The fallback is a connected output, and never a panel under the lid. *)
LEMMA FallbackVisible ==
    ASSUME NEW c, c \subseteq Outputs, NEW d \in BOOLEAN
    PROVE  /\ FallbackOf(c, d) \subseteq c
           /\ d => FallbackOf(c, d) \cap Panels = {}
<1>1. c \ Panels # {} => First(c \ Panels) \in c \ Panels
  BY FirstIsMember
<1>2. c \cap (Panels \ Covered(Panels, d)) # {} =>
        First(c \cap (Panels \ Covered(Panels, d))) \in c \cap (Panels \ Covered(Panels, d))
  BY FirstIsMember
<1>3. d => Panels \ Covered(Panels, d) = {}
  BY DEF Covered
<1>4. QED
  BY <1>1, <1>2, <1>3 DEF FallbackOf

(* A connected output that is preferred and not under the lid is lit. *)
LEMMA PreferredLit ==
    ASSUME NEW c, NEW dis, NEW d \in BOOLEAN, NEW r \in c \ dis,
           r \notin Covered(c, d)
    PROVE  r \in Lit(c, dis, d)
  BY DEF Lit, Covered

(* What is lit is connected; and while something that is preferred is not   *)
(* under the lid, nothing under the lid is lit.                             *)
LEMMA LitVisible ==
    ASSUME NEW c, c \subseteq Outputs, NEW dis, NEW d \in BOOLEAN
    PROVE  /\ Lit(c, dis, d) \subseteq c
           /\ (c \ dis) \ Covered(c, d) # {} \/ c \ dis = {} =>
                Lit(c, dis, d) \cap Covered(c, d) = {}
  BY FallbackVisible DEF Lit, Covered

-----------------------------------------------------------------------------
(* The loop stops where a pass changes nothing; panels that stay dark keep  *)
(* their preference because no pass lights them.                            *)
Dark == Shut \ (requested \cup Lit(connected, before, closed))

PassInv ==
    /\ TypeOK
    /\ MovesToRequested
    /\ done => Passed = disabled
    /\ ShownSavesNothing
    /\ requested \ Shut # {} =>
          \A p \in Dark : p \notin LitNow /\ (p \in disabled <=> p \in before)

LEMMA InitInvariant == Init => PassInv
<1> SUFFICES ASSUME Init PROVE PassInv
  OBVIOUS
<1>1. TypeOK /\ MovesToRequested /\ ShownSavesNothing
  BY Zenon DEF Init, TypeOK, MovesToRequested, ShownSavesNothing
<1>2. \A p \in Dark : p \notin LitNow /\ (p \in disabled <=> p \in before)
  BY DEF Init, Dark, LitNow
<1>3. done => Passed = disabled
  BY DEF Init
<1>4. QED
  BY <1>1, <1>2, <1>3 DEF PassInv

LEMMA PassKeeps == PassInv /\ Pass => PassInv'
<1> SUFFICES ASSUME PassInv, Pass PROVE PassInv'
  OBVIOUS
<1>1. /\ disabled' = Passed /\ done' = (Passed = disabled)
      /\ UNCHANGED <<connected, closed, requested, before>>
  BY Zenon DEF Pass
<1>2. LitNow \subseteq connected
  BY LitVisible, Zenon DEF PassInv, TypeOK, LitNow
<1>3. TypeOK'
  BY <1>1, <1>2 DEF PassInv, TypeOK, Passed
<1>4. MovesToRequested'
  BY <1>1, <1>2 DEF PassInv, MovesToRequested, Passed
<1>5. (done => Passed = disabled)'
  <2> SUFFICES ASSUME done' PROVE Passed' = disabled'
    OBVIOUS
  <2>1. disabled' = disabled
    BY <1>1, Zenon
  <2>2. LitNow' = LitNow
    BY <1>1, <2>1 DEF LitNow
  <2>3. Passed' = Passed
    BY <1>1, <2>1, <2>2 DEF Passed
  <2>4. QED
    BY <1>1, <2>3
<1>6. ShownSavesNothing'
  <2> SUFFICES ASSUME Lit(connected, before, closed) = requested
               PROVE  disabled' = before
    BY <1>1 DEF ShownSavesNothing
  <2>1. disabled = before /\ LitNow = requested
    BY DEF PassInv, ShownSavesNothing, LitNow
  <2>2. QED
    BY <1>1, <2>1 DEF Passed
<1>7. ASSUME requested \ Shut # {}, NEW p \in Dark
      PROVE  p \notin LitNow' /\ (p \in disabled' <=> p \in before)
  <2>1. p \notin LitNow /\ (p \in disabled <=> p \in before)
    BY <1>7 DEF PassInv
  <2>2. p \in disabled' <=> p \in disabled
    BY <1>1, <2>1 DEF Passed, Dark
  <2>3. PICK r \in requested : r \notin Shut
    BY <1>7
  <2>4. r \in connected
    BY <2>3 DEF PassInv, TypeOK
  <2>5. p \in Covered(connected, closed) /\ p \in connected
    BY DEF Dark, Shut, Covered
  <2>6. CASE connected \ disabled' = {}
    <3>1. Lit(connected, disabled', closed) \cap Covered(connected, closed) = {}
      BY <2>6, LitVisible DEF PassInv, TypeOK
    <3>2. QED
      BY <1>1, <2>1, <2>2, <2>5, <3>1 DEF LitNow
  <2>7. CASE connected \ disabled' # {}
    <3>1. CASE r \notin disabled'
      <4>1. Lit(connected, disabled', closed) \cap Covered(connected, closed) = {}
        BY <2>3, <2>4, <3>1, LitVisible DEF PassInv, TypeOK, Shut
      <4>2. QED
        BY <1>1, <2>1, <2>2, <2>5, <4>1 DEF LitNow
    <3>2. CASE r \in disabled'
      <4>1. r \in LitNow /\ r \in disabled
        BY <1>1, <2>3, <3>2 DEF Passed
      <4>2. connected \ disabled = {}
        BY <4>1 DEF LitNow, Lit
      <4>3. p \in disabled'
        BY <2>2, <2>5, <4>2
      <4>4. p \notin Lit(connected, disabled', closed)
        BY <2>5, <2>7, <4>3 DEF Lit
      <4>5. QED
        BY <1>1, <2>1, <2>2, <4>4 DEF LitNow
    <3>3. QED
      BY <3>1, <3>2
  <2>8. QED
    BY <2>6, <2>7
<1>8. Shut' = Shut /\ Dark' = Dark
  BY <1>1 DEF Shut, Dark
<1>9. QED
  BY <1>1, <1>3, <1>4, <1>5, <1>6, <1>7, <1>8 DEF PassInv

LEMMA StutterKeeps == PassInv /\ UNCHANGED vars => PassInv'
  BY DEF PassInv, vars, TypeOK, MovesToRequested, ShownSavesNothing, Passed,
         LitNow, Dark, Shut

(* The inductive invariant of the passes. *)
THEOREM Inductive == Spec => []PassInv
<1>1. PassInv /\ [Next]_vars => PassInv'
  BY PassKeeps, StutterKeeps DEF Next
<1>2. QED
  BY InitInvariant, <1>1, PTL DEF Spec

(* When the passes have ended, the preferences light the submitted layout.  *)
(* It follows from the fixed point alone.                                   *)
LEMMA FixedPointLights == PassInv => LightsRequested
<1> SUFFICES ASSUME PassInv, done, requested \ Shut # {}
             PROVE  LitNow = requested \ Shut
  BY DEF LightsRequested
<1>1. Passed = disabled
  BY DEF PassInv
<1>2. PICK r \in requested : r \notin Shut
  OBVIOUS
<1>3. \A q \in requested \ Shut : q \in LitNow
  <2> TAKE q \in requested \ Shut
  <2>1. CASE q \in disabled
    BY <1>1, <2>1 DEF Passed
  <2>2. CASE q \notin disabled
    <3>1. q \in connected \ disabled /\ q \notin Covered(connected, closed)
      BY <2>2 DEF PassInv, TypeOK, Shut
    <3>2. QED
      BY <3>1, PreferredLit DEF PassInv, TypeOK, LitNow
  <2>3. QED
    BY <2>1, <2>2
<1>4. LitNow \subseteq connected
  BY LitVisible, Zenon DEF PassInv, TypeOK, LitNow
<1>5. \A l \in LitNow : l \in requested
  <2> SUFFICES ASSUME NEW l \in LitNow, l \notin requested
               PROVE  FALSE
    OBVIOUS
  <2>1. l \in disabled
    BY <1>1, <1>4 DEF Passed
  <2>2. connected \ disabled = {}
    BY <2>1 DEF LitNow, Lit
  <2>3. LitNow = FallbackOf(connected, closed)
    BY <2>2 DEF LitNow, Lit
  <2>4. r = l
    BY <1>2, <1>3, <2>3 DEF FallbackOf
  <2>5. QED
    BY <2>4
<1>6. LitNow \cap Covered(connected, closed) = {}
  <2>1. CASE connected \ disabled = {}
    BY <2>1, LitVisible DEF PassInv, TypeOK, LitNow
  <2>2. CASE connected \ disabled # {}
    <3>1. r \in connected \ disabled
      BY <1>2, <1>3, <2>2 DEF LitNow, Lit
    <3>2. (connected \ disabled) \ Covered(connected, closed) # {}
      BY <1>2, <3>1 DEF Shut
    <3>3. QED
      BY <3>2, LitVisible DEF PassInv, TypeOK, LitNow
  <2>3. QED
    BY <2>1, <2>2
<1>7. QED
  BY <1>3, <1>5, <1>6 DEF Shut

(* Panels that the lid keeps dark keep their preference, a layout submitted *)
(* as it is shown changes none, and no other one moves.                     *)
LEMMA PassesSaveWhatIsAsked == PassInv => OnlyAskedSaved
  BY DEF PassInv, OnlyAskedSaved, CoveredKept, Dark

(* Alone, the passes light the submitted layout from any preferences, with  *)
(* anything connected, covered or disabled.                                 *)
THEOREM SubmittedLayoutLit == Spec => []LightsRequested
  BY Inductive, FixedPointLights, PTL

(* Only what was asked for is saved, whatever is connected, preferred or    *)
(* covered.                                                                 *)
THEOREM OnlyAskedIsSaved == Spec => []OnlyAskedSaved
  BY Inductive, PassesSaveWhatIsAsked, PTL

-----------------------------------------------------------------------------
(* The steps of a turn keep the types: the clients and the hardware. *)
LEMMA BetweenTurnsTypes ==
    ASSUME ApplyTypeOK,
           \/ \E wish \in Wishes : Submit(wish)
           \/ \E o \in offered, keep \in BOOLEAN : Answer(o.token, keep)
           \/ MoveLid \/ Turn \/ SwitchSession \/ RequestRebuild \/ Edit
           \/ \E o \in Outputs : Replug(o)
    PROVE  ApplyTypeOK'
<1>1. ASSUME NEW wish \in Wishes, Submit(wish) PROVE ApplyTypeOK'
  <2>1. [serial |-> snap.serial, outputs |-> snap.state.scan, wish |-> wish] \in Requests
    BY <1>1 DEF ApplyTypeOK, Submit, Requests
  <2>2. queue' \in Seq(Requests)
    BY <1>1, <2>1 DEF ApplyTypeOK, Submit
  <2>3. QED
    BY <1>1, <2>2 DEF ApplyTypeOK, Submit, hardware, screen, published, rescans,
                      waiting, saved, passes
<1>2. ASSUME NEW o \in offered, NEW keep \in BOOLEAN, Answer(o.token, keep)
      PROVE  ApplyTypeOK'
  <2>1. o.token \in Nat /\ answers \in Seq([token : Nat, keep : BOOLEAN])
    BY DEF ApplyTypeOK
  <2>2. answers' \in Seq([token : Nat, keep : BOOLEAN])
    BY <1>2, <2>1 DEF Answer
  <2>3. QED
    BY <1>2, <2>2 DEF ApplyTypeOK, Answer, hardware, screen, published, rescans, waiting,
                      saved, passes
<1>3. CASE MoveLid
  <2>1. lid' \in BOOLEAN
    BY <1>3, Zenon DEF MoveLid
  <2>2. moves' \in Nat
    BY <1>3 DEF ApplyTypeOK, MoveLid, Move
  <2>3. QED
    BY <1>3, <2>1, <2>2, Zenon DEF ApplyTypeOK, MoveLid, Move, screen, published, waiting, passes
<1>4. CASE Turn
  <2>1. sensor' \in {0, 1} /\ moves' \in Nat
    BY <1>4 DEF ApplyTypeOK, Turn, Move
  <2>2. QED
    BY <1>4, <2>1, Zenon DEF ApplyTypeOK, Turn, Move, screen, published, waiting, passes
<1>5. CASE SwitchSession
  <2>1. moves' \in Nat
    BY <1>5 DEF ApplyTypeOK, SwitchSession, Move
  <2>2. QED
    BY <1>5, <2>1, Zenon DEF ApplyTypeOK, SwitchSession, Move, hardware, screen, published, waiting, passes
<1>6. CASE Edit
  <2>1. file' \in Layouts
    BY <1>6, Zenon DEF ApplyTypeOK, Edit, Layouts
  <2>2. QED
    <3>1. moves' \in Nat
      BY <1>6 DEF ApplyTypeOK, Edit, Move
    <3>2. QED
      BY <1>6, <2>1, <3>1, Zenon DEF ApplyTypeOK, Edit, Move, hardware, screen, published, waiting,
                                     passes
<1>7. ASSUME NEW o \in Outputs, Replug(o) PROVE ApplyTypeOK'
  <2>1. moves' \in Nat /\ plugged' \subseteq Outputs
    BY <1>7 DEF ApplyTypeOK, Replug, Move
  <2>2. QED
    BY <1>7, <2>1, Zenon DEF ApplyTypeOK, Replug, Move, screen, published, waiting, passes
<1>8. CASE RequestRebuild
  <2>1. moves' \in Nat
    BY <1>8 DEF ApplyTypeOK, RequestRebuild, Move
  <2>2. QED
    BY <1>8, <2>1, Zenon DEF ApplyTypeOK, RequestRebuild, Move, hardware, screen, published, waiting, passes
<1>9. QED
  BY <1>1, <1>2, <1>3, <1>4, <1>5, <1>6, <1>7, <1>8

(* A configuration and the one to return to follow sensor and lid. *)
LEMMA FollowTypes ==
    ASSUME ApplyTypeOK, NEW r \in {0, 1}, NEW l \in BOOLEAN
    PROVE  /\ [conf EXCEPT !.rot = r] \in Configurations
           /\ [conf EXCEPT !.closed = l] \in Configurations
           /\ active # None => /\ [active EXCEPT !.conf.rot = r] \in Confirmations
                               /\ [active EXCEPT !.conf.closed = l] \in Confirmations
<1>1. \A c \in Configurations : /\ [c EXCEPT !.rot = r] \in Configurations
                                /\ [c EXCEPT !.closed = l] \in Configurations
  BY DEF Configurations
<1>2. ASSUME active # None
      PROVE  /\ [active EXCEPT !.conf.rot = r] \in Confirmations
             /\ [active EXCEPT !.conf.closed = l] \in Confirmations
  <2>1. active \in Confirmations /\ active.conf \in Configurations
    BY <1>2 DEF ApplyTypeOK, Confirmations
  <2>2. /\ [active.conf EXCEPT !.rot = r] \in Configurations
        /\ [active.conf EXCEPT !.closed = l] \in Configurations
    BY <1>1, <2>1
  <2>3. QED
    BY <2>1, <2>2 DEF Confirmations
<1>3. QED
  BY <1>1, <1>2 DEF ApplyTypeOK

(* What a rollback restores has its type. *)
LEMMA RollbackTypes ==
    ASSUME ApplyTypeOK, active # None, Rollback
    PROVE  conf' \in Configurations /\ power' \in PowerModes /\ resident' \in BOOLEAN
           /\ dirty' \in BOOLEAN
  BY DEF ApplyTypeOK, Rollback, Confirmations, PowerModes

(* The head of a turn. *)
LEMMA TurnHeadTypes ==
    ASSUME ApplyTypeOK, TurnHead
    PROVE  ApplyTypeOK'
<1>1. CASE NotTurned \/ SensorFails
  BY <1>1, Zenon DEF ApplyTypeOK, NotTurned, SensorFails, SensorFrame, hardware, rescans, clients,
              saved, passes
<1>2. CASE ApplySensor
  <2>1. conf' \in Configurations /\ active' \in Confirmations \cup {None}
    BY <1>2, FollowTypes, Zenon DEF ApplyTypeOK, ApplySensor
  <2>2. shown' \in [lit : SUBSET Outputs, mode : Nat, place : Nat, rot : {0, 1}]
    BY <1>2, Zenon DEF ApplyTypeOK, ApplySensor, Configurations
  <2>3. QED
    BY <1>2, <2>1, <2>2 DEF ApplyTypeOK, ApplySensor, SensorFrame, hardware, rescans,
                            clients, saved, passes
<1>3. CASE ApplyLid
  <2>1. conf' \in Configurations /\ active' \in Confirmations \cup {None}
    BY <1>3, FollowTypes, Zenon DEF ApplyTypeOK, ApplyLid
  <2>2. QED
    BY <1>3, <2>1 DEF ApplyTypeOK, ApplyLid, hardware, screen, published, clients, saved,
                      passes
<1>4. CASE NotExpired
  BY <1>4, Zenon DEF ApplyTypeOK, NotExpired, ExpireFrame, hardware, clients, saved, passes
<1>5. CASE Expire
  <2>1. conf' \in Configurations /\ power' \in PowerModes /\ resident' \in BOOLEAN
        /\ dirty' \in BOOLEAN
    BY <1>5, RollbackTypes DEF Expire
  <2>2. QED
    BY <1>5, <2>1 DEF ApplyTypeOK, Expire, ExpireFrame, hardware, clients, saved, passes
<1>6. CASE Publish
  <2>1. Token \in Nat /\ Layout(conf) \in Layouts /\ conf.place \in Nat
    BY DEF ApplyTypeOK, Token, Layout, Layouts, Confirmations, Configurations
  <2>2. snap' \in [serial : Nat,
                   state : [scan : SUBSET Outputs, lit : SUBSET Outputs,
                            powered : SUBSET Outputs, mode : Nat, rot : {0, 1}, place : Nat,
                            token : Nat]]
    <3>1. State \in [scan : SUBSET Outputs, lit : SUBSET Outputs, powered : SUBSET Outputs,
                     mode : Nat, rot : {0, 1}, place : Nat, token : Nat]
      BY <2>1, Zenon DEF ApplyTypeOK, State
    <3>2. snap.serial + 1 \in Nat
      BY DEF ApplyTypeOK
    <3>3. QED
      BY <1>6, <3>1, <3>2, Zenon DEF ApplyTypeOK, Publish, Published
  <2>3. offered' \subseteq [token : Nat, layout : Layouts]
    <3>1. \/ offered' = offered
          \/ offered' = offered \cup {[token |-> Token, layout |-> Layout(conf)]}
      BY <1>6, Zenon DEF Publish
    <3>2. [token |-> Token, layout |-> Layout(conf)] \in [token : Nat, layout : Layouts]
      BY <2>1
    <3>3. QED
      BY <3>1, <3>2, Zenon DEF ApplyTypeOK
  <2>4. QED
    BY <1>6, <2>2, <2>3 DEF ApplyTypeOK, Publish, hardware, screen, rescans, saved, passes
<1>7. ASSUME NEW outcome \in Outcomes, PowerGate(outcome) PROVE ApplyTypeOK'
  <2>1. powered' \subseteq Outputs /\ power' \in PowerModes
    BY <1>7, Zenon DEF ApplyTypeOK, PowerGate, Gate, PowerModes
  <2>2. QED
    BY <1>7, <2>1 DEF ApplyTypeOK, PowerGate, Gate, hardware, clients, waiting, saved, passes
<1>8. CASE PowerIdle
  BY <1>8 DEF ApplyTypeOK, PowerIdle, hardware, screen, published, rescans, clients, waiting,
              saved, passes
<1>9. QED
  BY <1>1, <1>2, <1>3, <1>4, <1>5, <1>6, <1>7, <1>8 DEF TurnHead

(* Reading the answers, and saving or rolling back the layout that waits. *)
LEMMA AnsweringTypes ==
    ASSUME ApplyTypeOK, Answering
    PROVE  ApplyTypeOK'
<1>1. CASE AnswersRead
  BY <1>1, Zenon DEF ApplyTypeOK, AnswersRead, hardware, screen, published, rescans, clients, saved,
              passes
<1>2. CASE StaleAnswer
  BY <1>2 DEF ApplyTypeOK, StaleAnswer, hardware, screen, published, rescans, waiting, saved,
              passes
<1>3. ASSUME Taken, active # None, conf' \in Configurations, power' \in PowerModes,
             resident' \in BOOLEAN, dirty' \in BOOLEAN, confirmed' \in BOOLEAN,
             file' \in Layouts, unsynced' \in BOOLEAN, trusted' \in Layouts
      PROVE  ApplyTypeOK'
  <2>1. answers' \in Seq([token : Nat, keep : BOOLEAN])
    <3>1. answers' = Tail(answers) /\ answers # <<>>
      BY <1>3, Zenon DEF Taken
    <3>2. answers \in Seq([token : Nat, keep : BOOLEAN])
      BY Zenon DEF ApplyTypeOK
    <3>3. QED
      BY <3>1, <3>2
  <2>2. /\ UNCHANGED <<pc, plugged, lid, sensor, scan, shown, powered, snap, rescan, rebased,
                       disconnected, lost, kms, hdr, desk, queue, requests, moves, offered, ready,
                       success>>
        /\ handled' = TRUE /\ active' = None
    BY <1>3, Zenon DEF Taken, hardware
  <2>3. QED
    BY <1>3, <2>1, <2>2 DEF ApplyTypeOK
<1>4. ASSUME Taken PROVE active # None
  BY <1>4 DEF Taken, AnswersActive
<1>5. ASSUME active # None, active.file # None, NEW result, Commit(active.file, result)
      PROVE  file' \in Layouts /\ unsynced' \in BOOLEAN
  <2>1. active.file.content \in Layouts
    BY <1>5 DEF ApplyTypeOK, Confirmations, PreparedFiles
  <2>2. QED
    BY <1>5, <2>1 DEF ApplyTypeOK, Commit
<1>6. CASE Keep
  <2>1. Layout(conf) \in Layouts
    BY Zenon DEF ApplyTypeOK, Layout, Layouts, Configurations
  <2>2. active # None
    BY <1>4, <1>6 DEF Keep
  <2>3. file' \in Layouts /\ unsynced' \in BOOLEAN
    BY <1>5, <1>6, <2>2 DEF ApplyTypeOK, Keep
  <2>4. QED
    BY <1>3, <1>6, <2>1, <2>2, <2>3, Zenon DEF ApplyTypeOK, Keep
<1>7. CASE RollBack
  BY <1>3, <1>4, <1>7, RollbackTypes, Zenon DEF ApplyTypeOK, RollBack, saved
<1>8. ASSUME NEW result \in {"failed", "unsynced"}, KeepFails(result) PROVE ApplyTypeOK'
  BY <1>3, <1>4, <1>5, <1>8, RollbackTypes, Zenon DEF ApplyTypeOK, KeepFails
<1>9. QED
  BY <1>1, <1>2, <1>6, <1>7, <1>8 DEF Answering

(* What is lit under a configuration has its type. *)
LEMMA ShownTypes ==
    ASSUME NEW c \in SUBSET Outputs, NEW f \in Configurations
    PROVE  /\ Wanted(c, f) \subseteq c
           /\ Shown(c, f) \in [lit : SUBSET Outputs, mode : Nat, place : Nat, rot : {0, 1}]
<1>1. f.closed \in BOOLEAN /\ f.mode \in Nat /\ f.place \in Nat /\ f.rot \in {0, 1}
  BY DEF Configurations
<1>2. Wanted(c, f) \subseteq c
  BY <1>1, LitVisible DEF Wanted
<1>3. Rotation(Wanted(c, f), f) \in {0, 1}
  BY <1>1 DEF Rotation
<1>4. QED
  BY <1>1, <1>2, <1>3, Zenon DEF Shown

(* Scanning again, and reading the rescanned request. *)
LEMMA AcquiringTypes ==
    ASSUME ApplyTypeOK,
           \/ AcquireNone \/ AcquireRefused \/ AcquireBusy \/ Acquire \/ AcquireUnscanned
           \/ ReadyNone \/ ReadyBusy \/ StageRefused \/ Stage \/ Reconcile
    PROVE  ApplyTypeOK'
<1>1. CASE AcquireNone
  <2>1. queue' \in Seq(Requests)
    <3>1. CASE Rebased /\ ready # None
      <4>1. ready.request \in Requests
        BY <3>1 DEF ApplyTypeOK, ReadyApplies
      <4>2. <<ready.request>> \in Seq(Requests) /\ queue \in Seq(Requests)
        BY <4>1 DEF ApplyTypeOK
      <4>3. <<ready.request>> \o queue \in Seq(Requests)
        BY <4>2, ConcatProperties, Zenon
      <4>4. QED
        BY <1>1, <3>1, <4>3 DEF AcquireNone
    <3>2. QED
      BY <1>1, <3>1 DEF ApplyTypeOK, AcquireNone
  <2>2. QED
    BY <1>1, <2>1 DEF ApplyTypeOK, AcquireNone, AcquireFrame, hardware, saved, passes
<1>2. CASE AcquireRefused \/ AcquireBusy \/ AcquireUnscanned
  <2>1. queue' \in Seq(Requests)
    <3>1. queue' = queue \/ (queue # <<>> /\ queue' = Tail(queue))
      BY <1>2, Zenon DEF AcquireRefused, AcquireBusy, AcquireUnscanned, Acquirable, Available
    <3>2. queue \in Seq(Requests)
      BY DEF ApplyTypeOK
    <3>3. QED
      BY <3>1, <3>2
  <2>2. QED
    BY <1>2, <2>1, Zenon DEF ApplyTypeOK, AcquireRefused, AcquireBusy, AcquireUnscanned, AcquireFrame,
                      hardware, saved, passes
<1>3. CASE Acquire
  <2>1. queue' \in Seq(Requests) /\ Head(queue) \in Requests
    <3>1. queue # <<>> /\ queue' = Tail(queue)
      BY <1>3, Zenon DEF Acquire, Acquirable, Available
    <3>2. queue \in Seq(Requests)
      BY DEF ApplyTypeOK
    <3>3. QED
      BY <3>1, <3>2
  <2>2. ready' \in ReadyApplies
    BY <1>3, <2>1, Zenon DEF ApplyTypeOK, Acquire, ReadyApplies
  <2>3. QED
    BY <1>3, <2>1, <2>2, Zenon DEF ApplyTypeOK, Acquire, AcquireFrame, hardware, saved, passes
<1>4. CASE ReadyNone \/ ReadyBusy \/ StageRefused \/ Stage
  BY <1>4, Zenon DEF ApplyTypeOK, ReadyNone, ReadyBusy, StageRefused, Stage, ReadyFrame, hardware,
              screen, published, clients, saved
<1>5. CASE Reconcile
  BY <1>5 DEF ApplyTypeOK, Reconcile, hardware, screen, published, rescans, clients, waiting,
              saved
<1>6. QED
  BY <1>1, <1>2, <1>3, <1>4, <1>5

(* The observed topology. *)
LEMMA RescanningTypes ==
    ASSUME ApplyTypeOK, Rescanning
    PROVE  ApplyTypeOK'
<1>1. CASE NoRescan \/ NothingToLight
  BY <1>1, Zenon DEF ApplyTypeOK, NoRescan, NothingToLight, TopologyFrame, hardware, clients, waiting,
              saved, passes, rescans
<1>2. CASE Stable \/ RebuildBusy
  BY <1>2, Zenon DEF ApplyTypeOK, Stable, RebuildBusy, Observe, TopologyFrame, hardware, clients,
              waiting, saved, passes
<1>3. CASE Rebuild
  <2>1. shown' \in [lit : SUBSET Outputs, mode : Nat, place : Nat, rot : {0, 1}]
    BY <1>3, ShownTypes, Zenon DEF ApplyTypeOK, Rebuild
  <2>2. powered' \subseteq Outputs
    BY <1>3, <2>1 DEF ApplyTypeOK, Rebuild
  <2>3. QED
    BY <1>3, <2>1, <2>2, Zenon DEF ApplyTypeOK, Rebuild, Observe, TopologyFrame, hardware, clients,
              waiting, saved, passes
<1>4. CASE RebuildFails
  <2>1. /\ pc' \in {"top", "ended"} /\ rebased' \in {rebased, TRUE} /\ hdr' \in {hdr, FALSE}
        /\ rescan' \in BOOLEAN /\ kms' \in BOOLEAN /\ resident' = FALSE /\ lost' \in BOOLEAN
        /\ UNCHANGED <<shown, powered>>
    BY <1>4, Zenon DEF RebuildFails
  <2>2. Observe
    BY <1>4, Zenon DEF RebuildFails
  <2>3. QED
    <3>1. /\ UNCHANGED <<plugged, lid, sensor, conf, power, snap, clients, waiting, saved>>
          /\ scan' = plugged /\ disconnected' = FALSE /\ dirty' = TRUE
      BY <2>2, Zenon DEF Observe, TopologyFrame, hardware
    <3>2. rebased' \in BOOLEAN /\ hdr' \in BOOLEAN
      BY <2>1, Zenon DEF ApplyTypeOK
    <3>3. QED
      <4>1. ({dirty, rescan, resident, rebased, disconnected, kms, hdr, lost, success, handled,
              confirmed, unsynced} \subseteq BOOLEAN)'
        BY <2>1, <3>1, <3>2 DEF ApplyTypeOK, waiting, saved
      <4>2. QED
        BY <2>1, <3>1, <4>1, Zenon DEF ApplyTypeOK, clients, waiting, saved
<1>5. QED
  BY <1>1, <1>2, <1>3, <1>4 DEF Rescanning

(* What a staged layout becomes has its type. *)
LEMMA StagedTypes ==
    ASSUME ApplyTypeOK, TypeOK, ready # None
    PROVE  /\ ready.request \in Requests /\ ready.connectors \subseteq Outputs
           /\ Wish \in Wishes /\ Wish.enabled \subseteq ready.request.outputs
           /\ Wish \in [enabled : SUBSET Outputs, powered : SUBSET Outputs, mode : Nat,
                        place : Nat, persistent : BOOLEAN, confirm : BOOLEAN]
           /\ Staged \in Configurations /\ Layout(Staged) \in Layouts
           /\ Staged.closed = conf.closed /\ Staged.rot = conf.rot
           /\ Staged.mode = Wish.mode /\ Staged.place = Wish.place
           /\ Wish.persistent => Prepared \in PreparedFiles /\ Prepared.original = file
                                 /\ Prepared.content = Layout(Staged)
           /\ ~Wish.persistent => Prepared = None
           /\ PowerNow \in PowerModes
<1>1. ready.request \in Requests /\ ready.connectors \subseteq Outputs
  BY DEF ApplyTypeOK, ReadyApplies
<1>2. Wish \in Wishes /\ Wish.enabled \subseteq ready.request.outputs
  BY <1>1 DEF Wish, Requests
<1>3. Wish \in [enabled : SUBSET Outputs, powered : SUBSET Outputs, mode : Nat,
                place : Nat, persistent : BOOLEAN, confirm : BOOLEAN]
  BY <1>2, ApplyAssumption
<1>4. Wish.mode \in Nat /\ Wish.place \in Nat /\ disabled \subseteq Outputs
  BY <1>3 DEF TypeOK
<1>5. /\ Staged \in Configurations /\ Staged.closed = conf.closed /\ Staged.rot = conf.rot
      /\ Staged.mode = Wish.mode /\ Staged.place = Wish.place
  BY <1>4, Zenon DEF ApplyTypeOK, Staged, Configurations
<1>6. Layout(Staged) \in Layouts
  BY <1>5 DEF Layout, Layouts, Configurations
<1>7. /\ Wish.persistent => Prepared \in PreparedFiles /\ Prepared.original = file
                            /\ Prepared.content = Layout(Staged)
      /\ ~Wish.persistent => Prepared = None
  BY <1>6 DEF Prepared, PreparedFiles, ApplyTypeOK
<1>8. PowerNow \in PowerModes
  BY DEF PowerNow, PowerModes
<1>9. QED
  BY <1>1, <1>2, <1>3, <1>5, <1>6, <1>7, <1>8

(* The confirmation that a staged layout waits for. *)
LEMMA OfferTypes ==
    ASSUME ApplyTypeOK, TypeOK, ready # None,
           NEW a, a = [token |-> snap.serial + 1, conf |-> conf, power |-> PowerNow,
                       file |-> Prepared]
    PROVE  a \in Confirmations /\ a # None
<1>1. Prepared \in PreparedFiles \cup {None} /\ PowerNow \in PowerModes
  <2>1. Wish.persistent \in BOOLEAN
    BY StagedTypes
  <2>2. QED
    BY <2>1, StagedTypes, Zenon
<1>2. snap.serial + 1 \in Nat /\ conf \in Configurations
  BY DEF ApplyTypeOK
<1>3. a \in Confirmations
  BY <1>1, <1>2 DEF Confirmations
<1>4. QED
  BY <1>3, ApplyAssumption

LEMMA StagingTypes ==
    ASSUME ApplyTypeOK, TypeOK, ready # None,
           \/ StagedRefused \/ ApplyFails
           \/ \E outcome \in Outcomes, result \in {"saved", "failed", "unsynced"} :
                 ApplyStaged(outcome, result)
    PROVE  ApplyTypeOK'
<1>1. CASE StagedRefused \/ ApplyFails
  BY <1>1, Zenon DEF ApplyTypeOK, StagedRefused, ApplyFails, StagedFrame, hardware, clients, saved
<1>2. ASSUME NEW outcome \in Outcomes, NEW result \in {"saved", "failed", "unsynced"},
             ApplyStaged(outcome, result)
      PROVE  ApplyTypeOK'
  <2>1. conf' \in Configurations
    BY <1>2, StagedTypes, Zenon DEF ApplyStaged
  <2>2. shown' \in [lit : SUBSET Outputs, mode : Nat, place : Nat, rot : {0, 1}]
    BY <1>2, StagedTypes, ShownTypes, Zenon DEF ApplyStaged, TypeOK
  <2>3. powered' \subseteq Outputs /\ power' \in PowerModes /\ rescan' \in BOOLEAN
    BY <1>2, <2>2, Zenon DEF ApplyTypeOK, ApplyStaged, Gate, PowerModes
  <2>4. /\ active' \in Confirmations \cup {None} /\ success' \in BOOLEAN
        /\ file' \in Layouts /\ unsynced' \in BOOLEAN /\ trusted' \in Layouts
    <3>1. Finish(result)
      BY <1>2, Zenon DEF ApplyStaged
    <3>2. CASE Wish.confirm
      BY <3>1, <3>2, OfferTypes DEF ApplyTypeOK, Finish, saved
    <3>3. CASE ~Wish.confirm
      <4>1. trusted' \in Layouts /\ success' \in BOOLEAN /\ active' = active
        BY <3>1, <3>3, StagedTypes DEF ApplyTypeOK, Finish
      <4>2. CASE Wish.persistent
        <5>1. Commit(Prepared, result)
          BY <3>1, <3>3, <4>2 DEF Finish
        <5>2. Prepared.content \in Layouts
          BY <4>2, StagedTypes
        <5>3. QED
          BY <4>1, <5>1, <5>2, Zenon DEF ApplyTypeOK, Commit
      <4>3. CASE ~Wish.persistent
        BY <3>1, <3>3, <4>1, <4>3 DEF ApplyTypeOK, Finish
      <4>4. QED
        BY <4>2, <4>3
    <3>4. QED
      BY <3>2, <3>3
  <2>5. QED
    <3>1. /\ StagedFrame /\ pc' = "top" /\ dirty' = TRUE /\ lost' = FALSE
          /\ rebased' \in BOOLEAN
      BY <1>2, Zenon DEF ApplyStaged
    <3>2. QED
      BY <2>1, <2>2, <2>3, <2>4, <3>1, Zenon DEF ApplyTypeOK, StagedFrame, hardware, clients
<1>3. QED
  BY <1>1, <1>2

-----------------------------------------------------------------------------
(* What a rollback, a publication and an answer rely on.  Nothing is staged *)
(* while a layout waits; the configuration to return to differs from the    *)
(* running one in the user's layout alone; the file prepared for it holds   *)
(* the running layout; the screen shows the running configuration unless a  *)
(* rebuild is due; and a token is published with one layout only.           *)
Alone ==
    /\ ready # None => active = None
    /\ pc = "reconcile" => ready # None

Returnable ==
    active # None =>
       /\ active.conf.closed = conf.closed /\ active.conf.rot = conf.rot
       /\ active.file # None => active.file.content = Layout(conf)

OnScreen ==
    pc # "ended" /\ ~resident =>
       lost \/ (shown.mode = conf.mode /\ shown.place = conf.place)

Offers ==
    /\ \A o \in offered : o.token <= snap.serial
    /\ active # None =>
          /\ active.token <= snap.serial + 1
          /\ \A o \in offered : o.token = active.token => o.layout = Layout(conf)

ApplyInv ==
    ApplyTypeOK /\ PassInv /\ RollbackExact /\ Alone /\ Returnable /\ OnScreen /\ Offers

(* A step that leaves the configuration, the screen and the layout that     *)
(* waits alone, and neither stages a layout nor ends the session.           *)
Quiet ==
    /\ UNCHANGED <<conf, shown, active, offered, trusted, resident, lost>>
    /\ snap'.serial = snap.serial
    /\ ready' \in {ready, None}
    /\ pc' # "reconcile"
    /\ pc = "ended" => pc' = "ended"
    /\ pc' \notin {"top", "lid", "ended"} => pc \notin {"top", "lid", "ended"} /\ lid' = lid

LEMMA QuietKeeps ==
    ASSUME ApplyInv, Quiet
    PROVE  RollbackExact' /\ Alone' /\ Returnable' /\ OnScreen' /\ Offers'
<1>1. RollbackExact'
  BY DEF ApplyInv, Quiet, RollbackExact
<1>2. Alone'
  BY DEF ApplyInv, Quiet, Alone
<1>3. Returnable'
  BY DEF ApplyInv, Quiet, Returnable
<1>4. OnScreen'
  BY DEF ApplyInv, Quiet, OnScreen
<1>5. Offers'
  BY DEF ApplyInv, Quiet, Offers
<1>6. QED
  BY <1>1, <1>2, <1>3, <1>4, <1>5

(* The passes do not change outside of Stage, Reconcile and what follows.   *)
LEMMA PassesKept == PassInv /\ UNCHANGED passes => PassInv'
  BY StutterKeeps DEF passes, vars

LEMMA ApplyInitInvariant == ApplyInit => ApplyInv
<1> SUFFICES ASSUME ApplyInit PROVE ApplyInv
  OBVIOUS
<1>1. desk \in [disabled : SUBSET Outputs, closed : BOOLEAN, requests : Nat, moves : Nat]
  BY ApplyAssumption DEF ApplyInit
<1>2. conf \in Configurations /\ Layout(conf) \in Layouts /\ conf.rot = 0
      /\ conf.place = 0 /\ conf.mode = 0 /\ lid \in BOOLEAN /\ conf.closed = lid
  BY <1>1 DEF ApplyInit, Configurations, Layout, Layouts
<1>3. shown \in [lit : SUBSET Outputs, mode : Nat, place : Nat, rot : {0, 1}]
  BY <1>2, ShownTypes, Zenon DEF ApplyInit
<1>4. power \in PowerModes
  BY DEF ApplyInit, Unasked, PowerModes
<1>5. snap \in [serial : Nat,
                state : [scan : SUBSET Outputs, lit : SUBSET Outputs, powered : SUBSET Outputs,
                         mode : Nat, rot : {0, 1}, place : Nat, token : Nat]]
  BY <1>2, <1>3 DEF ApplyInit, State, Token
<1>6. ApplyTypeOK
  <2>1. queue \in Seq(Requests) /\ answers \in Seq([token : Nat, keep : BOOLEAN])
    BY DEF ApplyInit
  <2>2. /\ plugged = Outputs /\ scan = Outputs /\ powered = shown.lit /\ sensor = 0
        /\ pc = "top" /\ ready = None /\ active = None /\ desk \in Desks
        /\ file = Layout(conf) /\ trusted = Layout(conf)
        /\ requests = 0 /\ moves = 0 /\ offered = {}
    BY DEF ApplyInit
  <2>3. /\ dirty = FALSE /\ rescan = FALSE /\ resident = FALSE /\ rebased = FALSE
        /\ disconnected = FALSE /\ success = FALSE /\ handled = FALSE /\ confirmed = FALSE
        /\ unsynced = FALSE /\ kms = FALSE /\ hdr = FALSE /\ lost = FALSE
    BY DEF ApplyInit
  <2>4. QED
    BY <1>2, <1>3, <1>4, <1>5, <2>1, <2>2, <2>3, Zenon DEF ApplyTypeOK
<1>7. PassInv
  <2>1. connected = {} /\ requested = {} /\ before = {} /\ disabled = {} /\ done = TRUE
        /\ closed = FALSE
    BY DEF ApplyInit
  <2>2. LitNow \subseteq connected
    BY <2>1, LitVisible, Zenon DEF LitNow
  <2>3. QED
    BY <2>1, <2>2, Zenon DEF PassInv, TypeOK, MovesToRequested, ShownSavesNothing, Passed
<1>8. RollbackExact
  BY <1>2, Zenon DEF ApplyInit, RollbackExact, Shown
<1>9. Alone /\ Returnable /\ OnScreen /\ Offers
  BY <1>2 DEF ApplyInit, Alone, Returnable, OnScreen, Offers, Shown
<1>10. QED
  BY <1>6, <1>7, <1>8, <1>9 DEF ApplyInv

(* Clients, lid, sensor and hardware between turns. *)
LEMMA BetweenTurnsKeeps ==
    ASSUME ApplyInv,
           \/ \E wish \in Wishes : Submit(wish)
           \/ \E o \in offered, keep \in BOOLEAN : Answer(o.token, keep)
           \/ MoveLid \/ Turn \/ SwitchSession \/ RequestRebuild \/ Edit
           \/ \E o \in Outputs : Replug(o)
    PROVE  ApplyInv'
<1>1. ApplyTypeOK'
  BY BetweenTurnsTypes DEF ApplyInv
<1>2. UNCHANGED passes
  BY Zenon DEF Submit, Answer, MoveLid, Turn, SwitchSession, RequestRebuild, Edit, Replug, Move
<1>3. /\ UNCHANGED <<conf, shown, active, offered, trusted, resident, lost, snap, ready, pc>>
      /\ pc = "top"
  <2>1. ASSUME NEW wish \in Wishes, Submit(wish) PROVE <1>3!:
    BY <2>1 DEF Submit, screen, published, waiting, rescans, saved
  <2>2. ASSUME NEW o \in offered, NEW keep \in BOOLEAN, Answer(o.token, keep) PROVE <1>3!:
    BY <2>2 DEF Answer, screen, published, waiting, rescans, saved
  <2>3. ASSUME Move PROVE <1>3!:
    BY <2>3, Zenon DEF Move, screen, published, waiting
  <2>4. CASE \/ MoveLid \/ Turn \/ SwitchSession \/ RequestRebuild \/ Edit
             \/ \E o \in Outputs : Replug(o)
    BY <2>3, <2>4, Zenon DEF MoveLid, Turn, SwitchSession, RequestRebuild, Edit, Replug
  <2>5. QED
    BY <2>1, <2>2, <2>4, Zenon
<1>4. Quiet
  BY <1>3, Zenon DEF Quiet
<1>5. QED
  BY <1>1, <1>2, <1>4, QuietKeeps, PassesKept DEF ApplyInv

(* Panels and lid change the running configuration and the one to return to *)
(* alike.                                                                   *)
LEMMA FollowKeeps ==
    ASSUME ApplyInv, ApplySensor \/ ApplyLid
    PROVE  RollbackExact' /\ Alone' /\ Returnable' /\ OnScreen' /\ Offers'
<1>1. conf \in Configurations /\ (active # None => active \in Confirmations)
      /\ shown \in [lit : SUBSET Outputs, mode : Nat, place : Nat, rot : {0, 1}]
      /\ sensor \in {0, 1}
  BY Zenon DEF ApplyInv, ApplyTypeOK
<1>2. active # None => active.conf \in Configurations
  BY <1>1 DEF Confirmations
<1>3. /\ conf' = [conf EXCEPT !.rot = sensor] \/ conf' = [conf EXCEPT !.closed = lid]
      /\ active = None => active' = None
      /\ active # None =>
            \/ /\ conf' = [conf EXCEPT !.rot = sensor]
               /\ active' = [active EXCEPT !.conf.rot = sensor]
            \/ /\ conf' = [conf EXCEPT !.closed = lid]
               /\ active' = [active EXCEPT !.conf.closed = lid]
      /\ UNCHANGED <<snap, offered, trusted, ready, resident, lost, lid>>
      /\ pc' \in {"lid", "expire"} /\ pc # "ended"
  <2>1. CASE ApplySensor
    <3>1. /\ conf' = [conf EXCEPT !.rot = sensor]
          /\ active' = IF active = None THEN None ELSE [active EXCEPT !.conf.rot = sensor]
      BY <2>1, Zenon DEF ApplySensor
    <3>2. /\ UNCHANGED <<snap, offered, trusted, ready, resident, lost, lid>>
          /\ pc = "top" /\ pc' = "lid"
      BY <2>1 DEF ApplySensor, SensorFrame, clients, saved, rescans, hardware
    <3>3. QED
      BY <3>1, <3>2
  <2>2. CASE ApplyLid
    BY <2>2 DEF ApplyLid, published, clients, saved, hardware
  <2>3. QED
    BY <2>1, <2>2
<1>4. Layout(conf') = Layout(conf) /\ conf'.mode = conf.mode /\ conf'.place = conf.place
  BY <1>1, <1>3 DEF Configurations, Layout
<1>5. active # None => /\ active' # None /\ Layout(active'.conf) = Layout(active.conf)
                       /\ active'.token = active.token /\ active'.file = active.file
                       /\ active'.conf.closed = conf'.closed /\ active'.conf.rot = conf'.rot
  <2> SUFFICES ASSUME active # None
               PROVE  /\ active' # None /\ Layout(active'.conf) = Layout(active.conf)
                      /\ active'.token = active.token /\ active'.file = active.file
                      /\ active'.conf.closed = conf'.closed /\ active'.conf.rot = conf'.rot
    OBVIOUS
  <2>1. active.conf.closed = conf.closed /\ active.conf.rot = conf.rot
    BY DEF ApplyInv, Returnable
  <2>2. active' \in Confirmations
    <3>1. /\ [active EXCEPT !.conf.rot = sensor] \in Confirmations
          /\ [active EXCEPT !.conf.closed = lid] \in Confirmations
      <4>1. ApplyTypeOK /\ sensor \in {0, 1} /\ lid \in BOOLEAN
        BY Zenon DEF ApplyInv, ApplyTypeOK
      <4>2. QED
        BY <4>1, FollowTypes, Zenon
    <3>2. QED
      BY <1>3, <3>1, Zenon
  <2>3. active' # None
    BY <2>2, ApplyAssumption
  <2>4. active'.token = active.token /\ active'.file = active.file
    BY <1>1, <1>3 DEF Confirmations
  <2>5. CASE /\ conf' = [conf EXCEPT !.rot = sensor]
             /\ active' = [active EXCEPT !.conf.rot = sensor]
    <3>1. active'.conf = [active.conf EXCEPT !.rot = sensor]
      BY <1>1, <2>5 DEF Confirmations
    <3>2. QED
      BY <1>1, <1>2, <2>1, <2>3, <2>4, <2>5, <3>1 DEF Configurations, Layout
  <2>6. CASE /\ conf' = [conf EXCEPT !.closed = lid]
             /\ active' = [active EXCEPT !.conf.closed = lid]
    <3>1. active'.conf = [active.conf EXCEPT !.closed = lid]
      BY <1>1, <2>6 DEF Confirmations
    <3>2. QED
      BY <1>1, <1>2, <2>1, <2>3, <2>4, <2>6, <3>1 DEF Configurations, Layout
  <2>7. QED
    BY <1>3, <2>5, <2>6
<1>6. RollbackExact'
  <2>1. (Layout(IF active = None THEN conf ELSE active.conf) = trusted)'
    BY <1>3, <1>4, <1>5 DEF ApplyInv, RollbackExact
  <2>2. (pc \notin {"top", "lid", "ended"} => conf.closed = lid)'
    BY <1>1 DEF ApplySensor, ApplyLid, Configurations, hardware
  <2>3. (shown.rot = Rotation(shown.lit, conf))'
    <3>1. CASE ApplySensor
      <4>1. conf'.rot = sensor
        BY <1>1, <3>1 DEF ApplySensor, Configurations
      <4>2. QED
        BY <1>1, <3>1, <4>1 DEF ApplyInv, RollbackExact, ApplySensor, PanelLit, Rotation
    <3>2. CASE ApplyLid
      BY <1>1, <3>2 DEF ApplyInv, RollbackExact, ApplyLid, Rotation, Configurations, screen
    <3>3. QED
      BY <3>1, <3>2
  <2>4. QED
    BY <2>1, <2>2, <2>3 DEF RollbackExact
<1>7. Alone'
  BY <1>3 DEF ApplyInv, Alone
<1>8. Returnable'
  BY <1>3, <1>4, <1>5 DEF ApplyInv, Returnable
<1>9. OnScreen'
  <2>1. shown'.mode = shown.mode /\ shown'.place \in {shown.place, conf.place}
    BY <1>1, Zenon DEF ApplySensor, ApplyLid, screen
  <2>2. QED
    BY <1>3, <1>4, <2>1 DEF ApplyInv, OnScreen
<1>10. Offers'
  BY <1>3, <1>4, <1>5 DEF ApplyInv, Offers
<1>11. QED
  BY <1>6, <1>7, <1>8, <1>9, <1>10

(* A rollback returns to the layout that was confirmed last. *)
LEMMA RollbackKeeps ==
    ASSUME ApplyInv, active # None, Rollback, active' = None,
           UNCHANGED <<shown, snap, offered, trusted, ready, lid>>,
           pc \in {"expire", "confirm"}, pc' \in {"publish", "confirm"}
    PROVE  RollbackExact' /\ Alone' /\ Returnable' /\ OnScreen' /\ Offers'
<1>1. conf' = active.conf /\ resident' = TRUE
  BY DEF Rollback
<1>2. active.conf.closed = conf.closed /\ active.conf.rot = conf.rot
  BY DEF ApplyInv, Returnable
<1>3. RollbackExact'
  BY <1>1, <1>2 DEF ApplyInv, RollbackExact, Rotation
<1>4. Alone' /\ Returnable' /\ OnScreen' /\ Offers'
  BY <1>1 DEF ApplyInv, Alone, Returnable, OnScreen, Offers
<1>5. QED
  BY <1>3, <1>4

(* The head of a turn. *)
LEMMA TurnHeadKeeps ==
    ASSUME ApplyInv, TurnHead
    PROVE  ApplyInv'
<1>1. ApplyTypeOK'
  BY TurnHeadTypes DEF ApplyInv
<1>2. PassInv'
  <2>1. UNCHANGED passes
    BY DEF TurnHead, NotTurned, ApplySensor, SensorFails, SensorFrame, ApplyLid, NotExpired,
           Expire, ExpireFrame, Publish, PowerGate, PowerIdle
  <2>2. QED
    BY <2>1, PassesKept DEF ApplyInv
<1>3. CASE NotTurned \/ SensorFails
  <2>1. Quiet
    BY <1>3, Zenon DEF Quiet, NotTurned, SensorFails, SensorFrame, clients, saved, rescans
  <2>2. QED
    BY <1>1, <1>2, <2>1, QuietKeeps DEF ApplyInv
<1>4. CASE ApplySensor \/ ApplyLid
  BY <1>1, <1>2, <1>4, FollowKeeps DEF ApplyInv
<1>5. CASE NotExpired
  <2>1. Quiet
    BY <1>5 DEF Quiet, NotExpired, ExpireFrame, hardware, clients, saved
  <2>2. QED
    BY <1>1, <1>2, <2>1, QuietKeeps DEF ApplyInv
<1>6. CASE Expire
  <2>1. /\ active # None /\ Rollback /\ active' = None
        /\ UNCHANGED <<shown, snap, offered, trusted, ready, lid>>
        /\ pc = "expire" /\ pc' = "publish"
    BY <1>6 DEF Expire, ExpireFrame, hardware, clients, saved
  <2>2. RollbackExact' /\ Alone' /\ Returnable' /\ OnScreen' /\ Offers'
    BY <2>1, RollbackKeeps
  <2>3. QED
    BY <1>1, <1>2, <2>2 DEF ApplyInv
<1>7. CASE Publish
  <2>1. /\ UNCHANGED <<conf, shown, active, trusted, ready, lid, resident, lost>>
        /\ pc = "publish" /\ pc' = "power"
        /\ snap' = snap \/ snap' = [serial |-> snap.serial + 1, state |-> State]
        /\ offered' = offered
           \/ /\ snap' # snap /\ Token # 0
              /\ offered' = offered \cup {[token |-> Token, layout |-> Layout(conf)]}
    BY <1>7 DEF Publish, Published, hardware, screen, rescans, saved
  <2>2. RollbackExact' /\ Alone' /\ Returnable' /\ OnScreen'
    BY <2>1, Zenon DEF ApplyInv, RollbackExact, Alone, Returnable, OnScreen
  <2>3. snap.serial \in Nat /\ snap'.serial \in {snap.serial, snap.serial + 1}
        /\ (snap' # snap => snap'.serial = snap.serial + 1)
    <3>1. snap.serial \in Nat
      BY Zenon DEF ApplyInv, ApplyTypeOK
    <3>2. [serial |-> snap.serial + 1, state |-> State].serial = snap.serial + 1
      OBVIOUS
    <3>3. QED
      BY <2>1, <3>1, <3>2, Zenon
  <2>4. /\ \A o \in offered : o.token \in Nat
        /\ active # None => active.token \in Nat
    BY DEF ApplyInv, ApplyTypeOK, Confirmations
  <2>5. Offers'
    <3>1. CASE offered' = offered
      <4>1. \A o \in offered' : o.token <= snap'.serial
        <5>1. \A o \in offered : o.token <= snap.serial
          BY Zenon DEF ApplyInv, Offers
        <5>2. QED
          BY <2>3, <2>4, <3>1, <5>1
      <4>2. active' # None => active'.token <= snap'.serial + 1
        BY <2>1, <2>3, <2>4 DEF ApplyInv, Offers
      <4>3. active' # None =>
               \A o \in offered' : o.token = active'.token => o.layout = Layout(conf')
        BY <2>1, <3>1 DEF ApplyInv, Offers
      <4>4. QED
        BY <4>1, <4>2, <4>3 DEF Offers
    <3>2. CASE /\ snap' # snap /\ Token # 0
               /\ offered' = offered \cup {[token |-> Token, layout |-> Layout(conf)]}
      <4>1. active # None /\ Token = active.token /\ snap'.serial = snap.serial + 1
        BY <2>3, <3>2 DEF Token
      <4>2. active.token <= snap.serial + 1
        BY <4>1 DEF ApplyInv, Offers
      <4>3. ASSUME NEW o \in offered'
            PROVE  o.token <= snap'.serial /\ (o.token = active.token => o.layout = Layout(conf))
        <5>1. CASE o \in offered
          <6>1. o.token <= snap.serial /\ (o.token = active.token => o.layout = Layout(conf))
            BY <4>1, <5>1 DEF ApplyInv, Offers
          <6>2. QED
            BY <2>3, <2>4, <4>1, <5>1, <6>1
        <5>2. CASE o = [token |-> Token, layout |-> Layout(conf)]
          BY <4>1, <4>2, <5>2
        <5>3. QED
          BY <3>2, <5>1, <5>2
      <4>4. active' = active /\ conf' = conf /\ snap'.serial \in Nat
        BY <2>1, <2>3
      <4>5. active.token <= snap'.serial + 1
        BY <2>4, <4>1, <4>2, <4>4
      <4>6. QED
        BY <4>3, <4>4, <4>5 DEF Offers
    <3>3. QED
      BY <2>1, <3>1, <3>2
  <2>6. QED
    BY <1>1, <1>2, <2>2, <2>5 DEF ApplyInv
<1>8. ASSUME NEW outcome \in Outcomes, PowerGate(outcome) PROVE ApplyInv'
  <2>1. Quiet
    BY <1>8 DEF Quiet, PowerGate, hardware, clients, waiting, saved
  <2>2. QED
    BY <1>1, <1>2, <2>1, QuietKeeps DEF ApplyInv
<1>9. CASE PowerIdle
  <2>1. Quiet
    BY <1>9 DEF Quiet, PowerIdle, hardware, screen, published, rescans, clients, waiting, saved
  <2>2. QED
    BY <1>1, <1>2, <2>1, QuietKeeps DEF ApplyInv
<1>10. QED
  BY <1>3, <1>4, <1>5, <1>6, <1>7, <1>8, <1>9 DEF TurnHead

(* The answers. *)
LEMMA AnsweringKeeps ==
    ASSUME ApplyInv, Answering
    PROVE  ApplyInv'
<1>1. ApplyTypeOK'
  BY AnsweringTypes DEF ApplyInv
<1>2. PassInv'
  <2>1. UNCHANGED passes
    BY DEF Answering, AnswersRead, StaleAnswer, Keep, RollBack, KeepFails, Taken
  <2>2. QED
    BY <2>1, PassesKept DEF ApplyInv
<1>3. CASE AnswersRead \/ StaleAnswer
  <2>1. Quiet
    BY <1>3, Zenon DEF Quiet, AnswersRead, StaleAnswer, hardware, screen, published, rescans, clients,
                waiting, saved
  <2>2. QED
    BY <1>1, <1>2, <2>1, QuietKeeps DEF ApplyInv
<1>4. ASSUME Taken
      PROVE  /\ active # None /\ active' = None /\ pc = "confirm" /\ pc' = "confirm"
             /\ UNCHANGED <<shown, snap, offered, ready, lid, lost>>
  BY <1>4, Zenon DEF Taken, AnswersActive, hardware
<1>5. CASE Keep
  <2>1. /\ active' = None /\ pc = "confirm" /\ pc' = "confirm"
        /\ UNCHANGED <<shown, snap, offered, ready, lid, lost, conf, resident>>
        /\ trusted' = Layout(conf)
    BY <1>4, <1>5, Zenon DEF Keep
  <2>2. RollbackExact' /\ Alone' /\ Returnable' /\ OnScreen' /\ Offers'
    BY <2>1 DEF ApplyInv, RollbackExact, Alone, Returnable, OnScreen, Offers
  <2>3. QED
    BY <1>1, <1>2, <2>2 DEF ApplyInv
<1>6. ASSUME Taken, Rollback, trusted' = trusted PROVE ApplyInv'
  <2>1. RollbackExact' /\ Alone' /\ Returnable' /\ OnScreen' /\ Offers'
    BY <1>4, <1>6, RollbackKeeps
  <2>2. QED
    BY <1>1, <1>2, <2>1 DEF ApplyInv
<1>7. CASE RollBack
  BY <1>6, <1>7 DEF RollBack, saved
<1>8. ASSUME NEW result \in {"failed", "unsynced"}, KeepFails(result) PROVE ApplyInv'
  BY <1>6, <1>8 DEF KeepFails
<1>9. QED
  BY <1>3, <1>5, <1>7, <1>8 DEF Answering

(* Scanning again, up to a staged layout. *)
LEMMA AcquiringKeeps ==
    ASSUME ApplyInv,
           AcquireNone \/ AcquireRefused \/ AcquireBusy \/ Acquire \/ AcquireUnscanned
           \/ ReadyNone \/ ReadyBusy \/ StageRefused
    PROVE  ApplyInv'
<1>1. ApplyTypeOK'
  BY AcquiringTypes DEF ApplyInv
<1>2. PassInv'
  <2>1. UNCHANGED passes
    BY Zenon DEF AcquireNone, AcquireRefused, AcquireBusy, Acquire, AcquireUnscanned, AcquireFrame,
           ReadyNone, ReadyBusy, StageRefused
  <2>2. QED
    BY <2>1, PassesKept DEF ApplyInv
<1>3. CASE AcquireNone \/ AcquireRefused \/ AcquireBusy \/ AcquireUnscanned
  <2>1. Quiet
    BY <1>3, Zenon DEF Quiet, AcquireNone, AcquireRefused, AcquireBusy, AcquireUnscanned, AcquireFrame,
                hardware, saved
  <2>2. QED
    BY <1>1, <1>2, <2>1, QuietKeeps DEF ApplyInv
<1>4. CASE Acquire
  <2>1. /\ active = None
        /\ UNCHANGED <<conf, shown, active, offered, trusted, resident, lost, snap>>
        /\ pc = "acquire" /\ pc' = "top"
    BY <1>4, Zenon DEF Acquire, AcquireFrame, Acquirable, saved
  <2>2. RollbackExact' /\ Alone' /\ Returnable' /\ OnScreen' /\ Offers'
    BY <2>1 DEF ApplyInv, RollbackExact, Alone, Returnable, OnScreen, Offers
  <2>3. QED
    BY <1>1, <1>2, <2>2 DEF ApplyInv
<1>5. CASE ReadyNone \/ ReadyBusy \/ StageRefused
  <2>1. Quiet
    BY <1>5, Zenon DEF Quiet, ReadyNone, ReadyBusy, StageRefused, ReadyFrame, hardware, screen,
                published, clients, saved
  <2>2. QED
    BY <1>1, <1>2, <2>1, QuietKeeps DEF ApplyInv
<1>6. QED
  BY <1>3, <1>4, <1>5

(* The passes start from the current preferences of the scanned outputs. *)
LEMMA StageKeeps ==
    ASSUME ApplyInv, Stage
    PROVE  ApplyInv'
<1>1. ApplyTypeOK'
  BY AcquiringTypes DEF ApplyInv
<1>2. /\ pc = "ready" /\ pc' = "reconcile" /\ ready # None
      /\ UNCHANGED <<conf, shown, active, offered, trusted, resident, lost, snap, ready, lid>>
  BY DEF Stage, ReadyFrame, Serviceable, hardware, screen, published, clients, saved
<1>3. RollbackExact' /\ Alone' /\ Returnable' /\ OnScreen' /\ Offers'
  BY <1>2 DEF ApplyInv, RollbackExact, Alone, Returnable, OnScreen, Offers
<1>4. /\ ready.connectors \subseteq Outputs /\ Wish.enabled \subseteq ready.connectors
      /\ conf.closed \in BOOLEAN /\ conf.disabled \subseteq Outputs
  <2>1. ready.connectors \subseteq Outputs /\ Wish.enabled \subseteq ready.request.outputs
    BY <1>2, StagedTypes DEF ApplyInv, PassInv
  <2>2. conf.closed \in BOOLEAN /\ conf.disabled \subseteq Outputs
    BY DEF ApplyInv, ApplyTypeOK, Configurations
  <2>3. QED
    BY <2>1, <2>2, Zenon DEF Stage, Complete
<1>5. /\ connected' = ready.connectors /\ closed' = conf.closed /\ requested' = Wish.enabled
      /\ before' = conf.disabled /\ disabled' = before' /\ done' = FALSE
  BY DEF Stage, Wish
<1>6. TypeOK'
  BY <1>4, <1>5, Zenon DEF TypeOK
<1>7. MovesToRequested' /\ ShownSavesNothing'
  BY <1>5 DEF MovesToRequested, ShownSavesNothing
<1>8. (\A p \in Dark : p \notin LitNow /\ (p \in disabled <=> p \in before))'
  BY <1>5 DEF Dark, LitNow
<1>9. PassInv'
  BY <1>5, <1>6, <1>7, <1>8 DEF PassInv
<1>10. QED
  BY <1>1, <1>3, <1>9 DEF ApplyInv

LEMMA ReconcileKeeps ==
    ASSUME ApplyInv, Reconcile
    PROVE  ApplyInv'
<1>1. ApplyTypeOK'
  BY AcquiringTypes DEF ApplyInv
<1>2. PassInv'
  BY PassKeeps DEF ApplyInv, Reconcile
<1>3. UNCHANGED <<conf, shown, active, offered, trusted, resident, lost, snap, ready, lid, pc>>
  BY DEF Reconcile, hardware, screen, published, rescans, clients, waiting, saved
<1>4. RollbackExact' /\ Alone' /\ Returnable' /\ OnScreen' /\ Offers'
  BY <1>3 DEF ApplyInv, RollbackExact, Alone, Returnable, OnScreen, Offers
<1>5. QED
  BY <1>1, <1>2, <1>4 DEF ApplyInv

(* A staged layout is applied only while none waits, so what a rollback     *)
(* returns to is a confirmed layout.                                        *)
LEMMA StagingKeeps ==
    ASSUME ApplyInv,
           \/ StagedRefused \/ ApplyFails
           \/ \E outcome \in Outcomes, result \in {"saved", "failed", "unsynced"} :
                 ApplyStaged(outcome, result)
    PROVE  ApplyInv'
<1>1. StagedFrame
  BY Zenon DEF StagedRefused, ApplyFails, ApplyStaged
<1>2. ready # None /\ active = None /\ TypeOK
  BY <1>1 DEF ApplyInv, PassInv, Alone, StagedFrame
<1>3. ApplyTypeOK'
  BY <1>2, StagingTypes DEF ApplyInv
<1>4. PassInv'
  <2>1. /\ connected' = {} /\ requested' = {} /\ before' = {} /\ disabled' = {} /\ done' = TRUE
        /\ closed' = FALSE
    BY <1>1 DEF StagedFrame
  <2>2. LitNow' \subseteq connected'
    BY <2>1, LitVisible, Zenon DEF LitNow
  <2>3. QED
    BY <2>1, <2>2, Zenon DEF PassInv, TypeOK, MovesToRequested, ShownSavesNothing, Passed
<1>5. CASE StagedRefused \/ ApplyFails
  <2>1. Quiet
    BY <1>5, Zenon DEF Quiet, StagedRefused, ApplyFails, StagedFrame, hardware, clients, saved
  <2>2. QED
    BY <1>3, <1>4, <2>1, QuietKeeps DEF ApplyInv
<1>6. ASSUME NEW outcome \in Outcomes, NEW result \in {"saved", "failed", "unsynced"},
             ApplyStaged(outcome, result)
      PROVE  ApplyInv'
  <2>1. /\ conf' = Staged /\ shown' = Shown(connected, Staged) /\ Finish(result)
        /\ pc' = "top" /\ ready' = None
        /\ UNCHANGED <<offered, snap>>
    BY <1>6, Zenon DEF ApplyStaged, StagedFrame, clients
  <2>2. /\ shown'.mode = Staged.mode /\ shown'.place = Staged.place
        /\ shown'.rot = Rotation(shown'.lit, Staged)
    BY <2>1 DEF Shown
  <2>3. Layout(conf) = trusted
    BY <1>2 DEF ApplyInv, RollbackExact
  <2>4. Staged.closed = conf.closed /\ Staged.rot = conf.rot
    BY <1>2, StagedTypes, Zenon DEF ApplyInv
  <2>5. Prepared # None => Prepared.content = Layout(Staged)
    BY <1>2, StagedTypes DEF ApplyInv
  <2>6. Alone' /\ OnScreen'
    BY <2>1, <2>2 DEF Alone, OnScreen
  <2>7. CASE Wish.confirm
    <3>1. /\ active' = [token |-> snap.serial + 1, conf |-> conf, power |-> PowerNow,
                        file |-> Prepared]
          /\ trusted' = trusted
      BY <2>1, <2>7 DEF Finish, saved
    <3>2. active' # None
      BY <1>2, <3>1, OfferTypes DEF ApplyInv
    <3>3. active'.conf = conf /\ active'.token = snap.serial + 1 /\ active'.file = Prepared
      BY <3>1
    <3>4. RollbackExact'
      BY <2>1, <2>2, <2>3, <3>1, <3>2, <3>3, Zenon DEF RollbackExact
    <3>5. Returnable'
      BY <2>1, <2>4, <2>5, <3>3 DEF Returnable
    <3>6. Offers'
      <4>1. snap.serial \in Nat /\ \A o \in offered : o.token \in Nat /\ o.token <= snap.serial
        BY Zenon DEF ApplyInv, ApplyTypeOK, Offers
      <4>2. QED
        BY <2>1, <3>3, <4>1 DEF Offers
    <3>7. QED
      BY <1>3, <1>4, <2>6, <3>4, <3>5, <3>6 DEF ApplyInv
  <2>8. CASE ~Wish.confirm
    <3>1. active' = None /\ trusted' = Layout(Staged)
      BY <1>2, <2>1, <2>8 DEF Finish
    <3>2. RollbackExact' /\ Returnable' /\ Offers'
      BY <2>1, <2>2, <3>1 DEF ApplyInv, RollbackExact, Returnable, Offers
    <3>3. QED
      BY <1>3, <1>4, <2>6, <3>2 DEF ApplyInv
  <2>9. QED
    BY <2>7, <2>8
<1>7. QED
  BY <1>5, <1>6

(* The observed topology. *)
LEMMA RescanningKeeps ==
    ASSUME ApplyInv, Rescanning
    PROVE  ApplyInv'
<1>1. ApplyTypeOK'
  BY RescanningTypes DEF ApplyInv
<1>2. TopologyFrame
  BY DEF Rescanning, NoRescan, NothingToLight, Stable, RebuildBusy, Rebuild, RebuildFails, Observe
<1>3. PassInv'
  BY <1>2, PassesKept DEF ApplyInv, TopologyFrame
<1>4. /\ UNCHANGED <<conf, snap, offered, active, ready, trusted, lid>>
      /\ pc = "topology"
  BY <1>2 DEF TopologyFrame, hardware, clients, waiting, saved
<1>5. CASE NoRescan \/ NothingToLight \/ Stable \/ RebuildBusy
  <2>1. UNCHANGED <<shown, resident, lost>> /\ pc' = "top"
    BY <1>5 DEF NoRescan, NothingToLight, Stable, RebuildBusy, rescans
  <2>2. Quiet
    BY <1>4, <2>1 DEF Quiet
  <2>3. QED
    BY <1>1, <1>3, <2>2, QuietKeeps DEF ApplyInv
<1>6. ASSUME pc' \in {"top", "ended"}, shown'.rot = Rotation(shown'.lit, conf), OnScreen'
      PROVE  ApplyInv'
  <2>1. RollbackExact' /\ Alone' /\ Returnable' /\ Offers'
    BY <1>4, <1>6 DEF ApplyInv, RollbackExact, Alone, Returnable, Offers
  <2>2. QED
    BY <1>1, <1>3, <1>6, <2>1 DEF ApplyInv
<1>7. CASE Rebuild
  <2>1. shown' = Shown(plugged, conf) /\ pc' = "top"
    BY <1>7 DEF Rebuild
  <2>2. /\ shown'.mode = conf.mode /\ shown'.place = conf.place
        /\ shown'.rot = Rotation(shown'.lit, conf)
    BY <2>1 DEF Shown
  <2>3. QED
    BY <1>4, <1>6, <2>1, <2>2 DEF OnScreen
<1>8. CASE RebuildFails
  <2>1. pc' \in {"top", "ended"} /\ shown' = shown /\ resident' = FALSE
        /\ lost' = (lost \/ resident)
    BY <1>8, Zenon DEF RebuildFails
  <2>2. OnScreen'
    BY <1>4, <2>1 DEF ApplyInv, OnScreen
  <2>3. QED
    BY <1>4, <1>6, <2>1, <2>2 DEF ApplyInv, RollbackExact
<1>9. QED
  BY <1>5, <1>7, <1>8 DEF Rescanning

LEMMA ApplyStepKeeps == ApplyInv /\ [ApplyNext]_applyVars => ApplyInv'
<1> SUFFICES ASSUME ApplyInv, [ApplyNext]_applyVars PROVE ApplyInv'
  OBVIOUS
<1>1. CASE UNCHANGED applyVars
  <2>1. UNCHANGED <<pc, hardware, screen, conf, published, rescans, clients, waiting, saved>>
        /\ UNCHANGED passes
    BY <1>1 DEF applyVars
  <2>2. ApplyTypeOK'
    BY <2>1 DEF ApplyInv, ApplyTypeOK, hardware, screen, published, rescans, clients, waiting,
                saved
  <2>3. PassInv'
    BY <2>1, PassesKept DEF ApplyInv
  <2>4. UNCHANGED <<conf, shown, active, offered, trusted, resident, lost, snap, ready, lid,
                    pc>>
    BY <2>1 DEF hardware, screen, published, rescans, clients, waiting, saved
  <2>5. RollbackExact' /\ Alone' /\ Returnable' /\ OnScreen' /\ Offers'
    BY <2>4 DEF ApplyInv, RollbackExact, Alone, Returnable, OnScreen, Offers
  <2>6. QED
    BY <2>2, <2>3, <2>5 DEF ApplyInv
<1>2. CASE Applying
  BY <1>2, AcquiringKeeps, StageKeeps, ReconcileKeeps, StagingKeeps DEF Applying
<1>3. CASE TurnHead \/ Answering \/ Rescanning
  BY <1>3, TurnHeadKeeps, AnsweringKeeps, RescanningKeeps
<1>4. CASE \/ \E wish \in Wishes : Submit(wish)
           \/ \E o \in offered, keep \in BOOLEAN : Answer(o.token, keep)
           \/ MoveLid \/ Turn \/ SwitchSession \/ RequestRebuild \/ Edit
           \/ \E o \in Outputs : Replug(o)
  BY <1>4, BetweenTurnsKeeps
<1>5. QED
  BY <1>1, <1>2, <1>3, <1>4 DEF ApplyNext, Loop

-----------------------------------------------------------------------------
(* The inductive invariant of submitted layouts, from the queue to the      *)
(* screen, the file and the confirmation.                                   *)
THEOREM ApplyInvariant == ApplySpec => []ApplyInv
  BY ApplyInitInvariant, ApplyStepKeeps, PTL DEF ApplySpec

(* Types of the whole turn, with anything submitted and any hardware. *)
THEOREM ApplyTypeCorrect == ApplySpec => []ApplyTypeOK
<1>1. ApplyInv => ApplyTypeOK
  BY DEF ApplyInv
<1>2. QED
  BY ApplyInvariant, <1>1, PTL

(* In the running compositor, with connectors scanned again, a lid that     *)
(* moves and requests that are refused, the passes still light what was     *)
(* submitted.                                                               *)
THEOREM StagedLayoutIsLit == ApplySpec => []LightsRequested
<1>1. ApplyInv => LightsRequested
  BY FixedPointLights DEF ApplyInv
<1>2. QED
  BY ApplyInvariant, <1>1, PTL

(* And no preference is saved that was not asked for. *)
THEOREM StagedLayoutSavesAsked == ApplySpec => []OnlyAskedSaved
<1>1. ApplyInv => OnlyAskedSaved
  BY PassesSaveWhatIsAsked DEF ApplyInv
<1>2. QED
  BY ApplyInvariant, <1>1, PTL

(* A rollback returns to the last confirmed layout, with the lid and the    *)
(* rotation of now, after any number of requests, answers and moves.        *)
THEOREM RollbacksAreExact == ApplySpec => []RollbackExact
<1>1. ApplyInv => RollbackExact
  BY DEF ApplyInv
<1>2. QED
  BY ApplyInvariant, <1>1, PTL

(* What a scan knows and what is lit: a hotplug not scanned yet has asked   *)
(* for a rescan, a layout is staged for the scanned connectors, and where   *)
(* other outputs are lit than the configuration wants, a rescan is due or a *)
(* rollback's rebuild is.                                                   *)
Scanned ==
    /\ pc # "ended" => (plugged = scan \/ rescan)
    /\ ready # None => ready.connectors = scan
    /\ pc = "reconcile" => ready # None /\ connected = ready.connectors
    /\ pc = "ready" /\ Rebased => ready = None
    /\ pc = "topology" => ready = None
    /\ pc # "ended" /\ ~resident => (shown.lit = Wanted(scan, conf) \/ rescan)

(* A step that changes nothing of this, or asks for a rescan. *)
Unscanned ==
    /\ UNCHANGED <<scan, conf, shown, ready, resident>>
    /\ rescan' \/ UNCHANGED <<plugged, rescan>>

(* Such a step outside acquisition and staging. *)
LEMMA UnscannedKeeps ==
    ASSUME Scanned, Unscanned, pc # "ended",
           pc' \notin {"ready", "reconcile", "topology"}
    PROVE  Scanned'
  BY DEF Scanned, Unscanned, Wanted

(* The configurations with the same preferences and lid light the same. *)
LEMMA SameWanted ==
    ASSUME NEW c, NEW d, c.disabled = d.disabled, c.closed = d.closed
    PROVE  Wanted(scan, c) = Wanted(scan, d)
  BY DEF Wanted

(* A rollback asks for its rebuild. *)
LEMMA RollbackScanned ==
    ASSUME Scanned, Rollback, pc # "ended", UNCHANGED <<scan, plugged, ready, rescan>>,
           pc' \notin {"ready", "reconcile", "topology"}
    PROVE  Scanned'
  BY DEF Scanned, Rollback

(* The steps before a request is acquired keep it. *)
LEMMA TurnHeadScanned ==
    ASSUME ApplyInv, Scanned, TurnHead
    PROVE  Scanned'
<1>1. CASE NotTurned \/ SensorFails \/ NotExpired \/ Publish \/ PowerIdle
  <2>1. /\ Unscanned /\ pc # "ended" /\ pc' \notin {"ready", "reconcile", "topology"}
    BY <1>1 DEF NotTurned, SensorFails, SensorFrame, NotExpired, ExpireFrame, Publish, PowerIdle,
                Unscanned, hardware, screen, rescans, waiting
  <2>2. QED
    BY <2>1, UnscannedKeeps
<1>2. CASE \E outcome \in Outcomes : PowerGate(outcome)
  <2>1. PICK outcome \in Outcomes : PowerGate(outcome)
    BY <1>2
  <2>2. /\ UNCHANGED <<plugged, scan, conf, shown, ready, resident>>
        /\ pc # "ended" /\ pc' \notin {"ready", "reconcile", "topology"}
    BY <2>1 DEF PowerGate, hardware, waiting
  <2>3. rescan' = (rescan \/ Gate(shown.lit, powered, power, outcome).woken)
    BY <2>1, Zenon DEF PowerGate
  <2>4. rescan \in BOOLEAN
    BY DEF ApplyInv, ApplyTypeOK
  <2>5. rescan' \/ UNCHANGED <<plugged, rescan>>
    BY <2>2, <2>3, <2>4
  <2>6. QED
    BY <2>2, <2>5, UnscannedKeeps DEF Unscanned
<1>3. CASE ApplySensor
  <2>1. /\ UNCHANGED <<plugged, scan, ready, resident, rescan>> /\ pc = "top" /\ pc' = "lid"
        /\ conf' = [conf EXCEPT !.rot = sensor]
        /\ shown' = IF PanelLit THEN [shown EXCEPT !.rot = sensor, !.place = conf.place] ELSE shown
    BY <1>3, Zenon DEF ApplySensor, SensorFrame, hardware, rescans
  <2>2. conf'.disabled = conf.disabled /\ conf'.closed = conf.closed /\ shown'.lit = shown.lit
    BY <2>1 DEF ApplyInv, ApplyTypeOK, Configurations
  <2>3. Wanted(scan, conf') = Wanted(scan, conf)
    BY <2>2, SameWanted
  <2>4. QED
    BY <2>1, <2>2, <2>3 DEF Scanned
<1>4. CASE ApplyLid
  <2>1. /\ UNCHANGED <<plugged, scan, shown, ready, resident>> /\ pc = "lid" /\ pc' = "expire"
        /\ conf' = [conf EXCEPT !.closed = lid]
        /\ rescan' = (rescan \/ conf.closed # lid)
    BY <1>4, Zenon DEF ApplyLid, hardware, screen
  <2>2. conf'.disabled = conf.disabled /\ conf'.closed = lid
    BY <2>1 DEF ApplyInv, ApplyTypeOK, Configurations
  <2>3. CASE rescan \/ conf.closed # lid
    <3>1. rescan'
      BY <2>1, <2>3
    <3>2. QED
      BY <2>1, <3>1 DEF Scanned
  <2>4. CASE ~rescan /\ conf.closed = lid
    <3>1. Wanted(scan, conf') = Wanted(scan, conf)
      BY <2>2, <2>4, SameWanted
    <3>2. QED
      BY <2>1, <2>4, <3>1 DEF Scanned
  <2>5. QED
    BY <2>3, <2>4
<1>5. CASE Expire
  <2>1. /\ Rollback /\ pc # "ended" /\ pc' = "publish"
        /\ UNCHANGED <<scan, plugged, ready, rescan>>
    BY <1>5, Zenon DEF Expire, ExpireFrame, hardware
  <2>2. QED
    BY <2>1, RollbackScanned
<1>6. QED
  BY <1>1, <1>2, <1>3, <1>4, <1>5, Zenon DEF TurnHead

(* Answers keep it. *)
LEMMA AnsweringScanned ==
    ASSUME ApplyInv, Scanned, Answering
    PROVE  Scanned'
<1>1. CASE AnswersRead \/ StaleAnswer \/ Keep
  <2>1. /\ Unscanned /\ pc # "ended" /\ pc' \notin {"ready", "reconcile", "topology"}
    BY <1>1 DEF AnswersRead, StaleAnswer, Keep, Taken, Unscanned, hardware, screen, rescans,
                waiting
  <2>2. QED
    BY <2>1, UnscannedKeeps
<1>2. CASE RollBack \/ \E result \in {"failed", "unsynced"} : KeepFails(result)
  <2>1. /\ Rollback /\ pc = "confirm" /\ pc' = "confirm"
        /\ UNCHANGED <<scan, plugged, ready, rescan>>
    BY <1>2, Zenon DEF RollBack, KeepFails, Taken, hardware
  <2>2. QED
    BY <2>1, RollbackScanned
<1>3. QED
  BY <1>1, <1>2, Zenon DEF Answering

(* Acquisition scans, and a layout is applied to the connectors it was      *)
(* scanned with.                                                            *)
LEMMA ApplyingScanned ==
    ASSUME ApplyInv, Scanned, Applying
    PROVE  Scanned'
<1>1. CASE AcquireNone
  <2>1. /\ UNCHANGED <<plugged, scan, conf, shown, powered, resident, rebased, disconnected,
                       rescan>>
        /\ pc = "acquire" /\ pc' = "ready" /\ ready' = IF Rebased THEN None ELSE ready
    BY <1>1, Zenon DEF AcquireNone, AcquireFrame, hardware
  <2>2. Rebased' <=> Rebased
    BY <2>1 DEF Rebased
  <2>3. ready' \in {ready, None} /\ (Rebased => ready' = None)
    BY <2>1
  <2>4. QED
    BY <2>1, <2>2, <2>3 DEF Scanned
<1>2. CASE AcquireRefused \/ AcquireBusy \/ AcquireUnscanned
  <2>1. /\ Unscanned /\ pc = "acquire" /\ pc' = "top"
    BY <1>2 DEF AcquireRefused, AcquireBusy, AcquireUnscanned, AcquireFrame, Unscanned, hardware
  <2>2. QED
    BY <2>1, UnscannedKeeps
<1>3. CASE Acquire
  <2>1. /\ UNCHANGED <<plugged, conf, shown, resident, rescan>> /\ scan' = plugged
        /\ pc = "acquire" /\ pc' = "top"
        /\ ready' = [request |-> Head(queue), connectors |-> plugged]
    BY <1>3, Zenon DEF Acquire, AcquireFrame, hardware
  <2>2. ready'.connectors = scan'
    BY <2>1
  <2>3. pc # "ended" /\ ~resident => (shown.lit = Wanted(scan', conf) \/ rescan)
    BY <2>1 DEF Scanned
  <2>4. QED
    BY <2>1, <2>2, <2>3 DEF Scanned
<1>4. CASE ReadyNone
  <2>1. /\ UNCHANGED <<plugged, scan, conf, shown, resident, rescan, ready>>
        /\ pc = "ready" /\ pc' = "topology" /\ (Rebased \/ ready = None)
    BY <1>4, Zenon DEF ReadyNone, ReadyFrame, hardware, screen
  <2>2. QED
    BY <2>1 DEF Scanned
<1>5. CASE ReadyBusy \/ StageRefused
  <2>1. /\ UNCHANGED <<plugged, scan, conf, shown, resident>> /\ ready' \in {ready, None}
        /\ pc = "ready" /\ pc' = "top" /\ (rescan => rescan')
    <3>1. rescan => rescan'
      BY <1>5, Zenon DEF ReadyBusy, StageRefused
    <3>2. ready' = ready \/ ready' = None
      BY <1>5, Zenon DEF ReadyBusy, StageRefused
    <3>3. ReadyFrame /\ pc' = "top"
      BY <1>5, Zenon DEF ReadyBusy, StageRefused
    <3>4. UNCHANGED <<plugged, scan, conf, shown, resident>> /\ pc = "ready"
      BY <3>3, Zenon DEF ReadyFrame, hardware, screen
    <3>5. QED
      BY <3>1, <3>2, <3>3, <3>4
  <2>2. QED
    BY <2>1 DEF Scanned
<1>6. CASE Stage
  <2>1. /\ UNCHANGED <<plugged, scan, conf, shown, resident, rescan, ready>>
        /\ pc = "ready" /\ pc' = "reconcile" /\ ready # None /\ connected' = ready.connectors
    BY <1>6, Zenon DEF Stage, ReadyFrame, Serviceable, hardware, screen
  <2>2. QED
    BY <2>1 DEF Scanned
<1>7. CASE Reconcile
  <2>1. /\ UNCHANGED <<plugged, scan, conf, shown, resident, rescan, ready, connected>>
        /\ pc = "reconcile" /\ pc' = "reconcile"
    BY <1>7, Zenon DEF Reconcile, Pass, hardware, screen, rescans, waiting
  <2>2. QED
    BY <2>1 DEF Scanned
<1>8. CASE StagedRefused \/ ApplyFails
  <2>1. /\ UNCHANGED <<plugged, scan, conf, shown, resident, rescan>> /\ ready' = None
        /\ pc = "reconcile" /\ pc' \in {"top", "ended"}
    BY <1>8, Zenon DEF StagedRefused, ApplyFails, StagedFrame, hardware
  <2>2. QED
    BY <2>1 DEF Scanned
<1>9. ASSUME NEW outcome \in Outcomes, NEW result \in {"saved", "failed", "unsynced"},
             ApplyStaged(outcome, result)
      PROVE  Scanned'
  <2>1. /\ UNCHANGED <<plugged, scan, resident>> /\ ready' = None
        /\ pc = "reconcile" /\ pc' = "top"
        /\ conf' = Staged /\ shown' = Shown(connected, Staged)
    BY <1>9, Zenon DEF ApplyStaged, StagedFrame, hardware
  <2>2. PICK woken : rescan' = (rescan \/ woken)
    BY <1>9, Zenon DEF ApplyStaged
  <2>3. rescan => rescan'
    BY <2>2
  <2>4. connected = scan
    BY <2>1 DEF Scanned
  <2>5. Shown(connected, Staged).lit = Wanted(connected, Staged)
    BY DEF Shown
  <2>6. shown'.lit = Wanted(scan', conf')
    BY <2>1, <2>4, <2>5
  <2>7. QED
    BY <2>1, <2>3, <2>6 DEF Scanned
<1>10. QED
  BY <1>1, <1>2, <1>3, <1>4, <1>5, <1>6, <1>7, <1>8, <1>9, Zenon DEF Applying

(* A rescan ends with the wanted outputs lit, or is asked for again. *)
LEMMA RescanningScanned ==
    ASSUME ApplyInv, Scanned, Rescanning
    PROVE  Scanned'
<1>1. UNCHANGED <<plugged, conf, ready>> /\ pc = "topology" /\ pc' \in {"top", "ended"}
  BY Zenon DEF Rescanning, NoRescan, NothingToLight, Stable, RebuildBusy, Rebuild, RebuildFails,
               Observe, TopologyFrame, hardware, waiting
<1>2. ready' = None
  BY <1>1 DEF Scanned
<1>3. CASE NoRescan
  <2>1. UNCHANGED <<scan, shown, rescan, resident>>
    BY <1>3, Zenon DEF NoRescan, rescans
  <2>2. QED
    BY <1>1, <1>2, <2>1 DEF Scanned
<1>4. CASE NothingToLight \/ RebuildBusy \/ RebuildFails
  <2>1. (rescan' = TRUE \/ pc' = "ended") /\ scan' = plugged
    BY <1>4, Zenon DEF NothingToLight, RebuildBusy, RebuildFails, Observe
  <2>2. QED
    BY <1>1, <1>2, <2>1 DEF Scanned
<1>5. CASE Stable
  <2>1. scan' = plugged /\ shown' = shown /\ ~Changed
    BY <1>5, Zenon DEF Stable, Observe, RebuildDue
  <2>2. shown'.lit = Wanted(scan', conf')
    BY <1>1, <2>1 DEF Changed, Observed
  <2>3. QED
    BY <1>1, <1>2, <2>1, <2>2 DEF Scanned
<1>6. CASE Rebuild
  <2>1. scan' = plugged /\ shown' = Shown(plugged, conf)
    BY <1>6, Zenon DEF Rebuild, Observe
  <2>2. shown'.lit = Wanted(scan', conf')
    BY <1>1, <2>1 DEF Shown
  <2>3. QED
    BY <1>1, <1>2, <2>1, <2>2 DEF Scanned
<1>7. QED
  BY <1>3, <1>4, <1>5, <1>6, Zenon DEF Rescanning

(* Every step keeps it: between turns, only a hotplug changes the           *)
(* connectors, and it asks for a rescan.                                    *)
LEMMA ScannedStepKeeps ==
    ASSUME ApplyInv, Scanned, [ApplyNext]_applyVars
    PROVE  Scanned'
<1>1. CASE UNCHANGED applyVars
  <2>1. UNCHANGED <<pc, plugged, scan, conf, shown, powered, ready, connected, rescan, resident,
                    rebased, disconnected>>
    BY <1>1, Zenon DEF applyVars, hardware, screen, rescans, waiting, passes
  <2>2. Rebased' <=> Rebased
    BY <2>1 DEF Rebased
  <2>3. QED
    BY <2>1, <2>2 DEF Scanned
<1>2. CASE \/ \E wish \in Wishes : Submit(wish)
           \/ \E o \in offered, keep \in BOOLEAN : Answer(o.token, keep)
           \/ MoveLid \/ Turn \/ SwitchSession \/ RequestRebuild \/ Edit
           \/ \E o \in Outputs : Replug(o)
  <2>1. pc = "top" /\ pc' = "top" /\ UNCHANGED <<scan, conf, shown, ready, resident>>
    BY <1>2, Zenon DEF Submit, Answer, MoveLid, Turn, SwitchSession, RequestRebuild, Edit, Replug,
                       Move, screen, rescans, waiting
  <2>2. rescan' = TRUE \/ UNCHANGED <<plugged, rescan>>
    BY <1>2, Zenon DEF Submit, Answer, MoveLid, Turn, SwitchSession, RequestRebuild, Edit, Replug,
                       hardware, rescans
  <2>3. QED
    BY <2>1, <2>2, UnscannedKeeps DEF Unscanned
<1>3. QED
  BY <1>1, <1>2, TurnHeadScanned, AnsweringScanned, ApplyingScanned, RescanningScanned, Zenon
     DEF ApplyNext, Loop

(* Other outputs are lit than the configuration wants only until a rescan   *)
(* or a rollback's rebuild that is already asked for.                       *)
THEOREM ScansAreDue == ApplySpec => []Scanned
<1>1. ApplyInit => Scanned
  <2> SUFFICES ASSUME ApplyInit PROVE Scanned
    OBVIOUS
  <2>1. /\ pc = "top" /\ scan = plugged /\ shown = Shown(scan, conf) /\ ready = None
    BY Zenon DEF ApplyInit
  <2>2. shown.lit = Wanted(scan, conf)
    BY <2>1 DEF Shown
  <2>3. QED
    BY <2>1, <2>2 DEF Scanned
<1>2. ApplyInv /\ Scanned /\ [ApplyNext]_applyVars => Scanned'
  BY ScannedStepKeeps
<1>3. QED
  BY ApplyInvariant, <1>1, <1>2, PTL DEF ApplySpec

(* Only a publication replaces the snapshot or answers a layout or a        *)
(* confirmation as done.                                                    *)
LEMMA OnlyPublishAnswers ==
    ASSUME ApplyInv, [ApplyNext]_applyVars, ~Publish
    PROVE  snap' = snap /\ success' \in {success, TRUE} /\ confirmed' \in {confirmed, TRUE}
<1> DEFINE Kept == snap' = snap /\ success' \in {success, TRUE} /\ confirmed' \in {confirmed, TRUE}
<1> SUFFICES Kept
  BY Zenon
<1>1. CASE UNCHANGED applyVars
  BY <1>1 DEF applyVars, published, waiting
<1>2. CASE \/ \E wish \in Wishes : Submit(wish)
           \/ \E o \in offered, keep \in BOOLEAN : Answer(o.token, keep)
           \/ MoveLid \/ Turn \/ SwitchSession \/ RequestRebuild \/ Edit
           \/ \E o \in Outputs : Replug(o)
  BY <1>2, Zenon DEF Submit, Answer, MoveLid, Turn, SwitchSession, RequestRebuild, Edit, Replug, Move, published, waiting
<1>3. CASE TurnHead
  <2>1. CASE NotTurned \/ ApplySensor \/ SensorFails \/ ApplyLid
    BY <2>1, Zenon DEF NotTurned, ApplySensor, SensorFails, SensorFrame, ApplyLid, published
  <2>2. CASE NotExpired \/ Expire \/ PowerIdle \/ \E outcome \in Outcomes : PowerGate(outcome)
    BY <2>2, Zenon DEF NotExpired, Expire, ExpireFrame, PowerIdle, PowerGate, published, waiting
  <2>3. QED
    BY <1>3, <2>1, <2>2, Zenon DEF TurnHead
<1>4. CASE Answering
  BY <1>4, Zenon DEF Answering, AnswersRead, StaleAnswer, Keep, RollBack, KeepFails, Taken, published,
              waiting
<1>5. CASE Applying
  <2>1. CASE AcquireNone \/ AcquireRefused \/ AcquireBusy \/ Acquire \/ AcquireUnscanned
    BY <2>1, Zenon DEF AcquireNone, AcquireRefused, AcquireBusy, Acquire, AcquireUnscanned, AcquireFrame
  <2>2. CASE ReadyNone \/ ReadyBusy \/ StageRefused \/ Stage \/ Reconcile
    BY <2>2, Zenon DEF ReadyNone, ReadyBusy, StageRefused, Stage, ReadyFrame, Reconcile, published, waiting
  <2>3. CASE StagedRefused \/ ApplyFails
    BY <2>3, Zenon DEF StagedRefused, ApplyFails, StagedFrame
  <2>4. ASSUME NEW outcome \in Outcomes, NEW result \in {"saved", "failed", "unsynced"},
               ApplyStaged(outcome, result)
        PROVE  Kept
    <3>1. snap' = snap /\ confirmed' = confirmed /\ Finish(result)
      BY <2>4, Zenon DEF ApplyStaged, StagedFrame
    <3>2. success \in BOOLEAN
      BY Zenon DEF ApplyInv, ApplyTypeOK
    <3>3. QED
      BY <3>1, <3>2, Zenon DEF Finish
  <2>5. QED
    BY <1>5, <2>1, <2>2, <2>3, <2>4, Zenon DEF Applying
<1>6. CASE Rescanning
  BY <1>6, Zenon DEF Rescanning, NoRescan, NothingToLight, Stable, RebuildBusy, Rebuild, RebuildFails,
              Observe, TopologyFrame, waiting
<1>7. QED
  BY <1>1, <1>2, <1>3, <1>4, <1>5, <1>6, Zenon DEF ApplyNext, Loop

(* A snapshot, and the answer to a layout or a confirmation, is published   *)
(* only when the screen shows the whole configuration, with the outputs it  *)
(* wants lit or a rescan due.  The rollback whose failed rebuild the code   *)
(* forgets (lost) is excluded.                                              *)
THEOREM AnswersAreTruthful == ApplySpec => AnswersTruthful
<1>1. ApplyInv /\ Scanned /\ [ApplyNext]_applyVars =>
        [snap' # snap \/ (success /\ ~success') \/ (confirmed /\ ~confirmed')
         => Whole \/ lost]_applyVars
  <2> SUFFICES ASSUME ApplyInv, Scanned, [ApplyNext]_applyVars,
                      snap' # snap \/ (success /\ ~success') \/ (confirmed /\ ~confirmed')
               PROVE  Whole \/ lost
    OBVIOUS
  <2>1. Publish
    BY OnlyPublishAnswers, Zenon
  <2>2. ~resident /\ pc = "publish"
    <3>1. resident \in BOOLEAN /\ success \in BOOLEAN /\ confirmed \in BOOLEAN
      BY DEF ApplyInv, ApplyTypeOK
    <3>2. QED
      BY <2>1, <3>1 DEF Publish, Deferred
  <2>3. shown.lit = Wanted(scan, conf) \/ rescan
    BY <2>2, Zenon DEF Scanned
  <2>4. QED
    BY <2>2, <2>3, Zenon DEF ApplyInv, OnScreen, RollbackExact, Whole
<1>2. QED
  BY ApplyInvariant, ScansAreDue, <1>1, PTL DEF ApplySpec, AnswersTruthful

(* The saved file changes in an editor, or where a confirmed or an          *)
(* unconditional layout is committed.                                       *)
LEMMA OnlyCommitsSave ==
    ASSUME ApplyInv, [ApplyNext]_applyVars,
           ~Edit, ~Keep, \A result \in {"failed", "unsynced"} : ~KeepFails(result),
           \A outcome \in Outcomes, result \in {"saved", "failed", "unsynced"} :
              ~ApplyStaged(outcome, result)
    PROVE  file' = file /\ trusted' = trusted
<1>1. CASE UNCHANGED applyVars
  BY <1>1 DEF applyVars, saved
<1>2. CASE \/ \E wish \in Wishes : Submit(wish)
           \/ \E o \in offered, keep \in BOOLEAN : Answer(o.token, keep)
           \/ MoveLid \/ Turn \/ SwitchSession \/ RequestRebuild
           \/ \E o \in Outputs : Replug(o)
  BY <1>2, Zenon DEF Submit, Answer, MoveLid, Turn, SwitchSession, RequestRebuild, Replug, Move,
              saved
<1>3. CASE TurnHead
  BY <1>3 DEF TurnHead, NotTurned, ApplySensor, SensorFails, SensorFrame, ApplyLid, NotExpired,
              Expire, ExpireFrame, Publish, PowerGate, PowerIdle, saved
<1>4. CASE AnswersRead \/ StaleAnswer \/ RollBack
  BY <1>4 DEF AnswersRead, StaleAnswer, RollBack, saved
<1>5. CASE AcquireNone \/ AcquireRefused \/ AcquireBusy \/ Acquire \/ AcquireUnscanned
  BY <1>5, Zenon DEF AcquireNone, AcquireRefused, AcquireBusy, Acquire, AcquireUnscanned, AcquireFrame,
              saved
<1>6. CASE ReadyNone \/ ReadyBusy \/ StageRefused \/ Stage \/ Reconcile
  BY <1>6 DEF ReadyNone, ReadyBusy, StageRefused, Stage, ReadyFrame, Reconcile, saved
<1>7. CASE StagedRefused \/ ApplyFails
  BY <1>7 DEF StagedRefused, ApplyFails, saved
<1>8. CASE Rescanning
  BY <1>8, Zenon DEF Rescanning, NoRescan, NothingToLight, Stable, RebuildBusy, Rebuild, RebuildFails,
              Observe, TopologyFrame, saved
<1>9. QED
  BY <1>1, <1>2, <1>3, <1>4, <1>5, <1>6, <1>7, <1>8
     DEF ApplyNext, Loop, Answering, Applying

(* The compositor saves only the running layout, once it is confirmed, over *)
(* the file it was prepared from; and what an answer keeps is the layout    *)
(* that was offered with its token.                                         *)
THEOREM KeptLayoutsAreSaved == ApplySpec => KeptIsSaved
<1> DEFINE Saves == file' # file /\ moves' = moves =>
                      (file' = trusted' /\ active' = None) \/ unsynced'
           Keeps == trusted' # trusted /\ pc = "confirm" =>
                      \A o \in offered : o.token = Head(answers).token => o.layout = trusted'
<1>1. ApplyInv /\ [ApplyNext]_applyVars => Saves /\ Keeps
  <2> SUFFICES ASSUME ApplyInv, [ApplyNext]_applyVars PROVE Saves /\ Keeps
    BY Zenon
  <2>1. CASE Edit
    BY <2>1 DEF ApplyInv, ApplyTypeOK, Edit, Move
  <2>2. CASE Keep
    <3>1. /\ active # None /\ Head(answers).token = active.token /\ active' = None
          /\ trusted' = Layout(conf)
      BY <2>2 DEF Keep, Taken, AnswersActive
    <3>2. Keeps
      BY <3>1 DEF ApplyInv, Offers
    <3>3. file' = file \/ file' = Layout(conf)
      <4>1. CASE active.file = None
        BY <2>2, <4>1 DEF Keep
      <4>2. CASE active.file # None
        BY <2>2, <3>1, <4>2 DEF Keep, Commit, ApplyInv, Returnable
      <4>3. QED
        BY <4>1, <4>2
    <3>4. QED
      BY <3>1, <3>2, <3>3
  <2>3. ASSUME NEW result \in {"failed", "unsynced"}, KeepFails(result) PROVE Saves /\ Keeps
    BY <2>3, Zenon DEF KeepFails, Commit
  <2>4. ASSUME NEW outcome \in Outcomes, NEW result \in {"saved", "failed", "unsynced"},
               ApplyStaged(outcome, result)
        PROVE  Saves /\ Keeps
    <3>1. pc = "reconcile" /\ ready # None /\ active = None /\ Finish(result)
      BY <2>4, Zenon DEF ApplyStaged, StagedFrame, ApplyInv, Alone
    <3>2. CASE Wish.confirm
      BY <3>1, <3>2, Zenon DEF Finish, saved
    <3>3. CASE ~Wish.confirm
      <4>1. trusted' = Layout(Staged) /\ active' = None
        BY <3>1, <3>3 DEF Finish
      <4>2. file' = file \/ file' = Layout(Staged)
        <5>1. CASE Wish.persistent
          <6>1. Prepared.content = Layout(Staged)
            BY <3>1, <5>1, StagedTypes DEF ApplyInv, PassInv
          <6>2. QED
            BY <3>1, <3>3, <5>1, <6>1 DEF Finish, Commit
        <5>2. CASE ~Wish.persistent
          BY <3>1, <3>3, <5>2 DEF Finish
        <5>3. QED
          BY <5>1, <5>2
      <4>3. QED
        BY <3>1, <4>1, <4>2
    <3>4. QED
      BY <3>2, <3>3, Zenon
  <2>5. QED
    BY <2>1, <2>2, <2>3, <2>4, OnlyCommitsSave, Zenon
<1>2. ApplyInv /\ [ApplyNext]_applyVars => [Saves /\ Keeps]_applyVars
  BY <1>1
<1>3. QED
  BY ApplyInvariant, <1>2, PTL DEF ApplySpec, KeptIsSaved
=============================================================================
