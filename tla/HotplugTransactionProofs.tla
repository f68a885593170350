---------------------- MODULE HotplugTransactionProofs ----------------------
(***************************************************************************)
(* A change of the scanouts, for any outputs, CRTCs, assignments and number *)
(* of failures: no lit CRTC loses its surface, commits are compensated, and *)
(* clients see the topology that stands.                                    *)
(***************************************************************************)
EXTENDS HotplugTransaction, TLAPS

Owned == scanouts \cup candidate \cup retired

Phases == {"Staging", "Validated", "Committing", "Presented", "Finalized", "RolledBack"}

Types ==
    /\ TypeOK
    /\ progress \in [phase : Phases, committed : Nat]
    /\ faults \in Nat

(* The old scanouts are in the journal while a transaction runs, apart from *)
(* those it creates; one of timing alone neither creates nor retires any.   *)
Journal ==
    /\ at = "idle" => candidate = {} /\ retired = {} /\ created = {}
    /\ at # "idle" => scanouts = {} /\ ~recovery /\ last = "none"
    /\ created \subseteq candidate /\ candidate \cap retired = {}
    /\ at # "idle" => IF resident THEN retired = {} /\ created = {}
                      ELSE changed = OutsOf(candidate)
    /\ at = "geometry" => resident
    /\ at \in {"presented", "stopped", "cleared", "uncleared", "published"} => ~resident

(* No two surfaces share a CRTC, and one that is not powered is dark. *)
Surfaces ==
    /\ \A s, t \in Owned : s.crtc = t.crtc => s = t
    /\ \A s \in Owned : ~s.powered => screen[s.crtc] = "off"

(* Where frames of the transaction are: on CRTCs of powered candidates, and *)
(* from the last commit on all of them.  A failed rollback may leave one,   *)
(* and then recovery is requested.                                          *)
Frames ==
    /\ at # "idle" => /\ progress.phase \notin {"Finalized", "RolledBack"}
                      /\ \A c \in Crtcs : screen[c] = "new" =>
                            progress.committed # 0 /\ c \in CrtcsOf(Powered(candidate))
    /\ at = "idle" /\ ~recovery => \A c \in Crtcs : screen[c] # "new"
    /\ at \notin {"idle", "staged", "validated"} /\ ~resident =>
          \A s \in Powered(candidate) : screen[s.crtc] = "new"
    /\ at \in {"cleared", "published"} => \A s \in retired : screen[s.crtc] = "off"

(* Until something is committed only retired CRTCs change, when they are    *)
(* cleared; and an output that moves to another CRTC keeps its power.       *)
Untouched ==
    at # "idle" =>
       /\ progress.committed = 0 =>
             \A c \in Crtcs : \/ screen[c] = before.screen[c]
                              \/ /\ at \in {"cleared", "uncleared", "published"}
                                 /\ c \in CrtcsOf(retired)
       /\ \A s \in retired, t \in candidate : s.out = t.out /\ s.powered => t.powered

(* Clients see the old topology until the new one is published. *)
Ended == at \notin {"idle", "published"} => published = before.published

IInv ==
    /\ Types /\ Journal /\ Surfaces /\ Frames /\ Untouched /\ Ended
    /\ LitOwned /\ Compensated /\ ShellAgrees

(* What the types say, element by element. *)
LEMMA Typed ==
    ASSUME Types
    PROVE  /\ scanouts \subseteq Scanout /\ candidate \subseteq Scanout
           /\ retired \subseteq Scanout /\ created \subseteq Scanout
           /\ screen \in [Crtcs -> {"old", "new", "off"}]
           /\ \A s \in Scanout : s.out \in Outputs /\ s.crtc \in Crtcs /\ s.powered \in BOOLEAN
           /\ resident \in BOOLEAN /\ rebased \in BOOLEAN /\ recovery \in BOOLEAN
           /\ active \in BOOLEAN /\ survives \in BOOLEAN /\ running \in BOOLEAN
<1>1. {scanouts, candidate, retired, created} \subseteq SUBSET Scanout
  BY DEF Types, TypeOK
<1>2. /\ {resident, rebased, recovery, active, survives, running} \subseteq BOOLEAN
      /\ screen \in [Crtcs -> {"old", "new", "off"}]
  BY Zenon DEF Types, TypeOK
<1>3. \A s \in Scanout : s.out \in Outputs /\ s.crtc \in Crtcs /\ s.powered \in BOOLEAN
  BY DEF Scanout
<1> QED
  BY <1>1, <1>2, <1>3, Zenon

(* A display is turned off or on between transactions. *)
LEMMA PowerKeeps ==
    ASSUME IInv, NEW s \in scanouts, Power(s)
    PROVE  IInv'
<1> DEFINE t == [s EXCEPT !.powered = ~@]
<1>0. /\ at = "idle" /\ ~recovery /\ at' = at /\ recovery' = recovery
      /\ scanouts' = (scanouts \ {s}) \cup {t}
      /\ screen' = [screen EXCEPT ![s.crtc] = IF s.powered THEN "off" ELSE "old"]
      /\ UNCHANGED <<candidate, retired, created, changed, resident, before, progress,
                     pending, flutter, published, rebased, active, survives, running, last,
                     faults>>
  BY Zenon DEF Power, Idle, journal, session
<1>1. /\ candidate = {} /\ retired = {} /\ created = {}
      /\ scanouts \subseteq Scanout /\ s \in Scanout
      /\ screen \in [Crtcs -> {"old", "new", "off"}]
      /\ s.crtc \in Crtcs /\ s.powered \in BOOLEAN
  BY <1>0, Typed DEF IInv, Journal
<1>2. t \in Scanout /\ t.out = s.out /\ t.crtc = s.crtc /\ t.powered = ~s.powered
  BY <1>1 DEF Scanout
<1> HIDE DEF t
<1>3. Types'
  BY <1>0, <1>1, <1>2 DEF IInv, Types, TypeOK
<1>4. Journal'
  BY <1>0, <1>1 DEF IInv, Journal
<1>5. Surfaces'
  BY <1>0, <1>1, <1>2, Typed DEF IInv, Surfaces, Owned
<1>6. Frames' /\ Untouched'
  BY <1>0, <1>1 DEF IInv, Frames, Untouched
<1>7. Ended' /\ LitOwned'
  BY <1>0, <1>1, <1>2 DEF IInv, Ended, LitOwned, CrtcsOf
<1>8. Compensated' /\ ShellAgrees'
  BY <1>0, <1>1, <1>2, Typed DEF IInv, Compensated, ShellAgrees, Powered, Surfaces, Owned
<1> QED
  BY <1>3, <1>4, <1>5, <1>6, <1>7, <1>8 DEF IInv

(* The first scanouts are lit, and nothing has happened. *)
LEMMA InitInvariant == Init => IInv
<1> SUFFICES ASSUME Init PROVE IInv
  OBVIOUS
<1> DEFINE S(k) == [out |-> k[1], crtc |-> k[2], powered |-> TRUE]
<1>0. /\ scanouts = {S(k) : k \in Initially}
      /\ candidate = {} /\ retired = {} /\ created = {}
      /\ at = "idle" /\ changed = {} /\ resident = FALSE /\ pending = {}
      /\ progress = [phase |-> "Staging", committed |-> 0]
      /\ screen = [c \in Crtcs |-> IF c \in CrtcsOf(scanouts) THEN "old" ELSE "off"]
      /\ flutter = "old" /\ published = "old" /\ rebased = FALSE /\ recovery = FALSE
      /\ active = TRUE /\ survives = FALSE /\ running = TRUE
      /\ last = "none" /\ faults = 0
  BY Zenon DEF Init
<1>1. \A k \in Initially :
         /\ S(k) \in Scanout /\ S(k).crtc = k[2] /\ S(k).powered = TRUE
         /\ k = <<k[1], k[2]>> /\ k[2] \in Crtcs
  BY AssignmentsAssumption DEF Scanout
<1>2. \A k, l \in Initially : k[2] = l[2] => k = l
  BY AssignmentsAssumption
<1> HIDE DEF S
<1>3. /\ scanouts \subseteq Scanout
      /\ \A s \in scanouts : s.powered = TRUE /\ s.crtc \in Crtcs /\ screen[s.crtc] = "old"
      /\ \A s, t \in scanouts : s.crtc = t.crtc => s = t
  <2>1. \A s \in scanouts : s \in Scanout /\ s.powered = TRUE /\ s.crtc \in Crtcs
    BY <1>0, <1>1
  <2>2. \A s \in scanouts : screen[s.crtc] = "old"
    BY <1>0, <2>1 DEF CrtcsOf
  <2>3. \A s, t \in scanouts : s.crtc = t.crtc => s = t
    BY <1>0, <1>1, <1>2
  <2> QED BY <2>1, <2>2, <2>3
<1>4. Types
  BY <1>0, <1>3 DEF Types, TypeOK, Phases
<1>5. Journal /\ Ended /\ Untouched
  BY <1>0 DEF Journal, Ended, Untouched
<1>6. Surfaces
  BY <1>0, <1>3 DEF Surfaces, Owned
<1>7. Frames /\ LitOwned
  BY <1>0, <1>3 DEF Frames, LitOwned, CrtcsOf
<1>8. Compensated /\ ShellAgrees
  BY <1>0, <1>3 DEF Compensated, ShellAgrees
<1> QED
  BY <1>4, <1>5, <1>6, <1>7, <1>8 DEF IInv

(* The device is reset, its only display is gone, or the seat is left or    *)
(* taken again.                                                             *)
LEMMA ResetKeeps ==
    ASSUME IInv, Recover \/ LoseOutputs \/ Pause \/ Resume
    PROVE  IInv'
<1> DEFINE lit == CrtcsOf(Powered(scanouts))
<1>0. /\ at = "idle" /\ at' = at
      /\ \/ /\ recovery' = FALSE /\ rebased' = TRUE
            /\ screen' = [c \in Crtcs |-> "off"]
         \/ /\ recovery' = recovery /\ rebased' = TRUE
            /\ screen' = [c \in Crtcs |-> IF c \in lit THEN "old" ELSE screen[c]]
         \/ /\ recovery' = recovery \/ recovery' = TRUE
            /\ rebased' = rebased \/ rebased' = TRUE
            /\ screen' = screen
      /\ last' = "none" \/ (last' = last /\ screen' = screen)
      /\ active' = active \/ active' = TRUE \/ active' = FALSE
      /\ faults' = faults \/ faults' = faults + 1
      /\ UNCHANGED <<scanouts, candidate, retired, created, changed, resident, survives, before,
                     progress, pending, flutter, published, running>>
  <2>1. CASE Recover
    BY <2>1, Zenon DEF Recover, Idle, journal
  <2>2. CASE LoseOutputs
    BY <2>2, Zenon DEF LoseOutputs, Idle, journal
  <2>3. CASE Pause
    BY <2>3, Zenon DEF Pause, Idle, journal
  <2>4. CASE Resume
    BY <2>4, Zenon DEF Resume, journal, Fault, NoFault
  <2> QED BY <2>1, <2>2, <2>3, <2>4
<1>1. /\ candidate = {} /\ retired = {} /\ created = {}
      /\ scanouts \subseteq Scanout
      /\ screen \in [Crtcs -> {"old", "new", "off"}]
      /\ \A s \in scanouts : s.crtc \in Crtcs
      /\ {resident, rebased, recovery, active, survives, running} \subseteq BOOLEAN
      /\ faults \in Nat
  BY <1>0, Typed DEF IInv, Journal, Types
<1>2. /\ screen' \in [Crtcs -> {"old", "new", "off"}]
      /\ \A c \in Crtcs : \/ screen'[c] = "off"
                          \/ screen'[c] = "old" /\ c \in lit
                          \/ screen'[c] = screen[c]
  BY <1>0, <1>1
<1>3. Types'
  <2>1. {resident, rebased, recovery, active, survives, running}' \subseteq BOOLEAN
    BY <1>0, <1>1
  <2>2. faults' \in Nat
    BY <1>0, <1>1
  <2> QED BY <1>0, <1>1, <1>2, <2>1, <2>2 DEF IInv, Types, TypeOK
<1>4. Journal' /\ Untouched' /\ Ended'
  BY <1>0, <1>1 DEF IInv, Journal, Untouched, Ended
<1>5. \A s \in scanouts : ~s.powered => s.crtc \notin lit
  BY <1>1 DEF IInv, Surfaces, Owned, CrtcsOf, Powered
<1>6. lit \subseteq CrtcsOf(scanouts)
  BY DEF CrtcsOf, Powered
<1> HIDE DEF lit
<1>7. Surfaces'
  BY <1>0, <1>1, <1>2, <1>5 DEF IInv, Surfaces, Owned
<1>8. Frames'
  BY <1>0, <1>1, <1>2 DEF IInv, Frames
<1>9. LitOwned'
  BY <1>0, <1>1, <1>2, <1>6 DEF IInv, LitOwned
<1>10. Compensated' /\ ShellAgrees'
  <2>1. CASE last' = "none"
    BY <2>1 DEF Compensated, ShellAgrees
  <2>2. CASE last' = last /\ screen' = screen
    BY <1>0, <2>2 DEF IInv, Compensated, ShellAgrees, Powered
  <2> QED BY <1>0, <2>1, <2>2
<1> QED
  BY <1>3, <1>4, <1>7, <1>8, <1>9, <1>10 DEF IInv

(* A scan that is refused changes nothing but its answer. *)
LEMMA RefuseKeeps ==
    ASSUME IInv, NEW a \in Assignments, Refuse(a)
    PROVE  IInv'
<1>0. /\ at = "idle" /\ at' = at /\ last' \in {"refused", "unstaged"}
      /\ faults' = faults \/ faults' = faults + 1
      /\ running' \in BOOLEAN
      /\ UNCHANGED <<scanouts, candidate, retired, created, changed, resident, survives, before,
                     progress, pending, screen, flutter, published, rebased, recovery, active>>
  BY DEF Refuse, Idle, journal, Fault, NoFault
<1>1. Types'
  <2>1. {resident, rebased, recovery, active, survives, running}' \subseteq BOOLEAN
    BY <1>0, Typed DEF IInv
  <2>2. faults' \in Nat
    BY <1>0 DEF IInv, Types
  <2> QED BY <1>0, <2>1, <2>2 DEF IInv, Types, TypeOK
<1>2. Journal' /\ Ended' /\ Frames' /\ Untouched' /\ Compensated' /\ ShellAgrees'
  BY <1>0 DEF IInv, Journal, Ended, Frames, Untouched, Compensated, ShellAgrees
<1>3. Surfaces' /\ LitOwned'
  BY <1>0 DEF IInv, Surfaces, Owned, LitOwned
<1> QED
  BY <1>1, <1>2, <1>3 DEF IInv

(* A transaction begins: every old scanout goes into its journal, and what  *)
(* it creates is on CRTCs that none of them uses.                           *)
LEMMA BeginKeeps ==
    ASSUME IInv, NEW a \in Assignments, Begin(a)
    PROVE  IInv'
<1> DEFINE S(k) == [out |-> k[1], crtc |-> k[2], powered |-> WasPowered(k[1])]
           new == {S(k) : k \in Missing(a)}
<1>0. /\ at = "idle" /\ ~recovery /\ at' = "staged"
      /\ created' = new /\ candidate' = Reused(a) \cup new
      /\ changed' = OutsOf(Reused(a) \cup new)
      /\ retired' = scanouts \ Reused(a) /\ scanouts' = {}
      /\ resident' = FALSE /\ progress' = [phase |-> "Staging", committed |-> 0]
      /\ before' = [screen |-> screen, published |-> published]
      /\ last' = "none" /\ survives' \in BOOLEAN
      /\ UNCHANGED <<pending, screen, flutter, published, rebased, recovery, active, running,
                     faults>>
      /\ ~DuplicateKeys /\ Creatable(a)
  BY Zenon DEF Begin, Idle
<1>1. /\ candidate = {} /\ retired = {} /\ created = {}
      /\ scanouts \subseteq Scanout
      /\ screen \in [Crtcs -> {"old", "new", "off"}]
      /\ \A s \in Scanout : s.out \in Outputs /\ s.crtc \in Crtcs /\ s.powered \in BOOLEAN
  BY <1>0, Typed DEF IInv, Journal
<1>2. \A k \in a :
         /\ S(k) \in Scanout /\ S(k).crtc = k[2] /\ S(k).out = k[1]
         /\ k = <<k[1], k[2]>> /\ k[2] \in Crtcs
  <2>1. \A k \in a : k \in Outputs \X Crtcs
    BY AssignmentsAssumption
  <2>2. \A k \in a : WasPowered(k[1]) \in BOOLEAN
    BY DEF WasPowered
  <2> QED BY <2>1, <2>2 DEF Scanout
<1>3. \A k, l \in a : k[2] = l[2] => k = l
  BY AssignmentsAssumption
<1>4. /\ new \subseteq Scanout
      /\ \A s \in new : s.crtc \notin CrtcsOf(scanouts) /\ screen[s.crtc] = "off"
      /\ \A s, t \in new : s.crtc = t.crtc => s = t
  <2>1. Missing(a) \subseteq a
    BY DEF Missing
  <2> QED BY <1>0, <1>2, <1>3, <2>1 DEF Creatable
<1>5. /\ Reused(a) \subseteq scanouts
      /\ \A s \in new : s \notin scanouts
  BY <1>4 DEF Reused, CrtcsOf
<1>6. Reused(a) \cup new # {}
  <2>1. PICK k \in a : TRUE
    BY AssignmentsAssumption
  <2>2. CASE k \in Missing(a)
    BY <2>2
  <2>3. CASE k \notin Missing(a)
    BY <2>3 DEF Missing, Reused, Key
  <2> QED BY <2>2, <2>3
<1> HIDE DEF new, S
<1>7. Types'
  <2>1. OutsOf(Reused(a) \cup new) \subseteq Outputs
    BY <1>1, <1>4, <1>5 DEF OutsOf
  <2>2. {scanouts, candidate, retired, created}' \subseteq SUBSET Scanout
    BY <1>0, <1>1, <1>4, <1>5
  <2>3. (at # "idle" <=> candidate # {})'
    BY <1>0, <1>6
  <2>4. {resident, rebased, recovery, active, survives, running}' \subseteq BOOLEAN
    BY <1>0, Typed DEF IInv
  <2> QED BY <1>0, <2>1, <2>2, <2>3, <2>4 DEF IInv, Types, TypeOK, Phases
<1>8. Journal'
  BY <1>0, <1>1, <1>4, <1>5 DEF Journal, OutsOf
<1>9. Surfaces'
  <2>1. Owned' = scanouts \cup new
    BY <1>0, <1>5 DEF Owned
  <2>2. \A s \in new, t \in scanouts : s.crtc # t.crtc
    BY <1>4 DEF CrtcsOf
  <2>3. \A s, t \in scanouts : s.crtc = t.crtc => s = t
    BY <1>1 DEF IInv, Surfaces, Owned
  <2>4. \A s \in scanouts : ~s.powered => screen[s.crtc] = "off"
    BY <1>1 DEF IInv, Surfaces, Owned
  <2> QED BY <1>0, <1>4, <2>1, <2>2, <2>3, <2>4 DEF Surfaces
<1>10. Frames' /\ Ended'
  BY <1>0 DEF IInv, Frames, Ended
<1>11. LitOwned'
  BY <1>0, <1>1, <1>5 DEF IInv, LitOwned, CrtcsOf
<1>12. Compensated' /\ ShellAgrees'
  BY <1>0 DEF Compensated, ShellAgrees
<1>13. Untouched'
  <2>1. before'.screen = screen /\ screen' = screen
    BY <1>0
  <2>2. ASSUME NEW s \in scanouts \ Reused(a), NEW t \in Reused(a) \cup new,
               s.out = t.out, s.powered
        PROVE  t.powered
    <3>1. CASE t \in Reused(a)
      BY <1>0, <1>5, <2>2, <3>1 DEF DuplicateKeys
    <3>2. CASE t \in new
      <4>1. PICK k \in Missing(a) : t = S(k)
        BY <3>2 DEF new
      <4>2. t.out = k[1] /\ t.powered = WasPowered(k[1])
        BY <4>1 DEF S
      <4> QED BY <2>2, <4>2 DEF WasPowered
    <3> QED BY <2>2, <3>1, <3>2
  <2> QED BY <1>0, <2>1, <2>2 DEF Untouched
<1> QED
  BY <1>7, <1>8, <1>9, <1>10, <1>11, <1>12, <1>13 DEF IInv

(* A change of timing alone begins. *)
LEMMA BeginResidentKeeps ==
    ASSUME IInv, NEW outs \in SUBSET Outputs, BeginResident(outs)
    PROVE  IInv'
<1>0. /\ at = "idle" /\ ~recovery /\ at' = "staged"
      /\ outs # {} /\ outs \subseteq OutsOf(scanouts)
      /\ candidate' = scanouts /\ created' = {} /\ retired' = {} /\ scanouts' = {}
      /\ changed' = outs /\ resident' = TRUE
      /\ progress' = [phase |-> "Staging", committed |-> 0]
      /\ before' = [screen |-> screen, published |-> published]
      /\ last' = "none" /\ survives' = TRUE
      /\ UNCHANGED <<pending, screen, flutter, published, rebased, recovery, active, running,
                     faults>>
  BY Zenon DEF BeginResident, Idle
<1>1. /\ candidate = {} /\ retired = {} /\ created = {}
      /\ scanouts \subseteq Scanout /\ scanouts # {}
  BY <1>0, Typed DEF IInv, Journal, OutsOf
<1>2. Types'
  <2>1. {resident, rebased, recovery, active, survives, running}' \subseteq BOOLEAN
    BY <1>0, Typed DEF IInv
  <2> QED BY <1>0, <1>1, <2>1 DEF IInv, Types, TypeOK, Phases
<1>3. Journal' /\ Untouched'
  BY <1>0 DEF Journal, Untouched
<1>4. Surfaces'
  BY <1>0, <1>1 DEF IInv, Surfaces, Owned
<1>5. Frames' /\ Ended'
  BY <1>0 DEF IInv, Frames, Ended
<1>6. LitOwned'
  BY <1>0, <1>1 DEF IInv, LitOwned
<1>7. Compensated' /\ ShellAgrees'
  BY <1>0 DEF Compensated, ShellAgrees
<1> QED
  BY <1>2, <1>3, <1>4, <1>5, <1>6, <1>7 DEF IInv

(* The steps that change no screen and no surface. *)
LEMMA QuietStepKeeps ==
    ASSUME IInv, Validate \/ AllCommitted \/ PauseAndResume \/ PauseOverDeadline \/ Present
                 \/ StopFlutter \/ Publish \/ \E c \in Crtcs : Flip(c)
    PROVE  IInv'
<1>0. /\ UNCHANGED <<scanouts, journal, screen, recovery, running, last>>
      /\ active' = active \/ active' = FALSE
      /\ faults' = faults \/ faults' = faults + 1
      /\ at # "idle" /\ at' # "idle"
      /\ rebased' = rebased \/ rebased' = TRUE
      /\ flutter' = flutter \/ flutter' = "stopped"
      /\ pending' = {} \/ (\E c \in Crtcs : pending' = pending \ {c}) \/ pending' = pending
      /\ \/ progress' = progress
         \/ progress' = [progress EXCEPT !.phase = "Validated"]
         \/ progress' = [progress EXCEPT !.phase = "Presented"]
      /\ \/ at = "staged" /\ at' = "validated" /\ published' = published
         \/ at = "validated" /\ at' = "waiting" /\ ToCommit = {} /\ published' = published
         \/ at = "waiting" /\ at' = "waiting" /\ published' = published
         \/ at = "waiting" /\ resident /\ at' = "geometry" /\ published' = published
         \/ at = "waiting" /\ ~resident /\ at' = "presented" /\ published' = published
         \/ at = "presented" /\ at' = "stopped" /\ published' = published
         \/ at = "cleared" /\ at' = "published" /\ published' = "new"
  <2>1. CASE Validate
    BY <2>1 DEF Validate, StepTo, NoFault, session
  <2>2. CASE AllCommitted
    BY <2>2 DEF AllCommitted, StepTo, NoFault, session
  <2>3. CASE PauseAndResume
    BY <2>3 DEF PauseAndResume
  <2>4. CASE PauseOverDeadline
    BY <2>4 DEF PauseOverDeadline, Fault
  <2>5. CASE Present
    BY <2>5 DEF Present, StepTo, NoFault, session
  <2>6. CASE StopFlutter
    BY <2>6 DEF StopFlutter, StepTo, NoFault
  <2>7. CASE Publish
    BY <2>7 DEF Publish, StepTo, NoFault
  <2>8. CASE \E c \in Crtcs : Flip(c)
    BY <2>8 DEF Flip, session
  <2> QED BY <2>1, <2>2, <2>3, <2>4, <2>5, <2>6, <2>7, <2>8
<1>1. /\ progress' \in [phase : Phases, committed : Nat]
      /\ progress'.committed = progress.committed
      /\ progress'.phase \in {progress.phase, "Validated", "Presented"}
  BY <1>0 DEF IInv, Types, Phases
<1>2. Types'
  <2>1. {resident, rebased, recovery, active, survives, running}' \subseteq BOOLEAN
    BY <1>0, Typed DEF IInv, journal
  <2>2. faults' \in Nat
    BY <1>0 DEF IInv, Types
  <2> QED BY <1>0, <1>1, <2>1, <2>2 DEF IInv, Types, TypeOK, journal
<1>3. Journal'
  BY <1>0, Typed DEF IInv, Journal, journal
<1>4. Surfaces' /\ LitOwned'
  BY <1>0 DEF IInv, Surfaces, Owned, LitOwned, journal
<1>5. Frames'
  <2>1. ToCommit = {} /\ at = "validated" /\ ~resident =>
           \A s \in Powered(candidate) : screen[s.crtc] = "new"
    BY DEF IInv, Journal, ToCommit, OutsOf, Powered
  <2> QED BY <1>0, <1>1, <2>1 DEF IInv, Frames, journal
<1>6. Ended' /\ Untouched'
  BY <1>0, <1>1 DEF IInv, Ended, Untouched, journal
<1>7. Compensated' /\ ShellAgrees'
  BY <1>0 DEF IInv, Journal, Compensated, ShellAgrees
<1> QED
  BY <1>2, <1>3, <1>4, <1>5, <1>6, <1>7 DEF IInv

(* One more output shows the new frame. *)
LEMMA CommitKeeps ==
    ASSUME IInv, NEW s \in candidate, Commit(s)
    PROVE  IInv'
<1>0. /\ at = "validated" /\ at' = at /\ s \in ToCommit
      /\ screen' = [screen EXCEPT ![s.crtc] = "new"]
      /\ pending' = pending \cup {s.crtc}
      /\ progress' = [phase |-> "Committing", committed |-> progress.committed + 1]
      /\ UNCHANGED <<scanouts, candidate, retired, created, changed, resident, before,
                     flutter, published, rebased, recovery, active, survives, running, last,
                     faults>>
  BY Zenon DEF Commit, journal, session
<1>1. /\ candidate \subseteq Scanout /\ s \in Powered(candidate)
      /\ screen \in [Crtcs -> {"old", "new", "off"}]
      /\ s.crtc \in Crtcs /\ s.powered
      /\ progress.committed \in Nat
      /\ retired \subseteq Scanout
      /\ last = "none" /\ scanouts = {}
  BY <1>0, Typed DEF IInv, Journal, ToCommit, Powered, Types
<1>2. Types'
  BY <1>0, <1>1 DEF IInv, Types, TypeOK, Phases
<1>3. Journal' /\ Ended'
  BY <1>0 DEF IInv, Journal, Ended
<1>8. Untouched'
  BY <1>0, <1>1 DEF IInv, Untouched
<1>4. Surfaces'
  BY <1>0, <1>1, Typed DEF IInv, Surfaces, Owned
<1>5. Frames'
  BY <1>0, <1>1 DEF IInv, Frames, CrtcsOf, Powered
<1>6. LitOwned'
  BY <1>0, <1>1 DEF IInv, LitOwned, CrtcsOf
<1>7. Compensated' /\ ShellAgrees'
  BY <1>0, <1>1 DEF Compensated, ShellAgrees
<1> QED
  BY <1>2, <1>3, <1>4, <1>5, <1>6, <1>7, <1>8 DEF IInv

(* The retired CRTCs are cleared, all of them or not. *)
LEMMA ClearRetiredKeeps ==
    ASSUME IInv, ClearRetired
    PROVE  IInv'
<1>0. PICK stuck \in SUBSET retired :
         /\ screen' = [c \in Crtcs |-> IF c \in CrtcsOf(retired \ stuck)
                                       THEN "off" ELSE screen[c]]
         /\ \/ stuck = {} /\ at' = "cleared" /\ faults' = faults
            \/ /\ stuck # {} /\ at' = "uncleared"
               /\ faults' = faults \/ faults' = faults + 1
  BY Zenon DEF ClearRetired, Fault, NoFault
<1>1. /\ at = "stopped"
      /\ UNCHANGED <<scanouts, candidate, retired, created, changed, resident, before,
                     progress, pending, flutter, published, rebased, recovery, active,
                     survives, running, last>>
  BY Zenon DEF ClearRetired, journal, session
<1>2. /\ candidate \subseteq Scanout /\ retired \subseteq Scanout
      /\ screen \in [Crtcs -> {"old", "new", "off"}]
      /\ \A s \in Scanout : s.crtc \in Crtcs
      /\ last = "none" /\ scanouts = {} /\ ~resident
  BY <1>1, Typed DEF IInv, Journal
<1>3. \A s \in candidate : screen'[s.crtc] = screen[s.crtc]
  BY <1>0, <1>2 DEF IInv, Surfaces, Owned, Journal, CrtcsOf
<1>4. Types'
  BY <1>0, <1>1, <1>2 DEF IInv, Types, TypeOK
<1>5. Journal' /\ Ended'
  BY <1>0, <1>1 DEF IInv, Journal, Ended
<1>6. Surfaces' /\ LitOwned'
  BY <1>0, <1>1, <1>2 DEF IInv, Surfaces, Owned, LitOwned
<1>7. Frames'
  BY <1>0, <1>1, <1>2, <1>3 DEF IInv, Frames, CrtcsOf, Powered
<1>8. Compensated' /\ ShellAgrees'
  BY <1>0, <1>1, <1>2 DEF Compensated, ShellAgrees
<1>9. Untouched'
  BY <1>0, <1>1, <1>2 DEF IInv, Untouched, CrtcsOf
<1> QED
  BY <1>4, <1>5, <1>6, <1>7, <1>8, <1>9 DEF IInv

(* The journal is committed: the candidates are the scanouts. *)
LEMMA FinalizeKeeps ==
    ASSUME IInv, Finalize \/ FinalizeResident
    PROVE  IInv'
<1>0. /\ \/ at = "published" /\ flutter' = "old" /\ published' = "old"
         \/ at = "geometry" /\ UNCHANGED <<flutter, published>>
      /\ scanouts' = candidate
      /\ screen' = [c \in Crtcs |-> IF screen[c] = "new" THEN "old" ELSE screen[c]]
      /\ progress' = [progress EXCEPT !.phase = "Finalized"]
      /\ rebased' = FALSE /\ last' = "ok"
      /\ candidate' = {} /\ retired' = {} /\ created' = {} /\ at' = "idle"
      /\ UNCHANGED <<pending, recovery, active, running, changed, resident, survives, before,
                     faults>>
  BY Zenon DEF Finalize, FinalizeResident
<1>1. /\ candidate \subseteq Scanout /\ retired \subseteq Scanout
      /\ screen \in [Crtcs -> {"old", "new", "off"}]
      /\ \A s \in Scanout : s.crtc \in Crtcs
      /\ scanouts = {} /\ ~recovery
      /\ at = "geometry" => retired = {} /\ resident
      /\ at = "published" => ~resident
  BY <1>0, Typed DEF IInv, Journal
<1>2. /\ progress' \in [phase : Phases, committed : Nat]
      /\ progress'.phase = "Finalized"
  BY <1>0 DEF IInv, Types, Phases
<1>3. Types'
  <2>1. {resident, rebased, recovery, active, survives, running}' \subseteq BOOLEAN
    BY <1>0, Typed DEF IInv
  <2> QED BY <1>0, <1>1, <1>2, <2>1 DEF IInv, Types, TypeOK
<1>4. Journal' /\ Ended' /\ Untouched'
  BY <1>0, <1>1 DEF Journal, Ended, Untouched
<1>5. Surfaces'
  BY <1>0, <1>1 DEF IInv, Surfaces, Owned
<1>6. Frames' /\ Compensated'
  BY <1>0, <1>1, <1>2 DEF Frames, Compensated
<1>7. LitOwned'
  <2>1. \A c \in Crtcs : screen[c] # "off" => c \in CrtcsOf(candidate \cup retired)
    BY <1>1 DEF IInv, LitOwned
  <2>2. \A s \in retired : screen[s.crtc] = "off"
    BY <1>0, <1>1 DEF IInv, Frames
  <2>3. \A c \in Crtcs : screen[c] # "off" => c \in CrtcsOf(candidate)
    BY <2>1, <2>2 DEF CrtcsOf
  <2> QED BY <1>0, <1>1, <2>3 DEF LitOwned
<1>8. ShellAgrees'
  <2>1. ~resident => \A s \in candidate : s.powered => screen[s.crtc] = "new"
    BY <1>0, <1>1 DEF IInv, Frames, Powered
  <2>2. \A s \in candidate : ~s.powered => screen[s.crtc] = "off"
    BY DEF IInv, Surfaces, Owned
  <2> QED BY <1>0, <1>1, <2>1, <2>2, Typed DEF ShellAgrees, IInv, Scanout
<1> QED
  BY <1>3, <1>4, <1>5, <1>6, <1>7, <1>8 DEF IInv

(* A failure gives the old scanouts back, whatever had been committed.      *)
LEMMA RollbackKeeps ==
    ASSUME IInv, at # "idle", NEW shell \in BOOLEAN, Rollback(shell),
           faults' \in Nat, flutter' \in {"old", "stopped"}, published' \in {"old", "new"},
           shell => published' \in {"old", before.published}
    PROVE  IInv'
<1> DEFINE old == retired \cup (candidate \ created)
<1>0. PICK stuck \in SUBSET created, broken \in SUBSET Powered(old) :
         /\ ~RollbackRequired => broken = {}
         /\ scanouts' = RestoreOwnership(stuck)
         /\ screen' = RestoredScreen(stuck, broken)
         /\ recovery' = (recovery \/ stuck # {} \/ broken # {})
         /\ last' = IF stuck = {} /\ broken = {} /\ shell THEN "restored" ELSE "damaged"
         /\ progress' = IF RollbackRequired THEN [progress EXCEPT !.phase = "RolledBack"]
                        ELSE progress
         /\ pending' = {} /\ at' = "idle"
         /\ running' = (survives /\ flutter' = "old")
         /\ candidate' = {} /\ retired' = {} /\ created' = {}
         /\ UNCHANGED <<changed, resident, survives, before, rebased, active>>
  BY Zenon DEF Rollback
<1>1. /\ candidate \subseteq Scanout /\ retired \subseteq Scanout /\ created \subseteq candidate
      /\ screen \in [Crtcs -> {"old", "new", "off"}]
      /\ \A s \in Scanout : s.crtc \in Crtcs
      /\ scanouts = {} /\ ~recovery
      /\ candidate \cap retired = {}
      /\ \A s, t \in candidate \cup retired : s.crtc = t.crtc => s = t
      /\ \A s \in candidate \cup retired : ~s.powered => screen[s.crtc] = "off"
      /\ progress.phase \notin {"Finalized", "RolledBack"}
      /\ resident \in BOOLEAN /\ rebased \in BOOLEAN
      /\ active \in BOOLEAN /\ survives \in BOOLEAN
  BY Typed DEF IInv, Journal, Surfaces, Owned, Frames
<1>2. /\ progress' \in [phase : Phases, committed : Nat]
      /\ RollbackRequired <=> progress.committed # 0
      /\ progress'.phase = "RolledBack" => RollbackRequired
  BY <1>0, <1>1 DEF IInv, Types, Phases, RollbackRequired
<1>3. scanouts' = old \cup stuck /\ old \cup stuck \subseteq candidate \cup retired
  BY <1>0, <1>1 DEF RestoreOwnership
<1>4. /\ screen' \in [Crtcs -> {"old", "new", "off"}]
      /\ \A s \in Powered(old) \ broken : RollbackRequired => screen'[s.crtc] = "old"
      /\ \A c \in Crtcs : \/ RollbackRequired /\ c \in CrtcsOf(Powered(old) \ broken)
                          \/ screen'[c] = "off" /\ c \in CrtcsOf(created \ stuck)
                          \/ screen'[c] = screen[c] /\ c \notin CrtcsOf(created \ stuck)
  <2>1. Powered(old) \subseteq Scanout
    BY <1>1 DEF Powered
  <2>2. /\ RollbackRequired =>
              screen' = [c \in Crtcs |-> IF c \in CrtcsOf(Powered(old) \ broken) THEN "old"
                                         ELSE IF c \in CrtcsOf(created \ stuck) THEN "off"
                                         ELSE screen[c]]
        /\ ~RollbackRequired =>
              screen' = [c \in Crtcs |-> IF c \in CrtcsOf(created \ stuck) THEN "off"
                                         ELSE screen[c]]
    BY <1>0 DEF RestoredScreen
  <2> HIDE DEF old
  <2>3. \A s \in Powered(old) \ broken : s.crtc \in CrtcsOf(Powered(old) \ broken)
    BY DEF CrtcsOf
  <2>4. \A s \in Powered(old) : s.crtc \in Crtcs
    BY <1>1, <2>1
  <2>5. CASE RollbackRequired
    <3>1. \A c \in Crtcs : screen'[c] = IF c \in CrtcsOf(Powered(old) \ broken) THEN "old"
                                        ELSE IF c \in CrtcsOf(created \ stuck) THEN "off"
                                        ELSE screen[c]
      BY <2>2, <2>5
    <3>2. screen' \in [Crtcs -> {"old", "new", "off"}]
      BY <1>1, <2>2, <2>5
    <3> QED BY <2>3, <2>4, <2>5, <3>1, <3>2
  <2>6. CASE ~RollbackRequired
    <3>1. \A c \in Crtcs : screen'[c] = IF c \in CrtcsOf(created \ stuck) THEN "off"
                                        ELSE screen[c]
      BY <2>2, <2>6
    <3>2. screen' \in [Crtcs -> {"old", "new", "off"}]
      BY <1>1, <2>2, <2>6
    <3> QED BY <2>6, <3>1, <3>2
  <2> QED BY <2>5, <2>6
<1>5. stuck = {} /\ broken = {} => \A c \in Crtcs : screen'[c] # "new"
  <2> SUFFICES ASSUME stuck = {}, broken = {}, NEW c \in Crtcs, screen'[c] = "new"
               PROVE  FALSE
    OBVIOUS
  <2>1. screen[c] = "new" /\ c \notin CrtcsOf(created)
    <3>1. CASE RollbackRequired /\ c \in CrtcsOf(Powered(old) \ broken)
      BY <1>4, <3>1 DEF CrtcsOf
    <3> QED BY <1>4, <3>1
  <2>2. progress.committed # 0 /\ c \in CrtcsOf(Powered(candidate))
    BY <2>1 DEF IInv, Frames
  <2>3. PICK s \in Powered(candidate) : s.crtc = c
    BY <2>2 DEF CrtcsOf
  <2>4. s \in Powered(old) \ broken
    BY <2>1, <2>3 DEF Powered, CrtcsOf
  <2> QED BY <1>2, <1>4, <2>2, <2>3, <2>4
<1>6. Types'
  <2>1. {scanouts, candidate, retired, created}' \subseteq SUBSET Scanout
    BY <1>0, <1>1, <1>3
  <2>2. {resident, rebased, recovery, active, survives, running}' \subseteq BOOLEAN
    BY <1>0, <1>1
  <2> QED BY <1>0, <1>2, <1>4, <2>1, <2>2 DEF IInv, Types, TypeOK
<1>7. Journal' /\ Ended' /\ Untouched'
  BY <1>0, <1>1 DEF Journal, Ended, Untouched
<1>8. Surfaces'
  <2>1. Owned' = old \cup stuck
    BY <1>0, <1>3 DEF Owned
  <2>2. ASSUME NEW s \in old \cup stuck, ~s.powered
        PROVE  screen'[s.crtc] = "off"
    <3>1. s \in candidate \cup retired /\ s.crtc \in Crtcs /\ screen[s.crtc] = "off"
      BY <1>1, <1>3, <2>2
    <3>2. s.crtc \notin CrtcsOf(Powered(old) \ broken)
      BY <1>1, <2>2, <3>1 DEF CrtcsOf, Powered
    <3> QED BY <1>4, <3>1, <3>2
  <2> QED BY <1>1, <1>3, <2>1, <2>2 DEF Surfaces
<1>9. Frames'
  BY <1>0, <1>1, <1>5 DEF Frames
<1>10. LitOwned'
  <2> SUFFICES ASSUME NEW c \in Crtcs, screen'[c] # "off"
               PROVE  c \in CrtcsOf(old \cup stuck)
    BY <1>0, <1>3 DEF LitOwned
  <2>1. CASE c \in CrtcsOf(Powered(old) \ broken)
    BY <2>1 DEF CrtcsOf, Powered
  <2>2. CASE screen'[c] = screen[c] /\ c \notin CrtcsOf(created \ stuck)
    <3>1. c \in CrtcsOf(candidate \cup retired)
      BY <1>1, <2>2 DEF IInv, LitOwned
    <3> QED BY <2>2, <3>1 DEF CrtcsOf
  <2> QED BY <1>4, <2>1, <2>2
<1>11. Compensated'
  <2> SUFFICES ASSUME last' = "restored", NEW s \in Powered(scanouts')
               PROVE  \/ screen'[s.crtc] \in {"old", before'.screen[s.crtc]}
                      \/ progress'.committed = 0 /\ s.out \notin changed'
    BY <1>0, <1>5 DEF Compensated
  <2>1. stuck = {} /\ broken = {}
    BY <1>0
  <2>2. s \in Powered(old) /\ s \in old /\ s.powered
    BY <1>3, <2>1 DEF Powered
  <2>3. CASE RollbackRequired
    BY <1>4, <2>1, <2>2, <2>3
  <2>4. CASE ~RollbackRequired
    <3>1. progress.committed = 0 /\ progress' = progress
      BY <1>0, <1>2, <2>4
    <3>2. s.crtc \in Crtcs /\ s.crtc \notin CrtcsOf(created)
      BY <1>1, <2>2 DEF CrtcsOf
    <3>3. screen'[s.crtc] = screen[s.crtc]
      BY <1>4, <2>1, <2>4, <3>2
    <3>4. CASE screen[s.crtc] = before.screen[s.crtc]
      BY <1>0, <3>3, <3>4
    <3>5. CASE at \in {"cleared", "uncleared", "published"} /\ s.crtc \in CrtcsOf(retired)
      <4>1. s \in retired
        BY <1>1, <2>2, <3>5 DEF CrtcsOf
      <4>2. changed = OutsOf(candidate) /\ ~resident
        BY <3>5 DEF IInv, Journal
      <4>3. ASSUME NEW t \in candidate, t.out = s.out
            PROVE  FALSE
        <5>1. t \in Powered(candidate)
          BY <2>2, <4>1, <4>3 DEF IInv, Untouched, Powered
        <5>2. screen[t.crtc] = "new" /\ t.crtc \in Crtcs
          BY <1>1, <3>5, <4>2, <5>1 DEF IInv, Frames, Powered
        <5> QED BY <3>1, <5>2 DEF IInv, Frames
      <4>4. s.out \notin changed
        BY <4>2, <4>3 DEF OutsOf
      <4> QED BY <1>0, <3>1, <4>4
    <3> QED BY <3>1, <3>2, <3>4, <3>5 DEF IInv, Untouched
  <2> QED BY <2>3, <2>4
<1>12. ShellAgrees'
  BY <1>0 DEF ShellAgrees
<1> QED
  BY <1>6, <1>7, <1>8, <1>9, <1>10, <1>11, <1>12 DEF IInv

(* A failure before the old engine stops, at its stop, or after it. *)
LEMMA FailuresKeep ==
    ASSUME IInv, Failures
    PROVE  IInv'
<1>0. /\ faults \in Nat /\ flutter \in {"old", "stopped"} /\ published \in {"old", "new"}
      /\ at \notin {"idle", "published"} => published = before.published
  BY DEF IInv, Types, TypeOK, Ended
<1>1. ASSUME NEW from \in {"staged", "validated", "waiting", "presented", "geometry"},
             FailAt(from)
      PROVE  IInv'
  <2>1. /\ at = from /\ faults' = faults + 1 /\ flutter' = flutter /\ published' = published
        /\ Rollback(TRUE)
    BY <1>1, Zenon DEF FailAt, Fault
  <2>2. /\ faults' \in Nat /\ flutter' \in {"old", "stopped"}
        /\ published' \in {"old", "new"} /\ at # "idle" /\ TRUE \in BOOLEAN
        /\ TRUE => published' \in {"old", before.published}
    BY <1>0, <2>1
  <2> QED BY <2>1, <2>2, RollbackKeeps
<1>2. ASSUME StopFails PROVE IInv'
  <2>1. /\ at = "presented" /\ faults' = faults + 1 /\ flutter' = "stopped"
        /\ published' = published /\ Rollback(TRUE)
    BY <1>2, Zenon DEF StopFails, Fault
  <2>2. /\ faults' \in Nat /\ flutter' \in {"old", "stopped"}
        /\ published' \in {"old", "new"} /\ at # "idle" /\ TRUE \in BOOLEAN
        /\ TRUE => published' \in {"old", before.published}
    BY <1>0, <2>1
  <2> QED BY <2>1, <2>2, RollbackKeeps
<1>3. ASSUME ReplacementFails PROVE IInv'
  <2>1. /\ at \in {"uncleared", "cleared", "published"}
        /\ faults' = faults \/ faults' = faults + 1
    BY <1>3 DEF ReplacementFails, Fault, NoFault
  <2>2. PICK engine \in BOOLEAN, wayland \in BOOLEAN :
           /\ flutter' = IF engine THEN "old" ELSE "stopped"
           /\ published' = IF wayland THEN "old" ELSE published
           /\ Rollback(engine /\ wayland)
    BY <1>3, Zenon DEF ReplacementFails
  <2>3. (engine /\ wayland) \in BOOLEAN
    OBVIOUS
  <2>4. (engine /\ wayland) => published' \in {"old", before.published}
    BY <2>2
  <2>5. /\ faults' \in Nat /\ flutter' \in {"old", "stopped"}
        /\ published' \in {"old", "new"} /\ at # "idle"
    BY <1>0, <2>1, <2>2
  <2> QED BY <2>2, <2>3, <2>4, <2>5, RollbackKeeps
<1> QED
  BY <1>1, <1>2, <1>3 DEF Failures

-----------------------------------------------------------------------------
(* Every step of the session keeps the inductive invariant. *)
LEMMA StepKeeps == IInv /\ [Next]_vars => IInv'
<1> SUFFICES ASSUME IInv, [Next]_vars PROVE IInv'
  OBVIOUS
<1>1. CASE \E s \in scanouts : Power(s)
  BY <1>1, PowerKeeps
<1>2. CASE Recover \/ LoseOutputs \/ Pause \/ Resume
  BY <1>2, ResetKeeps
<1>3. CASE \E a \in Assignments : Begin(a)
  BY <1>3, BeginKeeps
<1>4. CASE \E a \in Assignments : Refuse(a)
  BY <1>4, RefuseKeeps
<1>5. CASE \E outs \in SUBSET Outputs : BeginResident(outs)
  BY <1>5, BeginResidentKeeps
<1>6. CASE Validate \/ AllCommitted \/ PauseAndResume \/ PauseOverDeadline \/ Present
           \/ StopFlutter \/ Publish \/ \E c \in Crtcs : Flip(c)
  BY <1>6, QuietStepKeeps
<1>7. CASE \E s \in candidate : Commit(s)
  BY <1>7, CommitKeeps
<1>8. CASE ClearRetired
  BY <1>8, ClearRetiredKeeps
<1>9. CASE Finalize \/ FinalizeResident
  BY <1>9, FinalizeKeeps
<1>10. CASE Failures
  BY <1>10, FailuresKeep
<1>11. CASE UNCHANGED vars
  <2>1. UNCHANGED <<scanouts, candidate, retired, created, at, changed, resident, progress,
                    pending, screen, flutter, published, rebased, recovery, active, survives,
                    running, last, before, faults>>
    BY <1>11 DEF vars
  <2>2. Types' /\ Journal'
    BY <2>1 DEF IInv, Types, TypeOK, Journal
  <2>3. Surfaces' /\ LitOwned'
    BY <2>1 DEF IInv, Surfaces, Owned, LitOwned
  <2>4. Frames' /\ Ended' /\ Untouched'
    BY <2>1 DEF IInv, Frames, Ended, Untouched
  <2>5. Compensated' /\ ShellAgrees'
    BY <2>1 DEF IInv, Compensated, ShellAgrees
  <2> QED BY <2>2, <2>3, <2>4, <2>5 DEF IInv
<1> QED
  BY <1>1, <1>2, <1>3, <1>4, <1>5, <1>6, <1>7, <1>8, <1>9, <1>10, <1>11 DEF Next

(* The journal, the CRTCs and the screens agree in every reachable state. *)
THEOREM TransactionInvariant == Spec => []IInv
<1> QED
  BY InitInvariant, StepKeeps, PTL DEF Spec

(* Only the values of their types are ever held, and surfaces are staged    *)
(* exactly while a transaction runs.                                        *)
THEOREM TypeCorrect == Spec => []TypeOK
<1>1. IInv => TypeOK
  BY DEF IInv, Types
<1> QED
  BY <1>1, TransactionInvariant, PTL

(* A CRTC that the compositor lit always has a surface that owns it:        *)
(* reconcile_scanouts and rollback_hotplug_scanouts drop none that may      *)
(* still drive a display, whatever fails and in whichever order.            *)
THEOREM LitIsOwned == Spec => []LitOwned
<1>1. IInv => LitOwned
  BY DEF IInv
<1> QED
  BY <1>1, TransactionInvariant, PTL

(* A failure that hotplug_transaction_error reports as restored left no     *)
(* staged frame on any screen, and every powered output shows its old frame *)
(* or what it showed before, committed or not, through pauses and failed    *)
(* resumes.  Outputs that the new topology leaves out are not covered when  *)
(* no other was powered: nothing counts as committed then, but they were    *)
(* cleared.                                                                 *)
THEOREM CommitsAreCompensated == Spec => []Compensated
<1>1. IInv => Compensated
  BY DEF IInv
<1> QED
  BY <1>1, TransactionInvariant, PTL

(* Clients see the topology that stands when a transaction is over, and     *)
(* after new pools were installed every powered output shows its own.       *)
THEOREM ShellAndScanoutsAgree == Spec => []ShellAgrees
<1>1. IInv => ShellAgrees
  BY DEF IInv
<1> QED
  BY <1>1, TransactionInvariant, PTL

(* No two surfaces, staged, retired or in use, ever share a CRTC, and one   *)
(* that is powered off drives no display.                                   *)
THEOREM CrtcsAreExclusive == Spec => []Surfaces
<1>1. IInv => Surfaces
  BY DEF IInv
<1> QED
  BY <1>1, TransactionInvariant, PTL
=============================================================================
