------------------------- MODULE HotplugTransaction -------------------------
(***************************************************************************)
(* A change of the scanouts: reconcile_scanouts stages new surfaces beside  *)
(* the old ones, every step up to the new Flutter engine may fail, and a    *)
(* failure gives the old scanouts back.  "old" is what is established, "new"*)
(* what the transaction stages: pools, modes, the published topology.       *)
(***************************************************************************)
EXTENDS Naturals, FiniteSets

CONSTANTS
    Outputs,
    Crtcs,
    Assignments,   \* the CRTCs that a scan may give to the wanted outputs
    Initially,     \* the assignment the session starts with
    Resident,      \* changes of timing alone are applied too
    MaxFaults      \* failures, and pauses that outlast the wait for page flips

ASSUME AssignmentsAssumption ==
    /\ Assignments \subseteq SUBSET (Outputs \X Crtcs)
    /\ Initially \subseteq Outputs \X Crtcs
    /\ \A a \in Assignments \cup {Initially} : a # {} /\ \A k, l \in a :
          k # l => k[1] # l[1] /\ k[2] # l[2]
    /\ MaxFaults \in Nat

VARIABLES
    scanouts,    \* the scanouts the session owns
    candidate, retired, created,   \* ScanoutReconciliation
    at,          \* how far the transaction is
    changed,     \* the outputs it commits
    resident,    \* it keeps Flutter and the pools
    progress,    \* HotplugProgress
    pending,     \* CRTCs whose page flip is awaited
    screen,      \* what each CRTC shows
    flutter, published,
    rebased, recovery,
    active,      \* the seat, and with it the DRM device, is active
    survives,    \* a failure of the transaction does not end the session
    running,     \* the session has not ended
    last,        \* how the last scan ended, until there is a new reason to scan
    before,      \* history: screens and published topology before it
    faults

vars == <<scanouts, candidate, retired, created, at, changed, resident, progress,
          pending, screen, flutter, published, rebased, recovery, active, survives, running,
          last, before, faults>>
journal == <<candidate, retired, created, changed, resident, survives, before>>
session == <<flutter, published, rebased, recovery, active, running, last>>

Scanout == [out : Outputs, crtc : Crtcs, powered : BOOLEAN]
Key(s) == <<s.out, s.crtc>>
CrtcsOf(set) == {s.crtc : s \in set}
OutsOf(set) == {s.out : s \in set}
Powered(set) == {s \in set : s.powered}

Init ==
    /\ scanouts = {[out |-> k[1], crtc |-> k[2], powered |-> TRUE] : k \in Initially}
    /\ candidate = {} /\ retired = {} /\ created = {}
    /\ at = "idle" /\ changed = {} /\ resident = FALSE
    /\ progress = [phase |-> "Staging", committed |-> 0]
    /\ pending = {}
    /\ screen = [c \in Crtcs |-> IF c \in CrtcsOf(scanouts) THEN "old" ELSE "off"]
    /\ flutter = "old" /\ published = "old"
    /\ rebased = FALSE /\ recovery = FALSE
    /\ active = TRUE /\ survives = FALSE /\ running = TRUE
    /\ last = "none" /\ before = [screen |-> screen, published |-> "old"] /\ faults = 0

Fault == faults < MaxFaults /\ faults' = faults + 1
NoFault == UNCHANGED faults

-----------------------------------------------------------------------------
(* Between transactions. *)

Idle == at = "idle" /\ running /\ active

Power(s) ==
    /\ Idle /\ ~rebased /\ ~recovery
    /\ s \in scanouts
    /\ scanouts' = (scanouts \ {s}) \cup {[s EXCEPT !.powered = ~@]}
    /\ screen' = [screen EXCEPT ![s.crtc] = IF s.powered THEN "off" ELSE "old"]
    /\ UNCHANGED <<journal, at, progress, pending, session, faults>>

(* recover_stalled_kms_presentation: everything off, then a fresh scan. *)
Recover ==
    /\ Idle /\ recovery
    /\ screen' = [c \in Crtcs |-> "off"]
    /\ rebased' = TRUE /\ recovery' = FALSE /\ last' = "none"
    /\ UNCHANGED <<scanouts, journal, at, progress, pending, flutter, published, active, running,
                   faults>>

(* The only display is gone, and scans wait for one. *)
LoseOutputs ==
    /\ Idle /\ ~rebased
    /\ Powered(scanouts) # {}
    /\ rebased' = TRUE /\ last' = "none"
    /\ UNCHANGED <<scanouts, journal, at, progress, pending, screen, flutter, published, recovery,
                   active, running, faults>>

(* A VT switch between transactions. *)
Pause ==
    /\ Idle
    /\ active' = FALSE
    /\ UNCHANGED <<scanouts, journal, at, progress, pending, screen, flutter, published, rebased,
                   recovery, running, last, faults>>

(* service_session_lifecycle: the powered scanouts are committed again; if  *)
(* that fails, the device is reset.                                         *)
Resume ==
    /\ at = "idle" /\ running /\ ~active
    /\ active' = TRUE /\ last' = "none"
    /\ \/ /\ screen' = [c \in Crtcs |-> IF c \in CrtcsOf(Powered(scanouts)) THEN "old"
                                        ELSE screen[c]]
          /\ rebased' = TRUE
          /\ NoFault /\ UNCHANGED recovery
       \/ recovery' = TRUE /\ Fault /\ UNCHANGED <<screen, rebased>>
    /\ UNCHANGED <<scanouts, journal, at, progress, pending, flutter, published, running>>

-----------------------------------------------------------------------------
(* plan_reconcile *)
DuplicateKeys ==
    \E s, t \in scanouts : s # t /\ (s.out = t.out \/ s.crtc = t.crtc)

(* A surface is reused when neither its output nor its CRTC changes. *)
Reused(a) == {s \in scanouts : Key(s) \in a}
Missing(a) == a \ {Key(s) : s \in scanouts}

WasPowered(o) ==
    LET old == {s \in scanouts : s.out = o}
    IN old = {} \/ \E s \in old : s.powered

Creatable(a) ==
    \A k \in Missing(a) : k[2] \notin CrtcsOf(scanouts) /\ screen[k[2]] = "off"

(* reconcile_scanouts, up to the transfer of ownership, for a scan or a     *)
(* submitted layout: a failed layout leaves the session running, a failed   *)
(* scan only after a rebase or, without HDR then, of HDR displays.          *)
Begin(a) ==
    /\ Idle /\ ~recovery
    /\ survives' \in BOOLEAN /\ (rebased => survives')
    /\ ~DuplicateKeys /\ Creatable(a)
    /\ LET new == {[out |-> k[1], crtc |-> k[2], powered |-> WasPowered(k[1])] :
                      k \in Missing(a)}
       IN /\ created' = new
          /\ candidate' = Reused(a) \cup new
          /\ changed' = OutsOf(Reused(a) \cup new)
    /\ retired' = scanouts \ Reused(a)
    /\ scanouts' = {}
    /\ resident' = FALSE
    /\ at' = "staged" /\ progress' = [phase |-> "Staging", committed |-> 0]
    /\ before' = [screen |-> screen, published |-> published]
    /\ last' = "none"
    /\ UNCHANGED <<pending, screen, flutter, published, rebased, recovery, active, running, faults>>

(* apply_resident_mode_topology: timing changes of outputs that stay. *)
BeginResident(outs) ==
    /\ Resident
    /\ Idle /\ ~recovery /\ ~rebased
    /\ ~DuplicateKeys
    /\ outs # {} /\ outs \subseteq OutsOf(scanouts)
    /\ candidate' = scanouts /\ created' = {} /\ retired' = {} /\ scanouts' = {}
    /\ changed' = outs /\ resident' = TRUE /\ survives' = TRUE
    /\ at' = "staged" /\ progress' = [phase |-> "Staging", committed |-> 0]
    /\ before' = [screen |-> screen, published |-> published]
    /\ last' = "none"
    /\ UNCHANGED <<pending, screen, flutter, published, rebased, recovery, active, running, faults>>

(* Nothing was staged: the session keeps its scanouts, or ends. *)
Refuse(a) ==
    /\ Idle /\ ~recovery
    /\ \/ (DuplicateKeys \/ ~Creatable(a)) /\ last' = "refused" /\ NoFault
       \/ last' = "unstaged" /\ Fault
    /\ running' \in BOOLEAN /\ (rebased => running')
    /\ UNCHANGED <<scanouts, journal, at, progress, pending, screen, flutter,
                   published, rebased, recovery, active>>

-----------------------------------------------------------------------------
(* Giving the old scanouts back. *)

RollbackRequired ==
    progress.committed # 0 /\ progress.phase \notin {"Finalized", "RolledBack"}

(* Faulty: a created surface whose CRTC cannot be cleared is dropped. *)
RestoreOwnershipOnly(stuck) == retired \cup (candidate \ created)

(* A created surface whose CRTC cannot be cleared is kept. *)
RestoreOwnership(stuck) == retired \cup (candidate \ created) \cup stuck

(* Faulty: only outputs that were committed are given their frames again. *)
RestoredScreenOfCommitted(stuck, broken) ==
    LET old == retired \cup (candidate \ created)
        back == IF RollbackRequired
                THEN CrtcsOf((Powered(old) \ broken) \ retired) ELSE {}
    IN [c \in Crtcs |-> IF c \in back THEN "old"
                        ELSE IF c \in CrtcsOf(created \ stuck) THEN "off"
                        ELSE screen[c]]

(* What the CRTCs show: created ones are cleared, and once anything was     *)
(* committed every powered old output gets its old frame, where KMS takes   *)
(* it.                                                                      *)
RestoredScreen(stuck, broken) ==
    LET old == retired \cup (candidate \ created)
        back == IF RollbackRequired THEN CrtcsOf(Powered(old) \ broken) ELSE {}
    IN [c \in Crtcs |-> IF c \in back THEN "old"
                        ELSE IF c \in CrtcsOf(created \ stuck) THEN "off"
                        ELSE screen[c]]

(* rollback_hotplug_scanouts and hotplug_transaction_error; an inactive     *)
(* device takes nothing.                                                    *)
Rollback(shell) ==
    \E stuck \in SUBSET created, broken \in SUBSET Powered(retired \cup (candidate \ created)) :
       /\ ~RollbackRequired => broken = {}
       /\ active /\ faults = MaxFaults => stuck = {} /\ broken = {}
       /\ ~active => /\ stuck = created
                     /\ RollbackRequired => broken = Powered(retired \cup (candidate \ created))
       /\ scanouts' = RestoreOwnership(stuck)
       /\ screen' = RestoredScreen(stuck, broken)
       /\ recovery' = (recovery \/ stuck # {} \/ broken # {})
       /\ last' = IF stuck = {} /\ broken = {} /\ shell THEN "restored" ELSE "damaged"
       /\ progress' = IF RollbackRequired THEN [progress EXCEPT !.phase = "RolledBack"]
                      ELSE progress
       /\ pending' = {} /\ at' = "idle"
       /\ running' = (survives /\ flutter' = "old")
       /\ candidate' = {} /\ retired' = {} /\ created' = {}
       /\ UNCHANGED <<changed, resident, survives, before, rebased, active>>

-----------------------------------------------------------------------------
(* The steps of the transaction, and their failures. *)

StepTo(from, to) ==
    /\ at = from /\ at' = to
    /\ NoFault
    /\ UNCHANGED <<scanouts, journal>>

FailAt(from) ==
    /\ at = from
    /\ Fault
    /\ UNCHANGED <<flutter, published>>
    /\ Rollback(TRUE)

(* Buffers, targets and blank frames of the new pools; TEST_ONLY. *)
Validate ==
    /\ StepTo("staged", "validated")
    /\ progress' = [progress EXCEPT !.phase = "Validated"]
    /\ pending' = {}
    /\ UNCHANGED <<screen, session>>

ToCommit == {s \in Powered(candidate) : s.out \in changed /\ screen[s.crtc] # "new"}

Commit(s) ==
    /\ at = "validated" /\ s \in ToCommit
    /\ screen' = [screen EXCEPT ![s.crtc] = "new"]
    /\ pending' = pending \cup {s.crtc}
    /\ progress' = [phase |-> "Committing", committed |-> progress.committed + 1]
    /\ UNCHANGED <<scanouts, journal, at, session, faults>>

AllCommitted ==
    /\ ToCommit = {}
    /\ StepTo("validated", "waiting")
    /\ UNCHANGED <<progress, pending, screen, session>>

(* wait_for_page_flips *)
Flip(c) ==
    /\ at = "waiting" /\ c \in pending
    /\ pending' = pending \ {c}
    /\ UNCHANGED <<scanouts, journal, at, progress, screen, session, faults>>

(* A VT switch away and back while waiting: the resume commits the          *)
(* candidates again, and no flip is awaited any more.                       *)
PauseAndResume ==
    /\ at = "waiting" /\ pending # {}
    /\ pending' = {}
    /\ rebased' = TRUE
    /\ UNCHANGED <<scanouts, journal, at, progress, screen, flutter, published,
                   recovery, active, running, last, faults>>

(* One that lasts longer than the wait: it ends as if the flips had come,   *)
(* and the transaction goes on with an inactive device.                     *)
PauseOverDeadline ==
    /\ at = "waiting" /\ pending # {}
    /\ Fault
    /\ pending' = {} /\ active' = FALSE
    /\ UNCHANGED <<scanouts, journal, at, progress, screen, flutter, published, rebased,
                   recovery, running, last>>

Present ==
    /\ pending = {}
    /\ StepTo("waiting", IF resident THEN "geometry" ELSE "presented")
    /\ progress' = [progress EXCEPT !.phase = "Presented"]
    /\ UNCHANGED <<pending, screen, session>>

(* The old engine stops while both pools live. *)
StopFlutter ==
    /\ StepTo("presented", "stopped")
    /\ flutter' = "stopped"
    /\ UNCHANGED <<progress, pending, screen, published, rebased, recovery, active, running, last>>

(* A shutdown that fails leaves no engine to go on with. *)
StopFails ==
    /\ at = "presented"
    /\ Fault
    /\ flutter' = "stopped" /\ UNCHANGED published
    /\ Rollback(TRUE)

(* clear_retired: each is tried, and one that stays lit is a failure. *)
ClearRetired ==
    /\ at = "stopped"
    /\ \E stuck \in SUBSET retired :
          /\ ~active => stuck = retired
          /\ screen' = [c \in Crtcs |-> IF c \in CrtcsOf(retired \ stuck)
                                        THEN "off" ELSE screen[c]]
          /\ \/ stuck = {} /\ at' = "cleared" /\ NoFault
             \/ stuck # {} /\ at' = "uncleared" /\ IF active THEN Fault ELSE NoFault
    /\ UNCHANGED <<scanouts, journal, progress, pending, session>>

Publish ==
    /\ StepTo("cleared", "published")
    /\ published' = "new"
    /\ UNCHANGED <<progress, pending, screen, flutter, rebased, recovery, active, running, last>>

(* Faulty: the engine is given back, the published topology is not. *)
ReplacementFailsPublished ==
    /\ \/ at = "uncleared" /\ NoFault
       \/ at \in {"cleared", "published"} /\ Fault
    /\ \E engine \in BOOLEAN :
          /\ flutter' = IF engine THEN "old" ELSE "stopped"
          /\ UNCHANGED published
          /\ Rollback(engine)

(* Clearing, publishing or starting the new engine failed: scanouts,        *)
(* published topology and engine are given back, where that succeeds.       *)
ReplacementFails ==
    /\ \/ at = "uncleared" /\ NoFault
       \/ at \in {"cleared", "published"} /\ Fault
    /\ \E engine, wayland \in BOOLEAN :
          /\ flutter' = IF engine THEN "old" ELSE "stopped"
          /\ published' = IF wayland THEN "old" ELSE published
          /\ Rollback(engine /\ wayland)

(* Faulty: the recovery latch outlives the rebuild. *)
FinalizeRebased ==
    /\ at = "published"
    /\ scanouts' = candidate
    /\ screen' = [c \in Crtcs |-> IF screen[c] = "new" THEN "old" ELSE screen[c]]
    /\ progress' = [progress EXCEPT !.phase = "Finalized"]
    /\ flutter' = "old" /\ published' = "old"
    /\ last' = "ok"
    /\ candidate' = {} /\ retired' = {} /\ created' = {} /\ at' = "idle"
    /\ UNCHANGED <<pending, rebased, recovery, active, running, changed, resident, survives,
                   before, faults>>

(* Commit of the journal, after the new engine has started. *)
Finalize ==
    /\ at = "published"
    /\ scanouts' = candidate
    /\ screen' = [c \in Crtcs |-> IF screen[c] = "new" THEN "old" ELSE screen[c]]
    /\ progress' = [progress EXCEPT !.phase = "Finalized"]
    /\ flutter' = "old" /\ published' = "old"
    /\ rebased' = FALSE /\ last' = "ok"
    /\ candidate' = {} /\ retired' = {} /\ created' = {} /\ at' = "idle"
    /\ UNCHANGED <<pending, recovery, active, running, changed, resident, survives, before,
                   faults>>

(* apply_resident_output_geometry, with its own rollback of the shell, then *)
(* the commit of the journal.                                               *)
FinalizeResident ==
    /\ at = "geometry"
    /\ scanouts' = candidate
    /\ screen' = [c \in Crtcs |-> IF screen[c] = "new" THEN "old" ELSE screen[c]]
    /\ progress' = [progress EXCEPT !.phase = "Finalized"]
    /\ rebased' = FALSE /\ last' = "ok"
    /\ candidate' = {} /\ retired' = {} /\ created' = {} /\ at' = "idle"
    /\ UNCHANGED <<pending, flutter, published, recovery, active, running, changed, resident,
                   survives, before, faults>>

Failures ==
    \/ FailAt("staged")
    \/ FailAt("validated")
    \/ FailAt("waiting") \/ FailAt("presented") \/ FailAt("geometry")
    \/ StopFails
    \/ ReplacementFails

Next ==
    \/ \E s \in scanouts : Power(s)
    \/ Recover \/ LoseOutputs \/ Pause \/ Resume
    \/ \E a \in Assignments : Begin(a)
    \/ \E a \in Assignments : Refuse(a)
    \/ \E outs \in SUBSET Outputs : BeginResident(outs)
    \/ Validate \/ AllCommitted \/ PauseAndResume \/ PauseOverDeadline \/ Present
    \/ \E s \in candidate : Commit(s)
    \/ \E c \in Crtcs : Flip(c)
    \/ StopFlutter \/ ClearRetired \/ Publish \/ Finalize \/ FinalizeResident
    \/ Failures

Spec == Init /\ [][Next]_vars

(* A scan that is due is made, whatever it offers, and made again after it  *)
(* failed; one that was refused may be refused again and again.             *)
Scan ==
    /\ rebased /\ last # "refused"
    /\ \E a \in Assignments : Begin(a) \/ Refuse(a)

(* A transaction that has begun goes on. *)
LiveSpec ==
    /\ Spec
    /\ WF_vars(Scan)
    /\ WF_vars(Recover)
    /\ WF_vars(Validate \/ (\E s \in candidate : Commit(s)) \/ AllCommitted
               \/ (\E c \in Crtcs : Flip(c)) \/ Present \/ StopFlutter
               \/ ClearRetired \/ Publish \/ Finalize \/ FinalizeResident
               \/ (at = "uncleared" /\ ReplacementFails))

-----------------------------------------------------------------------------
TypeOK ==
    /\ {scanouts, candidate, retired, created} \subseteq SUBSET Scanout
    /\ at \in {"idle", "staged", "validated", "waiting", "presented", "geometry",
               "stopped", "cleared", "uncleared", "published"}
    /\ changed \subseteq Outputs /\ pending \subseteq Crtcs
    /\ screen \in [Crtcs -> {"old", "new", "off"}]
    /\ flutter \in {"old", "stopped"} /\ published \in {"old", "new"}
    /\ last \in {"none", "ok", "refused", "unstaged", "restored", "damaged"}
    /\ {resident, rebased, recovery, active, survives, running} \subseteq BOOLEAN
    /\ at # "idle" <=> candidate # {}

(* A CRTC that the compositor lit always has a surface that owns it: no     *)
(* surface is dropped while it may still drive a display.                   *)
LitOwned ==
    \A c \in Crtcs : screen[c] # "off" => c \in CrtcsOf(scanouts \cup candidate \cup retired)

(* "Any successful real commit must be compensated": a failure reported as  *)
(* "previous scanout restored" leaves no staged frame on a screen, and      *)
(* every powered output shows its old frame, or what it showed before.  Not *)
(* covered: outputs that the new topology leaves out, when no other was     *)
(* powered.  They are cleared, which does not count as a commit, so a later *)
(* failure is reported as restored while they stay dark.                    *)
Compensated ==
    last = "restored" =>
       /\ \A c \in Crtcs : screen[c] # "new"
       /\ \A s \in Powered(scanouts) :
             \/ screen[s.crtc] \in {"old", before.screen[s.crtc]}
             \/ progress.committed = 0 /\ s.out \notin changed

(* Clients and the scanouts agree when a transaction is over, unless its    *)
(* failure says otherwise: the topology published for it is taken back with *)
(* the scanouts, and after new pools were installed every powered output    *)
(* shows its own.                                                           *)
ShellAgrees ==
    at = "idle" =>
       /\ last = "restored" => published \in {"old", before.published}
       /\ last = "ok" /\ ~resident => \A s \in scanouts : s.powered <=> screen[s.crtc] = "old"

(* Scans that "keep the login alive and retry" do not stop, through failed  *)
(* transactions, quarantined surfaces and pauses: a display is lit, or the  *)
(* plan was refused; and while plans that can be staged keep coming, one is *)
(* lit in the end.  No retry helps where every plan is refused: one that    *)
(* gives a lost output's CRTC to another, or any once an output has two     *)
(* surfaces.                                                                *)
RetrySucceeds ==
    /\ []<>(~rebased \/ ~running \/ ~active \/ last = "refused")
    /\ []<><<\E a \in Assignments : Begin(a)>>_vars => []<>(~rebased \/ ~running)
=============================================================================
