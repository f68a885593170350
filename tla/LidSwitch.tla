----------------------------- MODULE LidSwitch -----------------------------
(***************************************************************************)
(* The lid position the compositor believes in: libinput's toggles while    *)
(* the session is on its VT, and readings from logind, each in a thread of  *)
(* its own, after it returns from elsewhere or from sleep.                  *)
(***************************************************************************)
EXTENDS Naturals, Sequences

CONSTANTS MaxMoves, MaxReturns, Failing

ASSUME LidBounds == MaxMoves \in Nat /\ MaxReturns \in Nat

VARIABLES
    moves,       \* how often the lid moved; it is closed when odd
    present,     \* toggles reach the session
    unread,      \* the toggle that libinput has not delivered yet: its move
    returns,
    readers,     \* reader threads: generation, and the move they read
    channel,     \* readings on their way
    generation,
    pending,     \* the position to apply, as the move it reports
    applied,     \* configuration.lid_closed, as the move it reports
    toggled      \* history: the newest toggle that was noted

vars == <<moves, present, unread, returns, readers, channel, generation,
          pending, applied, toggled>>

None == MaxMoves + 1
Unread == None
Closed(move) == move % 2

(* startup_closed: logind is asked before the loop runs. *)
Init ==
    /\ moves = 0 /\ present = TRUE /\ unread = None /\ returns = 0
    /\ readers = {} /\ channel = <<>> /\ generation = 0
    /\ pending = None /\ applied = 0 /\ toggled = 0

MoveLid ==
    /\ moves < MaxMoves
    /\ moves' = moves + 1
    /\ unread' = IF present THEN moves + 1 ELSE unread
    /\ UNCHANGED <<present, returns, readers, channel, generation, pending,
                   applied, toggled>>

Leave ==
    /\ present /\ returns < MaxReturns
    /\ present' = FALSE /\ unread' = None
    /\ UNCHANGED <<moves, returns, readers, channel, generation, pending,
                   applied, toggled>>

(* Faulty: nobody asks where the lid is. *)
ReturnUnasked ==
    /\ ~present
    /\ present' = TRUE /\ returns' = returns + 1
    /\ UNCHANGED <<moves, unread, readers, channel, generation, pending, applied, toggled>>

(* The session is back: request_reading. *)
Return ==
    /\ ~present
    /\ present' = TRUE /\ returns' = returns + 1
    /\ readers' = readers \cup {[id |-> returns, generation |-> generation, read |-> Unread]}
    /\ UNCHANGED <<moves, unread, channel, generation, pending, applied, toggled>>

NoteToggle ==
    /\ unread # None
    /\ generation' = generation + 1
    /\ pending' = unread /\ toggled' = unread /\ unread' = None
    /\ UNCHANGED <<moves, present, returns, readers, channel, applied>>

(* read_closed, in the thread. *)
Read(r) ==
    /\ r \in readers /\ r.read = Unread
    /\ readers' = (readers \ {r}) \cup {[r EXCEPT !.read = moves]}
    /\ UNCHANGED <<moves, present, unread, returns, channel, generation, pending,
                   applied, toggled>>

ReadFails(r) ==
    /\ Failing
    /\ r \in readers /\ r.read = Unread
    /\ readers' = readers \ {r}
    /\ UNCHANGED <<moves, present, unread, returns, channel, generation, pending,
                   applied, toggled>>

Send(r) ==
    /\ r \in readers /\ r.read # Unread
    /\ readers' = readers \ {r}
    /\ channel' = Append(channel, r)
    /\ UNCHANGED <<moves, present, unread, returns, generation, pending, applied,
                   toggled>>

(* Faulty: every reading is believed. *)
NoteAnyReading ==
    /\ channel # <<>>
    /\ channel' = Tail(channel)
    /\ pending' = Head(channel).read
    /\ UNCHANGED <<moves, present, unread, returns, readers, generation, applied,
                   toggled>>

NoteReading ==
    /\ channel # <<>>
    /\ channel' = Tail(channel)
    /\ pending' = IF Head(channel).generation = generation THEN Head(channel).read
                  ELSE pending
    /\ UNCHANGED <<moves, present, unread, returns, readers, generation, applied,
                   toggled>>

(* apply_pending_lid_position *)
Apply ==
    /\ pending # None
    /\ pending' = None /\ applied' = pending
    /\ UNCHANGED <<moves, present, unread, returns, readers, channel, generation,
                   toggled>>

Next ==
    \/ MoveLid \/ Leave \/ Return \/ NoteToggle \/ NoteReading \/ Apply
    \/ \E r \in readers : Read(r) \/ ReadFails(r) \/ Send(r)

Spec == Init /\ [][Next]_vars

-----------------------------------------------------------------------------
(* Every toggle and every reading has arrived and was applied. *)
Settled ==
    present /\ unread = None /\ readers = {} /\ channel = <<>> /\ pending = None

(* "A logind reading requested before a newer toggle cannot overwrite it":  *)
(* what is applied, or about to be, is never older than the newest toggle.  *)
ToggleWins == (IF pending = None THEN applied ELSE pending) >= toggled
=============================================================================
