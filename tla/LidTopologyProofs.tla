------------------------- MODULE LidTopologyProofs -------------------------
(***************************************************************************)
(* The lid and the topology, for any outputs, any desks, any grace and any  *)
(* number of moves and returns: no reading overwrites a newer toggle, no    *)
(* difference between what is lit and what should be is forgotten, and a    *)
(* sleeping monitor keeps its scanout.  Then system sleep, which shares no  *)
(* state with them.                                                         *)
(***************************************************************************)
EXTENDS LidTopology, SleepTransition, TLAPS, WellFoundedInduction

-----------------------------------------------------------------------------
(* The believed position. *)

Move == 0 .. MaxMoves
Reading == [id : Nat, generation : Nat, read : Move \cup {None}]

LidTypeOK ==
    /\ moves \in Move /\ toggled \in Move /\ applied \in Move
    /\ returns \in Nat /\ generation \in Nat
    /\ unread \in Move \cup {None} /\ pending \in Move \cup {None}
    /\ readers \in SUBSET Reading /\ channel \in Seq(Reading)

(* What a reader knows: it was started after the toggle its generation      *)
(* counts, so what it reads is no older.                                    *)
Fresh(r, current, toggle) ==
    /\ r.generation <= current
    /\ r.generation = current /\ r.read # Unread => r.read >= toggle

LidInv ==
    /\ LidTypeOK
    /\ toggled <= moves
    /\ unread # None => unread >= toggled /\ unread <= moves
    /\ \A r \in readers : Fresh(r, generation, toggled)
    /\ \A i \in 1 .. Len(channel) : channel[i].read # Unread /\ Fresh(channel[i], generation, toggled)
    /\ ToggleWins

(* The lid is where logind says when the compositor starts. *)
LEMMA LidStarts == Init => LidInv
  BY LidBounds DEF Init, LidInv, LidTypeOK, ToggleWins, None, Unread, Fresh, Move, Reading

(* Every step keeps the invariant: a toggle starts a new generation, which  *)
(* leaves every earlier reading behind.                                     *)
LEMMA LidKeeps == LidInv /\ [Next]_vars => LidInv'
<1> SUFFICES ASSUME LidInv, [Next]_vars PROVE LidInv'
  OBVIOUS
<1> USE LidBounds DEF LidInv, LidTypeOK, None, Unread, Move
<1>0. /\ \A r \in readers : r \in Reading
      /\ \A i \in 1 .. Len(channel) : channel[i] \in Reading
  OBVIOUS
<1>1. CASE MoveLid
  <2>1. unread' = moves + 1 \/ unread' = unread
    BY <1>1, Zenon DEF MoveLid
  <2>2. /\ moves < MaxMoves /\ moves' = moves + 1
        /\ UNCHANGED <<returns, readers, channel, generation, pending, applied, toggled>>
    BY <1>1, Zenon DEF MoveLid
  <2>3. LidTypeOK' /\ toggled' <= moves'
    BY <2>1, <2>2
  <2>4. (unread # None => unread >= toggled /\ unread <= moves)'
    BY <2>1, <2>2
  <2>5. /\ (\A r \in readers : Fresh(r, generation, toggled))'
        /\ (\A i \in 1 .. Len(channel) :
               channel[i].read # Unread /\ Fresh(channel[i], generation, toggled))'
        /\ ToggleWins'
    BY <2>2 DEF ToggleWins, Fresh
  <2> QED BY <2>3, <2>4, <2>5
<1>2. CASE Leave
  BY <1>2 DEF Leave, ToggleWins
<1>3. CASE Return
  <2> DEFINE new == [id |-> returns, generation |-> generation, read |-> Unread]
  <2>1. new \in Reading /\ Fresh(new, generation, toggled)
    BY DEF Fresh, Reading
  <2> QED BY <1>3, <2>1 DEF Return, ToggleWins
<1>4. CASE NoteToggle
  <2>1. \A r \in Reading : Fresh(r, generation, toggled) => Fresh(r, generation', toggled')
    BY <1>4 DEF NoteToggle, Fresh, Reading
  <2> QED BY <1>0, <1>4, <2>1 DEF NoteToggle, ToggleWins
<1>5. CASE NoteReading
  <2>1. channel # <<>> /\ channel' = Tail(channel)
        /\ UNCHANGED <<moves, unread, returns, readers, generation, applied, toggled>>
    BY <1>5, Zenon DEF NoteReading
  <2>2. /\ channel' \in Seq(Reading)
        /\ \A i \in 1 .. Len(channel') : channel'[i] = channel[i + 1] /\ i + 1 \in 1 .. Len(channel)
        /\ Head(channel) = channel[1] /\ 1 \in 1 .. Len(channel)
    BY <2>1
  <2>3. Head(channel) \in Reading /\ Fresh(Head(channel), generation, toggled)
        /\ Head(channel).read # Unread
    BY <1>0, <2>2
  <2>4. pending' \in Move \cup {None} /\ ToggleWins'
    BY <1>5, <2>1, <2>3 DEF NoteReading, Fresh, ToggleWins, Reading
  <2>5. \A i \in 1 .. Len(channel') :
            channel'[i].read # Unread /\ Fresh(channel'[i], generation', toggled')
    BY <2>1, <2>2, Zenon
  <2> QED BY <2>1, <2>2, <2>4, <2>5
<1>6. CASE Apply
  BY <1>6 DEF Apply, ToggleWins
<1>7. ASSUME NEW r \in readers, Read(r) PROVE LidInv'
  <2> DEFINE done == [r EXCEPT !.read = moves]
  <2>1. done \in Reading /\ Fresh(done, generation, toggled)
    BY <1>0, <1>7 DEF Fresh, Reading
  <2> QED BY <1>7, <2>1 DEF Read, ToggleWins
<1>8. ASSUME NEW r \in readers, ReadFails(r) PROVE LidInv'
  BY <1>8 DEF ReadFails, ToggleWins
<1>9. ASSUME NEW r \in readers, Send(r) PROVE LidInv'
  <2>1. r \in Reading /\ channel' = Append(channel, r) /\ channel' \in Seq(Reading)
    BY <1>9 DEF Send
  <2>2. \A i \in 1 .. Len(channel') : \/ i \in 1 .. Len(channel) /\ channel'[i] = channel[i]
                                     \/ channel'[i] = r
    BY <2>1
  <2>3. \A i \in 1 .. Len(channel') :
            channel'[i].read # Unread /\ Fresh(channel'[i], generation', toggled')
    BY <1>9, <2>2 DEF Send
  <2> QED BY <1>9, <2>1, <2>3 DEF Send, ToggleWins
<1>10. CASE UNCHANGED vars
  BY <1>10 DEF vars, ToggleWins
<1> QED
  BY <1>1, <1>2, <1>3, <1>4, <1>5, <1>6, <1>7, <1>8, <1>9, <1>10 DEF Next

(* A logind reading requested before a newer toggle cannot overwrite it,    *)
(* for any number of lid moves and returns, and however readers interleave. *)
THEOREM ToggleAlwaysWins == Spec => []ToggleWins
<1>1. LidInv => ToggleWins
  BY DEF LidInv
<1> QED
  BY LidStarts, LidKeeps, <1>1, PTL DEF Spec

(* Where the newest position of the lid is, when the session has been away  *)
(* at most once: in a toggle that was not read yet, in a reading of the     *)
(* current generation that is still on its way, or in what is believed.     *)
Believed == IF pending = None THEN applied ELSE pending

Underway == readers \cup {channel[i] : i \in 1 .. Len(channel)}

Truth ==
    /\ ~present => unread = None
    /\ returns = 0 => Underway = {}
    /\ present /\ returns <= 1 =>
          /\ unread # None => unread = moves
          /\ unread = None => /\ \/ Believed = moves
                                 \/ \E r \in Underway : r.generation = generation
                              /\ \A r \in Underway :
                                    r.generation = generation => r.read \in {Unread, moves}

(* Every step but a failing reading keeps it. *)
LEMMA TruthKeeps ==
    ASSUME LidInv, Truth,
           \/ MoveLid \/ Leave \/ Return \/ NoteToggle \/ NoteReading \/ Apply
           \/ \E r \in readers : Read(r) \/ Send(r)
           \/ UNCHANGED vars
    PROVE  Truth'
<1>0. /\ moves \in Nat /\ returns \in Nat /\ generation \in Nat /\ None \notin Move
      /\ moves \in Move /\ \A r \in Underway : r \in Reading /\ r.generation <= generation
      /\ channel \in Seq(Reading)
  BY LidBounds DEF LidInv, LidTypeOK, Move, None, Underway, Fresh
<1>1. CASE MoveLid
  <2>1. /\ moves' = moves + 1 /\ unread' = IF present THEN moves + 1 ELSE unread
        /\ moves < MaxMoves
        /\ UNCHANGED <<present, returns, readers, channel, generation, pending, applied>>
    BY <1>1, Zenon DEF MoveLid
  <2>2. Underway' = Underway
    BY <2>1 DEF Underway
  <2>3. (present => unread' # None /\ unread' = moves') /\ None' = None
    <3>1. moves + 1 # MaxMoves + 1
      BY <1>0, <2>1, LidBounds
    <3> QED
      BY <2>1, <3>1 DEF None
  <2> QED
    BY <2>1, <2>2, <2>3 DEF Truth
<1>2. CASE Leave
  <2>1. Underway' = Underway
    BY <1>2 DEF Underway, Leave
  <2> QED
    BY <1>0, <1>2, <2>1 DEF Truth, Leave
<1>3. CASE Return
  <2> DEFINE new == [id |-> returns, generation |-> generation, read |-> Unread]
  <2>1. Underway' = Underway \cup {new}
    BY <1>3 DEF Underway, Return
  <2>2. /\ ~present /\ present' = TRUE /\ returns' = returns + 1
        /\ UNCHANGED <<moves, unread, generation, pending, applied>>
    BY <1>3, Zenon DEF Return
  <2>3. new.generation = generation /\ new.read = Unread
    OBVIOUS
  <2> HIDE DEF new
  <2>4. returns' <= 1 => Underway = {}
    BY <1>0, <2>2 DEF Truth
  <2>5. unread = None
    BY <2>2 DEF Truth
  <2>6. Unread' = Unread /\ None' = None
    BY DEF Unread, None
  <2> QED
    BY <1>0, <2>1, <2>2, <2>3, <2>4, <2>5, <2>6 DEF Truth
<1>4. CASE NoteToggle
  <2>1. Underway' = Underway
    BY <1>4 DEF Underway, NoteToggle
  <2>2. /\ unread # None /\ generation' = generation + 1
        /\ pending' = unread /\ unread' = None
        /\ UNCHANGED <<moves, present, returns, applied>>
    BY <1>4, Zenon DEF NoteToggle
  <2>3. \A r \in Underway : r.generation # generation'
    BY <1>0, <2>2 DEF Reading
  <2>4. present /\ returns <= 1 => Believed' = moves'
    BY <2>2 DEF Truth, Believed, None
  <2> QED
    BY <2>1, <2>2, <2>3, <2>4 DEF Truth, None
<1>5. CASE NoteReading
  <2> DEFINE h == Head(channel)
  <2>1. /\ channel # <<>> /\ channel' = Tail(channel)
        /\ pending' = IF h.generation = generation THEN h.read ELSE pending
        /\ UNCHANGED <<moves, present, unread, returns, readers, generation, applied>>
    BY <1>5, Zenon DEF NoteReading
  <2>a. /\ Len(channel') = Len(channel) - 1 /\ Len(channel) \in Nat /\ Len(channel) >= 1
        /\ \A i \in 1 .. Len(channel) - 1 : channel'[i] = channel[i + 1]
        /\ h = channel[1]
    BY <1>0, <2>1
  <2>2. /\ \A i \in 1 .. Len(channel') : i + 1 \in 1 .. Len(channel) /\ channel'[i] = channel[i + 1]
        /\ \A i \in 1 .. Len(channel) : i # 1 => i - 1 \in 1 .. Len(channel') /\ channel'[i - 1] = channel[i]
        /\ 1 \in 1 .. Len(channel) /\ h = channel[1]
    <3> HIDE DEF h
    <3>1. \A i \in 1 .. Len(channel) : i # 1 => i - 1 \in 1 .. Len(channel) - 1 /\ (i - 1) + 1 = i
      BY <2>a
    <3>2. \A i \in 1 .. Len(channel) : i # 1 => channel'[i - 1] = channel[(i - 1) + 1]
      BY <2>a, <3>1
    <3>3. \A i \in 1 .. Len(channel) : i # 1 => channel'[i - 1] = channel[i]
      BY <3>1, <3>2
    <3>4. \A i \in 1 .. Len(channel') : i + 1 \in 1 .. Len(channel) /\ channel'[i] = channel[i + 1]
      BY <2>a
    <3>5. 1 \in 1 .. Len(channel) /\ \A i \in 1 .. Len(channel) : i # 1 => i - 1 \in 1 .. Len(channel')
      BY <2>a
    <3> QED
      BY <2>a, <3>3, <3>4, <3>5, Zenon
  <2>3. Underway' \subseteq Underway /\ h \in Underway /\ Underway \subseteq Underway' \cup {h}
    BY <2>1, <2>2 DEF Underway
  <2>4. h.read # Unread
    BY <2>2 DEF LidInv
  <2> HIDE DEF h
  <2>5. CASE h.generation = generation
    <3>1. present /\ returns <= 1 /\ unread = None => Believed' = moves'
      BY <2>1, <2>3, <2>4, <2>5 DEF Truth, Believed, Unread, None
    <3> QED
      BY <2>1, <2>3, <3>1 DEF Truth, Unread, None
  <2>6. CASE h.generation # generation
    <3>1. Believed' = Believed
      BY <2>1, <2>6 DEF Believed, None
    <3> QED
      BY <2>1, <2>3, <2>6, <3>1 DEF Truth, Unread, None
  <2> QED
    BY <2>5, <2>6
<1>6. CASE Apply
  <2>1. Underway' = Underway
    BY <1>6 DEF Underway, Apply
  <2>2. /\ pending # None /\ pending' = None /\ applied' = pending
        /\ UNCHANGED <<moves, present, unread, returns, generation>>
    BY <1>6, Zenon DEF Apply
  <2>3. Believed' = Believed
    BY <2>2 DEF Believed, None
  <2> QED
    BY <2>1, <2>2, <2>3 DEF Truth, Unread, None
<1>7. ASSUME NEW r \in readers, Read(r) PROVE Truth'
  <2> DEFINE done == [r EXCEPT !.read = moves]
  <2>1. /\ readers' = (readers \ {r}) \cup {done}
        /\ UNCHANGED <<moves, present, unread, returns, channel, generation, pending, applied>>
    BY <1>7, Zenon DEF Read
  <2>2. /\ Underway' \subseteq Underway \cup {done}
        /\ Underway \subseteq Underway' \cup {r} /\ done \in Underway' /\ r \in Underway
    BY <2>1 DEF Underway
  <2>3. done.generation = r.generation /\ done.read = moves
    BY <1>0, <2>2 DEF Reading
  <2>4. Believed' = Believed
    BY <2>1 DEF Believed, None
  <2> HIDE DEF done
  <2>5. returns # 0
    BY <2>2 DEF Truth
  <2> QED
    BY <2>1, <2>2, <2>3, <2>4, <2>5 DEF Truth, Unread, None
<1>8. ASSUME NEW r \in readers, Send(r) PROVE Truth'
  <2>1. /\ readers' = readers \ {r} /\ channel' = Append(channel, r)
        /\ UNCHANGED <<moves, present, unread, returns, generation, pending, applied>>
    BY <1>8, Zenon DEF Send
  <2>2. /\ Len(channel') = Len(channel) + 1 /\ channel'[Len(channel) + 1] = r
        /\ \A i \in 1 .. Len(channel) : channel'[i] = channel[i]
        /\ Len(channel) \in Nat
    BY <1>0, <1>8, <2>1 DEF Underway
  <2>3. Underway' = Underway
    BY <1>8, <2>1, <2>2 DEF Underway
  <2>4. Believed' = Believed
    BY <2>1 DEF Believed, None
  <2> QED
    BY <2>1, <2>3, <2>4 DEF Truth, Unread, None
<1>9. CASE UNCHANGED vars
  BY <1>9 DEF vars, Truth, Underway, Believed, Unread, None
<1> QED
  BY <1>1, <1>2, <1>3, <1>4, <1>5, <1>6, <1>7, <1>8, <1>9, Zenon

-----------------------------------------------------------------------------
(* What should be lit. *)

(* A rescan that is neither due nor forgotten is held back for outputs that *)
(* sleep or were just woken.                                                *)
Held ==
    alive /\ scanouts # Topology!Wanted /\ ~Topology!RescanDue =>
       /\ guard.deferred
       /\ (scanouts \ Topology!Wanted) \cap Topology!ConnectorDecided
             \subseteq guard.parked \cup guard.waking

(* A desk with one monitor beside panels that are off, where nothing but    *)
(* connectors and the lid asks for a rescan.                                *)
Sole(o) == Panels \subseteq desk.disabled /\ desk.requests = {} /\ desk.outputs \ Panels = {o}

(* There one output is lit at a time, the guard knows the monitor when it   *)
(* sleeps, and recovery does not run then.                                  *)
AsleepParked ==
    \A o \in Outputs : Sole(o) =>
       /\ ~kms /\ ~resident
       /\ \E x \in Outputs : scanouts \subseteq {x}
       /\ rebased => scanouts = powered
       /\ o \in scanouts \ powered => o \in guard.parked

TopologyInv ==
    /\ desk \in Desks /\ connected \subseteq desk.outputs
    /\ Topology!TypeOK /\ Held /\ AsleepParked

(* A nonempty set of outputs has a first one. *)
LEMMA FirstIsMember ==
    ASSUME NEW S, S \subseteq Outputs, S # {}
    PROVE  Topology!First(S) \in S
<1> DEFINE ranks == {Rank[o] : o \in S}
<1>1. ranks \subseteq Nat /\ ranks # {}
  BY TopologyAssumption
<1> DEFINE less == {ss \in Nat \X Nat : ss[1] < ss[2]}
<1>2. IsWellFoundedOn(less, Nat)
  BY NatLessThanWellFounded, Zenon DEF OpToRel
<1>3. PICK m \in ranks : \A n \in ranks : ~ (<<n, m>> \in less)
  <2> HIDE DEF less, ranks
  <2> QED
    BY <1>1, <1>2, WFMin, Zenon
<1>4. \A n \in ranks : m <= n
  <2> TAKE n \in ranks
  <2>1. m \in Nat /\ n \in Nat
    BY <1>1
  <2>2. ~ (<<n, m>> \in less)
    BY <1>3
  <2> HIDE DEF ranks
  <2>3. ~ (n < m)
    BY <2>1, <2>2
  <2> QED
    BY <2>1, <2>3
<1>5. PICK o \in S : \A p \in S : Rank[o] <= Rank[p]
  BY <1>4
<1> QED
  BY <1>5 DEF Topology!First

(* The policy lights what is connected, and falls back to one output. *)
LEMMA LitIsConnected ==
    ASSUME NEW c, c \subseteq Outputs, NEW d, NEW lid \in BOOLEAN
    PROVE  /\ Topology!FallbackOf(c, lid) \subseteq c
           /\ \E x : Topology!FallbackOf(c, lid) \subseteq {x}
           /\ Topology!Lit(c, d, lid) \subseteq c
<1> DEFINE panels == c \cap (Panels \ Topology!Covered(Panels, lid))
           others == c \ Panels
<1>1. panels # {} => Topology!First(panels) \in panels
  BY FirstIsMember
<1>2. others # {} => Topology!First(others) \in others
  BY FirstIsMember
<1>3. /\ Topology!FallbackOf(c, lid) \subseteq c
      /\ \E x : Topology!FallbackOf(c, lid) \subseteq {x}
  BY <1>1, <1>2, Zenon DEF Topology!FallbackOf
<1> QED
  BY <1>3 DEF Topology!Lit

LEMMA WantedIsConnected ==
    ASSUME connected \subseteq Outputs
    PROVE  Topology!Wanted \subseteq connected
<1>1. Topology!Lit(connected, desk.disabled, Closed(applied) = 1) \subseteq connected
  BY LitIsConnected, Zenon
<1> QED
  BY <1>1, Zenon DEF Topology!Wanted, Topology!WantedFor

(* Where one monitor is beside panels that are off. *)
LEMMA SoleWanted ==
    ASSUME NEW o \in Outputs, Sole(o), connected \subseteq desk.outputs,
           desk.outputs \subseteq Outputs
    PROVE  /\ \E x : Topology!Wanted \subseteq {x}
           /\ Topology!Wanted \cap Topology!ConnectorDecided \subseteq {o}
           /\ o \notin connected => /\ o \in Topology!ConnectorDecided
                                    /\ Topology!Wanted \cap Topology!ConnectorDecided = {}
<1> DEFINE lid == Closed(applied) = 1
           preferred == connected \ desk.disabled
           fallback == Topology!FallbackOf(connected, lid)
<1>1. lid \in BOOLEAN /\ connected \subseteq Outputs
  OBVIOUS
<1>2. fallback \subseteq connected /\ \E x : fallback \subseteq {x}
  BY <1>1, LitIsConnected, Zenon
<1>3. preferred \subseteq {o}
  BY DEF Sole
<1>4. Topology!Wanted \subseteq Topology!Lit(connected, desk.disabled, lid)
  BY DEF Topology!Wanted, Topology!WantedFor
<1>5. Topology!ConnectorDecided = Outputs \ Topology!Overridden(connected, desk.disabled, lid)
  BY DEF Topology!ConnectorDecided
<1>6. CASE preferred = {}
  <2>1. /\ Topology!Lit(connected, desk.disabled, lid) = fallback
        /\ Topology!Overridden(connected, desk.disabled, lid) = fallback
    BY <1>6 DEF Topology!Lit, Topology!Overridden
  <2> HIDE DEF lid, preferred, fallback
  <2> QED
    BY <1>2, <1>4, <1>5, <2>1
<1>7. CASE preferred # {}
  <2>1. Topology!Lit(connected, desk.disabled, lid) \subseteq {o}
    BY <1>3, <1>7 DEF Topology!Lit
  <2>2. o \in connected
    BY <1>3, <1>7
  <2> HIDE DEF lid, preferred, fallback
  <2> QED
    BY <1>4, <2>1, <2>2
<1> QED
  BY <1>6, <1>7

(* What is wanted depends on connectors, preferences and lid alone. *)
LEMMA Steady ==
    ASSUME UNCHANGED <<desk, connected>>, UNCHANGED (Closed(applied) = 1)
    PROVE  /\ Topology!Wanted' = Topology!Wanted
           /\ Topology!ConnectorDecided' = Topology!ConnectorDecided
<1>1. connected' = connected /\ desk' = desk /\ (Closed(applied) = 1)' = (Closed(applied) = 1)
  OBVIOUS
<1>2. Topology!Wanted' = Topology!Wanted
  BY <1>1 DEF Topology!Wanted, Topology!WantedFor
<1>3. Topology!ConnectorDecided' = Topology!ConnectorDecided
  BY <1>1 DEF Topology!ConnectorDecided
<1> QED
  BY <1>2, <1>3

-----------------------------------------------------------------------------
(* What the guard notes. *)

Records == [parked : SUBSET Outputs, waking : SUBSET Outputs, grace : 0 .. Grace + 1,
            deferred : BOOLEAN]
Guards ==
    {g \in Records :
       (g.grace # Grace + 1 <=> g.waking # {}) /\ g.parked \cap g.waking = {}}

(* Sleeping, waking, expiry and a fresh start keep its types: a grace runs  *)
(* exactly while something wakes, and nothing is asleep and waking at once. *)
LEMMA GuardTypes ==
    ASSUME NEW g \in Guards
    PROVE  /\ Topology!Fresh \in Guards
           /\ \A o \in Outputs :
                 /\ Topology!NotePoweredOff(g, o) \in Guards
                 /\ Topology!NotePoweredOff(g, o).parked = g.parked \cup {o}
                 /\ Topology!NotePoweredOff(g, o).waking = g.waking \ {o}
                 /\ Topology!NotePoweredOff(g, o).deferred = g.deferred
                 /\ Topology!NoteWake(g, o) \in Guards
                 /\ Topology!NoteWake(g, o).parked = g.parked \ {o}
           /\ Topology!ExpireWakeGrace(g) \in Guards
           /\ Topology!ExpireWakeGrace(g).parked = g.parked
           /\ [g EXCEPT !.waking = {}, !.grace = Grace + 1, !.deferred = FALSE] \in Guards
           /\ \A d \in BOOLEAN : [g EXCEPT !.deferred = d] \in Guards
           /\ [g EXCEPT !.waking = {}, !.grace = Grace + 1, !.deferred = FALSE].parked = g.parked
           /\ g.grace \in 1 .. Grace =>
                 /\ [g EXCEPT !.grace = @ - 1] \in Guards
                 /\ [g EXCEPT !.grace = @ - 1].parked = g.parked
                 /\ [g EXCEPT !.grace = @ - 1].waking = g.waking
                 /\ [g EXCEPT !.grace = @ - 1].deferred = g.deferred
<1> DEFINE steps == 0 .. Grace + 1
           last == Grace + 1
<1>1. Grace \in Nat /\ steps = 0 .. Grace + 1 /\ Topology!Never = last
  BY TopologyAssumption DEF Topology!Never
<1>2. Grace \in steps /\ last \in steps /\ Grace # last
  BY <1>1
<1>3. \A e \in 1 .. Grace : e - 1 \in steps /\ e - 1 # last /\ e # last
  BY <1>1
<1> HIDE DEF steps, last
<1>4. Records = [parked : SUBSET Outputs, waking : SUBSET Outputs, grace : steps,
                 deferred : BOOLEAN]
  BY DEF Records, steps
<1>5. \A r : r \in Guards <=> /\ r \in Records /\ (r.grace # last <=> r.waking # {})
                             /\ r.parked \cap r.waking = {}
  BY DEF Guards, last
<1>6. /\ g \in Records /\ (g.grace # last <=> g.waking # {}) /\ g.parked \cap g.waking = {}
      /\ g = [parked |-> g.parked, waking |-> g.waking, grace |-> g.grace, deferred |-> g.deferred]
      /\ g.parked \subseteq Outputs /\ g.waking \subseteq Outputs /\ g.grace \in steps
      /\ g.deferred \in BOOLEAN
  BY <1>4, <1>5
<1>7. ASSUME NEW p \in SUBSET Outputs, NEW w \in SUBSET Outputs, NEW e \in steps,
             NEW d \in BOOLEAN, e # last <=> w # {}, p \cap w = {}
      PROVE  [parked |-> p, waking |-> w, grace |-> e, deferred |-> d] \in Guards
  <2> DEFINE n == [parked |-> p, waking |-> w, grace |-> e, deferred |-> d]
  <2>1. n \in Records /\ n.parked = p /\ n.waking = w /\ n.grace = e
    BY <1>4
  <2> HIDE DEF n
  <2> QED
    BY <1>5, <1>7, <2>1 DEF n
<1>8. Topology!Fresh \in Guards
  BY <1>1, <1>2, <1>7, Zenon DEF Topology!Fresh
<1>9. ASSUME NEW o \in Outputs
      PROVE  /\ Topology!NotePoweredOff(g, o) \in Guards
             /\ Topology!NotePoweredOff(g, o).parked = g.parked \cup {o}
             /\ Topology!NotePoweredOff(g, o).waking = g.waking \ {o}
             /\ Topology!NotePoweredOff(g, o).deferred = g.deferred
  <2> DEFINE e == IF g.waking \subseteq {o} THEN last ELSE g.grace
         n == [g EXCEPT !.waking = @ \ {o}, !.parked = @ \cup {o}, !.grace = e]
  <2>1. Topology!NotePoweredOff(g, o) = n
    BY <1>1 DEF Topology!NotePoweredOff
  <2>2. e \in steps /\ (e # last <=> g.waking \ {o} # {})
    BY <1>2, <1>6
  <2> HIDE DEF e
  <2>3. n \in Records
    BY <1>4, <1>6, <2>2, Zenon
  <2>4. /\ n.waking = g.waking \ {o} /\ n.parked = g.parked \cup {o} /\ n.grace = e
        /\ n.deferred = g.deferred
    BY <1>4, <1>6
  <2> HIDE DEF n
  <2> QED
    BY <1>5, <1>6, <2>1, <2>2, <2>3, <2>4
<1>10. ASSUME NEW o \in Outputs
       PROVE  /\ Topology!NoteWake(g, o) \in Guards
              /\ Topology!NoteWake(g, o).parked = g.parked \ {o}
  <2> DEFINE n == [g EXCEPT !.parked = @ \ {o}, !.waking = @ \cup {o}, !.grace = Grace]
  <2>1. Topology!NoteWake(g, o) = n
    BY DEF Topology!NoteWake
  <2>2. g.parked \ {o} \subseteq Outputs /\ g.waking \cup {o} \subseteq Outputs
    BY <1>6
  <2>3. n \in Records
    BY <1>2, <1>4, <1>6, <2>2, Zenon
  <2>4. n.waking = g.waking \cup {o} /\ n.parked = g.parked \ {o} /\ n.grace = Grace
    BY <1>4, <1>6
  <2> HIDE DEF n
  <2>5. n.waking # {} /\ n.parked \cap n.waking = {} /\ n.grace # last
    BY <1>2, <1>6, <2>4
  <2> QED
    BY <1>5, <2>1, <2>3, <2>4, <2>5
<1>11. /\ [g EXCEPT !.waking = {}, !.grace = last, !.deferred = FALSE] \in Guards
       /\ [g EXCEPT !.waking = {}, !.grace = last, !.deferred = FALSE].parked = g.parked
  <2> DEFINE none == {}
             n == [g EXCEPT !.waking = none, !.grace = last, !.deferred = FALSE]
  <2>1. none \subseteq Outputs
    OBVIOUS
  <2> HIDE DEF none
  <2>2. n \in Records
    BY <1>2, <1>4, <1>6, <2>1, Zenon
  <2>3. n.waking = none /\ n.parked = g.parked /\ n.grace = last
    BY <1>4, <1>6
  <2> HIDE DEF n
  <2>4. n \in Guards /\ n.parked = g.parked
    BY <1>5, <2>2, <2>3 DEF none
  <2> QED
    BY <2>4 DEF n, none
<1>12. Topology!ExpireWakeGrace(g) \in Guards /\ Topology!ExpireWakeGrace(g).parked = g.parked
  BY <1>1, <1>11 DEF Topology!ExpireWakeGrace
<1>13. ASSUME NEW d \in BOOLEAN PROVE [g EXCEPT !.deferred = d] \in Guards
  <2>1. [g EXCEPT !.deferred = d] =
           [parked |-> g.parked, waking |-> g.waking, grace |-> g.grace, deferred |-> d]
    BY <1>6
  <2> QED
    BY <1>6, <1>7, <2>1
<1>14. ASSUME g.grace \in 1 .. Grace
       PROVE  /\ [g EXCEPT !.grace = @ - 1] \in Guards
              /\ [g EXCEPT !.grace = @ - 1].parked = g.parked
              /\ [g EXCEPT !.grace = @ - 1].waking = g.waking
              /\ [g EXCEPT !.grace = @ - 1].deferred = g.deferred
  <2>1. [g EXCEPT !.grace = @ - 1] =
           [parked |-> g.parked, waking |-> g.waking, grace |-> g.grace - 1,
            deferred |-> g.deferred]
    BY <1>6
  <2>2. g.grace - 1 \in steps /\ g.grace - 1 # last /\ g.grace # last
    BY <1>3, <1>14
  <2> QED
    BY <1>6, <1>7, <2>1, <2>2
<1> QED
  BY <1>8, <1>9, <1>10, <1>11, <1>12, <1>13, <1>14 DEF last

(* A removal is held back only when all that is missing sleeps or wakes,    *)
(* and is noted then.                                                       *)
LEMMA Observing ==
    ASSUME guard \in Guards
    PROVE  /\ Topology!Observed.guard \in Guards
           /\ Topology!Observed.held \in BOOLEAN
           /\ Topology!Observed.held =>
                /\ Topology!Observed.guard.deferred
                /\ (scanouts \ Topology!Wanted) \cap Topology!ConnectorDecided
                      \subseteq Topology!Observed.guard.parked \cup Topology!Observed.guard.waking
<1> DEFINE g == Topology!ExpireWakeGrace(guard)
           current == scanouts \cap Topology!ConnectorDecided
           observed == Topology!Wanted \cap Topology!ConnectorDecided
           missing == current \ observed
           none == [g EXCEPT !.deferred = FALSE]
           noted == [g EXCEPT !.deferred = TRUE]
<1>1. Topology!Fresh \in Guards /\ g \in Guards /\ none \in Guards /\ noted \in Guards
  BY GuardTypes, Zenon
<1>2. noted.deferred /\ noted.parked = g.parked /\ noted.waking = g.waking
  BY <1>1 DEF Guards, Records
<1>3. missing = (scanouts \ Topology!Wanted) \cap Topology!ConnectorDecided
  OBVIOUS
<1>4. \/ Topology!Observed = [guard |-> Topology!Fresh, held |-> FALSE]
      \/ Topology!Observed = [guard |-> none, held |-> FALSE]
      \/ /\ Topology!Observed = [guard |-> noted, held |-> TRUE]
         /\ missing \subseteq g.parked \cup g.waking
  BY Zenon DEF Topology!Observed, Topology!DeferMissingOutputs
<1> HIDE DEF g, missing, none, noted
<1>5. /\ Topology!Observed.guard \in {Topology!Fresh, none, noted}
      /\ Topology!Observed.held \in BOOLEAN
      /\ Topology!Observed.held => /\ Topology!Observed.guard = noted
                                   /\ missing \subseteq g.parked \cup g.waking
  <2>1. CASE Topology!Observed = [guard |-> Topology!Fresh, held |-> FALSE]
    BY <2>1
  <2>2. CASE Topology!Observed = [guard |-> none, held |-> FALSE]
    BY <2>2
  <2>3. CASE /\ Topology!Observed = [guard |-> noted, held |-> TRUE]
             /\ missing \subseteq g.parked \cup g.waking
    BY <2>3
  <2> QED
    BY <1>4, <2>1, <2>2, <2>3
<1> QED
  BY <1>1, <1>2, <1>3, <1>5

(* A monitor that sleeps alone beside panels that are off stays known to    *)
(* the guard, and its removal is held back.                                 *)
LEMMA AsleepObserved ==
    ASSUME TopologyInv, guard \in Guards, NEW o \in Outputs, Sole(o), o \in scanouts \ powered
    PROVE  /\ scanouts = {o} /\ powered = {} /\ ~Topology!RebasedNow /\ ~kms /\ ~resident
           /\ o \in Topology!Observed.guard.parked
           /\ o \notin connected => Topology!Observed.held
<1> DEFINE g == Topology!ExpireWakeGrace(guard)
           current == scanouts \cap Topology!ConnectorDecided
           observed == Topology!Wanted \cap Topology!ConnectorDecided
           missing == current \ observed
<1>1. /\ ~kms /\ ~resident /\ (\E x \in Outputs : scanouts \subseteq {x})
      /\ rebased => scanouts = powered
      /\ o \in guard.parked
  BY DEF TopologyInv, AsleepParked
<1>2. powered \subseteq scanouts
  BY DEF TopologyInv, Topology!TypeOK
<1>3. scanouts = {o} /\ powered = {} /\ ~Topology!RebasedNow
  BY <1>1, <1>2 DEF Topology!RebasedNow
<1>4. connected \subseteq desk.outputs /\ desk.outputs \subseteq Outputs
  BY TopologyAssumption DEF TopologyInv, Topology!TypeOK, Topology!Desk
<1>5. observed \subseteq {o} /\ (o \notin connected => o \in Topology!ConnectorDecided /\ observed = {})
  BY <1>4, SoleWanted
<1>6. ~Topology!Bypassed /\ observed \ current = {} /\ missing \subseteq {o}
  BY <1>1, <1>3, <1>5 DEF Topology!Bypassed
<1>7. Topology!Observed = Topology!DeferMissingOutputs(current, observed)
  BY <1>6 DEF Topology!Observed
<1>8. g \in Guards /\ g.parked = guard.parked
  BY GuardTypes, Zenon
<1>9. missing \subseteq g.parked \cup g.waking
  BY <1>1, <1>6, <1>8
<1> DEFINE none == [g EXCEPT !.deferred = FALSE]
           noted == [g EXCEPT !.deferred = TRUE]
<1>10. \/ /\ Topology!Observed = [guard |-> none, held |-> FALSE]
          /\ missing = {}
       \/ Topology!Observed = [guard |-> noted, held |-> TRUE]
  BY <1>6, <1>7, <1>9, Zenon DEF Topology!DeferMissingOutputs
<1>11. none.parked = g.parked /\ noted.parked = g.parked
  BY <1>8 DEF Guards, Records
<1>12. o \in Topology!Observed.guard.parked
  <2> HIDE DEF g, missing, none, noted
  <2>1. Topology!Observed.guard \in {none, noted}
    BY <1>10
  <2> QED
    BY <1>1, <1>8, <1>11, <2>1
<1>13. o \notin connected => missing # {}
  BY <1>3, <1>5
<1>14. o \notin connected => Topology!Observed.held
  <2> HIDE DEF g, missing, none, noted
  <2> QED
    BY <1>10, <1>13
<1> QED
  BY <1>1, <1>3, <1>12, <1>14

-----------------------------------------------------------------------------
(* Steps of the topology. *)

LEMMA Typed ==
    ASSUME TopologyInv
    PROVE  /\ guard \in Guards
           /\ desk \in Desks /\ connected \subseteq desk.outputs /\ desk.outputs \subseteq Outputs
           /\ desk.droppable \subseteq desk.outputs
           /\ connected \subseteq Outputs /\ scanouts \subseteq Outputs /\ powered \subseteq scanouts
           /\ dirty \in BOOLEAN /\ kms \in BOOLEAN /\ resident \in BOOLEAN /\ rebased \in BOOLEAN
           /\ disconnected \in BOOLEAN /\ hdr \in BOOLEAN /\ alive \in BOOLEAN
           /\ Topology!Wanted \subseteq Outputs
<1>1. /\ desk \in Desks /\ connected \subseteq desk.outputs /\ Topology!TypeOK
  BY DEF TopologyInv
<1>2. desk.outputs \subseteq Outputs /\ desk.droppable \subseteq desk.outputs
  BY <1>1, TopologyAssumption DEF Topology!Desk
<1>3. guard \in Guards
  BY <1>1 DEF Topology!TypeOK, Guards, Records, Topology!Never
<1>4. /\ connected \subseteq Outputs /\ scanouts \subseteq Outputs /\ powered \subseteq scanouts
      /\ dirty \in BOOLEAN /\ kms \in BOOLEAN /\ resident \in BOOLEAN /\ rebased \in BOOLEAN
      /\ disconnected \in BOOLEAN /\ hdr \in BOOLEAN /\ alive \in BOOLEAN
  BY <1>1 DEF Topology!TypeOK
<1>5. Topology!Wanted \subseteq Outputs
  BY <1>4, WantedIsConnected
<1> QED
  BY <1>1, <1>2, <1>3, <1>4, <1>5

LEMMA TypesFollow ==
    ASSUME desk \in Desks, UNCHANGED desk,
           connected' \subseteq desk.outputs, scanouts' \subseteq Outputs, powered' \subseteq scanouts',
           guard' \in Guards,
           dirty' \in BOOLEAN, kms' \in BOOLEAN, resident' \in BOOLEAN, rebased' \in BOOLEAN,
           disconnected' \in BOOLEAN, hdr' \in BOOLEAN, alive' \in BOOLEAN
    PROVE  desk' \in Desks /\ (connected \subseteq desk.outputs)' /\ Topology!TypeOK'
<1>1. desk' \in Topology!Desk /\ desk.outputs \subseteq Outputs
  BY TopologyAssumption DEF Topology!Desk
<1>2. /\ guard' \in [parked : SUBSET Outputs, waking : SUBSET Outputs,
                     grace : 0 .. Topology!Never, deferred : BOOLEAN]
      /\ guard'.grace # Topology!Never <=> guard'.waking # {}
      /\ guard'.parked \cap guard'.waking = {}
  BY DEF Guards, Records, Topology!Never
<1>3. {Closed(applied) = 1, dirty, kms, resident, rebased, disconnected, hdr, alive}' \subseteq BOOLEAN
  OBVIOUS
<1>4. connected' \subseteq Outputs
  BY <1>1
<1> QED
  BY <1>1, <1>2, <1>3, <1>4, Zenon DEF Topology!TypeOK, Topology!Desk

(* A step that leaves the screens alone and asks for a rescan. *)
LEMMA Asking ==
    ASSUME TopologyInv, UNCHANGED <<desk, scanouts, powered, kms, resident, rebased, guard>>,
           connected' \subseteq desk.outputs, dirty' = TRUE,
           disconnected' \in BOOLEAN, hdr' \in BOOLEAN, alive' \in BOOLEAN
    PROVE  TopologyInv'
<1>1. desk' \in Desks /\ (connected \subseteq desk.outputs)' /\ Topology!TypeOK'
  BY Typed, TypesFollow
<1>2. Held'
  BY DEF Held, Topology!RescanDue
<1>3. AsleepParked'
  BY DEF TopologyInv, AsleepParked, Sole
<1> QED
  BY <1>1, <1>2, <1>3 DEF TopologyInv

LEMMA ConnectorChangeKeeps ==
    ASSUME TopologyInv, NEW o \in Outputs, Topology!ConnectorChange(o), UNCHANGED desk
    PROVE  TopologyInv'
<1>1. /\ o \in desk.droppable /\ dirty' = TRUE
      /\ connected' \subseteq connected \cup {o}
      /\ UNCHANGED <<scanouts, powered, guard, kms, resident, rebased, disconnected, hdr, alive>>
  BY Zenon DEF Topology!ConnectorChange
<1> QED
  BY <1>1, Asking, Typed

LEMMA MoveLidKeeps ==
    ASSUME TopologyInv, Topology!MoveLid, UNCHANGED desk
    PROVE  TopologyInv'
  BY Asking, Typed DEF Topology!MoveLid

(* Desks where nothing is requested see no request. *)
LEMMA RequestsKeep ==
    ASSUME TopologyInv, Topology!RequestRebuild \/ Topology!Rebase, UNCHANGED desk
    PROVE  TopologyInv'
<1>1. /\ UNCHANGED <<connected, scanouts, powered, guard, disconnected, hdr, alive>>
      /\ dirty' \in {dirty, TRUE} /\ kms' \in {kms, TRUE} /\ resident' \in {resident, TRUE}
      /\ rebased' \in {rebased, TRUE}
      /\ kms' \/ resident' \/ rebased'
      /\ desk.requests # {}
  BY Zenon DEF Topology!RequestRebuild, Topology!Rebase
<1>2. desk' \in Desks /\ (connected \subseteq desk.outputs)' /\ Topology!TypeOK'
  BY <1>1, Typed, TypesFollow, Zenon
<1>3. Held'
  BY <1>1 DEF Held, Topology!RescanDue, Topology!RebasedNow
<1>4. AsleepParked'
  BY <1>1 DEF AsleepParked, Sole
<1> QED
  BY <1>2, <1>3, <1>4 DEF TopologyInv

LEMMA PowerKeeps ==
    ASSUME TopologyInv, NEW o \in Outputs, Topology!PowerOff(o) \/ Topology!PowerOn(o),
           UNCHANGED desk
    PROVE  TopologyInv'
<1>1. CASE Topology!PowerOff(o)
  <2>1. /\ ~Topology!RebasedNow /\ o \in powered /\ powered' = powered \ {o}
        /\ guard' = Topology!NotePoweredOff(guard, o)
        /\ UNCHANGED <<connected, scanouts, dirty, kms, resident, rebased, disconnected, hdr, alive>>
        /\ UNCHANGED (Closed(applied) = 1)
    BY <1>1, Zenon DEF Topology!PowerOff, Topology!requests
  <2>2. /\ guard' \in Guards /\ guard'.parked = guard.parked \cup {o}
        /\ guard'.waking = guard.waking \ {o} /\ guard'.deferred = guard.deferred
    BY <2>1, GuardTypes, Typed, Zenon
  <2>3. desk' \in Desks /\ (connected \subseteq desk.outputs)' /\ Topology!TypeOK'
    BY <2>1, <2>2, Typed, TypesFollow
  <2>4. Topology!RescanDue' => Topology!RescanDue
    BY <2>1 DEF Topology!RescanDue, Topology!RebasedNow
  <2>5. Topology!RescanDue => Topology!RescanDue'
    BY <2>1 DEF Topology!RescanDue, Topology!RebasedNow
  <2>6. Held'
    BY <2>1, <2>2, <2>4, <2>5, Steady, Zenon DEF TopologyInv, Held
  <2>7. AsleepParked'
    BY <2>1, <2>2 DEF TopologyInv, AsleepParked, Sole, Topology!RebasedNow
  <2> QED
    BY <2>3, <2>6, <2>7 DEF TopologyInv
<1>2. CASE Topology!PowerOn(o)
  <2>1. /\ ~Topology!RebasedNow /\ o \in scanouts /\ powered' = powered \cup {o} /\ dirty' = TRUE
        /\ guard' = Topology!NoteWake(guard, o)
        /\ UNCHANGED <<connected, scanouts, kms, resident, rebased, disconnected, hdr, alive>>
    BY <1>2, Zenon DEF Topology!PowerOn
  <2>2. guard' \in Guards /\ guard'.parked = guard.parked \ {o}
    BY <2>1, GuardTypes, Typed, Zenon
  <2>3. desk' \in Desks /\ (connected \subseteq desk.outputs)' /\ Topology!TypeOK'
    BY <2>1, <2>2, Typed, TypesFollow
  <2>4. Held'
    BY <2>1 DEF Held, Topology!RescanDue
  <2>5. AsleepParked'
    BY <2>1, <2>2 DEF TopologyInv, AsleepParked, Sole, Topology!RebasedNow
  <2> QED
    BY <2>3, <2>4, <2>5 DEF TopologyInv
<1> QED
  BY <1>1, <1>2

(* A removal that was held back is looked at again when the grace ends. *)
LEMMA GraceKeeps ==
    ASSUME TopologyInv, Topology!ServiceDeadline \/ Topology!Tick, UNCHANGED desk
    PROVE  TopologyInv'
<1>1. /\ UNCHANGED <<connected, scanouts, powered, kms, resident, rebased, disconnected, hdr, alive>>
      /\ UNCHANGED (Closed(applied) = 1)
  BY Zenon DEF Topology!ServiceDeadline, Topology!Tick, Topology!requests
<1>2. UNCHANGED Topology!RebasedNow
  BY <1>1 DEF Topology!RebasedNow
<1>3. CASE Topology!ServiceDeadline
  <2>1. /\ guard' = [guard EXCEPT !.waking = {}, !.grace = Grace + 1, !.deferred = FALSE]
        /\ dirty' = (dirty \/ guard.deferred)
    BY <1>3 DEF Topology!ServiceDeadline, Topology!Never
  <2>2. guard' \in Guards /\ guard'.parked = guard.parked
    BY <2>1, GuardTypes, Typed, Zenon
  <2>3. guard.deferred \in BOOLEAN
    BY Typed DEF Guards, Records
  <2>4. desk' \in Desks /\ (connected \subseteq desk.outputs)' /\ Topology!TypeOK'
    BY <1>1, <2>1, <2>2, <2>3, Typed, TypesFollow
  <2>5. Held'
    BY <1>1, <1>2, <2>1, Steady, Zenon DEF TopologyInv, Held, Topology!RescanDue
  <2>6. AsleepParked'
    BY <1>1, <2>2 DEF TopologyInv, AsleepParked, Sole
  <2> QED
    BY <2>4, <2>5, <2>6 DEF TopologyInv
<1>4. CASE Topology!Tick
  <2>1. guard.grace \in 1 .. Grace /\ guard' = [guard EXCEPT !.grace = @ - 1] /\ dirty' = dirty
    BY <1>4 DEF Topology!Tick, Topology!requests
  <2>2. /\ guard' \in Guards /\ guard'.parked = guard.parked
        /\ guard'.waking = guard.waking /\ guard'.deferred = guard.deferred
    BY <2>1, GuardTypes, Typed, Zenon
  <2>3. desk' \in Desks /\ (connected \subseteq desk.outputs)' /\ Topology!TypeOK'
    BY <1>1, <2>1, <2>2, Typed, TypesFollow
  <2>4. Held'
    BY <1>1, <1>2, <2>1, <2>2, Steady DEF TopologyInv, Held, Topology!RescanDue
  <2>5. AsleepParked'
    BY <1>1, <2>2 DEF TopologyInv, AsleepParked, Sole
  <2> QED
    BY <2>3, <2>4, <2>5 DEF TopologyInv
<1> QED
  BY <1>3, <1>4

(* What the guard has noted after a rescan that leaves the scanouts alone. *)
LEMMA StillParked ==
    ASSUME TopologyInv, UNCHANGED <<desk, scanouts, powered>>, guard' = Topology!Observed.guard,
           NEW o \in Outputs, Sole(o)', (o \in scanouts \ powered)'
    PROVE  o \in guard'.parked /\ ~Topology!RebasedNow /\ ~kms /\ ~resident
<1>1. Sole(o) /\ o \in scanouts \ powered
  BY DEF Sole
<1> QED
  BY <1>1, AsleepObserved, Typed

(* A rescan that keeps the scanouts: the removal is held back, or there is  *)
(* nothing to light, or frames of the old topology are drained first.       *)
LEMMA RescanKeeps ==
    ASSUME TopologyInv, Topology!WaitForOutputs \/ Topology!Stable \/ Topology!Drain,
           UNCHANGED desk
    PROVE  TopologyInv'
<1>1. /\ UNCHANGED <<connected, scanouts, powered, resident, rebased, hdr, alive>>
      /\ UNCHANGED (Closed(applied) = 1)
      /\ guard' = Topology!Observed.guard
      /\ disconnected' \in {TRUE, FALSE, disconnected /\ Topology!Observed.held}
      /\ dirty' \in BOOLEAN /\ kms' \in {kms, FALSE}
      /\ dirty' \/ Topology!Observed.held \/ Topology!Wanted = scanouts
  BY Zenon DEF Topology!WaitForOutputs, Topology!Stable, Topology!Drain
<1>2. guard' \in Guards
  BY <1>1, Observing, Typed
<1>3. desk' \in Desks /\ (connected \subseteq desk.outputs)' /\ Topology!TypeOK'
  <2>1. disconnected' \in BOOLEAN /\ kms' \in BOOLEAN
    BY <1>1, Typed, Zenon
  <2> QED
    BY <1>1, <1>2, <2>1, Typed, TypesFollow
<1>4. Held'
  <2>1. CASE dirty'
    BY <2>1 DEF Held, Topology!RescanDue
  <2>2. CASE Topology!Observed.held
    BY <1>1, <2>2, Observing, Steady, Typed DEF Held
  <2>3. CASE Topology!Wanted = scanouts
    BY <1>1, <2>3, Steady DEF Held
  <2> QED
    BY <1>1, <2>1, <2>2, <2>3
<1>5. AsleepParked'
  <2> SUFFICES ASSUME NEW o \in Outputs, Sole(o)'
               PROVE  (/\ ~kms /\ ~resident
                       /\ \E x \in Outputs : scanouts \subseteq {x}
                       /\ rebased => scanouts = powered
                       /\ o \in scanouts \ powered => o \in guard.parked)'
    BY DEF AsleepParked
  <2>1. /\ ~kms /\ ~resident /\ (\E x \in Outputs : scanouts \subseteq {x})
        /\ rebased => scanouts = powered
    BY DEF TopologyInv, AsleepParked, Sole
  <2>2. (o \in scanouts \ powered => o \in guard.parked)'
    BY <1>1, StillParked
  <2>3. ~kms'
    BY <1>1, <2>1, Typed, Zenon
  <2> QED
    BY <1>1, <2>1, <2>2, <2>3
<1> QED
  BY <1>3, <1>4, <1>5 DEF TopologyInv

(* A rebuild lights what is wanted; a sleeping monitor alone is no reason   *)
(* for one.                                                                 *)
LEMMA ReconfigureKeeps ==
    ASSUME TopologyInv, Topology!Reconfigure, UNCHANGED desk
    PROVE  TopologyInv'
<1>1. /\ UNCHANGED <<connected, hdr, alive>> /\ UNCHANGED (Closed(applied) = 1)
      /\ guard' = Topology!Observed.guard /\ disconnected' = FALSE
      /\ scanouts' = Topology!Wanted /\ powered' = Topology!Wanted \ (scanouts \ powered)
      /\ dirty' = FALSE /\ kms' = FALSE /\ resident' = FALSE /\ rebased' = FALSE
      /\ Topology!Wanted # {}
      /\ Topology!Wanted # scanouts \/ Topology!RebasedNow \/ kms \/ resident
  BY Zenon DEF Topology!Reconfigure, Topology!Reconfigures
<1>2. guard' \in Guards
  BY <1>1, Observing, Typed
<1>3. desk' \in Desks /\ (connected \subseteq desk.outputs)' /\ Topology!TypeOK'
  BY <1>1, <1>2, Typed, TypesFollow, Zenon
<1>4. Held'
  BY <1>1, Steady DEF Held
<1>5. AsleepParked'
  <2> SUFFICES ASSUME NEW o \in Outputs, Sole(o)'
               PROVE  (/\ \E x \in Outputs : scanouts \subseteq {x}
                       /\ o \in scanouts \ powered => o \in guard.parked)'
    BY <1>1 DEF AsleepParked
  <2>1. Sole(o)
    BY DEF Sole
  <2>2. PICK x : Topology!Wanted \subseteq {x}
    BY <2>1, SoleWanted, Typed
  <2>3. Topology!Wanted = {x} /\ x \in Outputs
    BY <1>1, <2>2, Typed
  <2>4. ~ (o \in scanouts \ powered)'
    <3> SUFFICES ASSUME o \in Topology!Wanted, o \in scanouts \ powered
                 PROVE  FALSE
      BY <1>1
    <3>1. scanouts = {o} /\ ~Topology!RebasedNow /\ ~kms /\ ~resident
      BY <2>1, AsleepObserved, Typed
    <3> QED
      BY <1>1, <2>3, <3>1
  <2> QED
    BY <1>1, <2>3, <2>4
<1> QED
  BY <1>3, <1>4, <1>5 DEF TopologyInv

LEMMA ReconfigureFailsKeeps ==
    ASSUME TopologyInv, Topology!ReconfigureFails, UNCHANGED desk
    PROVE  TopologyInv'
<1>1. /\ UNCHANGED <<connected, scanouts, powered>>
      /\ guard' = Topology!Observed.guard /\ disconnected' = FALSE /\ resident' = FALSE
      /\ hdr' \in {hdr, FALSE} /\ alive' \in {alive, FALSE} /\ dirty' \in BOOLEAN
      /\ dirty' \/ ~alive'
      /\ (kms /\ kms' = TRUE) \/ kms' = FALSE
      /\ rebased' = rebased \/ (Topology!RebasedNow /\ rebased' = TRUE)
  BY Zenon DEF Topology!ReconfigureFails
<1>2. guard' \in Guards
  BY <1>1, Observing, Typed
<1>3. desk' \in Desks /\ (connected \subseteq desk.outputs)' /\ Topology!TypeOK'
  <2>1. kms' \in BOOLEAN /\ rebased' \in BOOLEAN /\ hdr' \in BOOLEAN /\ alive' \in BOOLEAN
    BY <1>1, Typed, Zenon
  <2> QED
    BY <1>1, <1>2, <2>1, Typed, TypesFollow, Zenon
<1>4. Held'
  BY <1>1 DEF Held, Topology!RescanDue
<1>5. AsleepParked'
  <2> SUFFICES ASSUME NEW o \in Outputs, Sole(o)'
               PROVE  (/\ ~kms /\ ~resident
                       /\ \E x \in Outputs : scanouts \subseteq {x}
                       /\ rebased => scanouts = powered
                       /\ o \in scanouts \ powered => o \in guard.parked)'
    BY DEF AsleepParked
  <2>1. /\ ~kms /\ ~resident /\ (\E x \in Outputs : scanouts \subseteq {x})
        /\ rebased => scanouts = powered
    BY DEF TopologyInv, AsleepParked, Sole
  <2>2. Topology!RebasedNow => scanouts = powered
    BY <2>1, Typed DEF Topology!RebasedNow
  <2>3. (o \in scanouts \ powered => o \in guard.parked)'
    BY <1>1, StillParked
  <2> QED
    BY <1>1, <2>1, <2>2, <2>3
<1> QED
  BY <1>3, <1>4, <1>5 DEF TopologyInv

(* The same screens, the same connectors, the same lid. *)
LEMMA StutterKeeps ==
    ASSUME TopologyInv, UNCHANGED <<desk, topology>>, UNCHANGED (Closed(applied) = 1)
    PROVE  TopologyInv'
<1>1. UNCHANGED <<connected, scanouts, powered, guard, dirty, kms, resident, rebased,
                  disconnected, hdr, alive>>
  BY Zenon DEF topology
<1>2. desk' \in Desks /\ (connected \subseteq desk.outputs)' /\ Topology!TypeOK'
  BY <1>1, Typed, TypesFollow
<1>3. Held'
  BY <1>1, Steady DEF TopologyInv, Held, Topology!RescanDue, Topology!RebasedNow
<1>4. AsleepParked'
  BY <1>1 DEF TopologyInv, AsleepParked, Sole
<1> QED
  BY <1>2, <1>3, <1>4 DEF TopologyInv

LEMMA TopologyStarts == Topology!Init => TopologyInv
<1> SUFFICES ASSUME Topology!Init PROVE TopologyInv
  OBVIOUS
<1>1. /\ desk \in Desks /\ connected = desk.outputs
      /\ scanouts = Topology!Wanted /\ powered = Topology!Wanted
      /\ guard = Topology!Fresh
      /\ dirty = FALSE /\ kms = FALSE /\ resident = FALSE /\ rebased = FALSE
      /\ disconnected = FALSE /\ hdr \in BOOLEAN /\ alive = TRUE
  BY Zenon DEF Topology!Init
<1>2. desk \in Topology!Desk /\ desk.outputs \subseteq Outputs
  BY <1>1, TopologyAssumption DEF Topology!Desk
<1>3. Topology!Wanted \subseteq Outputs
  BY <1>1, <1>2, WantedIsConnected
<1>4. /\ guard \in [parked : SUBSET Outputs, waking : SUBSET Outputs,
                    grace : 0 .. Topology!Never, deferred : BOOLEAN]
      /\ guard.grace = Topology!Never /\ guard.waking = {} /\ guard.parked = {}
  BY <1>1, TopologyAssumption DEF Topology!Fresh, Topology!Never
<1>5. Topology!TypeOK
  BY <1>1, <1>2, <1>3, <1>4, Zenon DEF Topology!TypeOK
<1>6. Held
  BY <1>1 DEF Held
<1>7. AsleepParked
  <2> SUFFICES ASSUME NEW o \in Outputs, Sole(o)
               PROVE  \E x \in Outputs : scanouts \subseteq {x}
    BY <1>1 DEF AsleepParked
  <2>1. PICK x : Topology!Wanted \subseteq {x}
    BY <1>1, <1>2, SoleWanted
  <2> QED
    BY <1>1, <1>3, <2>1
<1> QED
  BY <1>1, <1>5, <1>6, <1>7 DEF TopologyInv

LEMMA TopologyKeeps ==
    ASSUME TopologyInv, [Topology!Next]_(Topology!vars)
    PROVE  TopologyInv'
<1>1. CASE UNCHANGED Topology!vars
  <2>1. UNCHANGED <<desk, topology>> /\ UNCHANGED (Closed(applied) = 1)
    BY <1>1 DEF Topology!vars, topology
  <2> QED
    BY <2>1, StutterKeeps
<1>2. CASE Topology!Next
  <2>1. UNCHANGED desk
    BY <1>2 DEF Topology!Next
  <2>2. \/ \E o \in Outputs : Topology!ConnectorChange(o)
        \/ Topology!MoveLid
        \/ Topology!RequestRebuild \/ Topology!Rebase
        \/ \E o \in Outputs : Topology!PowerOff(o) \/ Topology!PowerOn(o)
        \/ Topology!ServiceDeadline \/ Topology!Tick
        \/ Topology!WaitForOutputs \/ Topology!Stable \/ Topology!Drain
        \/ Topology!Reconfigure \/ Topology!ReconfigureFails
    BY <1>2, Zenon DEF Topology!Next, Topology!Step
  <2> QED
    BY <2>1, <2>2, ConnectorChangeKeeps, MoveLidKeeps, RequestsKeep, PowerKeeps, GraceKeeps,
       RescanKeeps, ReconfigureKeeps, ReconfigureFailsKeeps, Zenon
<1> QED
  BY <1>1, <1>2

-----------------------------------------------------------------------------
(* The composition: a step of it is a step of the lid's part or leaves that *)
(* alone, and the same for the topology; a position that is applied and was *)
(* known leaves the topology alone.                                         *)
LEMMA LidSteps ==
    ASSUME [LidNext]_all
    PROVE  /\ [Next]_vars /\ [Topology!Next]_(Topology!vars) /\ UNCHANGED desk
           /\ \/ MoveLid \/ Leave \/ Return \/ NoteToggle \/ NoteReading \/ Apply
              \/ \E r \in readers : Read(r) \/ Send(r)
              \/ UNCHANGED vars
              \/ desk.failing
<1>1. ASSUME UNCHANGED <<desk, topology>>, UNCHANGED (Closed(applied) = 1)
      PROVE  UNCHANGED Topology!vars
  BY <1>1 DEF Topology!vars, topology
<1>2. ASSUME UNCHANGED applied
      PROVE  UNCHANGED (Closed(applied) = 1)
  BY <1>2
<1>3. CASE UNCHANGED all
  <2>1. UNCHANGED vars /\ UNCHANGED desk /\ UNCHANGED topology
    BY <1>3 DEF all
  <2>2. UNCHANGED applied
    BY <2>1 DEF vars
  <2> QED
    BY <1>1, <1>2, <2>1, <2>2
<1>4. CASE LidNext
  <2>1. UNCHANGED desk
    BY <1>4 DEF LidNext
  <2>2. CASE LidStep /\ UNCHANGED topology
    <3>1. \/ MoveLid \/ Leave \/ NoteToggle \/ NoteReading
          \/ \E r \in readers : Read(r) \/ Send(r)
          \/ desk.failing /\ \E r \in readers : ReadFails(r)
      BY <2>2, Zenon DEF LidStep, Reader
    <3>2. UNCHANGED applied
      BY <3>1, Zenon DEF MoveLid, Leave, NoteToggle, NoteReading, Read, Send, ReadFails
    <3>3. Next
      BY <3>1, Zenon DEF Next
    <3>4. UNCHANGED Topology!vars
      BY <1>1, <1>2, <2>1, <2>2, <3>2
    <3> QED
      BY <2>1, <3>1, <3>3, <3>4, Zenon
  <2>3. CASE ApplyPending
    <3>1. Apply /\ applied' = pending /\ Next
      BY <2>3, Zenon DEF ApplyPending, Apply, Next
    <3>2. CASE Closed(pending) = Closed(applied)
      <4>1. UNCHANGED topology
        BY <2>3, <3>2 DEF ApplyPending
      <4>2. UNCHANGED (Closed(applied) = 1)
        BY <3>1, <3>2 DEF Closed
      <4> QED
        BY <1>1, <2>1, <3>1, <4>1, <4>2, Zenon
    <3>3. CASE Closed(pending) # Closed(applied)
      <4>1. Topology!Next
        BY <2>1, <2>3, <3>3, Zenon DEF ApplyPending, Topology!Next
      <4> QED
        BY <2>1, <3>1, <4>1, Zenon
    <3> QED
      BY <3>2, <3>3
  <2>4. CASE ComeBack
    <3>1. Return /\ Next /\ UNCHANGED applied
      BY <2>4, Zenon DEF ComeBack, Return, Next
    <3>2. CASE UNCHANGED topology
      BY <1>1, <1>2, <2>1, <3>1, <3>2, Zenon
    <3>3. CASE Topology!Rebase
      BY <2>1, <3>1, <3>3, Zenon DEF Topology!Next, Topology!Step
    <3> QED
      BY <2>4, <3>2, <3>3 DEF ComeBack
  <2>5. CASE UNCHANGED vars /\ Topology!Step
    BY <2>1, <2>5, Zenon DEF Topology!Next
  <2> QED
    BY <1>4, <2>2, <2>3, <2>4, <2>5, Zenon DEF LidNext
<1> QED
  BY <1>3, <1>4

(* The composition implements its two parts: what is shown of the lid or of *)
(* the topology alone holds of them together.                               *)
THEOREM CompositionImplements == LidSpec => Spec /\ Topology!Spec
<1>1. LidInit => Init /\ Topology!Init
  BY DEF LidInit
<1>2. [LidNext]_all => [Next]_vars /\ [Topology!Next]_(Topology!vars)
  BY LidSteps
<1> QED
  BY <1>1, <1>2, PTL DEF LidSpec, Spec, Topology!Spec

(* A difference between what is lit and what should be is never forgotten,  *)
(* whatever connectors, lid, power gate, requests and failures do: a rescan *)
(* is due, or the guard remembers the removal.                              *)
THEOREM RemovalsAreRemembered == LidSpec => [](Topology!TypeOK /\ Topology!Remembered)
<1>1. TopologyInv => Topology!TypeOK /\ Topology!Remembered
  <2> SUFFICES ASSUME TopologyInv PROVE Topology!TypeOK /\ Topology!Remembered
    OBVIOUS
  <2>1. Topology!TypeOK /\ Held
    BY DEF TopologyInv
  <2>2. guard.grace = Topology!Never => guard.waking = {}
    BY <2>1 DEF Topology!TypeOK
  <2> QED
    BY <2>1, <2>2 DEF Held, Topology!Remembered
<1>2. LidInit => TopologyInv
  BY TopologyStarts DEF LidInit
<1>3. TopologyInv /\ [LidNext]_all => TopologyInv'
  BY LidSteps, TopologyKeeps
<1> QED
  BY <1>1, <1>2, <1>3, PTL DEF LidSpec

(* A monitor that drops its connector while asleep keeps its scanout where  *)
(* it is alone beside panels that are off and nothing asks for a rebuild,   *)
(* for any outputs, any preferences and any lid: only a rebuild takes       *)
(* scanouts, and the guard, which knows the monitor, holds it back.         *)
THEOREM SleepingMonitorStays == LidSpec => AsleepKept
<1> DEFINE A == Panels \subseteq desk.disabled /\ desk.requests = {}
                => \A o \in (scanouts \ powered) \ connected :
                      desk.outputs \ Panels = {o} => o \in scanouts'
<1>1. LidInit => TopologyInv
  BY TopologyStarts DEF LidInit
<1>2. TopologyInv /\ [LidNext]_all => TopologyInv'
  BY LidSteps, TopologyKeeps
<1>3. TopologyInv /\ [LidNext]_all => [A]_(Topology!vars)
  <2> SUFFICES ASSUME TopologyInv, [LidNext]_all,
                      NEW o \in (scanouts \ powered) \ connected,
                      Panels \subseteq desk.disabled /\ desk.requests = {},
                      desk.outputs \ Panels = {o}, ~UNCHANGED Topology!vars
               PROVE  o \in scanouts'
    OBVIOUS
  <2>1. Topology!Next
    BY LidSteps
  <2>2. UNCHANGED scanouts \/ Topology!Reconfigure
    BY <2>1, Zenon DEF Topology!Next, Topology!Step, Topology!ConnectorChange, Topology!MoveLid,
       Topology!RequestRebuild, Topology!Rebase, Topology!PowerOff, Topology!PowerOn,
       Topology!ServiceDeadline, Topology!Tick, Topology!WaitForOutputs, Topology!Stable,
       Topology!Drain, Topology!ReconfigureFails
  <2>3. o \in Outputs /\ Sole(o)
    BY Typed DEF Sole
  <2>4. Topology!Observed.held
    BY <2>3, AsleepObserved, Typed
  <2>5. ~Topology!Reconfigure
    BY <2>4, Zenon DEF Topology!Reconfigure, Topology!Reconfigures
  <2> QED
    BY <2>2, <2>5
<1>4. LidSpec => [][A]_(Topology!vars)
  <2> HIDE DEF A
  <2> QED
    BY <1>1, <1>2, <1>3, PTL DEF LidSpec
<1> QED
  BY <1>4 DEF AsleepKept, Topology!AsleepKept

(* Once every toggle and reading has arrived and no rescan is due or held   *)
(* back, what is lit is what the policy wants for the lid where it really   *)
(* is, for any outputs, desks, moves and interleaving.                      *)
THEOREM LidIsFollowed == LidSpec => []PanelsFollowLid
<1> DEFINE Told == ~desk.failing => Truth
<1>1. LidInit => LidInv /\ TopologyInv /\ Told
  <2>1. Init => Truth
    BY DEF Init, Truth, Underway, Believed
  <2> QED
    BY <2>1, LidStarts, TopologyStarts DEF LidInit
<1>2. LidInv /\ TopologyInv /\ Told /\ [LidNext]_all => (LidInv /\ TopologyInv /\ Told)'
  <2> SUFFICES ASSUME LidInv, TopologyInv, Told, [LidNext]_all
               PROVE  (LidInv /\ TopologyInv /\ Told)'
    OBVIOUS
  <2>1. LidInv' /\ TopologyInv'
    BY LidSteps, LidKeeps, TopologyKeeps
  <2>2. Told'
    BY LidSteps, TruthKeeps
  <2> QED
    BY <2>1, <2>2
<1>3. LidInv /\ TopologyInv /\ Told => PanelsFollowLid
  <2> SUFFICES ASSUME LidInv, TopologyInv, Told,
                      alive /\ Settled /\ ~desk.failing /\ returns <= 1,
                      ~Topology!RescanDue /\ ~guard.deferred
               PROVE  scanouts = Topology!WantedFor(Closed(moves) = 1)
    BY DEF PanelsFollowLid
  <2>1. Underway = {}
    BY DEF Settled, Underway
  <2>2. applied = moves
    BY <2>1 DEF Truth, Settled, Believed
  <2>3. scanouts = Topology!Wanted
    BY DEF TopologyInv, Held
  <2> QED
    BY <2>2, <2>3 DEF Topology!Wanted
<1> HIDE DEF Told
<1> QED
  BY <1>1, <1>2, <1>3, PTL DEF LidSpec

(* No reading overwrites a newer toggle in the composition either, where    *)
(* rescans and a change of VT come in between.                              *)
THEOREM ToggleWinsWithTopology == LidSpec => []ToggleWins
  BY CompositionImplements, ToggleAlwaysWins, PTL

-----------------------------------------------------------------------------
(* System sleep: SleepTransition, for any outputs, any length of the        *)
(* transition queue and any number of sleeps, lost connections, presses and *)
(* refusals.  Outputs sleep dark and are given back, and no resume is lost. *)

(* What logind said last, as far as the compositor will learn of it: still  *)
(* on the bus, in the monitor's hands, in the queue, or acted on.           *)
Latest ==
    IF bus # <<>> THEN bus[Len(bus)].kind
    ELSE IF monitor \in {"arming", "armed"} THEN "Resumed"
    ELSE IF queue # <<>> THEN queue[Len(queue)].kind
    ELSE IF sleep.preparing THEN "Preparing" ELSE "Resumed"

(* While the connection holds, the last word of an awake machine is that it *)
(* resumed, and before the first connection there is none.                  *)
ResumeKnown ==
    losses = 0 =>
       /\ monitor = "connecting" => bus = <<>> /\ queue = <<>> /\ ~sleep.preparing
       /\ phase = "awake" => Latest = "Resumed"

(* Until the user presses the button nothing is lit that was to be dark,    *)
(* and once the inhibitor was let go it is dark.                            *)
Darkening ==
    sleep.preparing /\ presses = 0 =>
       /\ wasLit \subseteq sleep.blanking
       /\ \A o \in Scanouts : requests[o] # "on"
       /\ ~sleep.pending => wasLit \cap poweredOn = {}

SleepInv == SleepTypeOK /\ ResumeKnown /\ Darkening /\ RestoreKept

-----------------------------------------------------------------------------
(* The transitions that announcements carry. *)
LEMMA TransitionTypes ==
    /\ Resumed \in Transitions /\ Resumed.kind = "Resumed"
    /\ \A n \in 0 .. MaxCycles : Preparing(n) \in Transitions /\ Preparing(n).kind = "Preparing"
  BY BoundsAssumption DEF Resumed, Preparing, Transitions

(* What is appended is last, and what follows the head keeps its last. *)
LEMMA LastOfSequence ==
    ASSUME NEW s \in Seq(Transitions), NEW t \in Transitions
    PROVE  /\ Append(s, t) \in Seq(Transitions) /\ Append(s, t) # <<>>
           /\ Append(s, t)[Len(Append(s, t))] = t /\ Len(Append(s, t)) = Len(s) + 1
           /\ s # <<>> => /\ Tail(s) \in Seq(Transitions) /\ Head(s) \in Transitions
                          /\ Len(Tail(s)) = Len(s) - 1
                          /\ Tail(s) # <<>> => Tail(s)[Len(Tail(s))] = s[Len(s)]
                          /\ Tail(s) = <<>> => Head(s) = s[Len(s)]
<1>1. /\ Append(s, t) \in Seq(Transitions) /\ Append(s, t) # <<>>
      /\ Append(s, t)[Len(Append(s, t))] = t /\ Len(Append(s, t)) = Len(s) + 1
  OBVIOUS
<1>2. ASSUME s # <<>>
      PROVE  /\ Tail(s) \in Seq(Transitions) /\ Head(s) \in Transitions
             /\ Len(Tail(s)) = Len(s) - 1
  BY <1>2
<1>3. ASSUME s # <<>>, Tail(s) # <<>> PROVE Tail(s)[Len(Tail(s))] = s[Len(s)]
  BY <1>3
<1>4. ASSUME s # <<>>, Tail(s) = <<>> PROVE Head(s) = s[Len(s)]
  <2> DEFINE rest == Tail(s)
  <2>1. rest = <<>> /\ Len(rest) = Len(s) - 1 /\ Len(s) \in Nat
    BY <1>2, <1>4
  <2> HIDE DEF rest
  <2>2. Len(s) = 1
    BY <2>1
  <2>3. QED
    BY <2>2
<1>5. QED
  BY <1>1, <1>2, <1>3, <1>4

(* The queue takes every transition, at the cost of the oldest one. *)
LEMMA PublishTakes ==
    ASSUME SleepTypeOK, NEW t \in Transitions, Publish(t)
    PROVE  /\ queue' \in Seq(Transitions) /\ Len(queue') <= MaxPending
           /\ queue' # <<>> /\ queue'[Len(queue')] = t
<1>1. queue \in Seq(Transitions) /\ Len(queue) <= MaxPending /\ Len(queue) \in Nat
  BY DEF SleepTypeOK
<1>2. CASE Len(queue) = MaxPending
  <2>1. queue # <<>> /\ queue' = Append(Tail(queue), t)
    BY <1>1, <1>2, BoundsAssumption DEF Publish
  <2>2. Tail(queue) \in Seq(Transitions) /\ Len(Tail(queue)) = MaxPending - 1
    BY <1>1, <1>2, <2>1, LastOfSequence
  <2>3. /\ queue' \in Seq(Transitions) /\ queue' # <<>> /\ queue'[Len(queue')] = t
        /\ Len(queue') = Len(Tail(queue)) + 1
    BY <2>1, <2>2, LastOfSequence
  <2>4. QED
    BY <2>2, <2>3, BoundsAssumption
<1>3. CASE Len(queue) # MaxPending
  <2>1. queue' = Append(queue, t)
    BY <1>3 DEF Publish
  <2>2. /\ queue' \in Seq(Transitions) /\ queue' # <<>> /\ queue'[Len(queue')] = t
        /\ Len(queue') = Len(queue) + 1
    BY <1>1, <2>1, LastOfSequence
  <2>3. QED
    BY <1>1, <1>3, <2>2, BoundsAssumption
<1>4. QED
  BY <1>2, <1>3

(* The initial states are in the invariant. *)
LEMMA SleepStarts == SleepInit => SleepInv
<1> SUFFICES ASSUME SleepInit PROVE SleepInv
  OBVIOUS
<1>1. /\ bus = <<>> /\ queue = <<>> /\ monitor = "connecting" /\ phase = "awake"
      /\ sleep = [preparing |-> FALSE, pending |-> FALSE, restore |-> {}, blanking |-> {}]
  BY DEF SleepInit
<1>2. SleepTypeOK
  <2>1. bus \in Seq(Transitions) /\ queue \in Seq(Transitions) /\ Len(queue) = 0
    BY <1>1
  <2>2. requests \in [Scanouts -> {"on", "off", "none"}]
    BY DEF SleepInit, Nothing
  <2>3. /\ cycle = 0 /\ inhibitor = 0 /\ pc = "sync" /\ own = 0 /\ wasLit = {}
        /\ poweredOn = Scanouts /\ locked = FALSE /\ presses = 0 /\ losses = 0 /\ refusals = 0
    BY DEF SleepInit
  <2>4. /\ 0 \in 0 .. MaxCycles /\ 0 \in 0 .. MaxCycles + 1 /\ 0 \in 0 .. MaxPresses
        /\ 0 \in 0 .. MaxLosses /\ 0 \in 0 .. MaxRefusals /\ 0 <= MaxPending
    BY BoundsAssumption
  <2>5. QED
    BY <1>1, <2>1, <2>2, <2>3, <2>4 DEF SleepTypeOK, MonitorSteps
<1>3. ResumeKnown
  BY <1>1 DEF ResumeKnown, Latest
<1>4. Darkening /\ RestoreKept
  BY <1>1 DEF Darkening, RestoreKept
<1>5. QED
  BY <1>2, <1>3, <1>4 DEF SleepInv

-----------------------------------------------------------------------------
(* logind and the monitor do not touch the outputs. *)
LEMMA DisplayKept ==
    ASSUME SleepInv, UNCHANGED <<compositor, display>>
    PROVE  Darkening' /\ RestoreKept'
  BY DEF SleepInv, compositor, display, Darkening, RestoreKept

LEMMA LogindKeeps ==
    ASSUME SleepInv, Announce \/ FallAsleep \/ Wake
    PROVE  SleepInv'
<1>1. /\ UNCHANGED <<compositor, display>> /\ UNCHANGED <<monitor, inhibitor, queue, losses>>
  BY DEF Announce, FallAsleep, Wake
<1>2. UNCHANGED <<sleep, pc, own, wasLit, requests, poweredOn, locked, presses, refusals>>
  BY <1>1 DEF compositor, display
<1>3. cycle \in 0 .. MaxCycles /\ MaxCycles \in Nat /\ bus \in Seq(Transitions)
  BY BoundsAssumption DEF SleepInv, SleepTypeOK
<1>4. ASSUME NEW t \in Transitions, Deliver(t)
      PROVE  /\ bus' \in Seq(Transitions)
             /\ monitor = "connecting" => bus' = bus
             /\ monitor # "connecting" => bus' # <<>> /\ bus'[Len(bus')] = t
  BY <1>3, <1>4, LastOfSequence DEF Deliver
<1>5. /\ phase' \in {"awake", "preparing", "asleep"} /\ cycle' \in 0 .. MaxCycles
      /\ bus' \in Seq(Transitions) /\ (monitor = "connecting" => bus' = bus)
  <2>1. CASE Announce
    <3>1. cycle + 1 \in 0 .. MaxCycles /\ cycle' = cycle + 1 /\ Deliver(Preparing(cycle + 1))
          /\ phase' = "preparing"
      BY <1>3, <2>1 DEF Announce
    <3>2. QED
      BY <1>4, <3>1, TransitionTypes
  <2>2. CASE FallAsleep
    BY <1>3, <2>2 DEF FallAsleep
  <2>3. CASE Wake
    <3>1. cycle' = cycle /\ Deliver(Resumed) /\ phase' = "awake"
      BY <2>3 DEF Wake
    <3>2. QED
      BY <1>3, <1>4, <3>1, TransitionTypes
  <2>4. QED
    BY <2>1, <2>2, <2>3
<1>6. SleepTypeOK'
  BY <1>1, <1>2, <1>5 DEF SleepInv, SleepTypeOK
<1>7. ResumeKnown'
  <2> SUFFICES ASSUME losses = 0
               PROVE  /\ monitor = "connecting" => bus' = <<>> /\ queue = <<>> /\ ~sleep.preparing
                      /\ phase' = "awake" => Latest' = "Resumed"
    BY <1>1, <1>2 DEF ResumeKnown
  <2>1. monitor = "connecting" => bus' = <<>> /\ queue = <<>> /\ ~sleep.preparing
    BY <1>5 DEF SleepInv, ResumeKnown
  <2>2. ASSUME phase' = "awake" PROVE Latest' = "Resumed"
    <3>1. Wake
      BY <2>2 DEF Announce, FallAsleep, Wake
    <3>2. Deliver(Resumed)
      BY <3>1 DEF Wake
    <3>3. CASE monitor = "connecting"
      BY <1>1, <1>2, <2>1, <3>3 DEF Latest
    <3>4. CASE monitor # "connecting"
      BY <1>4, <3>2, <3>4, TransitionTypes DEF Latest
    <3>5. QED
      BY <3>3, <3>4
  <2>3. QED
    BY <2>1, <2>2
<1>8. QED
  BY <1>1, <1>6, <1>7, DisplayKept DEF SleepInv

(* The monitor passes every word on, in order. *)
LEMMA MonitorKeeps ==
    ASSUME SleepInv, Subscribe \/ AcquireSleepDelay \/ ReadSignal \/ PublishResumed \/ Disconnect
    PROVE  SleepInv'
<1>1. UNCHANGED <<compositor, display>> /\ UNCHANGED logind
  BY DEF Subscribe, AcquireSleepDelay, ReadSignal, PublishResumed, Disconnect
<1>2. UNCHANGED <<sleep, pc, own, wasLit, requests, poweredOn, locked, presses, refusals,
                  phase, cycle>>
  BY <1>1 DEF compositor, display, logind
<1>3. /\ bus \in Seq(Transitions) /\ queue \in Seq(Transitions) /\ Len(queue) <= MaxPending
      /\ cycle \in 0 .. MaxCycles /\ MaxCycles \in Nat
      /\ losses \in 0 .. MaxLosses /\ MaxLosses \in Nat
  BY BoundsAssumption DEF SleepInv, SleepTypeOK
<1>4. SUFFICES SleepTypeOK' /\ ResumeKnown'
  BY <1>1, DisplayKept DEF SleepInv
<1>5. CASE Subscribe
  <2>1. SleepTypeOK'
    BY <1>2, <1>5 DEF Subscribe, SleepInv, SleepTypeOK, MonitorSteps
  <2>2. ResumeKnown'
    BY <1>2, <1>5 DEF Subscribe, SleepInv, ResumeKnown, Latest
  <2>3. QED
    BY <2>1, <2>2
<1>6. CASE AcquireSleepDelay
  <2>1. cycle + 1 \in 0 .. MaxCycles + 1
    BY <1>3
  <2>2. SleepTypeOK'
    BY <1>2, <1>6, <2>1 DEF AcquireSleepDelay, SleepInv, SleepTypeOK, MonitorSteps
  <2>3. ResumeKnown'
    BY <1>2, <1>6 DEF AcquireSleepDelay, SleepInv, ResumeKnown, Latest
  <2>4. QED
    BY <2>2, <2>3
<1>7. CASE ReadSignal
  <2>1. /\ monitor = "reading" /\ bus # <<>> /\ bus' = Tail(bus)
        /\ UNCHANGED <<inhibitor, losses>>
    BY <1>7 DEF ReadSignal
  <2>2. /\ bus' \in Seq(Transitions) /\ Head(bus) \in Transitions
        /\ bus' # <<>> => bus'[Len(bus')] = bus[Len(bus)]
        /\ bus' = <<>> => Head(bus) = bus[Len(bus)]
    BY <1>3, <2>1, TransitionTypes, LastOfSequence
  <2>3. CASE Head(bus).kind = "Preparing"
    <3>1. Publish(Head(bus)) /\ monitor' = monitor
      BY <1>7, <2>3 DEF ReadSignal
    <3>2. /\ queue' \in Seq(Transitions) /\ Len(queue') <= MaxPending
          /\ queue' # <<>> /\ queue'[Len(queue')] = Head(bus)
      BY <2>2, <3>1, PublishTakes DEF SleepInv
    <3>3. SleepTypeOK'
      BY <1>2, <2>1, <2>2, <3>1, <3>2 DEF SleepInv, SleepTypeOK
    <3>4. ResumeKnown'
      BY <1>2, <2>1, <2>2, <3>1, <3>2 DEF SleepInv, ResumeKnown, Latest
    <3>5. QED
      BY <3>3, <3>4
  <2>4. CASE Head(bus).kind # "Preparing"
    <3>1. monitor' = "arming" /\ queue' = queue
      BY <1>7, <2>4 DEF ReadSignal
    <3>2. SleepTypeOK'
      BY <1>2, <2>1, <2>2, <3>1 DEF SleepInv, SleepTypeOK, MonitorSteps
    <3>3. ResumeKnown'
      BY <1>2, <2>1, <2>2, <3>1 DEF SleepInv, ResumeKnown, Latest
    <3>4. QED
      BY <3>2, <3>3
  <2>5. QED
    BY <2>3, <2>4
<1>8. CASE PublishResumed
  <2>1. /\ monitor = "armed" /\ monitor' = "reading" /\ Publish(Resumed)
        /\ UNCHANGED <<bus, inhibitor, losses>>
    BY <1>8 DEF PublishResumed
  <2>2. /\ queue' \in Seq(Transitions) /\ Len(queue') <= MaxPending
        /\ queue' # <<>> /\ queue'[Len(queue')] = Resumed
    BY <2>1, TransitionTypes, PublishTakes DEF SleepInv
  <2>3. SleepTypeOK'
    BY <1>2, <2>1, <2>2 DEF SleepInv, SleepTypeOK, MonitorSteps
  <2>4. ResumeKnown'
    BY <1>2, <2>1, <2>2, TransitionTypes DEF SleepInv, ResumeKnown, Latest
  <2>5. QED
    BY <2>3, <2>4
<1>9. CASE Disconnect
  <2>1. /\ losses < MaxLosses /\ losses' = losses + 1 /\ monitor' = "connecting"
        /\ bus' = <<>> /\ inhibitor' = 0 /\ queue' = queue
    BY <1>9 DEF Disconnect
  <2>2. losses' \in 0 .. MaxLosses /\ losses' # 0 /\ 0 \in 0 .. MaxCycles + 1
    BY <1>3, <2>1
  <2>3. bus' \in Seq(Transitions)
    BY <2>1
  <2>4. SleepTypeOK'
    BY <1>2, <2>1, <2>2, <2>3 DEF SleepInv, SleepTypeOK, MonitorSteps
  <2>5. ResumeKnown'
    BY <2>2 DEF ResumeKnown
  <2>6. QED
    BY <2>4, <2>5
<1>10. QED
  BY <1>5, <1>6, <1>7, <1>8, <1>9

-----------------------------------------------------------------------------
(* The compositor. *)

(* logind and the monitor are not touched by the display. *)
LEMMA ConnectionKept ==
    ASSUME SleepInv, UNCHANGED <<bus, monitor, queue, losses, phase>>,
           sleep'.preparing = sleep.preparing
    PROVE  ResumeKnown'
  BY DEF SleepInv, ResumeKnown, Latest

LEMMA QueueTypes ==
    ASSUME SleepTypeOK, NEW set, NEW power \in {"on", "off"}
    PROVE  /\ Queue(set, power) \in [Scanouts -> {"on", "off", "none"}]
           /\ \A o \in Scanouts : Queue(set, power)[o] = IF o \in set THEN power ELSE requests[o]
  BY DEF SleepTypeOK, Queue

LEMMA SynchronizeKeeps ==
    ASSUME SleepInv, Synchronize
    PROVE  SleepInv'
<1>1. /\ pc' = "apply" /\ UNCHANGED <<bus, monitor, inhibitor, losses, poweredOn, presses, refusals>>
      /\ UNCHANGED <<phase, cycle>>
  BY DEF Synchronize, logind
<1>2. queue \in Seq(Transitions) /\ Len(queue) <= MaxPending /\ MaxPending \in Nat
  BY BoundsAssumption DEF SleepInv, SleepTypeOK
<1>3. LitSoon \subseteq Scanouts /\ poweredOn \subseteq Scanouts
  BY DEF SleepInv, SleepTypeOK, LitSoon
<1>4. CASE queue = <<>>
  <2>1. UNCHANGED <<queue, sleep, own, wasLit, requests, locked>>
    BY <1>4, Zenon DEF Synchronize
  <2>2. SleepTypeOK'
    BY <1>1, <2>1 DEF SleepInv, SleepTypeOK
  <2>3. Darkening' /\ RestoreKept' /\ ResumeKnown'
    BY <1>1, <2>1, ConnectionKept DEF SleepInv, Darkening, RestoreKept
  <2>4. QED
    BY <2>2, <2>3 DEF SleepInv
<1>5. CASE queue # <<>>
  <2>1. queue' = Tail(queue) /\ locked' = TRUE
    BY <1>5 DEF Synchronize, EnsureSessionLocked
  <2>2. /\ queue' \in Seq(Transitions) /\ Head(queue) \in Transitions
        /\ Len(queue') = Len(queue) - 1
        /\ queue' # <<>> => queue'[Len(queue')] = queue[Len(queue)]
        /\ queue' = <<>> => Head(queue) = queue[Len(queue)]
    BY <1>2, <1>5, <2>1, TransitionTypes, LastOfSequence
  <2>3. Len(queue') <= MaxPending
    BY <1>2, <2>2
  <2>4. Head(queue).of \in 0 .. MaxCycles /\ Head(queue).kind \in {"Preparing", "Resumed"}
    BY <2>2 DEF Transitions
  <2>5. CASE Head(queue).kind = "Preparing" /\ sleep.preparing
    <3>1. UNCHANGED <<sleep, own, wasLit, requests>>
      BY <1>5, <2>5 DEF Synchronize, Prepare
    <3>2. SleepTypeOK'
      BY <1>1, <2>1, <2>2, <2>3, <3>1 DEF SleepInv, SleepTypeOK
    <3>3. Darkening' /\ RestoreKept'
      BY <1>1, <3>1 DEF SleepInv, Darkening, RestoreKept
    <3>4. ResumeKnown'
      BY <1>1, <1>5, <2>2, <2>5, <3>1 DEF SleepInv, ResumeKnown, Latest
    <3>5. QED
      BY <3>2, <3>3, <3>4 DEF SleepInv
  <2>6. CASE Head(queue).kind = "Preparing" /\ ~sleep.preparing
    <3>1. /\ sleep' = [preparing |-> TRUE, pending |-> TRUE, restore |-> LitSoon,
                       blanking |-> poweredOn \cup LitSoon]
          /\ requests' = Queue(poweredOn \cup LitSoon, "off")
          /\ own' = Head(queue).of /\ wasLit' = LitSoon
      BY <1>5, <2>6 DEF Synchronize, Prepare
    <3>2. requests' \in [Scanouts -> {"on", "off", "none"}]
      BY <3>1, QueueTypes DEF SleepInv
    <3>3. SleepTypeOK'
      BY <1>1, <1>3, <2>1, <2>2, <2>3, <2>4, <3>1, <3>2 DEF SleepInv, SleepTypeOK
    <3>4. \A o \in Scanouts : requests'[o] # "on"
      <4> DEFINE set == poweredOn \cup LitSoon
      <4>1. SleepTypeOK
        BY DEF SleepInv
      <4>2. \A o \in Scanouts : Queue(set, "off")[o] = IF o \in set THEN "off" ELSE requests[o]
        BY <4>1, QueueTypes
      <4>3. \A o \in Scanouts : requests[o] = "on" => o \in LitSoon
        BY DEF LitSoon
      <4> QED
        BY <3>1, <4>2, <4>3
    <3>5. Darkening' /\ RestoreKept'
      BY <3>1, <3>4 DEF Darkening, RestoreKept
    <3>6. ResumeKnown'
      BY <1>1, <1>5, <2>2, <2>6, <3>1 DEF SleepInv, ResumeKnown, Latest
    <3>7. QED
      BY <3>3, <3>5, <3>6 DEF SleepInv
  <2>7. CASE Head(queue).kind = "Resumed"
    <3>1. /\ sleep' = [preparing |-> FALSE, pending |-> FALSE, restore |-> {}, blanking |-> {}]
          /\ requests' = Queue(sleep.restore, "on") /\ UNCHANGED <<own, wasLit>>
      BY <1>5, <2>7 DEF Synchronize, Resume
    <3>2. requests' \in [Scanouts -> {"on", "off", "none"}]
      BY <3>1, QueueTypes DEF SleepInv
    <3>3. SleepTypeOK'
      BY <1>1, <2>1, <2>2, <2>3, <3>1, <3>2 DEF SleepInv, SleepTypeOK
    <3>4. Darkening' /\ RestoreKept'
      BY <3>1 DEF Darkening, RestoreKept
    <3>5. ResumeKnown'
      BY <1>1, <1>5, <2>2, <3>1 DEF SleepInv, ResumeKnown, Latest
    <3>6. QED
      BY <3>3, <3>4, <3>5 DEF SleepInv
  <2>8. QED
    BY <2>4, <2>5, <2>6, <2>7
<1>6. QED
  BY <1>4, <1>5

(* While a sleep is prepared, applying requests only darkens. *)
LEMMA ApplyKeeps ==
    ASSUME SleepInv, ApplyRequests
    PROVE  SleepInv'
<1> DEFINE off == {o \in poweredOn : requests[o] = "off"}
           on == {o \in Scanouts : requests[o] = "on"}
<1>1. /\ pc' = "release"
      /\ UNCHANGED <<bus, monitor, inhibitor, queue, losses, phase, cycle, sleep, own, wasLit,
                     locked, presses>>
  BY DEF ApplyRequests, logind
<1>2. /\ poweredOn' \in {(poweredOn \ off) \cup on, poweredOn \cup on}
      /\ \/ requests' = Nothing
         \/ requests' = [o \in Scanouts |-> IF o \in off THEN "off" ELSE "none"]
      /\ refusals' = refusals \/ (refusals < MaxRefusals /\ refusals' = refusals + 1)
  BY DEF ApplyRequests
<1>3. poweredOn' \subseteq Scanouts /\ poweredOn' \subseteq poweredOn \cup on
  BY <1>2 DEF SleepInv, SleepTypeOK
<1>4. /\ requests' \in [Scanouts -> {"on", "off", "none"}]
      /\ \A o \in Scanouts : requests'[o] # "on"
  BY <1>2 DEF Nothing
<1>5. refusals' \in 0 .. MaxRefusals
  <2>1. refusals \in 0 .. MaxRefusals /\ MaxRefusals \in Nat
    BY BoundsAssumption DEF SleepInv, SleepTypeOK
  <2>2. QED
    BY <1>2, <2>1
<1>6. SleepTypeOK'
  BY <1>1, <1>3, <1>4, <1>5 DEF SleepInv, SleepTypeOK
<1>7. ResumeKnown' /\ RestoreKept'
  BY <1>1, ConnectionKept DEF SleepInv, RestoreKept
<1>8. Darkening'
  <2> SUFFICES ASSUME sleep.preparing, presses = 0
               PROVE  wasLit \subseteq sleep.blanking /\ (~sleep.pending => wasLit \cap poweredOn' = {})
    BY <1>1, <1>4 DEF Darkening
  <2>1. on = {}
    BY DEF SleepInv, Darkening
  <2>2. QED
    BY <1>3, <2>1 DEF SleepInv, Darkening
<1>9. QED
  BY <1>6, <1>7, <1>8 DEF SleepInv

(* The inhibitor goes when what was lit is dark. *)
LEMMA ReleaseKeeps ==
    ASSUME SleepInv, ReleaseSleepDelay
    PROVE  SleepInv'
<1>1. /\ pc' = "sync"
      /\ UNCHANGED <<bus, monitor, queue, losses, phase, cycle, own, wasLit, requests, poweredOn,
                     locked, presses, refusals>>
  BY DEF ReleaseSleepDelay, logind, display
<1>2. sleep \in [preparing : BOOLEAN, pending : BOOLEAN,
                 restore : SUBSET Scanouts, blanking : SUBSET Scanouts]
  BY DEF SleepInv, SleepTypeOK
<1>3. CASE Blanked
  <2>1. sleep' = [sleep EXCEPT !.pending = FALSE] /\ inhibitor' = 0
    BY <1>3 DEF ReleaseSleepDelay
  <2>2. /\ sleep' \in [preparing : BOOLEAN, pending : BOOLEAN,
                       restore : SUBSET Scanouts, blanking : SUBSET Scanouts]
        /\ sleep'.preparing = sleep.preparing /\ sleep'.restore = sleep.restore
        /\ sleep'.blanking = sleep.blanking
    BY <1>2, <2>1
  <2>3. SleepTypeOK'
    <3>1. inhibitor' \in 0 .. MaxCycles + 1
      BY <2>1, BoundsAssumption
    <3>2. QED
      BY <1>1, <2>2, <3>1 DEF SleepInv, SleepTypeOK
  <2>4. Darkening'
    <3>1. sleep.blanking \cap poweredOn' = {}
      BY <1>1, <1>3 DEF Blanked
    <3>2. QED
      BY <1>1, <2>2, <3>1 DEF SleepInv, Darkening
  <2>5. RestoreKept' /\ ResumeKnown'
    BY <1>1, <2>2, ConnectionKept DEF SleepInv, RestoreKept
  <2>6. QED
    BY <2>3, <2>4, <2>5 DEF SleepInv
<1>4. CASE ~Blanked
  <2>1. UNCHANGED <<sleep, inhibitor>>
    BY <1>4, Zenon DEF ReleaseSleepDelay
  <2>2. SleepTypeOK'
    BY <1>1, <2>1 DEF SleepInv, SleepTypeOK
  <2>3. Darkening' /\ RestoreKept' /\ ResumeKnown'
    BY <1>1, <2>1, ConnectionKept DEF SleepInv, Darkening, RestoreKept
  <2>4. QED
    BY <2>2, <2>3 DEF SleepInv
<1>5. QED
  BY <1>3, <1>4

LEMMA UserKeeps ==
    ASSUME SleepInv, Press \/ Unlock
    PROVE  SleepInv'
<1>1. UNCHANGED <<bus, monitor, inhibitor, queue, losses, phase, cycle, pc, sleep, own, wasLit,
                  poweredOn, refusals>>
  BY DEF Press, Unlock, logind, compositor
<1>2. ResumeKnown' /\ RestoreKept'
  BY <1>1, ConnectionKept DEF SleepInv, RestoreKept
<1>3. CASE Press
  <2>1. /\ presses < MaxPresses /\ presses' = presses + 1 /\ locked' = locked
        /\ requests' \in {Queue(Scanouts, "on"), Queue(LitSoon, "off")}
    BY <1>3 DEF Press
  <2>2. presses \in 0 .. MaxPresses /\ MaxPresses \in Nat
    BY BoundsAssumption DEF SleepInv, SleepTypeOK
  <2>3. presses' \in 0 .. MaxPresses /\ presses' # 0
    BY <2>1, <2>2
  <2>4. requests' \in [Scanouts -> {"on", "off", "none"}]
    <3>1. SleepTypeOK
      BY DEF SleepInv
    <3>2. Queue(Scanouts, "on") \in [Scanouts -> {"on", "off", "none"}]
      BY <3>1, QueueTypes
    <3>3. Queue(LitSoon, "off") \in [Scanouts -> {"on", "off", "none"}]
      BY <3>1, QueueTypes
    <3> QED
      BY <2>1, <3>2, <3>3
  <2>5. SleepTypeOK'
    BY <1>1, <2>1, <2>3, <2>4 DEF SleepInv, SleepTypeOK
  <2>6. Darkening'
    BY <2>3 DEF Darkening
  <2>7. QED
    BY <1>2, <2>5, <2>6 DEF SleepInv
<1>4. CASE Unlock
  <2>1. locked' = FALSE /\ UNCHANGED <<requests, presses>>
    BY <1>4 DEF Unlock
  <2>2. SleepTypeOK'
    BY <1>1, <2>1 DEF SleepInv, SleepTypeOK
  <2>3. Darkening'
    BY <1>1, <2>1 DEF SleepInv, Darkening
  <2>4. QED
    BY <1>2, <2>2, <2>3 DEF SleepInv
<1>5. QED
  BY <1>3, <1>4

(* Every step of logind, the monitor, the compositor and the user keeps it. *)
LEMMA SleepKeeps == SleepInv /\ [SleepNext]_sleepVars => SleepInv'
<1> SUFFICES ASSUME SleepInv, [SleepNext]_sleepVars PROVE SleepInv'
  OBVIOUS
<1>1. CASE UNCHANGED sleepVars
  <2>1. SleepTypeOK'
    BY <1>1 DEF SleepInv, SleepTypeOK, sleepVars
  <2>2. ResumeKnown' /\ Darkening' /\ RestoreKept'
    BY <1>1, ConnectionKept DEF SleepInv, Darkening, RestoreKept, sleepVars
  <2>3. QED
    BY <2>1, <2>2 DEF SleepInv
<1>2. QED
  BY <1>1, LogindKeeps, MonitorKeeps, SynchronizeKeeps, ApplyKeeps, ReleaseKeeps, UserKeeps
     DEF SleepNext

-----------------------------------------------------------------------------
(* The inductive invariant of sleeps. *)
THEOREM SleepInvariant == SleepSpec => []SleepInv
<1>1. SleepInit => SleepInv
  BY SleepStarts
<1>2. SleepInv /\ [SleepNext]_sleepVars => SleepInv'
  BY SleepKeeps
<1>3. QED
  BY <1>1, <1>2, PTL DEF SleepSpec

(* Types, with any number of sleeps, presses, losses and refusals. *)
THEOREM SleepTypes == SleepSpec => []SleepTypeOK
<1>1. SleepInv => SleepTypeOK
  BY DEF SleepInv
<1>2. SleepSpec => []SleepInv
  BY SleepInvariant
<1>3. QED
  BY <1>1, <1>2, PTL

(* The outputs that were lit when a sleep was announced are dark once the   *)
(* compositor let it happen, and are those it lights afterwards.            *)
THEOREM OutputsSleepAndReturn == SleepSpec => []SleepRestores
<1>1. SleepInv => SleepRestores
  BY DEF SleepInv, Darkening, SleepRestores, SleepsDark
<1>2. SleepSpec => []SleepInv
  BY SleepInvariant
<1>3. QED
  BY <1>1, <1>2, PTL

(* No resume is lost on an unbroken connection, whatever the queue holds:   *)
(* the compositor is not left dark when everything was handled.             *)
THEOREM ResumeIsNeverLost == SleepSpec => []NotStuck
<1>1. SleepInv => NotStuck
  BY DEF SleepInv, SleepTypeOK, ResumeKnown, Latest, NotStuck
<1>2. SleepSpec => []SleepInv
  BY SleepInvariant
<1>3. QED
  BY <1>1, <1>2, PTL
=============================================================================
