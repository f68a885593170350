------------------------- MODULE DisplayPowerProofs -------------------------
(***************************************************************************)
(* What the display-power policy promises, for every machine, every set of *)
(* outputs and every configuration of the timeouts: its notes of which     *)
(* outputs it darkened stay true whatever the shell, the clients, Settings *)
(* and hotplug do between two evaluations, an idle suspend finds the       *)
(* session locked, and its deadline is exact.                              *)
(***************************************************************************)
EXTENDS DisplayPower, TLAPS

Requests == [Outputs -> Power \cup {"none"}]

(* Nothing but the policy, the user and clients powers an output that a     *)
(* press may be about.                                                      *)
Alone == ~machine.settings /\ (machine.hotplug => machine.mobile)

(* The panel stays, and a lock timeout with its extra delay is an age.      *)
Known ==
    /\ Panel \in present
    /\ cfg.lock # Never /\ cfg.lock = cfg.dpms => cfg.lock + LockAfterDpms <= MaxAge

(* An output the policy holds for dark is dark.                             *)
BlankedDark ==
    ~machine.settings => \A o \in present \cap pol.blanked :
                            o = Panel \/ ~machine.hotplug => o \notin Lit

(* What an inhibitor would light, the user did not darken, unless the       *)
(* policy remembers that they did.                                          *)
UserMarked ==
    Alone => \A o \in present \cap Woken(pol) : by[o] = "user" => pol.manual

(* The idle lock fires once, and the session is locked since.               *)
LockNoted == pol.lockT => locked

(* An inhibitor that was noticed has lit what it may light.                 *)
InhibitorLit == pol.inhibited /\ ~pol.manual => Woken(pol) = {}

IInv ==
    /\ TypeOK /\ Known /\ DarkWakes /\ BlankedDark /\ UserMarked /\ UserOffStays
    /\ LockNoted /\ InhibitorLit /\ SuspendSafe /\ DeadlineAhead

-----------------------------------------------------------------------------
(* What the policy's functions keep. *)

LEMMA NeverType == Never \in Nat /\ Never # 0 /\ Never \in Timeouts /\ Never \notin 0 .. MaxAge
                   /\ 0 \in 0 .. MaxAge
  BY MachinesAssumption DEF Never, Timeouts

LEMMA Reset ==
    ASSUME NEW p \in PolicyType
    PROVE  /\ ResetIdleInterval(p) \in PolicyType
           /\ ResetIdleInterval(p).blanked = p.blanked
           /\ ResetIdleInterval(p).manual = p.manual
           /\ ResetIdleInterval(p).desk = p.desk
           /\ ResetIdleInterval(p).inhibited = p.inhibited
           /\ ResetIdleInterval(p).lockIn = p.lockIn
           /\ ResetIdleInterval(p).lockT = FALSE
           /\ Woken(ResetIdleInterval(p)) = Woken(p)
<1>1. ResetIdleInterval(p) \in PolicyType
  BY NeverType, Zenon DEF PolicyType, ResetIdleInterval
<1>2. /\ ResetIdleInterval(p).blanked = p.blanked
      /\ ResetIdleInterval(p).manual = p.manual
      /\ ResetIdleInterval(p).desk = p.desk
      /\ ResetIdleInterval(p).inhibited = p.inhibited
      /\ ResetIdleInterval(p).lockIn = p.lockIn
      /\ ResetIdleInterval(p).lockT = FALSE
  BY DEF PolicyType, ResetIdleInterval
<1> QED
  BY <1>1, <1>2 DEF Woken

LEMMA Woke ==
    ASSUME NEW p \in PolicyType
    PROVE  /\ Woken(p) \subseteq p.blanked
           /\ p.desk => Panel \notin Woken(p)
           /\ WakeBlanked(p) \in PolicyType
           /\ WakeBlanked(p).blanked = p.blanked \ Woken(p)
           /\ WakeBlanked(p).manual = FALSE
           /\ WakeBlanked(p).desk = p.desk
           /\ WakeBlanked(p).inhibited = p.inhibited
           /\ WakeBlanked(p).lockIn = Never
           /\ WakeBlanked(p).lockT = p.lockT
           /\ Woken(WakeBlanked(p)) = {}
<1>0. WakeBlanked(p) \in PolicyType
  BY NeverType, Zenon DEF PolicyType, WakeBlanked, Woken
<1>1. /\ WakeBlanked(p).blanked = p.blanked \ Woken(p)
      /\ WakeBlanked(p).manual = FALSE
      /\ WakeBlanked(p).desk = p.desk
      /\ WakeBlanked(p).inhibited = p.inhibited
      /\ WakeBlanked(p).lockIn = Never
      /\ WakeBlanked(p).lockT = p.lockT
  BY DEF PolicyType, WakeBlanked
<1>2. Woken(p) \subseteq p.blanked /\ (p.desk => Panel \notin Woken(p))
  BY DEF Woken
<1>3. Woken(WakeBlanked(p)) = {}
  BY <1>1 DEF Woken
<1> QED
  BY <1>0, <1>1, <1>2, <1>3

LEMMA WentOff ==
    ASSUME NEW p \in PolicyType, cfg \in Configuration
    PROVE  /\ ScreenWentOff(p) \in PolicyType
           /\ ScreenWentOff(p).blanked = p.blanked
           /\ ScreenWentOff(p).manual = p.manual
           /\ ScreenWentOff(p).desk = p.desk
           /\ ScreenWentOff(p).inhibited = p.inhibited
           /\ ScreenWentOff(p).lockT = p.lockT
           /\ ScreenWentOff(p).dpmsT = p.dpmsT
           /\ ScreenWentOff(p).suspT = p.suspT
           /\ ScreenWentOff(p).idle = p.idle
           /\ p.lockIn # 0 => ScreenWentOff(p).lockIn # 0
           /\ p.lockIn # Never => ScreenWentOff(p).lockIn # Never
           /\ cfg.screenOff \notin {0, Never} => ScreenWentOff(p).lockIn # Never
  BY NeverType DEF PolicyType, ScreenWentOff, Configuration, Timeouts

LEMMA DeskNoted ==
    ASSUME NEW p \in PolicyType, NEW desk \in BOOLEAN, cfg \in Configuration
    PROVE  /\ SetPhoneWithDesk(p, desk) \in PolicyType
           /\ SetPhoneWithDesk(p, desk).blanked = p.blanked
           /\ SetPhoneWithDesk(p, desk).desk = desk
           /\ SetPhoneWithDesk(p, desk).inhibited = p.inhibited
           /\ SetPhoneWithDesk(p, desk).lockT = p.lockT
           /\ SetPhoneWithDesk(p, desk).manual = (p.manual \/ LeftDark(p, desk))
           /\ p.desk = desk => SetPhoneWithDesk(p, desk) = p
           /\ LeftDark(p, desk) /\ cfg.screenOff \notin {0, Never}
                => SetPhoneWithDesk(p, desk).lockIn # Never
           /\ LeftDark(p, desk) => p.desk /\ ~desk /\ Panel \in p.blanked
<1> DEFINE q == [p EXCEPT !.desk = desk, !.touch = 0, !.phoneT = FALSE]
           m == [q EXCEPT !.manual = TRUE]
<1>1. CASE p.desk = desk
  BY <1>1 DEF SetPhoneWithDesk, LeftDark, PolicyType
<1>2. CASE p.desk # desk
  <2>0. q \in PolicyType /\ m \in PolicyType
    BY NeverType, Zenon DEF PolicyType
  <2>1. /\ q.blanked = p.blanked /\ m.blanked = p.blanked
        /\ q.desk = desk /\ m.desk = desk
        /\ q.inhibited = p.inhibited /\ m.inhibited = p.inhibited
        /\ q.lockT = p.lockT /\ m.lockT = p.lockT
        /\ q.manual = p.manual /\ m.manual = TRUE
    BY DEF PolicyType
  <2>2. SetPhoneWithDesk(p, desk) = IF LeftDark(p, desk) THEN ScreenWentOff(m) ELSE q
    BY <1>2 DEF SetPhoneWithDesk
  <2> HIDE DEF q, m
  <2>3. LeftDark(p, desk) => p.desk /\ ~desk /\ Panel \in p.blanked
    BY DEF LeftDark
  <2>4. p.manual \in BOOLEAN
    BY DEF PolicyType
  <2>5. CASE LeftDark(p, desk)
    <3>1. SetPhoneWithDesk(p, desk) = ScreenWentOff(m)
      BY <2>2, <2>5
    <3> QED
      <4>1. (p.manual \/ LeftDark(p, desk)) = TRUE
        BY <2>5
      <4>2. /\ ScreenWentOff(m) \in PolicyType
            /\ ScreenWentOff(m).blanked = m.blanked
            /\ ScreenWentOff(m).manual = m.manual
            /\ ScreenWentOff(m).desk = m.desk
            /\ ScreenWentOff(m).inhibited = m.inhibited
            /\ ScreenWentOff(m).lockT = m.lockT
            /\ m.lockIn # Never => ScreenWentOff(m).lockIn # Never
            /\ cfg.screenOff \notin {0, Never} => ScreenWentOff(m).lockIn # Never
        BY <2>0, WentOff, Zenon
      <4> HIDE DEF LeftDark
      <4> QED
        BY <2>1, <2>3, <2>5, <3>1, <4>1, <4>2
  <2>6. CASE ~LeftDark(p, desk)
    <3>1. SetPhoneWithDesk(p, desk) = q
      BY <2>2, <2>6
    <3>2. (p.manual \/ LeftDark(p, desk)) = p.manual
      BY <2>4, <2>6
    <3> QED
      BY <1>2, <2>0, <2>1, <2>3, <2>6, <3>1, <3>2
  <2> QED
    BY <2>5, <2>6
<1> QED
  BY <1>1, <1>2

LEMMA PhoneEvaluated ==
    ASSUME NEW p \in PolicyType
    PROVE  /\ EvaluatePhone(p) \in PolicyType
           /\ EvaluatePhone(p).blanked
                = p.blanked \cup (IF PhoneDue(p) THEN {Panel} ELSE {})
           /\ EvaluatePhone(p).manual = p.manual
           /\ EvaluatePhone(p).desk = p.desk
           /\ EvaluatePhone(p).inhibited = p.inhibited
           /\ EvaluatePhone(p).lockT = p.lockT
           /\ EvaluatePhone(p).dpmsT = p.dpmsT
           /\ EvaluatePhone(p).suspT = p.suspT
           /\ EvaluatePhone(p).idle = p.idle
           /\ EvaluatePhone(p).lockIn = p.lockIn
           /\ PhoneDue(p) => p.desk
           /\ Woken(EvaluatePhone(p)) = Woken(p)
<1>1. PhoneDue(p) => p.desk /\ ~(p.desk /\ inhibitor = "phone")
  BY DEF PhoneDue
<1>2. EvaluatePhone(p) \in PolicyType
  BY NeverType, MachinesAssumption, Zenon DEF PolicyType, EvaluatePhone
<1>3. /\ EvaluatePhone(p).manual = p.manual
      /\ EvaluatePhone(p).desk = p.desk
      /\ EvaluatePhone(p).inhibited = p.inhibited
      /\ EvaluatePhone(p).lockT = p.lockT
      /\ EvaluatePhone(p).dpmsT = p.dpmsT
      /\ EvaluatePhone(p).suspT = p.suspT
      /\ EvaluatePhone(p).idle = p.idle
      /\ EvaluatePhone(p).lockIn = p.lockIn
  BY DEF PolicyType, EvaluatePhone
<1>4. EvaluatePhone(p).blanked
        = p.blanked \cup (IF PhoneDue(p) THEN {Panel} ELSE {})
  BY <1>1 DEF PolicyType, EvaluatePhone
<1>5. Woken(EvaluatePhone(p)) = Woken(p)
  BY <1>1, <1>3, <1>4 DEF Woken
<1> QED
  BY <1>1, <1>2, <1>3, <1>4, <1>5

(* The timeouts in effect are ages or never, and a suspend that comes at    *)
(* all does not come before the lock.                                       *)
LEMMA Timing ==
    ASSUME TypeOK, Known
    PROVE  /\ EffectiveLockTimeout \in 0 .. Never
           /\ EffectiveSuspendTimeout \in 0 .. Never
           /\ cfg.dpms \in 0 .. Never
           /\ cfg.lock # Never /\ EffectiveSuspendTimeout # Never
                => EffectiveLockTimeout <= EffectiveSuspendTimeout
<1>1. /\ cfg.lock \in 0 .. Never /\ cfg.dpms \in 0 .. Never
      /\ cfg.suspend \in 0 .. Never
  BY DEF TypeOK, Configuration, Timeouts
<1>2. MaxAge \in Nat /\ Never = MaxAge + 1 /\ LockAfterDpms \in Nat
  BY MachinesAssumption DEF Never
<1>3. /\ EffectiveLockTimeout \in 0 .. Never
      /\ cfg.lock # Never => EffectiveLockTimeout <= MaxAge
  BY <1>1, <1>2 DEF EffectiveLockTimeout, Known
<1> QED
  BY <1>1, <1>2, <1>3 DEF EffectiveSuspendTimeout

(* What the next deadline is, and when it is now.                           *)
LEMMA EarliestOfThree ==
    ASSUME NEW a \in Nat, NEW b \in Nat, NEW c \in Nat
    PROVE  /\ Earliest({a, b, c}) \in Nat
           /\ Earliest({a, b, c}) = 0 <=> a = 0 \/ b = 0 \/ c = 0
<1> DEFINE S == {a, b, c}
<1>1. \E t \in S : \A u \in S : t <= u
  BY DEF S
<1>2. Earliest(S) \in S /\ \A u \in S : Earliest(S) <= u
  BY <1>1, Zenon DEF Earliest
<1> QED
  BY <1>2

LEMMA AheadNow ==
    ASSUME NEW age \in 0 .. MaxAge, NEW timeout \in 0 .. Never
    PROVE  Ahead(age, timeout) \in Nat /\ (Ahead(age, timeout) = 0 <=> age >= timeout)
  BY MachinesAssumption DEF Ahead, Never

IdleDue(p) ==
    /\ ~p.inhibited
    /\ \/ ~p.lockT /\ p.idle >= EffectiveLockTimeout
       \/ ~p.dpmsT /\ p.idle >= cfg.dpms
       \/ ~p.suspT /\ p.idle >= EffectiveSuspendTimeout

LEMMA DeadlineNow ==
    ASSUME NEW p \in PolicyType, TypeOK, Known
    PROVE  /\ NextDeadline(p) \in Nat
           /\ NextDeadline(p) = 0 <=> \/ IdleDue(p) \/ p.lockIn = 0
                                      \/ p.desk /\ ~p.phoneT /\ p.touch >= cfg.dpms
<1>1. /\ p.idle \in 0 .. MaxAge /\ p.touch \in 0 .. MaxAge /\ p.lockIn \in 0 .. Never
      /\ Never \in Nat /\ Never # 0
  BY MachinesAssumption DEF PolicyType, Timeouts, Never
<1> DEFINE a == IF p.lockT THEN Never ELSE Ahead(p.idle, EffectiveLockTimeout)
           b == IF p.dpmsT THEN Never ELSE Ahead(p.idle, cfg.dpms)
           c == IF p.suspT THEN Never ELSE Ahead(p.idle, EffectiveSuspendTimeout)
           d == IF p.desk /\ ~p.phoneT THEN Ahead(p.touch, cfg.dpms) ELSE Never
<1>2. /\ a \in Nat /\ (a = 0 <=> ~p.lockT /\ p.idle >= EffectiveLockTimeout)
      /\ b \in Nat /\ (b = 0 <=> ~p.dpmsT /\ p.idle >= cfg.dpms)
      /\ c \in Nat /\ (c = 0 <=> ~p.suspT /\ p.idle >= EffectiveSuspendTimeout)
      /\ d \in Nat /\ (d = 0 <=> p.desk /\ ~p.phoneT /\ p.touch >= cfg.dpms)
  BY <1>1, Timing, AheadNow
<1>3. NextIdleDeadline(p) = IF p.inhibited THEN Never ELSE Earliest({a, b, c})
  BY DEF NextIdleDeadline
<1>4. NextDeadline(p) = Earliest({NextIdleDeadline(p), p.lockIn, d})
  BY DEF NextDeadline
<1> HIDE DEF a, b, c, d
<1>5. NextIdleDeadline(p) \in Nat /\ (NextIdleDeadline(p) = 0 <=> IdleDue(p))
  BY <1>1, <1>2, <1>3, EarliestOfThree DEF IdleDue
<1>6. p.lockIn \in Nat
  BY <1>1
<1> QED
  BY <1>2, <1>4, <1>5, <1>6, EarliestOfThree

(* What every evaluation of the policy keeps and asks, inhibited or not.    *)
Judged(p, e) ==
    /\ e.pol \in PolicyType
    /\ e.reqs \in Requests
    /\ e.lock \in BOOLEAN /\ e.suspend \in BOOLEAN
    /\ e.pol.desk = p.desk /\ e.pol.manual = p.manual
    /\ \A o \in present : /\ e.reqs[o] = "on" => o \in Woken(p) /\ ~p.manual
                          /\ e.reqs[o] = "on" => o \notin e.pol.blanked
                          /\ e.reqs[o] = "off" => o \in e.pol.blanked
                          /\ e.reqs[o] = "none"
                               => (o \in e.pol.blanked <=> o \in p.blanked)
    /\ p.desk => e.reqs[Panel] = "none"
    /\ e.pol.lockT => p.lockT \/ e.lock
    /\ p.lockIn # Never /\ p.manual => e.lock \/ e.pol.lockIn # Never
    /\ e.suspend => (cfg.lock # Never => p.lockT \/ e.lock)
    /\ e.suspend => (p.desk => powered \cap present = {})
    /\ e.pol.inhibited /\ ~e.pol.manual => Woken(e.pol) = {}

(* After an evaluation that asked nothing the deadline lies ahead, and one  *)
(* that did something was due.                                              *)
Timed(p, e) ==
    /\ ~p.desk /\ e.reqs = Nothing => NextDeadline(e.pol) > 0
    /\ (/\ p.inhibited <=> inhibitor # "none"
        /\ p.inhibited /\ ~p.manual => Woken(p) = {}
        /\ e.reqs # Nothing \/ e.lock \/ e.suspend)
       => IdleDue(p) \/ p.lockIn = 0

LEMMA AskType ==
    /\ Nothing \in Requests
    /\ \A S : Ask(S, "on") \in Requests /\ Ask(S, "off") \in Requests
  BY DEF Nothing, Ask, Requests, Power

LEMMA Asked ==
    ASSUME NEW S, NEW o \in Outputs
    PROVE  /\ Nothing[o] = "none"
           /\ o \in S => Ask(S, "on")[o] = "on" /\ Ask(S, "off")[o] = "off"
           /\ o \notin S => Ask(S, "on")[o] = "none" /\ Ask(S, "off")[o] = "none"
  BY DEF Nothing, Ask

LEMMA InhibitedJudged ==
    ASSUME NEW p \in PolicyType, TypeOK, Known, inhibitor # "none"
    PROVE  Judged(p, EvaluateInhibited(p)) /\ Timed(p, EvaluateInhibited(p))
<1> DEFINE due == p.lockIn = 0
           q == IF due THEN [p EXCEPT !.lockIn = Never] ELSE p
           i == [q EXCEPT !.inhibited = TRUE]
           r == IF q.inhibited THEN q ELSE ResetIdleInterval(i)
           e == EvaluateInhibited(p)
<1> SUFFICES Judged(p, e) /\ Timed(p, e)
  OBVIOUS
<1>1. /\ q \in PolicyType /\ q.blanked = p.blanked /\ q.manual = p.manual
      /\ q.desk = p.desk /\ q.lockT = p.lockT /\ q.lockIn # 0
      /\ (~due => q.lockIn = p.lockIn)
  BY NeverType DEF PolicyType
<1>2. e = [pol |-> IF r.manual THEN r ELSE WakeBlanked(r),
           reqs |-> IF r.manual THEN Nothing ELSE Ask(Woken(r), "on"),
           lock |-> due, suspend |-> FALSE]
  BY Zenon DEF EvaluateInhibited
<1> HIDE DEF q
<1>3. /\ i \in PolicyType /\ i.blanked = p.blanked /\ i.manual = p.manual
      /\ i.desk = p.desk /\ i.inhibited = TRUE /\ i.lockIn = q.lockIn
  BY <1>1, Zenon DEF PolicyType
<1> HIDE DEF i
<1>4. /\ r \in PolicyType /\ r.blanked = p.blanked /\ r.manual = p.manual
      /\ r.desk = p.desk /\ (r.lockT => p.lockT) /\ r.lockIn # 0
      /\ (~due => r.lockIn = p.lockIn)
  BY <1>1, <1>3, Reset, Zenon
<1>10. r.inhibited = TRUE
  <2>1. CASE q.inhibited
    BY <1>1, <2>1 DEF PolicyType
  <2>2. CASE ~q.inhibited
    BY <1>3, <2>2, Reset, Zenon
  <2> QED
    BY <2>1, <2>2, Zenon
<1> HIDE DEF r
<1>5. Woken(r) = Woken(p)
  BY <1>4 DEF Woken
<1>6. /\ p.manual \in BOOLEAN /\ p.blanked \subseteq Outputs
      /\ present \subseteq Outputs /\ Panel \in Outputs
  BY MachinesAssumption DEF PolicyType, TypeOK
<1>7. e.lock \in BOOLEAN /\ e.suspend = FALSE /\ (e.lock <=> due)
  <2>1. e.lock = due /\ e.suspend = FALSE
    BY <1>2
  <2>2. due \in BOOLEAN
    OBVIOUS
  <2> HIDE DEF e, due
  <2> QED
    BY <2>1, <2>2
<1>8. CASE p.manual
  <2>1. e.pol = r /\ e.reqs = Nothing
    BY <1>2, <1>4, <1>8
  <2> HIDE DEF e
  <2>2. \A o \in present : e.reqs[o] = "none"
    BY <1>6, <2>1, Asked
  <2>3. e.reqs[Panel] = "none"
    BY <1>6, <2>1, Asked
  <2>4. Timed(p, e)
    <3>1. ~IdleDue(r)
      BY <1>10 DEF IdleDue
    <3> QED
      BY <1>4, <1>7, <2>1, <3>1, DeadlineNow DEF Timed
  <2> QED
    BY <1>4, <1>7, <1>8, <2>1, <2>2, <2>3, <2>4, AskType, Zenon DEF Judged
<1>9. CASE ~p.manual
  <2>1. e.pol = WakeBlanked(r) /\ e.reqs = Ask(Woken(p), "on")
    BY <1>2, <1>4, <1>5, <1>9
  <2> HIDE DEF e
  <2>2. /\ e.pol \in PolicyType /\ e.pol.blanked = p.blanked \ Woken(p)
        /\ e.pol.manual = p.manual /\ e.pol.desk = p.desk
        /\ (e.pol.lockT => p.lockT) /\ Woken(e.pol) = {}
    BY <1>4, <1>5, <1>6, <1>9, <2>1, Woke, Zenon
  <2>3. ASSUME NEW o \in present
        PROVE  /\ e.reqs[o] = "on" => o \in Woken(p)
               /\ e.reqs[o] # "off"
               /\ e.reqs[o] = "none" => o \notin Woken(p)
    BY <1>6, <2>1, Asked
  <2>4. p.desk => Panel \notin Woken(p)
    BY DEF Woken
  <2>5. p.desk => e.reqs[Panel] = "none"
    BY <1>6, <2>1, <2>4, Asked
  <2>6. Timed(p, e)
    <3>1. ~IdleDue(e.pol) /\ e.pol.lockIn # 0
      BY <1>4, <1>10, <2>1, Woke, NeverType, Zenon DEF IdleDue
    <3>2. Woken(p) = {} => e.reqs = Nothing
      BY <2>1 DEF Ask, Nothing
    <3> QED
      BY <1>7, <1>9, <2>2, <3>1, <3>2, DeadlineNow DEF Timed
  <2> QED
    BY <1>7, <1>9, <2>1, <2>2, <2>3, <2>5, <2>6, AskType, Zenon DEF Judged
<1> QED
  BY <1>6, <1>8, <1>9

LEMMA IdleJudged ==
    ASSUME NEW p \in PolicyType, TypeOK, Known, inhibitor = "none"
    PROVE  Judged(p, EvaluateIdle(p)) /\ Timed(p, EvaluateIdle(p))
<1> DEFINE due == p.lockIn = 0
           q == IF due THEN [p EXCEPT !.lockIn = Never] ELSE p
           i == [q EXCEPT !.inhibited = FALSE]
           r == IF q.inhibited THEN ResetIdleInterval(i) ELSE q
           lockDue == ~r.lockT /\ r.idle >= EffectiveLockTimeout
           dpmsDue == ~r.dpmsT /\ r.idle >= cfg.dpms
           known == r.blanked \cap present
           dark == IF dpmsDue
                   THEN (powered \cap present) \ (known \cup
                           (IF r.desk THEN {Panel} ELSE {}))
                   ELSE {}
           s == [r EXCEPT !.blanked = known \cup dark, !.lockT = @ \/ lockDue,
                          !.dpmsT = @ \/ dpmsDue]
           t == IF dark # {} THEN ScreenWentOff(s) ELSE s
           suspend == /\ dark = {} /\ ~t.suspT
                      /\ SuspendScreens(r)
                      /\ r.idle >= EffectiveSuspendTimeout
           u == [t EXCEPT !.suspT = @ \/ suspend]
           lock == due \/ lockDue \/ (dark # {} /\ LocksAtOnce(FALSE))
           e == EvaluateIdle(p)
<1> SUFFICES Judged(p, e) /\ Timed(p, e)
  OBVIOUS
<1>1. e = [pol |-> u, reqs |-> Ask(dark, "off"),
           lock |-> lock, suspend |-> suspend]
  BY Zenon DEF EvaluateIdle
<1>2. /\ q \in PolicyType /\ q.blanked = p.blanked /\ q.manual = p.manual
      /\ q.desk = p.desk /\ q.lockT = p.lockT /\ q.lockIn # 0
      /\ q.inhibited = p.inhibited /\ q.idle = p.idle /\ q.dpmsT = p.dpmsT
      /\ q.suspT = p.suspT /\ (~due => q.lockIn = p.lockIn)
  BY NeverType DEF PolicyType
<1> HIDE DEF q
<1>3. /\ i \in PolicyType /\ i.blanked = p.blanked /\ i.manual = p.manual
      /\ i.desk = p.desk /\ i.inhibited = FALSE /\ i.lockIn = q.lockIn
  BY <1>2, Zenon DEF PolicyType
<1> HIDE DEF i
<1>4. /\ r \in PolicyType /\ r.blanked = p.blanked /\ r.manual = p.manual
      /\ r.desk = p.desk /\ (r.lockT => p.lockT) /\ r.lockIn # 0
      /\ (~due => r.lockIn = p.lockIn)
      /\ ~p.inhibited => /\ r.idle = p.idle /\ r.lockT = p.lockT
                         /\ r.dpmsT = p.dpmsT /\ r.suspT = p.suspT
  <2>1. CASE q.inhibited
    <3>1. r = ResetIdleInterval(i)
      BY <2>1
    <3> HIDE DEF r
    <3> QED
      BY <1>2, <1>3, <2>1, <3>1, Reset, Zenon
  <2>2. CASE ~q.inhibited
    <3>1. r = q
      BY <2>2
    <3> HIDE DEF r
    <3> QED
      BY <1>2, <3>1
  <2> QED
    BY <2>1, <2>2
<1>5. r.inhibited = FALSE
  <2>1. CASE q.inhibited
    BY <1>3, <2>1, Reset, Zenon
  <2>2. CASE ~q.inhibited
    BY <1>2, <2>2 DEF PolicyType
  <2> QED
    BY <2>1, <2>2, Zenon
<1> HIDE DEF r
<1>6. /\ present \subseteq Outputs /\ Panel \in Outputs /\ powered \subseteq Outputs
      /\ cfg \in Configuration
  BY MachinesAssumption DEF TypeOK
<1>7. /\ dark \subseteq present /\ dark \cap p.blanked = {}
      /\ p.desk => Panel \notin dark
  BY <1>4
<1>8. lockDue \in BOOLEAN /\ dpmsDue \in BOOLEAN
  OBVIOUS
<1>9. known = p.blanked \cap present
  BY <1>4
<1> HIDE DEF dark, known
<1>10. /\ s \in PolicyType /\ s.blanked = known \cup dark /\ s.manual = p.manual
       /\ s.desk = p.desk /\ s.inhibited = FALSE /\ s.lockT = (r.lockT \/ lockDue)
       /\ s.dpmsT = (r.dpmsT \/ dpmsDue) /\ s.idle = r.idle /\ s.lockIn # 0
       /\ s.suspT = r.suspT /\ s.lockIn = r.lockIn
  <2>1. r.lockT \in BOOLEAN /\ r.dpmsT \in BOOLEAN
    BY <1>4 DEF PolicyType
  <2> HIDE DEF lockDue, dpmsDue
  <2>2. (r.lockT \/ lockDue) \in BOOLEAN /\ (r.dpmsT \/ dpmsDue) \in BOOLEAN
    OBVIOUS
  <2>3. known \cup dark \in SUBSET Outputs
    BY <1>6, <1>7, <1>9
  <2> QED
    BY <1>4, <1>5, <2>2, <2>3, Zenon DEF PolicyType
<1> HIDE DEF lockDue, dpmsDue, s
<1>11. /\ t \in PolicyType /\ t.blanked = known \cup dark /\ t.manual = p.manual
       /\ t.desk = p.desk /\ t.inhibited = FALSE /\ t.lockT = (r.lockT \/ lockDue)
       /\ t.dpmsT = (r.dpmsT \/ dpmsDue) /\ t.idle = r.idle /\ t.lockIn # 0
       /\ t.suspT = r.suspT /\ (r.lockIn # Never => t.lockIn # Never)
  BY <1>6, <1>10, WentOff
<1> HIDE DEF t
<1>12. /\ u \in PolicyType /\ u.blanked = known \cup dark /\ u.manual = p.manual
       /\ u.desk = p.desk /\ u.inhibited = FALSE /\ u.lockT = (r.lockT \/ lockDue)
       /\ u.dpmsT = (r.dpmsT \/ dpmsDue) /\ u.idle = r.idle /\ u.lockIn # 0
       /\ u.suspT = (r.suspT \/ suspend) /\ u.lockIn = t.lockIn
  <2>1. (t.suspT \/ suspend) \in BOOLEAN
    OBVIOUS
  <2> HIDE DEF suspend
  <2> QED
    BY <1>11, <2>1, Zenon DEF PolicyType
<1>13. suspend \in BOOLEAN
  OBVIOUS
<1>14. suspend => (cfg.lock # Never => r.lockT \/ lockDue)
  <2>1. r.idle \in 0 .. MaxAge /\ MaxAge \in Nat /\ Never = MaxAge + 1
    BY <1>4, MachinesAssumption DEF PolicyType, Never
  <2> QED
    BY <2>1, Timing DEF lockDue
<1>15. suspend => (p.desk => powered \cap present = {})
  BY <1>4 DEF SuspendScreens
<1> HIDE DEF suspend, u
<1>24. lock \in BOOLEAN /\ (lockDue \/ due => lock)
  BY Zenon
<1> HIDE DEF lock
<1>16. /\ e.pol = u /\ e.reqs = Ask(dark, "off") /\ e.suspend = suspend
       /\ e.lock \in BOOLEAN /\ (lockDue \/ due => e.lock)
  BY <1>1, <1>24
<1> HIDE DEF e
<1>17. ASSUME NEW o \in present
       PROVE  /\ e.reqs[o] # "on"
              /\ e.reqs[o] = "off" => o \in dark
              /\ e.reqs[o] = "none" => o \notin dark
  BY <1>6, <1>16, Asked
<1>18. p.desk => e.reqs[Panel] = "none"
  BY <1>6, <1>7, <1>16, Asked
<1>19. \A o \in present : /\ e.reqs[o] = "on" => o \in Woken(p) /\ ~p.manual
                          /\ e.reqs[o] = "on" => o \notin e.pol.blanked
                          /\ e.reqs[o] = "off" => o \in e.pol.blanked
                          /\ e.reqs[o] = "none"
                               => (o \in e.pol.blanked <=> o \in p.blanked)
  BY <1>9, <1>12, <1>16, <1>17
<1>20. /\ e.pol.lockT => p.lockT \/ e.lock
       /\ p.lockIn # Never => e.lock \/ e.pol.lockIn # Never
       /\ e.suspend => (cfg.lock # Never => p.lockT \/ e.lock)
       /\ e.suspend => (p.desk => powered \cap present = {})
       /\ e.pol.inhibited /\ ~e.pol.manual => Woken(e.pol) = {}
  BY <1>4, <1>11, <1>12, <1>14, <1>15, <1>16
<1>21. dark = {} <=> e.reqs = Nothing
  <2>1. dark = {} => e.reqs = Nothing
    BY <1>16 DEF Ask, Nothing
  <2>2. ASSUME NEW o \in dark PROVE e.reqs # Nothing
    BY <1>6, <1>7, <1>16, Asked
  <2> QED
    BY <2>1, <2>2
<1>22. ~p.desk /\ e.reqs = Nothing => NextDeadline(e.pol) > 0
  <2>1. SUFFICES ASSUME ~p.desk, dark = {} PROVE ~IdleDue(u) /\ ~u.desk
    BY <1>12, <1>16, <1>21, DeadlineNow
  <2>2. /\ u.lockT \/ ~(u.idle >= EffectiveLockTimeout)
        /\ u.dpmsT \/ ~(u.idle >= cfg.dpms)
    BY <1>12, Zenon DEF lockDue, dpmsDue
  <2>3. u.suspT \/ ~(u.idle >= EffectiveSuspendTimeout)
    BY <1>4, <1>11, <1>12, <2>1, Zenon DEF suspend, SuspendScreens
  <2> QED
    BY <1>12, <2>1, <2>2, <2>3 DEF IdleDue
<1>23. /\ p.inhibited <=> inhibitor # "none"
       /\ e.reqs # Nothing \/ e.lock \/ e.suspend
       => IdleDue(p) \/ due
  <2> SUFFICES ASSUME ~p.inhibited, dark # {} \/ lock \/ suspend
               PROVE  IdleDue(p) \/ due
    BY <1>1, <1>16, <1>21
  <2>1. suspend => ~p.suspT /\ p.idle >= EffectiveSuspendTimeout
    BY <1>4, <1>11 DEF suspend
  <2>2. dark # {} => dpmsDue
    BY DEF dark
  <2>3. lock => due \/ lockDue \/ dark # {}
    BY Zenon DEF lock
  <2> QED
    BY <1>4, <2>1, <2>2, <2>3 DEF IdleDue, lockDue, dpmsDue
<1> QED
  BY <1>12, <1>13, <1>16, <1>18, <1>19, <1>20, <1>22, <1>23, AskType DEF Judged, Timed

-----------------------------------------------------------------------------
(* What a step does to the lit outputs. *)

(* A queued request decides what its output shows.                          *)
LEMMA Relit ==
    ASSUME TypeOK, NEW R \in Requests, requests' = Queue(R), UNCHANGED <<present, powered>>
    PROVE  /\ requests' \in Requests
           /\ \A o \in present :
                 /\ R[o] = "on" => o \in Lit'
                 /\ R[o] = "off" => o \notin Lit'
                 /\ R[o] = "none" => (o \in Lit' <=> o \in Lit)
                 /\ R[o] \in {"on", "off", "none"}
<1>1. requests \in Requests /\ present \subseteq Outputs
  BY DEF TypeOK, Requests
<1>2. requests' \in Requests
  BY <1>1 DEF Queue, Requests
<1>3. ASSUME NEW o \in present
      PROVE  requests'[o] = IF R[o] = "none" THEN requests[o] ELSE R[o]
  BY <1>1 DEF Queue
<1>4. ASSUME NEW o \in present
      PROVE  R[o] \in {"on", "off", "none"} /\ requests[o] \in {"on", "off", "none"}
  BY <1>1 DEF Requests, Power
<1> QED
  BY <1>2, <1>3, <1>4 DEF Lit

(* The policy's notes after a step that asks R of the outputs: it holds for *)
(* dark what it asks to be dark, and for lit what it asks to be lit.        *)
Told(R) ==
    \A o \in present :
        /\ R[o] = "on" => o \notin pol'.blanked /\ (Alone => by'[o] # "user")
        /\ R[o] = "off" => o \in pol'.blanked
        /\ R[o] = "none" => /\ o \in pol'.blanked <=> o \in pol.blanked
                            /\ by'[o] = by[o] \/ (o \in Lit /\ ~Alone)

LEMMA PowerTold ==
    ASSUME TypeOK, DarkWakes, BlankedDark, UserOffStays,
           NEW R \in Requests, requests' = Queue(R), Told(R),
           UNCHANGED <<machine, present, powered>>
    PROVE  DarkWakes' /\ BlankedDark' /\ UserOffStays'
<1>1. ASSUME NEW o \in present
      PROVE  /\ R[o] = "on" => o \in Lit'
             /\ R[o] = "off" => o \notin Lit'
             /\ R[o] = "none" => (o \in Lit' <=> o \in Lit)
             /\ R[o] \in {"on", "off", "none"}
  BY Relit
<1>2. DarkWakes'
  <2> SUFFICES ASSUME NEW o \in present, o \notin Lit', by'[o] \in {"user", "idle"}
               PROVE  o \in pol'.blanked
    BY DEF DarkWakes
  <2> QED
    BY <1>1 DEF Told, DarkWakes
<1>3. BlankedDark'
  <2> SUFFICES ASSUME ~machine.settings, NEW o \in present, o \in pol'.blanked,
                      o = Panel \/ ~machine.hotplug
               PROVE  o \notin Lit'
    BY DEF BlankedDark
  <2> QED
    BY <1>1 DEF Told, BlankedDark
<1>4. UserOffStays'
  <2> SUFFICES ASSUME Alone, NEW o \in present, by'[o] = "user"
               PROVE  o \notin Lit'
    BY DEF UserOffStays, Alone
  <2> QED
    BY <1>1 DEF Told, UserOffStays, Alone
<1> QED
  BY <1>2, <1>3, <1>4

(* A step that leaves no result of an evaluation behind.                    *)
LEMMA Quiet == last' = "none" => SuspendSafe' /\ DeadlineAhead'
  BY DEF SuspendSafe, SuspendLocked, SuspendDark, DeadlineAhead

(* An input lights what the policy darkened, and the panel that it names.   *)
LEMMA Lights ==
    ASSUME TypeOK, DarkWakes, BlankedDark, UserOffStays, pol' \in PolicyType,
           NEW S, requests' = Queue(Ask(S, "on")), UNCHANGED <<machine, present, powered>>,
           by' \in [Outputs -> {"user", "idle", "other"}],
           \A o \in present : /\ o \in S => by'[o] = "other" /\ o \notin pol'.blanked
                              /\ o \notin S => /\ by'[o] = by[o]
                                               /\ o \in pol'.blanked <=> o \in pol.blanked
    PROVE  DarkWakes' /\ BlankedDark' /\ UserOffStays' /\ requests' \in Requests
<1>1. Ask(S, "on") \in Requests
  BY AskType
<1>2. present \subseteq Outputs
  BY DEF TypeOK
<1>3. Told(Ask(S, "on"))
  <2> SUFFICES ASSUME NEW o \in present
               PROVE  /\ Ask(S, "on")[o] = "on" =>
                            o \notin pol'.blanked /\ (Alone => by'[o] # "user")
                      /\ Ask(S, "on")[o] = "off" => o \in pol'.blanked
                      /\ Ask(S, "on")[o] = "none" =>
                            /\ o \in pol'.blanked <=> o \in pol.blanked
                            /\ by'[o] = by[o] \/ (o \in Lit /\ ~Alone)
    BY Zenon DEF Told
  <2>1. /\ o \in S => Ask(S, "on")[o] = "on"
        /\ o \notin S => Ask(S, "on")[o] = "none"
    BY <1>2, Asked
  <2> QED
    BY <2>1
<1> QED
  BY <1>1, <1>3, PowerTold, Relit

LEMMA Credited ==
    ASSUME TypeOK, NEW S
    PROVE  /\ Credit(Ask(S, "on"), "other") \in [Outputs -> {"user", "idle", "other"}]
           /\ \A o \in Outputs :
                 /\ o \in S => Credit(Ask(S, "on"), "other")[o] = "other"
                 /\ o \notin S => Credit(Ask(S, "on"), "other")[o] = by[o]
<1>1. by \in [Outputs -> {"user", "idle", "other"}]
  BY DEF TypeOK
<1>2. \A o \in Outputs : Ask(S, "on")[o] = IF o \in S THEN "on" ELSE "none"
  BY Asked
<1>3. \A o \in Outputs :
         /\ o \in S => Credit(Ask(S, "on"), "other")[o] = "other"
         /\ o \notin S => Credit(Ask(S, "on"), "other")[o] = by[o]
  BY <1>2 DEF Credit
<1>4. Credit(Ask(S, "on"), "other") = [o \in Outputs |-> Credit(Ask(S, "on"), "other")[o]]
  BY DEF Credit
<1> QED
  BY <1>1, <1>3, <1>4

(* After a step that wakes everything it may, the policy has nothing left   *)
(* to wake.                                                                 *)
LEMMA NothingToWake ==
    Woken(pol)' = {} => UserMarked' /\ InhibitorLit'
  BY DEF UserMarked, InhibitorLit

(* What an input does to the policy's notes, also when it names the panel.  *)
LEMMA Awakened ==
    ASSUME IInv, NEW extra \in SUBSET {Panel},
           pol' \in PolicyType, pol'.desk = pol.desk, pol'.lockT = FALSE,
           pol'.blanked = (pol.blanked \ Woken(pol)) \ extra,
           requests' = Queue(Ask(Woken(pol) \cup extra, "on")),
           by' = Credit(Ask(Woken(pol) \cup extra, "on"), "other"),
           UNCHANGED <<machine, present, powered, inhibitor>>,
           cfg' \in Configuration, Known', locked' \in BOOLEAN, last' = "none"
    PROVE  IInv'
<1> DEFINE S == Woken(pol) \cup extra
<1>1. TypeOK /\ DarkWakes /\ BlankedDark /\ UserOffStays
  BY DEF IInv
<1>2. Woken(pol) \subseteq pol.blanked
  BY DEF Woken
<1>3. /\ by' \in [Outputs -> {"user", "idle", "other"}]
      /\ \A o \in Outputs : /\ o \in S => by'[o] = "other"
                            /\ o \notin S => by'[o] = by[o]
  BY <1>1, Credited
<1>4. present \subseteq Outputs
  BY <1>1 DEF TypeOK
<1>5. \A o \in present : /\ o \in S => by'[o] = "other" /\ o \notin pol'.blanked
                         /\ o \notin S => /\ by'[o] = by[o]
                                          /\ o \in pol'.blanked <=> o \in pol.blanked
  BY <1>3, <1>4
<1>6. DarkWakes' /\ BlankedDark' /\ UserOffStays' /\ requests' \in Requests
  <2> HIDE DEF S
  <2>1. requests' = Queue(Ask(S, "on"))
    BY DEF S
  <2> QED
    BY <1>1, <1>3, <1>5, <2>1, Lights, Zenon
<1>7. TypeOK'
  BY <1>1, <1>3, <1>6 DEF TypeOK, Requests
<1>8. Woken(pol)' = {}
  BY DEF Woken
<1>9. LockNoted'
  BY DEF LockNoted
<1> QED
  BY <1>6, <1>7, <1>8, <1>9, NothingToWake, Quiet DEF IInv

LEMMA NoteActivityKeeps ==
    ASSUME IInv, NoteActivity, UNCHANGED <<machine, cfg, present, powered, inhibitor>>,
           locked' \in BOOLEAN
    PROVE  IInv'
<1> DEFINE r == ResetIdleInterval(pol)
           extra == {}
<1>1. pol \in PolicyType
  BY DEF IInv, TypeOK
<1>2. /\ r \in PolicyType /\ Woken(r) = Woken(pol) /\ r.desk = pol.desk
      /\ r.blanked = pol.blanked /\ r.lockT = FALSE
  BY <1>1, Reset, Zenon
<1>3. /\ pol' = WakeBlanked(r) /\ last' = "none"
      /\ requests' = Queue(Ask(Woken(r), "on"))
      /\ by' = Credit(Ask(Woken(r), "on"), "other")
  BY Zenon DEF NoteActivity
<1> HIDE DEF r
<1>4. /\ pol' \in PolicyType /\ pol'.desk = pol.desk /\ pol'.lockT = FALSE
      /\ pol'.blanked = (pol.blanked \ Woken(pol)) \ extra
  BY <1>2, <1>3, Woke, Zenon
<1>5. /\ requests' = Queue(Ask(Woken(pol) \cup extra, "on"))
      /\ by' = Credit(Ask(Woken(pol) \cup extra, "on"), "other")
  <2>1. Woken(r) = Woken(pol) \cup extra
    BY <1>2
  <2> QED
    BY <1>3, <2>1
<1>9. cfg' \in Configuration /\ Known'
  BY DEF IInv, TypeOK, Known
<1>8. extra \in SUBSET {Panel}
  OBVIOUS
<1> HIDE DEF extra
<1> QED
  BY <1>2, <1>3, <1>4, <1>5, <1>8, <1>9, Awakened, Zenon

LEMMA ActivityKeeps == IInv /\ Activity /\ UNCHANGED machine => IInv'
<1> SUFFICES ASSUME IInv, Activity, UNCHANGED machine PROVE IInv'
  OBVIOUS
<1>1. NoteActivity /\ UNCHANGED <<cfg, present, powered, locked, inhibitor>>
  BY DEF Activity
<1> QED
  BY <1>1, NoteActivityKeeps DEF IInv, TypeOK

LEMMA UnlockKeeps == IInv /\ Unlock /\ UNCHANGED machine => IInv'
  BY NoteActivityKeeps, Zenon DEF Unlock

LEMMA PhoneTouchKeeps == IInv /\ PhoneTouch /\ UNCHANGED machine => IInv'
<1> SUFFICES ASSUME IInv, PhoneTouch, UNCHANGED machine PROVE IInv'
  OBVIOUS
<1> DEFINE r == ResetIdleInterval(pol)
           w == WakeBlanked(r)
           extra == {}
<1>1. pol \in PolicyType /\ locked \in BOOLEAN
  BY DEF IInv, TypeOK
<1>2. /\ r \in PolicyType /\ Woken(r) = Woken(pol) /\ r.desk = pol.desk
      /\ r.blanked = pol.blanked /\ r.lockT = FALSE
  BY <1>1, Reset, Zenon
<1>3. /\ pol' = IF pol.desk THEN [w EXCEPT !.touch = 0, !.phoneT = FALSE] ELSE w
      /\ last' = "none"
      /\ requests' = Queue(Ask(Woken(r), "on"))
      /\ by' = Credit(Ask(Woken(r), "on"), "other")
      /\ UNCHANGED <<cfg, present, powered, locked, inhibitor>>
  BY Zenon DEF PhoneTouch
<1> HIDE DEF r
<1>4. /\ w \in PolicyType /\ w.desk = pol.desk /\ w.lockT = FALSE
      /\ w.blanked = (pol.blanked \ Woken(pol)) \ extra
  BY <1>2, Woke, Zenon
<1> HIDE DEF w
<1>5. pol' \in PolicyType
  BY <1>3, <1>4, NeverType, Zenon DEF PolicyType
<1>6. /\ pol'.desk = pol.desk /\ pol'.lockT = FALSE
      /\ pol'.blanked = (pol.blanked \ Woken(pol)) \ extra
  BY <1>3, <1>4 DEF PolicyType
<1>7. /\ requests' = Queue(Ask(Woken(pol) \cup extra, "on"))
      /\ by' = Credit(Ask(Woken(pol) \cup extra, "on"), "other")
  <2>1. Woken(r) = Woken(pol) \cup extra
    BY <1>2
  <2> QED
    BY <1>3, <2>1
<1>9. cfg' \in Configuration /\ Known'
  BY <1>3 DEF IInv, TypeOK, Known
<1>8. extra \in SUBSET {Panel}
  OBVIOUS
<1> HIDE DEF extra
<1> QED
  BY <1>1, <1>2, <1>3, <1>5, <1>6, <1>7, <1>8, <1>9, Awakened, Zenon

LEMMA WakeKeyKeeps == IInv /\ WakeKey /\ UNCHANGED machine => IInv'
<1> SUFFICES ASSUME IInv, WakeKey, UNCHANGED machine PROVE IInv'
  OBVIOUS
<1> DEFINE r == ResetIdleInterval(pol)
           w == WakeBlanked(r)
           dark == Panel \in present \ Lit
           extra == IF dark THEN {Panel} ELSE {}
           blanked == w.blanked \ {Panel}
<1>1. pol \in PolicyType /\ locked \in BOOLEAN
  BY DEF IInv, TypeOK
<1>2. /\ r \in PolicyType /\ Woken(r) = Woken(pol) /\ r.desk = pol.desk
      /\ r.blanked = pol.blanked /\ r.lockT = FALSE
  BY <1>1, Reset, Zenon
<1>3. /\ pol' = IF dark
                THEN [w EXCEPT !.blanked = blanked, !.lockIn = Never,
                               !.manual = @ /\ blanked # {},
                               !.touch = IF w.desk THEN 0 ELSE @,
                               !.phoneT = IF w.desk THEN FALSE ELSE @]
                ELSE w
      /\ last' = "none"
      /\ requests' = Queue(Ask(Woken(r) \cup extra, "on"))
      /\ by' = Credit(Ask(Woken(r) \cup extra, "on"), "other")
      /\ UNCHANGED <<cfg, present, powered, locked, inhibitor>>
  BY Zenon DEF WakeKey
<1> HIDE DEF r
<1>4. /\ w \in PolicyType /\ w.desk = pol.desk /\ w.lockT = FALSE
      /\ w.blanked = pol.blanked \ Woken(pol) /\ w.manual = FALSE
  BY <1>2, Woke, Zenon
<1> HIDE DEF w
<1>5. blanked \in SUBSET Outputs /\ extra \in SUBSET {Panel}
  BY <1>4 DEF PolicyType
<1>8. cfg' \in Configuration /\ Known'
  BY <1>3 DEF IInv, TypeOK, Known
<1>6. CASE dark
  <2>1. (w.manual /\ blanked # {}) = FALSE
    BY <1>4
  <2> HIDE DEF blanked
  <2>2. pol' = [w EXCEPT !.blanked = blanked, !.lockIn = Never,
                         !.manual = FALSE,
                         !.touch = IF w.desk THEN 0 ELSE @,
                         !.phoneT = IF w.desk THEN FALSE ELSE @]
    BY <1>3, <1>6, <2>1, Zenon
  <2>3. pol' \in PolicyType
    BY <1>4, <1>5, <2>2, NeverType, Zenon DEF PolicyType
  <2>4. pol'.desk = pol.desk /\ pol'.lockT = FALSE /\ pol'.blanked = blanked
    BY <1>4, <2>2 DEF PolicyType
  <2>5. pol'.blanked = (pol.blanked \ Woken(pol)) \ extra
    BY <1>4, <1>6, <2>4 DEF blanked
  <2> HIDE DEF extra, dark
  <2> QED
    BY <1>1, <1>2, <1>3, <1>5, <2>3, <2>4, <2>5, <1>8, Awakened, Zenon
<1>7. CASE ~dark
  <2>1. pol' = w /\ extra = {}
    BY <1>3, <1>7
  <2>2. pol'.blanked = (pol.blanked \ Woken(pol)) \ extra
    BY <1>4, <2>1
  <2> HIDE DEF extra, dark
  <2> QED
    BY <1>1, <1>2, <1>3, <1>4, <1>5, <2>1, <2>2, <1>8, Awakened, Zenon
<1> QED
  BY <1>6, <1>7

(* A step that touches neither the power of an output nor the notes of it.  *)
LEMMA Untouched ==
    ASSUME IInv, pol'.blanked = pol.blanked, pol'.desk = pol.desk,
           pol'.manual = pol.manual, pol'.inhibited = pol.inhibited,
           UNCHANGED <<machine, present, powered, requests, by>>
    PROVE  DarkWakes' /\ BlankedDark' /\ UserOffStays' /\ UserMarked' /\ InhibitorLit'
<1>1. Lit' = Lit /\ Woken(pol)' = Woken(pol)
  BY DEF Lit, Woken
<1> QED
  BY <1>1 DEF IInv, DarkWakes, BlankedDark, UserOffStays, UserMarked, InhibitorLit, Alone

LEMMA NothingAsked ==
    ASSUME TypeOK, NEW who
    PROVE  Queue(Nothing) = requests /\ Credit(Nothing, who) = by
  BY DEF TypeOK, Queue, Credit, Nothing

LEMMA ConfigureKeeps ==
    ASSUME IInv, NEW c \in machine.configurations, Configure(c), UNCHANGED machine
    PROVE  IInv'
<1> DEFINE r == ResetIdleInterval(pol)
           extra == {}
<1>1. pol \in PolicyType /\ locked \in BOOLEAN /\ machine \in Machines /\ TypeOK
  BY DEF IInv, TypeOK
<1>2. /\ r \in PolicyType /\ Woken(r) = Woken(pol) /\ r.desk = pol.desk
      /\ r.blanked = pol.blanked /\ r.lockT = FALSE /\ r.manual = pol.manual
      /\ r.inhibited = pol.inhibited
  BY <1>1, Reset, Zenon
<1>3. /\ cfg' = c /\ last' = "none"
      /\ UNCHANGED <<present, powered, locked, inhibitor>>
      /\ pol' = IF c.dpms = Never THEN WakeBlanked(r) ELSE r
      /\ requests' = Queue(IF c.dpms = Never THEN Ask(Woken(r), "on") ELSE Nothing)
      /\ by' = Credit(IF c.dpms = Never THEN Ask(Woken(r), "on") ELSE Nothing, "other")
  BY Zenon DEF Configure
<1> HIDE DEF r
<1>4. /\ c \in Configuration
      /\ c.lock # Never /\ c.lock = c.dpms => c.lock + LockAfterDpms <= MaxAge
  BY <1>1, MachinesAssumption
<1>5. cfg' \in Configuration /\ Known'
  BY <1>3, <1>4 DEF IInv, Known
<1>6. CASE c.dpms = Never
  <2>1. /\ pol' \in PolicyType /\ pol'.desk = pol.desk /\ pol'.lockT = FALSE
        /\ pol'.blanked = (pol.blanked \ Woken(pol)) \ extra
    BY <1>2, <1>3, <1>6, Woke, Zenon
  <2>2. /\ requests' = Queue(Ask(Woken(pol) \cup extra, "on"))
        /\ by' = Credit(Ask(Woken(pol) \cup extra, "on"), "other")
    <3>1. Woken(r) = Woken(pol) \cup extra
      BY <1>2
    <3> QED
      BY <1>3, <1>6, <3>1
  <2>3. extra \in SUBSET {Panel}
    OBVIOUS
  <2> HIDE DEF extra
  <2> QED
    BY <1>1, <1>3, <1>5, <2>1, <2>2, <2>3, Awakened, Zenon
<1>7. CASE c.dpms # Never
  <2>1. pol' = r /\ requests' = Queue(Nothing) /\ by' = Credit(Nothing, "other")
    BY <1>3, <1>7
  <2>2. requests' = requests /\ by' = by
    BY <1>1, <2>1, NothingAsked
  <2>3. DarkWakes' /\ BlankedDark' /\ UserOffStays' /\ UserMarked' /\ InhibitorLit'
    BY <1>2, <1>3, <2>1, <2>2, Untouched
  <2>4. TypeOK'
    BY <1>1, <1>2, <1>3, <1>5, <2>1, <2>2 DEF TypeOK
  <2>5. LockNoted'
    BY <1>2, <2>1 DEF LockNoted
  <2> QED
    BY <1>3, <1>5, <2>3, <2>4, <2>5, Quiet DEF IInv
<1> QED
  BY <1>6, <1>7

LEMMA ExternalKeeps ==
    ASSUME IInv, NEW o \in Outputs, NEW power \in Power, External(o, power), UNCHANGED machine
    PROVE  IInv'
<1>1. TypeOK /\ pol \in PolicyType /\ present \subseteq Outputs
  BY DEF IInv, TypeOK
<1>2. /\ pol' = [pol EXCEPT !.blanked = @ \ {o}]
      /\ requests' = [requests EXCEPT ![o] = power]
      /\ by' = [by EXCEPT ![o] = "other"]
      /\ last' = "none"
      /\ UNCHANGED <<cfg, present, powered, locked, inhibitor>>
  BY DEF External
<1>3. pol' \in PolicyType
  BY <1>1, <1>2 DEF PolicyType
<1>4. /\ pol'.blanked = pol.blanked \ {o} /\ pol'.desk = pol.desk
      /\ pol'.manual = pol.manual /\ pol'.inhibited = pol.inhibited
      /\ pol'.lockT = pol.lockT
  BY <1>1, <1>2 DEF PolicyType
<1>5. requests' \in Requests /\ by' \in [Outputs -> {"user", "idle", "other"}]
  BY <1>1, <1>2 DEF TypeOK, Requests
<1>6. TypeOK'
  BY <1>1, <1>2, <1>3, <1>5 DEF TypeOK, Requests
<1>7. by'[o] = "other"
  BY <1>1, <1>2 DEF TypeOK
<1>8. \A x \in present : x # o => by'[x] = by[x] /\ (x \in Lit' <=> x \in Lit)
  BY <1>1, <1>2 DEF TypeOK, Lit
<1>9. DarkWakes'
  BY <1>2, <1>4, <1>7, <1>8 DEF IInv, DarkWakes
<1>10. BlankedDark'
  BY <1>2, <1>4, <1>8 DEF IInv, BlankedDark
<1>11. UserOffStays'
  BY <1>2, <1>7, <1>8 DEF IInv, UserOffStays
<1>12. Woken(pol)' \subseteq Woken(pol)
  BY <1>4 DEF Woken
<1>13. UserMarked'
  BY <1>2, <1>4, <1>7, <1>8, <1>12 DEF IInv, UserMarked, Alone
<1>14. InhibitorLit' /\ LockNoted' /\ Known'
  BY <1>2, <1>4, <1>12, Zenon DEF IInv, InhibitorLit, LockNoted, Known
<1> QED
  BY <1>2, <1>6, <1>9, <1>10, <1>11, <1>13, <1>14, Quiet DEF IInv

LEMMA SetInhibitorKeeps ==
    ASSUME IInv, NEW i \in {"none", "desk", "phone"}, SetInhibitor(i), UNCHANGED machine
    PROVE  IInv'
<1>1. /\ inhibitor' = i /\ last' = "none"
      /\ UNCHANGED <<cfg, pol, requests, present, powered, locked, by>>
  BY DEF SetInhibitor
<1>2. DarkWakes' /\ BlankedDark' /\ UserOffStays' /\ UserMarked' /\ InhibitorLit'
  BY <1>1, Untouched
<1>3. TypeOK' /\ LockNoted' /\ Known'
  BY <1>1 DEF IInv, TypeOK, LockNoted, Known
<1> QED
  BY <1>1, <1>2, <1>3, Quiet DEF IInv

LEMMA TickKeeps == IInv /\ Tick /\ UNCHANGED machine => IInv'
<1> SUFFICES ASSUME IInv, Tick, UNCHANGED machine PROVE IInv'
  OBVIOUS
<1>1. TypeOK /\ pol \in PolicyType
  BY DEF IInv, TypeOK
<1>2. /\ pol' = [pol EXCEPT !.idle = Older(@), !.touch = Older(@),
                            !.lockIn = IF @ \in {0, Never} THEN @ ELSE @ - 1]
      /\ last' = "none"
      /\ UNCHANGED <<cfg, requests, present, powered, locked, inhibitor, by>>
  BY DEF Tick
<1>3. /\ Older(pol.idle) \in 0 .. MaxAge /\ Older(pol.touch) \in 0 .. MaxAge
      /\ (IF pol.lockIn \in {0, Never} THEN pol.lockIn ELSE pol.lockIn - 1) \in Timeouts
  <2>1. /\ pol.idle \in 0 .. MaxAge /\ pol.touch \in 0 .. MaxAge
        /\ pol.lockIn \in 0 .. Never /\ MaxAge \in Nat /\ Never = MaxAge + 1
    BY <1>1, MachinesAssumption DEF PolicyType, Timeouts, Never
  <2> QED
    BY <2>1 DEF Older, Timeouts
<1>4. pol' \in PolicyType
  BY <1>1, <1>2, <1>3, Zenon DEF PolicyType
<1>5. /\ pol'.blanked = pol.blanked /\ pol'.desk = pol.desk
      /\ pol'.manual = pol.manual /\ pol'.inhibited = pol.inhibited
      /\ pol'.lockT = pol.lockT
  BY <1>1, <1>2 DEF PolicyType
<1>6. DarkWakes' /\ BlankedDark' /\ UserOffStays' /\ UserMarked' /\ InhibitorLit'
  BY <1>2, <1>5, Untouched
<1>7. TypeOK'
  BY <1>1, <1>2, <1>4 DEF TypeOK
<1>8. LockNoted' /\ Known'
  BY <1>2, <1>5 DEF IInv, LockNoted, Known
<1> QED
  BY <1>2, <1>6, <1>7, <1>8, Quiet DEF IInv

LEMMA PlugKeeps ==
    ASSUME IInv, NEW o \in Outputs, Plug(o), UNCHANGED machine
    PROVE  IInv'
<1>1. TypeOK /\ Panel \in present /\ present \subseteq Outputs
  BY DEF IInv, TypeOK, Known
<1>2. /\ machine.hotplug /\ o \notin present
      /\ present' = present \cup {o} /\ powered' = powered \cup {o}
      /\ by' = [by EXCEPT ![o] = "other"] /\ last' = "none"
      /\ UNCHANGED <<cfg, pol, requests, locked, inhibitor>>
  BY DEF Plug
<1>3. by' \in [Outputs -> {"user", "idle", "other"}] /\ by'[o] = "other"
  BY <1>1, <1>2 DEF TypeOK
<1>4. \A x \in present : x # o /\ by'[x] = by[x] /\ (x \in Lit' <=> x \in Lit)
  BY <1>1, <1>2 DEF TypeOK, Lit
<1>5. TypeOK'
  BY <1>1, <1>2, <1>3 DEF TypeOK
<1>6. DarkWakes'
  BY <1>2, <1>3, <1>4 DEF IInv, DarkWakes
<1>7. BlankedDark'
  BY <1>1, <1>2, <1>4 DEF IInv, BlankedDark
<1>8. UserOffStays'
  BY <1>2, <1>3, <1>4 DEF IInv, UserOffStays
<1>9. UserMarked'
  BY <1>2, <1>3, <1>4 DEF IInv, UserMarked, Alone, Woken
<1>10. InhibitorLit' /\ LockNoted' /\ Known'
  BY <1>2 DEF IInv, InhibitorLit, LockNoted, Known, Woken
<1> QED
  BY <1>2, <1>5, <1>6, <1>7, <1>8, <1>9, <1>10, Quiet DEF IInv

LEMMA UnplugKeeps ==
    ASSUME IInv, NEW o \in Outputs, Unplug(o), UNCHANGED machine
    PROVE  IInv'
<1>1. TypeOK /\ Panel \in present /\ present \subseteq Outputs
  BY DEF IInv, TypeOK, Known
<1>2. /\ o # Panel
      /\ present' = present \ {o} /\ powered' = powered \ {o}
      /\ by' = [by EXCEPT ![o] = "other"] /\ last' = "none"
      /\ UNCHANGED <<cfg, pol, requests, locked, inhibitor>>
  BY DEF Unplug
<1>3. by' \in [Outputs -> {"user", "idle", "other"}]
  BY <1>1, <1>2 DEF TypeOK
<1>4. \A x \in present' : x \in present /\ by'[x] = by[x] /\ (x \in Lit' <=> x \in Lit)
  BY <1>1, <1>2 DEF TypeOK, Lit
<1>5. TypeOK'
  BY <1>1, <1>2, <1>3 DEF TypeOK
<1>6. DarkWakes'
  BY <1>2, <1>4 DEF IInv, DarkWakes
<1>7. BlankedDark'
  BY <1>2, <1>4 DEF IInv, BlankedDark
<1>8. UserOffStays'
  BY <1>4 DEF IInv, UserOffStays
<1>9. UserMarked'
  BY <1>2, <1>4 DEF IInv, UserMarked, Alone, Woken
<1>10. InhibitorLit' /\ LockNoted' /\ Known'
  BY <1>2 DEF IInv, InhibitorLit, LockNoted, Known, Woken
<1> QED
  BY <1>2, <1>5, <1>6, <1>7, <1>8, <1>9, <1>10, Quiet DEF IInv

(* What every run of the KMS gate keeps: it only forgets failed requests.   *)
LEMMA GateForgets ==
    ASSUME IInv, NEW R \in Requests, NEW outcome \in Outcomes,
           NEW C \in [Outputs -> {"user", "idle", "other"}], Gate(R, outcome, C),
           UNCHANGED machine
    PROVE  /\ TypeOK' /\ Known' /\ InhibitorLit' /\ LockNoted' /\ SuspendSafe' /\ DeadlineAhead'
           /\ pol'.blanked \subseteq pol.blanked /\ pol'.desk = pol.desk
           /\ pol'.manual = pol.manual
<1> DEFINE off == {o \in present \cap powered : R[o] = "off"}
           on == {o \in present \ powered : R[o] = "on"}
           failed == Failed(R, outcome, off)
<1>1. TypeOK /\ pol \in PolicyType /\ present \subseteq Outputs /\ powered \subseteq present
  BY DEF IInv, TypeOK
<1>2. /\ pol' = [pol EXCEPT !.blanked = @ \ failed]
      /\ by' = [o \in Outputs |->
                 IF o \notin present \/ (outcome = "refused" /\ o \in off)
                 THEN "other" ELSE C[o]]
      /\ powered' = (powered \ (IF outcome = "cleared" THEN off ELSE {})) \cup on
      /\ requests' = IF outcome = "waiting" THEN Ask(off, "off") ELSE Nothing
      /\ last' = "none"
      /\ UNCHANGED <<cfg, present, locked, inhibitor>>
  BY Zenon DEF Gate
<1>3. on \subseteq present
  OBVIOUS
<1> HIDE DEF off, on, failed
<1>4. pol' \in PolicyType
  BY <1>1, <1>2 DEF PolicyType
<1>5. /\ pol'.blanked = pol.blanked \ failed /\ pol'.desk = pol.desk
      /\ pol'.manual = pol.manual /\ pol'.inhibited = pol.inhibited
      /\ pol'.lockT = pol.lockT
  BY <1>1, <1>2 DEF PolicyType
<1>6. requests' \in Requests
  BY <1>2, AskType
<1>7. by' \in [Outputs -> {"user", "idle", "other"}]
  BY <1>2
<1>8. powered' \subseteq present
  BY <1>1, <1>2, <1>3
<1>9. TypeOK'
  BY <1>1, <1>2, <1>4, <1>6, <1>7, <1>8 DEF TypeOK, Requests
<1>10. Woken(pol)' \subseteq Woken(pol)
  BY <1>5 DEF Woken
<1>11. InhibitorLit' /\ LockNoted' /\ Known'
  BY <1>2, <1>5, <1>10 DEF IInv, InhibitorLit, LockNoted, Known
<1> QED
  BY <1>2, <1>5, <1>9, <1>11, Quiet

LEMMA ApplyKeeps == IInv /\ Apply /\ UNCHANGED machine => IInv'
<1> SUFFICES ASSUME IInv, UNCHANGED machine,
                    NEW outcome \in Outcomes, Gate(requests, outcome, by)
             PROVE  IInv'
  BY DEF Apply
<1> DEFINE off == {o \in present \cap powered : requests[o] = "off"}
           on == {o \in present \ powered : requests[o] = "on"}
           failed == Failed(requests, outcome, off)
<1>1. /\ TypeOK /\ pol \in PolicyType /\ present \subseteq Outputs
      /\ requests \in Requests /\ by \in [Outputs -> {"user", "idle", "other"}]
  BY DEF IInv, TypeOK, Requests
<1>2. /\ pol' = [pol EXCEPT !.blanked = @ \ failed]
      /\ by' = [o \in Outputs |->
                 IF o \notin present \/ (outcome = "refused" /\ o \in off)
                 THEN "other" ELSE by[o]]
      /\ powered' = (powered \ (IF outcome = "cleared" THEN off ELSE {})) \cup on
      /\ requests' = IF outcome = "waiting" THEN Ask(off, "off") ELSE Nothing
      /\ present' = present
  BY Zenon DEF Gate
<1>3. /\ TypeOK' /\ Known' /\ InhibitorLit' /\ LockNoted' /\ SuspendSafe' /\ DeadlineAhead'
      /\ pol'.desk = pol.desk /\ pol'.manual = pol.manual
  BY <1>1, GateForgets
<1>4. pol'.blanked = pol.blanked \ failed
  BY <1>1, <1>2 DEF PolicyType
<1>5. \A x \in present : x \in failed <=> outcome = "refused" /\ x \in off
  BY DEF Failed
<1>6. \A x \in present : by'[x] = IF outcome = "refused" /\ x \in off THEN "other" ELSE by[x]
  BY <1>1, <1>2
<1>7. ASSUME NEW x \in present, ~(outcome = "refused" /\ x \in off)
      PROVE  x \in Lit' <=> x \in Lit
  <2>1. requests[x] \in {"on", "off", "none"} /\ outcome \in {"cleared", "waiting", "refused"}
    BY <1>1 DEF Requests, Power, Outcomes
  <2>2. requests'[x] = IF outcome = "waiting" /\ x \in off THEN "off" ELSE "none"
    BY <1>1, <1>2, Asked
  <2>3. x \in powered' <=> (x \in powered /\ ~(outcome = "cleared" /\ x \in off)) \/ x \in on
    BY <1>2
  <2> QED
    BY <1>2, <1>7, <2>1, <2>2, <2>3 DEF Lit
<1> HIDE DEF off, on, failed
<1>8. DarkWakes'
  BY <1>2, <1>4, <1>5, <1>6, <1>7 DEF IInv, DarkWakes
<1>9. BlankedDark'
  BY <1>2, <1>4, <1>5, <1>7 DEF IInv, BlankedDark
<1>10. UserOffStays'
  BY <1>2, <1>6, <1>7 DEF IInv, UserOffStays
<1>11. UserMarked'
  <2>1. Woken(pol)' \subseteq Woken(pol)
    BY <1>3, <1>4 DEF Woken
  <2> QED
    BY <1>2, <1>3, <1>6, <2>1 DEF IInv, UserMarked, Alone
<1> QED
  BY <1>3, <1>8, <1>9, <1>10, <1>11 DEF IInv

(* A machine with Settings has no promise about the user's own screen-off,  *)
(* and after a configuration no output is the policy's.                     *)
LEMMA NobodysOutputs ==
    ASSUME machine.settings, UNCHANGED <<machine, present>>,
           \A o \in present : by'[o] = "other"
    PROVE  DarkWakes' /\ BlankedDark' /\ UserMarked' /\ UserOffStays'
  BY DEF DarkWakes, BlankedDark, UserMarked, UserOffStays, Alone

LEMMA ApplySettingsKeeps ==
    ASSUME IInv, NEW power \in [Outputs -> Power], ApplySettings(power), UNCHANGED machine
    PROVE  IInv'
<1> DEFINE R == [o \in Outputs |-> IF o \in present THEN power[o] ELSE requests[o]]
           C == [o \in Outputs |-> IF o \in present THEN "other" ELSE by[o]]
<1>1. present \subseteq Outputs
  BY DEF IInv, TypeOK
<1>2. R \in Requests
  BY DEF IInv, TypeOK, Requests
<1>3. C \in [Outputs -> {"user", "idle", "other"}]
  BY DEF IInv, TypeOK
<1>4. PICK outcome \in Outcomes : Gate(R, outcome, C)
  BY Zenon DEF ApplySettings
<1>5. \A o \in present : C[o] = "other"
  BY <1>1
<1> HIDE DEF R, C
<1>6. /\ TypeOK' /\ Known' /\ InhibitorLit' /\ LockNoted' /\ SuspendSafe' /\ DeadlineAhead'
  BY <1>2, <1>3, <1>4, GateForgets
<1>7. present' = present /\ \A o \in present : by'[o] = "other"
  BY <1>1, <1>4, <1>5 DEF Gate
<1>8. machine.settings
  BY DEF ApplySettings
<1> QED
  BY <1>6, <1>7, <1>8, NobodysOutputs DEF IInv

LEMMA RollbackSettingsKeeps ==
    ASSUME IInv, NEW power \in [Outputs -> Power], RollbackSettings(power), UNCHANGED machine
    PROVE  IInv'
<1>1. /\ requests' = [o \in Outputs |-> IF o \in present THEN power[o] ELSE requests[o]]
      /\ by' = [o \in Outputs |-> IF o \in present THEN "other" ELSE by[o]]
      /\ last' = "none" /\ machine.settings
      /\ UNCHANGED <<cfg, pol, present, powered, locked, inhibitor>>
  BY DEF RollbackSettings
<1>2. present \subseteq Outputs
  BY DEF IInv, TypeOK
<1>3. requests' \in Requests
  BY <1>1 DEF IInv, TypeOK, Requests
<1>4. by' \in [Outputs -> {"user", "idle", "other"}] /\ \A o \in present : by'[o] = "other"
  BY <1>1, <1>2 DEF IInv, TypeOK
<1>5. TypeOK'
  BY <1>1, <1>3, <1>4 DEF IInv, TypeOK, Requests
<1>6. DarkWakes' /\ BlankedDark' /\ UserMarked' /\ UserOffStays'
  BY <1>1, <1>4, NobodysOutputs
<1>7. InhibitorLit' /\ LockNoted' /\ Known'
  BY <1>1 DEF IInv, InhibitorLit, LockNoted, Known, Woken
<1> QED
  BY <1>1, <1>5, <1>6, <1>7, Quiet DEF IInv

-----------------------------------------------------------------------------
(* Presses and evaluations. *)

(* Noticing that the desk came or left keeps what is known of the outputs   *)
(* an inhibitor may light: a dark panel that the desk leaves is the user's. *)
LEMMA DeskMarked ==
    ASSUME IInv, NEW p, p = SetPhoneWithDesk(pol, PhoneBesideDesk)
    PROVE  /\ p \in PolicyType /\ p.blanked = pol.blanked /\ p.lockT = pol.lockT
           /\ p.desk = PhoneBesideDesk
           /\ pol.manual => p.manual
           /\ Alone => \A o \in present \cap Woken(p) : by[o] = "user" => p.manual
           /\ p.inhibited /\ ~p.manual => Woken(p) = {}
<1>1. pol \in PolicyType /\ cfg \in Configuration
  BY DEF IInv, TypeOK
<1>2. PhoneBesideDesk \in BOOLEAN
  BY DEF PhoneBesideDesk
<1>3. /\ p \in PolicyType /\ p.blanked = pol.blanked /\ p.lockT = pol.lockT
      /\ p.desk = PhoneBesideDesk /\ p.inhibited = pol.inhibited
      /\ p.manual = (pol.manual \/ LeftDark(pol, PhoneBesideDesk))
  BY <1>1, <1>2, DeskNoted
<1>4. pol.manual \/ LeftDark(pol, PhoneBesideDesk) => p.manual
  BY <1>3, Zenon
<1>5. CASE p.manual
  BY <1>3, <1>5
<1>6. CASE ~p.manual
  <2>1. Woken(p) \subseteq Woken(pol)
    BY <1>3, <1>4, <1>6 DEF Woken, LeftDark
  <2> QED
    BY <1>3, <1>4, <1>6, <2>1 DEF IInv, UserMarked, InhibitorLit
<1> QED
  BY <1>5, <1>6

(* Outside a desk a press finds no output both lit and held for dark.       *)
LEMMA PressSeesAll ==
    ASSUME IInv, Alone, ~PhoneBesideDesk
    PROVE  Lit \cap pol.blanked = {}
  BY DEF IInv, Alone, PhoneBesideDesk, BlankedDark, Known, Lit

LEMMA TogglePhoneKeeps ==
    ASSUME IInv, ToggleScreen, PhoneBesideDesk, UNCHANGED machine
    PROVE  IInv'
<1> DEFINE p == SetPhoneWithDesk(pol, PhoneBesideDesk)
           r == ResetIdleInterval(p)
           t == TogglePhone(r)
<1>1. /\ TypeOK /\ Known /\ DarkWakes /\ BlankedDark /\ UserOffStays
      /\ present \subseteq Outputs /\ by \in [Outputs -> {"user", "idle", "other"}]
      /\ locked \in BOOLEAN /\ Panel \in present
  BY DEF IInv, TypeOK, Known
<1>2. /\ p \in PolicyType /\ p.blanked = pol.blanked /\ p.desk = TRUE
      /\ Alone => \A o \in present \cap Woken(p) : by[o] = "user" => p.manual
      /\ p.inhibited /\ ~p.manual => Woken(p) = {}
  BY DeskMarked, Zenon DEF PhoneBesideDesk
<1>3. /\ pol' = t.pol /\ requests' = Queue(t.reqs) /\ last' = "none"
      /\ by' = [o \in Outputs |-> IF o \in Lit \cap {Panel} THEN "user"
                                  ELSE Credit(t.reqs, "user")[o]]
      /\ locked' = (locked \/ DeskLeaveLocks(pol, PhoneBesideDesk) \/ t.lock)
      /\ UNCHANGED <<cfg, present, powered, inhibitor>>
  <2>1. r.desk = TRUE
    BY <1>2, Reset, Zenon
  <2>2. ToggleNow(p) = t
    BY <2>1, Zenon DEF ToggleNow
  <2> QED
    BY <2>2, Zenon DEF ToggleScreen
<1> HIDE DEF p
<1>4. /\ r \in PolicyType /\ r.blanked = pol.blanked /\ r.desk = TRUE /\ r.lockT = FALSE
      /\ r.manual = p.manual /\ r.inhibited = p.inhibited /\ Woken(r) = Woken(p)
  BY <1>2, Reset, Zenon
<1> HIDE DEF r
<1>5. locked' \in BOOLEAN
  BY <1>3
<1>6. CASE Panel \in Lit
  <2>1. /\ t.pol = [r EXCEPT !.phoneT = TRUE, !.blanked = @ \cup {Panel}]
        /\ t.reqs = Ask({Panel}, "off")
    BY <1>6 DEF TogglePhone
  <2> HIDE DEF t
  <2>2. pol' \in PolicyType
    <3>1. r.blanked \cup {Panel} \in SUBSET Outputs
      BY <1>1, <1>4 DEF PolicyType
    <3>2. pol' = [r EXCEPT !.phoneT = TRUE, !.blanked = @ \cup {Panel}]
      BY <1>3, <2>1
    <3> QED
      BY <1>4, <3>1, <3>2, Zenon DEF PolicyType
  <2>3. /\ pol'.blanked = pol.blanked \cup {Panel} /\ pol'.desk = TRUE /\ pol'.lockT = FALSE
        /\ pol'.manual = p.manual /\ pol'.inhibited = p.inhibited
    BY <1>3, <1>4, <2>1 DEF PolicyType
  <2>4. Woken(pol)' = Woken(p)
    BY <1>2, <2>3 DEF Woken
  <2>5. \A o \in Outputs : Ask({Panel}, "off")[o] = IF o = Panel THEN "off" ELSE "none"
    BY DEF Ask
  <2>6. by' = [o \in Outputs |-> IF o = Panel THEN "user" ELSE by[o]]
    BY <1>3, <1>6, <2>1, <2>5 DEF Credit
  <2>7. by' \in [Outputs -> {"user", "idle", "other"}]
    BY <1>1, <2>6
  <2>8. Told(Ask({Panel}, "off"))
    BY <1>1, <2>3, <2>5, <2>6 DEF Told
  <2>9. DarkWakes' /\ BlankedDark' /\ UserOffStays' /\ requests' \in Requests
    BY <1>1, <1>3, <2>1, <2>8, AskType, PowerTold, Relit
  <2>10. TypeOK'
    BY <1>1, <1>3, <1>5, <2>2, <2>7, <2>9 DEF TypeOK, Requests
  <2>11. UserMarked'
    <3>1. Panel \notin Woken(p)
      BY <1>2 DEF Woken
    <3> SUFFICES ASSUME Alone, NEW o \in present \cap Woken(p), by'[o] = "user"
                 PROVE  p.manual
      BY <1>3, <2>3, <2>4, Zenon DEF UserMarked, Alone
    <3>2. o \in Outputs /\ o # Panel
      BY <1>1, <3>1
    <3>3. by[o] = "user"
      BY <2>6, <3>2
    <3> QED
      BY <1>2, <3>3
  <2>12. InhibitorLit' /\ LockNoted' /\ Known'
    BY <1>1, <1>2, <1>3, <2>3, <2>4, Zenon DEF InhibitorLit, LockNoted, Known
  <2> QED
    BY <1>3, <2>9, <2>10, <2>11, <2>12, Quiet DEF IInv
<1>7. CASE Panel \notin Lit
  <2>1. /\ t.pol = [r EXCEPT !.touch = 0, !.phoneT = FALSE, !.blanked = @ \ {Panel}]
        /\ t.reqs = Ask({Panel}, "on")
    BY <1>7 DEF TogglePhone
  <2> HIDE DEF t
  <2>2. pol' \in PolicyType
    <3>1. r.blanked \ {Panel} \in SUBSET Outputs /\ 0 \in 0 .. MaxAge
      BY <1>4, NeverType DEF PolicyType
    <3>2. pol' = [r EXCEPT !.touch = 0, !.phoneT = FALSE, !.blanked = @ \ {Panel}]
      BY <1>3, <2>1, Zenon
    <3> QED
      BY <1>4, <3>1, <3>2, Zenon DEF PolicyType
  <2>3. /\ pol'.blanked = pol.blanked \ {Panel} /\ pol'.desk = TRUE /\ pol'.lockT = FALSE
        /\ pol'.manual = p.manual /\ pol'.inhibited = p.inhibited
    BY <1>3, <1>4, <2>1 DEF PolicyType
  <2>4. Woken(pol)' = Woken(p)
    BY <1>2, <2>3 DEF Woken
  <2>5. \A o \in Outputs : Ask({Panel}, "on")[o] = IF o = Panel THEN "on" ELSE "none"
    BY DEF Ask
  <2>6. by' = [o \in Outputs |-> IF o = Panel THEN "other" ELSE by[o]]
    BY <1>3, <1>7, <2>1, <2>5 DEF Credit
  <2>7. by' \in [Outputs -> {"user", "idle", "other"}]
    BY <1>1, <2>6
  <2>8. DarkWakes' /\ BlankedDark' /\ UserOffStays' /\ requests' \in Requests
    <3>1. \A o \in present :
             /\ o \in {Panel} => by'[o] = "other" /\ o \notin pol'.blanked
             /\ o \notin {Panel} => /\ by'[o] = by[o]
                                    /\ o \in pol'.blanked <=> o \in pol.blanked
      BY <1>1, <2>3, <2>6
    <3> QED
      BY <1>1, <1>3, <2>1, <2>2, <2>7, <3>1, Lights
  <2>9. TypeOK'
    BY <1>1, <1>3, <1>5, <2>2, <2>7, <2>8 DEF TypeOK, Requests
  <2>10. UserMarked'
    BY <1>1, <1>2, <1>3, <2>3, <2>4, <2>6 DEF UserMarked, Alone
  <2>11. InhibitorLit' /\ LockNoted' /\ Known'
    BY <1>1, <1>2, <1>3, <2>3, <2>4, Zenon DEF InhibitorLit, LockNoted, Known
  <2> QED
    BY <1>3, <2>8, <2>9, <2>10, <2>11, Quiet DEF IInv
<1> QED
  BY <1>6, <1>7

LEMMA ToggleOffKeeps ==
    ASSUME IInv, ToggleScreen, ~PhoneBesideDesk, Lit # {}, UNCHANGED machine
    PROVE  IInv'
<1> DEFINE p == SetPhoneWithDesk(pol, PhoneBesideDesk)
           r == ResetIdleInterval(p)
           t == ToggleOff(r)
           b == BlankNow(r)
<1>1. /\ TypeOK /\ Known /\ DarkWakes /\ BlankedDark /\ UserOffStays
      /\ present \subseteq Outputs /\ by \in [Outputs -> {"user", "idle", "other"}]
      /\ locked \in BOOLEAN /\ cfg \in Configuration
  BY DEF IInv, TypeOK
<1>2. /\ p \in PolicyType /\ p.blanked = pol.blanked /\ p.desk = FALSE
      /\ p.inhibited /\ ~p.manual => Woken(p) = {}
  BY DeskMarked, Zenon DEF PhoneBesideDesk
<1>3. /\ pol' = t.pol /\ requests' = Queue(t.reqs) /\ last' = "none"
      /\ by' = [o \in Outputs |-> IF o \in Lit THEN "user" ELSE Credit(t.reqs, "user")[o]]
      /\ locked' = (locked \/ DeskLeaveLocks(pol, PhoneBesideDesk) \/ t.lock)
      /\ UNCHANGED <<cfg, present, powered, inhibitor>>
  <2>1. r.desk = FALSE
    BY <1>2, Reset, Zenon
  <2>2. ToggleNow(p) = t
    BY <2>1 DEF ToggleNow
  <2> QED
    BY <2>2, Zenon DEF ToggleScreen
<1> HIDE DEF p
<1>4. /\ r \in PolicyType /\ r.blanked = pol.blanked /\ r.desk = FALSE /\ r.lockT = FALSE
      /\ r.manual = p.manual /\ r.inhibited = p.inhibited /\ Woken(r) = Woken(p)
  BY <1>2, Reset, Zenon
<1> HIDE DEF r
<1>5. locked' \in BOOLEAN
  BY <1>3
<1>6. t.pol = ScreenWentOff(b) /\ t.reqs = Ask(Lit \ r.blanked, "off")
  BY DEF ToggleOff
<1>7. Lit \subseteq present
  BY DEF Lit
<1>8. /\ b \in PolicyType /\ b.blanked = pol.blanked \cup Lit /\ b.desk = FALSE
      /\ b.lockT = FALSE /\ b.inhibited = p.inhibited
      /\ b.manual = (p.manual \/ Lit \ pol.blanked # {})
  <2>1. r.blanked \cup Lit \in SUBSET Outputs
    BY <1>1, <1>4, <1>7 DEF PolicyType
  <2>2. (r.manual \/ (Lit \ r.blanked # {})) \in BOOLEAN
    OBVIOUS
  <2>3. b = [r EXCEPT !.blanked = r.blanked \cup Lit,
                      !.manual = r.manual \/ (Lit \ r.blanked # {})]
    BY DEF BlankNow
  <2> HIDE DEF b
  <2> QED
    BY <1>4, <2>1, <2>2, <2>3, Zenon DEF PolicyType
<1> HIDE DEF b, t
<1>9. /\ pol' \in PolicyType /\ pol'.blanked = pol.blanked \cup Lit /\ pol'.desk = FALSE
      /\ pol'.lockT = FALSE /\ pol'.inhibited = p.inhibited /\ pol'.manual = b.manual
  BY <1>1, <1>3, <1>6, <1>8, WentOff
<1>10. p.manual \/ Lit \ pol.blanked # {} => pol'.manual
  BY <1>8, <1>9, Zenon
<1> DEFINE S == Lit \ pol.blanked
<1>11. requests' = Queue(Ask(S, "off"))
  BY <1>3, <1>4, <1>6
<1>12. \A o \in Outputs : Ask(S, "off")[o] = IF o \in S THEN "off" ELSE "none"
  BY DEF Ask
<1>13. by' = [o \in Outputs |-> IF o \in Lit THEN "user" ELSE by[o]]
  <2>1. by' = [o \in Outputs |-> IF o \in Lit THEN "user" ELSE Credit(Ask(S, "off"), "user")[o]]
    BY <1>3, <1>4, <1>6
  <2>2. \A o \in Outputs : o \notin Lit => Credit(Ask(S, "off"), "user")[o] = by[o]
    BY <1>12 DEF Credit
  <2> HIDE DEF S
  <2> QED
    BY <2>1, <2>2
<1>14. by' \in [Outputs -> {"user", "idle", "other"}]
  BY <1>1, <1>13
<1>15. Alone => S = Lit
  BY PressSeesAll
<1>16. Told(Ask(S, "off"))
  <2> SUFFICES ASSUME NEW o \in present
               PROVE  /\ Ask(S, "off")[o] = "on" =>
                            o \notin pol'.blanked /\ (Alone => by'[o] # "user")
                      /\ Ask(S, "off")[o] = "off" => o \in pol'.blanked
                      /\ Ask(S, "off")[o] = "none" =>
                            /\ o \in pol'.blanked <=> o \in pol.blanked
                            /\ by'[o] = by[o] \/ (o \in Lit /\ ~Alone)
    BY Zenon DEF Told
  <2> QED
    BY <1>1, <1>9, <1>12, <1>13, <1>15
<1> HIDE DEF S
<1>17. DarkWakes' /\ BlankedDark' /\ UserOffStays' /\ requests' \in Requests
  BY <1>1, <1>3, <1>11, <1>16, AskType, PowerTold, Relit
<1>18. TypeOK'
  BY <1>1, <1>3, <1>5, <1>9, <1>14, <1>17 DEF TypeOK, Requests
<1>19. UserMarked'
  BY <1>3, <1>10, <1>15 DEF UserMarked, Alone, S
<1>20. InhibitorLit'
  <2>1. Woken(pol)' = pol.blanked \cup Lit /\ Woken(p) = pol.blanked
    BY <1>2, <1>9 DEF Woken
  <2> QED
    BY <1>2, <1>9, <1>10, <2>1 DEF InhibitorLit
<1>21. LockNoted' /\ Known'
  BY <1>1, <1>3, <1>9 DEF LockNoted, Known
<1> QED
  BY <1>3, <1>17, <1>18, <1>19, <1>20, <1>21, Quiet DEF IInv

LEMMA ToggleOnKeeps ==
    ASSUME IInv, ToggleScreen, ~PhoneBesideDesk, Lit = {}, UNCHANGED machine
    PROVE  IInv'
<1> DEFINE p == SetPhoneWithDesk(pol, PhoneBesideDesk)
           r == ResetIdleInterval(p)
           t == ToggleOn(r)
<1>1. /\ TypeOK /\ Known /\ DarkWakes /\ BlankedDark /\ UserOffStays
      /\ present \subseteq Outputs /\ by \in [Outputs -> {"user", "idle", "other"}]
      /\ locked \in BOOLEAN
  BY DEF IInv, TypeOK
<1>2. p \in PolicyType /\ p.desk = FALSE
  BY DeskMarked, Zenon DEF PhoneBesideDesk
<1>3. /\ pol' = t.pol /\ requests' = Queue(t.reqs) /\ last' = "none"
      /\ by' = [o \in Outputs |-> IF o \in Lit THEN "user" ELSE Credit(t.reqs, "user")[o]]
      /\ locked' = (locked \/ DeskLeaveLocks(pol, PhoneBesideDesk) \/ t.lock)
      /\ UNCHANGED <<cfg, present, powered, inhibitor>>
  <2>1. r.desk = FALSE
    BY <1>2, Reset, Zenon
  <2>2. ToggleNow(p) = t
    BY <2>1 DEF ToggleNow
  <2> QED
    BY <2>2, Zenon DEF ToggleScreen
<1> HIDE DEF p
<1>4. r \in PolicyType /\ r.lockT = FALSE
  BY <1>2, Reset, Zenon
<1> HIDE DEF r
<1>5. locked' \in BOOLEAN
  BY <1>3
<1>6. /\ t.pol = [r EXCEPT !.blanked = {}, !.manual = FALSE, !.lockIn = Never]
      /\ t.reqs = Ask(present, "on")
  BY DEF ToggleOn
<1> HIDE DEF t
<1>7. pol' \in PolicyType
  BY <1>3, <1>4, <1>6, NeverType, Zenon DEF PolicyType
<1>8. pol'.blanked = {} /\ pol'.lockT = FALSE
  BY <1>3, <1>4, <1>6 DEF PolicyType
<1>9. \A o \in Outputs : Ask(present, "on")[o] = IF o \in present THEN "on" ELSE "none"
  BY DEF Ask
<1>10. by' = [o \in Outputs |-> IF o \in present THEN "other" ELSE by[o]]
  BY <1>3, <1>6, <1>9 DEF Credit
<1>11. by' \in [Outputs -> {"user", "idle", "other"}]
  BY <1>1, <1>10
<1>12. \A o \in present :
          /\ o \in present => by'[o] = "other" /\ o \notin pol'.blanked
          /\ o \notin present => /\ by'[o] = by[o]
                                 /\ o \in pol'.blanked <=> o \in pol.blanked
  BY <1>1, <1>8, <1>10
<1>13. DarkWakes' /\ BlankedDark' /\ UserOffStays' /\ requests' \in Requests
  BY <1>1, <1>3, <1>6, <1>7, <1>11, <1>12, Lights
<1>14. TypeOK'
  BY <1>1, <1>3, <1>5, <1>7, <1>11, <1>13 DEF TypeOK, Requests
<1>15. Woken(pol)' = {}
  BY <1>8 DEF Woken
<1>16. LockNoted' /\ Known'
  BY <1>1, <1>3, <1>8 DEF LockNoted, Known
<1> QED
  BY <1>3, <1>13, <1>14, <1>15, <1>16, NothingToWake, Quiet DEF IInv

LEMMA ToggleScreenKeeps == IInv /\ ToggleScreen /\ UNCHANGED machine => IInv'
  BY TogglePhoneKeeps, ToggleOffKeeps, ToggleOnKeeps

LEMMA ShellOffKeeps == IInv /\ ShellOff /\ UNCHANGED machine => IInv'
<1> SUFFICES ASSUME IInv, ShellOff, UNCHANGED machine PROVE IInv'
  OBVIOUS
<1>1. CASE ToggleScreen
  BY <1>1, ToggleScreenKeeps
<1>2. CASE ~ToggleScreen
  <2> DEFINE p == SetPhoneWithDesk(pol, PhoneBesideDesk)
  <2>1. /\ pol' = p /\ last' = "none"
        /\ locked' = (locked \/ DeskLeaveLocks(pol, PhoneBesideDesk))
        /\ UNCHANGED <<cfg, requests, present, powered, inhibitor, by>>
    BY <1>2, Zenon DEF ShellOff
  <2>2. /\ p \in PolicyType /\ p.blanked = pol.blanked /\ p.lockT = pol.lockT
        /\ Alone => \A o \in present \cap Woken(p) : by[o] = "user" => p.manual
        /\ p.inhibited /\ ~p.manual => Woken(p) = {}
    BY DeskMarked
  <2> HIDE DEF p
  <2>3. Woken(pol)' = Woken(p) /\ Lit' = Lit
    BY <2>1 DEF Woken, Lit
  <2>4. locked' \in BOOLEAN /\ (locked => locked')
    BY <2>1, Zenon
  <2>5. TypeOK'
    BY <2>1, <2>2, <2>4 DEF IInv, TypeOK
  <2>6. DarkWakes' /\ BlankedDark' /\ UserOffStays'
    BY <2>1, <2>2, <2>3 DEF IInv, DarkWakes, BlankedDark, UserOffStays
  <2>7. UserMarked' /\ InhibitorLit'
    BY <2>1, <2>2, <2>3 DEF UserMarked, InhibitorLit, Alone
  <2>8. LockNoted' /\ Known'
    BY <2>1, <2>2, <2>4 DEF IInv, LockNoted, Known
  <2> QED
    BY <2>1, <2>5, <2>6, <2>7, <2>8, Quiet DEF IInv
<1> QED
  BY <1>1, <1>2

LEMMA PolicyEvaluated ==
    ASSUME NEW p \in PolicyType, TypeOK, Known
    PROVE  Judged(p, EvaluatePolicy(p)) /\ Timed(p, EvaluatePolicy(p))
  BY InhibitedJudged, IdleJudged DEF EvaluatePolicy

LEMMA EvaluateKeeps == IInv /\ Evaluate /\ UNCHANGED machine => IInv'
<1> SUFFICES ASSUME IInv, Evaluate, UNCHANGED machine PROVE IInv'
  OBVIOUS
<1> DEFINE p == SetPhoneWithDesk(pol, PhoneBesideDesk)
           q == EvaluatePhone(p)
           e == EvaluatePolicy(q)
           reqs == [o \in Outputs |->
                      IF e.reqs[o] = "none" /\ PhoneDue(p) /\ o = Panel
                      THEN "off" ELSE e.reqs[o]]
           lock == DeskLeaveLocks(pol, PhoneBesideDesk) \/ e.lock
<1>1. /\ TypeOK /\ Known /\ DarkWakes /\ BlankedDark /\ UserOffStays
      /\ present \subseteq Outputs /\ by \in [Outputs -> {"user", "idle", "other"}]
      /\ locked \in BOOLEAN /\ Panel \in present
  BY DEF IInv, TypeOK, Known
<1>2. /\ pol' = e.pol /\ requests' = Queue(reqs)
      /\ by' = [o \in Outputs |-> IF reqs[o] = "off" THEN "idle" ELSE by[o]]
      /\ locked' = (locked \/ lock)
      /\ last' = IF e.suspend THEN "suspend"
                 ELSE IF reqs # Nothing \/ lock THEN "acted" ELSE "quiet"
      /\ UNCHANGED <<cfg, present, powered, inhibitor>>
  BY Zenon DEF Evaluate
<1>3. /\ p \in PolicyType /\ p.blanked = pol.blanked /\ p.lockT = pol.lockT
      /\ Alone => \A o \in present \cap Woken(p) : by[o] = "user" => p.manual
  BY DeskMarked
<1> HIDE DEF p
<1>4. /\ q \in PolicyType /\ q.manual = p.manual /\ q.desk = p.desk /\ q.lockT = p.lockT
      /\ q.blanked = p.blanked \cup (IF PhoneDue(p) THEN {Panel} ELSE {})
      /\ Woken(q) = Woken(p)
      /\ PhoneDue(p) => p.desk
  BY <1>3, PhoneEvaluated
<1> HIDE DEF q
<1>5. Judged(q, e) /\ Timed(q, e)
  BY <1>1, <1>4, PolicyEvaluated
<1> HIDE DEF e
<1>6. /\ e.pol \in PolicyType /\ e.reqs \in Requests
      /\ e.pol.desk = p.desk /\ e.pol.manual = p.manual
      /\ e.pol.lockT => pol.lockT \/ e.lock
      /\ e.suspend => (cfg.lock # Never => pol.lockT \/ e.lock)
      /\ e.suspend => (p.desk => powered \cap present = {})
      /\ e.lock \in BOOLEAN /\ e.suspend \in BOOLEAN
  BY <1>3, <1>4, <1>5 DEF Judged
<1>7. ASSUME NEW o \in present
      PROVE  /\ e.reqs[o] = "on" => o \in Woken(p) /\ ~p.manual /\ o \notin e.pol.blanked
             /\ e.reqs[o] = "off" => o \in e.pol.blanked
             /\ e.reqs[o] = "none" => (o \in e.pol.blanked <=> o \in q.blanked)
             /\ e.reqs[o] \in {"on", "off", "none"}
             /\ reqs[o] = IF e.reqs[o] = "none" /\ PhoneDue(p) /\ o = Panel
                          THEN "off" ELSE e.reqs[o]
  BY <1>1, <1>4, <1>5, <1>6, Zenon DEF Judged, Requests, Power
<1>8. reqs \in Requests
  BY <1>6, Zenon DEF Requests, Power
<1>9. by' \in [Outputs -> {"user", "idle", "other"}]
  BY <1>1, <1>2, Zenon
<1>10. \A o \in present : by'[o] = IF reqs[o] = "off" THEN "idle" ELSE by[o]
  BY <1>1, <1>2
<1>11. locked' \in BOOLEAN /\ (locked => locked') /\ (e.lock => locked')
  <2>1. lock \in BOOLEAN /\ (e.lock => lock)
    OBVIOUS
  <2> HIDE DEF lock
  <2> QED
    BY <1>1, <1>2, <2>1
<1>12. last' \in {"suspend", "acted", "quiet"}
  BY <1>2
<1>13. Told(reqs)
  <2> SUFFICES ASSUME NEW o \in present
               PROVE  /\ reqs[o] = "on" =>
                            o \notin pol'.blanked /\ (Alone => by'[o] # "user")
                      /\ reqs[o] = "off" => o \in pol'.blanked
                      /\ reqs[o] = "none" =>
                            /\ o \in pol'.blanked <=> o \in pol.blanked
                            /\ by'[o] = by[o] \/ (o \in Lit /\ ~Alone)
    BY Zenon DEF Told
  <2> HIDE DEF reqs
  <2>1. CASE reqs[o] = "on"
    BY <1>2, <1>3, <1>7, <1>10, <2>1
  <2>2. CASE reqs[o] = "off"
    BY <1>2, <1>4, <1>7, <2>2
  <2>3. CASE reqs[o] = "none"
    BY <1>2, <1>3, <1>4, <1>7, <1>10, <2>3
  <2> QED
    BY <1>7, <2>1, <2>2, <2>3
<1>14. DarkWakes' /\ BlankedDark' /\ UserOffStays' /\ requests' \in Requests
  <2> HIDE DEF reqs
  <2> QED
    BY <1>1, <1>2, <1>8, <1>13, PowerTold, Relit
<1>15. TypeOK'
  BY <1>1, <1>2, <1>6, <1>9, <1>11, <1>12, <1>14, Zenon DEF TypeOK, Requests
<1>16. UserMarked'
  <2> SUFFICES ASSUME Alone, NEW o \in present, o \in Woken(e.pol), by'[o] = "user"
               PROVE  e.pol.manual
    BY <1>2 DEF UserMarked, Alone, Woken
  <2>1. /\ o \in e.pol.blanked /\ (p.desk => o # Panel)
    BY <1>6 DEF Woken
  <2> HIDE DEF reqs
  <2>2. reqs[o] # "off" /\ by[o] = "user"
    BY <1>10
  <2>3. o \in p.blanked
    BY <1>4, <1>7, <2>1, <2>2
  <2>4. o \in Woken(p)
    BY <2>1, <2>3 DEF Woken
  <2> QED
    BY <1>3, <1>6, <2>2, <2>4, Zenon
<1>17. InhibitorLit'
  <2>1. e.pol.inhibited /\ ~e.pol.manual => Woken(e.pol) = {}
    BY <1>5 DEF Judged
  <2> QED
    BY <1>2, <2>1 DEF InhibitorLit, Woken
<1>18. LockNoted' /\ Known'
  BY <1>1, <1>2, <1>6, <1>11 DEF IInv, LockNoted, Known
<1>19. SuspendSafe'
  <2>1. last' = "suspend" => e.suspend
    BY <1>2, Zenon
  <2> QED
    BY <1>2, <1>6, <1>11, <2>1 DEF IInv, LockNoted, SuspendSafe, SuspendLocked, SuspendDark
<1>20. DeadlineAhead'
  <2> SUFFICES ASSUME last' = "quiet", ~e.pol.desk PROVE NextDeadline(pol)' > 0
    BY <1>2 DEF DeadlineAhead
  <2>1. reqs = Nothing
    BY <1>2
  <2>2. e.reqs = Nothing
    <3>1. ASSUME NEW o \in Outputs PROVE e.reqs[o] = "none"
      <4>1. reqs[o] = "none"
        BY <2>1 DEF Nothing
      <4> QED
        BY <4>1
    <3> QED
      BY <1>6, <3>1 DEF Requests, Nothing
  <2>3. NextDeadline(e.pol) > 0
    BY <1>4, <1>5, <1>6, <2>2 DEF Timed
  <2>4. NextDeadline(pol)' = NextDeadline(e.pol)
    BY <1>2, Zenon DEF NextDeadline, NextIdleDeadline, EffectiveLockTimeout, EffectiveSuspendTimeout
  <2> QED
    BY <2>3, <2>4
<1> QED
  BY <1>14, <1>15, <1>16, <1>17, <1>18, <1>19, <1>20 DEF IInv

-----------------------------------------------------------------------------
(* The invariant, and what it is for. *)

LEMMA InitInv == Init => IInv
<1> SUFFICES ASSUME Init PROVE IInv
  OBVIOUS
<1>1. Never \in Nat /\ Never # 0 /\ Never \in Timeouts /\ 0 \in 0 .. MaxAge
  BY NeverType
<1>2. machine \in Machines /\ present = machine.outputs /\ powered = present
  BY DEF Init
<1>3. machine.outputs \subseteq Outputs /\ Panel \in machine.outputs
  BY <1>2, MachinesAssumption
<1>4. TypeOK
  <2>1. pol \in PolicyType /\ cfg \in Configuration
    BY <1>1 DEF Init, PolicyType, Configuration
  <2>2. requests \in [Outputs -> Power \cup {"none"}]
    BY DEF Init, Nothing, Power
  <2> QED
    BY <1>2, <1>3, <2>1, <2>2, Zenon DEF Init, TypeOK
<1>5. Known
  BY <1>2, <1>3 DEF Init, Known
<1>6. /\ pol.blanked = {} /\ pol.lockT = FALSE /\ pol.manual = FALSE /\ last = "none"
      /\ \A o \in Outputs : by[o] = "other"
  BY DEF Init
<1>7. DarkWakes /\ BlankedDark /\ UserOffStays /\ UserMarked /\ LockNoted /\ InhibitorLit
  <2>1. Woken(pol) = {}
    BY <1>6 DEF Woken
  <2> QED
    BY <1>2, <1>3, <1>6, <2>1 DEF DarkWakes, BlankedDark, UserOffStays, UserMarked,
       LockNoted, InhibitorLit
<1>8. SuspendSafe /\ DeadlineAhead
  BY <1>6 DEF SuspendSafe, SuspendLocked, SuspendDark, DeadlineAhead
<1> QED
  BY <1>4, <1>5, <1>7, <1>8 DEF IInv

LEMMA NextInv == IInv /\ [Next]_vars => IInv'
<1> SUFFICES ASSUME IInv, [Next]_vars PROVE IInv'
  OBVIOUS
<1>1. CASE UNCHANGED vars
  <2>1. Lit' = Lit /\ Woken(pol)' = Woken(pol) /\ NextDeadline(pol)' = NextDeadline(pol)
    BY <1>1, Zenon DEF vars, Lit, Woken, NextDeadline, NextIdleDeadline, EffectiveLockTimeout,
       EffectiveSuspendTimeout
  <2>2. TypeOK' /\ Known'
    BY <1>1 DEF vars, IInv, TypeOK, Known
  <2>3. DarkWakes' /\ BlankedDark' /\ UserMarked' /\ UserOffStays'
    BY <1>1, <2>1 DEF vars, IInv, DarkWakes, BlankedDark, UserMarked, Alone, UserOffStays
  <2>4. LockNoted' /\ InhibitorLit' /\ SuspendSafe' /\ DeadlineAhead'
    BY <1>1, <2>1 DEF vars, IInv, LockNoted, InhibitorLit, SuspendSafe, SuspendLocked,
       SuspendDark, DeadlineAhead
  <2> QED
    BY <2>2, <2>3, <2>4 DEF IInv
<1>2. CASE Next
  <2>1. Step /\ UNCHANGED machine
    BY <1>2 DEF Next
  <2> QED
    BY <2>1, EvaluateKeeps, ToggleScreenKeeps, ShellOffKeeps, ActivityKeeps, UnlockKeeps,
       PhoneTouchKeeps, WakeKeyKeeps, ConfigureKeeps, ExternalKeeps, ApplySettingsKeeps,
       RollbackSettingsKeeps, SetInhibitorKeeps, PlugKeeps, UnplugKeeps, ApplyKeeps,
       TickKeeps DEF Step, PowerButton
<1> QED
  BY <1>1, <1>2

(* The policy's notes, the outputs and the session agree in every state.    *)
THEOREM PolicyInvariant == Spec => []IInv
  BY InitInv, NextInv, PTL DEF Spec

(* Every variable keeps its type: in particular no age passes MaxAge and a  *)
(* countdown never goes below zero.                                         *)
THEOREM TypeCorrect == Spec => []TypeOK
  BY PolicyInvariant, PTL DEF IInv

(* An output that the power button or the double tap darkened stays dark    *)
(* until an input, a client or a configuration lights it, on every machine  *)
(* without Settings whose outputs stay or that is a phone.                  *)
THEOREM UserKeepsTheScreenOff == Spec => []UserOffStays
  BY PolicyInvariant, PTL DEF IInv

(* The next input lights every output the policy darkened, on every         *)
(* machine: no failure, wait, hotplug or configuration loses the note.      *)
THEOREM DarkScreensWake == Spec => []DarkWakes
  BY PolicyInvariant, PTL DEF IInv

(* An idle suspend finds the session locked and, beside a desk, every       *)
(* screen dark, for every choice of the four timeouts.                      *)
THEOREM SuspendIsSafe == Spec => []SuspendSafe
  BY PolicyInvariant, PTL DEF IInv

(* A step that acts, with no news of the inhibitor or the desk, was due.    *)
LEMMA ActsWhenDue ==
    ASSUME IInv, [Next]_vars, last' \in {"acted", "suspend"}, ~UNCHANGED vars,
           pol.inhibited = (inhibitor # "none"), pol.desk = PhoneBesideDesk
    PROVE  NextDeadline(pol) = 0
<1> DEFINE q == EvaluatePhone(pol)
           e == EvaluatePolicy(q)
           reqs == [o \in Outputs |->
                      IF e.reqs[o] = "none" /\ PhoneDue(pol) /\ o = Panel
                      THEN "off" ELSE e.reqs[o]]
<1>1. TypeOK /\ Known /\ pol \in PolicyType /\ InhibitorLit /\ cfg \in Configuration
  BY DEF IInv, TypeOK
<1>2. Evaluate
  BY Zenon DEF Next, Step, PowerButton, ToggleScreen, ShellOff, Activity, Unlock, NoteActivity,
     PhoneTouch, WakeKey, Configure, External, ApplySettings, RollbackSettings, Gate,
     SetInhibitor, Plug, Unplug, Apply, Tick
<1>3. SetPhoneWithDesk(pol, PhoneBesideDesk) = pol
  BY DEF SetPhoneWithDesk
<1>4. last' = IF e.suspend THEN "suspend"
              ELSE IF reqs # Nothing \/ DeskLeaveLocks(pol, PhoneBesideDesk) \/ e.lock
                   THEN "acted" ELSE "quiet"
  BY <1>2, <1>3, Zenon DEF Evaluate
<1>5. ~DeskLeaveLocks(pol, PhoneBesideDesk)
  BY Zenon DEF DeskLeaveLocks, LeftDark
<1>6. /\ q \in PolicyType /\ q.manual = pol.manual /\ q.inhibited = pol.inhibited
      /\ q.lockT = pol.lockT /\ q.dpmsT = pol.dpmsT /\ q.suspT = pol.suspT
      /\ q.idle = pol.idle /\ q.lockIn = pol.lockIn /\ Woken(q) = Woken(pol)
  BY <1>1, PhoneEvaluated
<1> HIDE DEF q
<1>7. e.reqs \in Requests /\ Timed(q, e)
  BY <1>1, <1>6, PolicyEvaluated DEF Judged
<1> HIDE DEF e
<1>8. e.suspend \/ reqs # Nothing \/ e.lock
  BY <1>4, <1>5, Zenon
<1>9. CASE PhoneDue(pol)
  BY <1>1, <1>9, DeadlineNow DEF PhoneDue
<1>10. CASE ~PhoneDue(pol)
  <2>1. reqs = e.reqs
    BY <1>7, <1>10 DEF Requests
  <2>2. q.inhibited <=> inhibitor # "none"
    BY <1>6, Zenon
  <2>3. q.inhibited /\ ~q.manual => Woken(q) = {}
    BY <1>1, <1>6 DEF InhibitorLit
  <2> HIDE DEF reqs
  <2>4. IdleDue(q) \/ q.lockIn = 0
    BY <1>7, <1>8, <2>1, <2>2, <2>3 DEF Timed
  <2>5. IdleDue(pol) \/ pol.lockIn = 0
    BY <1>6, <2>4 DEF IdleDue
  <2> QED
    BY <1>1, <2>5, DeadlineNow
<1> QED
  BY <1>9, <1>10

(* The deadline is exact: after a quiet evaluation it lies ahead, so the    *)
(* loop does not poll, and an evaluation that acts was due, so sleeping     *)
(* until it misses nothing.                                                 *)
THEOREM DeadlineIsExact == Spec => DeadlineExact
<1>1. IInv => DeadlineAhead
  BY DEF IInv
<1>2. IInv /\ [Next]_vars
        => [(/\ last' \in {"acted", "suspend"}
             /\ pol.inhibited = (inhibitor # "none")
             /\ pol.desk = PhoneBesideDesk) => NextDeadline(pol) = 0]_vars
  BY ActsWhenDue, Zenon
<1> QED
  BY <1>1, <1>2, PolicyInvariant, PTL DEF Spec, DeadlineExact, DeadlineCovers

(* What noticing that the desk left does for a dark panel.                  *)
LEMMA DeskLeft ==
    ASSUME IInv, pol.desk, ~PhoneBesideDesk, by[Panel] \in {"user", "idle"}, Panel \notin Lit,
           cfg.lock # Never \/ cfg.screenOff # Never,
           NEW p, p = SetPhoneWithDesk(pol, PhoneBesideDesk)
    PROVE  /\ p \in PolicyType /\ p.desk = FALSE /\ p.manual = TRUE
           /\ \/ DeskLeaveLocks(pol, PhoneBesideDesk)
              \/ cfg.screenOff \notin {0, Never} /\ p.lockIn # Never
<1>1. pol \in PolicyType /\ cfg \in Configuration /\ PhoneBesideDesk \in BOOLEAN
  BY DEF IInv, TypeOK, PhoneBesideDesk
<1>2. Panel \in pol.blanked
  BY DEF IInv, Known, DarkWakes
<1>3. LeftDark(pol, PhoneBesideDesk)
  BY <1>2 DEF LeftDark
<1>4. /\ p \in PolicyType /\ p.desk = PhoneBesideDesk
      /\ p.manual = (pol.manual \/ LeftDark(pol, PhoneBesideDesk))
      /\ cfg.screenOff \notin {0, Never} => p.lockIn # Never
  BY <1>1, <1>3, DeskNoted
<1>5. p.manual = TRUE /\ p.desk = FALSE
  BY <1>1, <1>3, <1>4, Zenon
<1>6. cfg.screenOff \in {0, Never} => DeskLeaveLocks(pol, PhoneBesideDesk)
  BY <1>3, NeverType DEF DeskLeaveLocks, LocksAtOnce
<1> QED
  BY <1>4, <1>5, <1>6

LEMMA DeskLeaves ==
    ASSUME IInv, [Next]_vars, pol.desk, ~pol'.desk,
           by[Panel] \in {"user", "idle"}, Panel \notin Lit,
           cfg.lock # Never \/ cfg.screenOff # Never
    PROVE  locked' \/ pol'.lockIn # Never \/ requests'[Panel] = "on"
<1> DEFINE p == SetPhoneWithDesk(pol, PhoneBesideDesk)
           r == ResetIdleInterval(p)
<1>1. /\ TypeOK /\ Known /\ pol \in PolicyType /\ cfg \in Configuration
      /\ present \subseteq Outputs /\ Panel \in present
  BY DEF IInv, TypeOK, Known
<1>2. Evaluate \/ ToggleScreen \/ ShellOff
  <2>1. CASE \/ UNCHANGED pol \/ NoteActivity \/ PhoneTouch \/ WakeKey \/ Tick
             \/ \E c \in machine.configurations : Configure(c)
             \/ \E o \in Outputs, power \in Power : External(o, power)
             \/ \E R, outcome, C : Gate(R, outcome, C)
    <3>0. ResetIdleInterval(pol) \in PolicyType /\ ResetIdleInterval(pol).desk = pol.desk
      BY <1>1, Reset, Zenon
    <3>1. /\ ResetIdleInterval(pol).desk = pol.desk
          /\ WakeBlanked(ResetIdleInterval(pol)) \in PolicyType
          /\ WakeBlanked(ResetIdleInterval(pol)).desk = pol.desk
      BY <3>0, Woke, Zenon
    <3>2. ~UNCHANGED pol
      OBVIOUS
    <3>3. ~NoteActivity
      BY <3>1, Zenon DEF NoteActivity
    <3>4. ~PhoneTouch
      BY <3>1 DEF PhoneTouch, PolicyType
    <3>5. ~WakeKey
      BY <3>1, Zenon DEF WakeKey, PolicyType
    <3>6. ~Tick
      BY <1>1, Zenon DEF Tick, PolicyType
    <3>7. \A c \in machine.configurations : ~Configure(c)
      BY <3>1, Zenon DEF Configure
    <3>8. \A o \in Outputs, power \in Power : ~External(o, power)
      BY <1>1 DEF External, PolicyType
    <3>9. \A R, outcome, C : ~Gate(R, outcome, C)
      BY <1>1 DEF Gate, PolicyType
    <3> QED
      BY <2>1, <3>2, <3>3, <3>4, <3>5, <3>6, <3>7, <3>8, <3>9
  <2> QED
    BY <2>1, Zenon DEF Next, Step, vars, PowerButton, Activity, Unlock, ApplySettings, Apply,
       RollbackSettings, SetInhibitor, Plug, Unplug
<1>3. ~PhoneBesideDesk
  <2>1. CASE PhoneBesideDesk
    <3>1. p \in PolicyType /\ p.desk = TRUE
      BY <2>1, DeskMarked, Zenon DEF PhoneBesideDesk
    <3>2. r \in PolicyType /\ r.desk = TRUE
      BY <3>1, Reset, Zenon
    <3>3. ~ShellOff \/ ToggleScreen
      BY <3>1 DEF ShellOff
    <3>4. ~ToggleScreen
      <4>1. ToggleNow(p) = TogglePhone(r)
        BY <3>2 DEF ToggleNow
      <4>2. TogglePhone(r).pol.desk = TRUE
        BY <3>2, Zenon DEF TogglePhone, PolicyType
      <4> QED
        BY <4>1, <4>2, Zenon DEF ToggleScreen
    <3>5. ~Evaluate
      <4>1. EvaluatePhone(p) \in PolicyType /\ EvaluatePhone(p).desk = TRUE
        BY <3>1, PhoneEvaluated
      <4>2. EvaluatePolicy(EvaluatePhone(p)).pol.desk = TRUE
        BY <1>1, <4>1, PolicyEvaluated, Zenon DEF Judged
      <4> QED
        BY <4>2, Zenon DEF Evaluate
    <3> QED
      BY <1>2, <3>3, <3>4, <3>5
  <2> QED
    BY <2>1
<1>4. /\ p \in PolicyType /\ p.desk = FALSE /\ p.manual = TRUE
      /\ \/ DeskLeaveLocks(pol, PhoneBesideDesk)
         \/ cfg.screenOff \notin {0, Never} /\ p.lockIn # Never
  BY <1>3, DeskLeft, Zenon
<1>5. DeskLeaveLocks(pol, PhoneBesideDesk) => locked'
  BY <1>2, Zenon DEF Evaluate, ToggleScreen, ShellOff
<1>6. CASE ShellOff /\ ~ToggleScreen
  <2>1. pol' = p
    BY <1>6 DEF ShellOff
  <2> QED
    BY <1>4, <1>5, <2>1
<1>7. CASE ToggleScreen
  <2>1. r \in PolicyType /\ r.desk = FALSE
    BY <1>4, Reset, Zenon
  <2>2. ToggleNow(p) = IF Lit # {} THEN ToggleOff(r) ELSE ToggleOn(r)
    BY <2>1 DEF ToggleNow
  <2>3. pol' = ToggleNow(p).pol /\ requests' = Queue(ToggleNow(p).reqs)
    BY <1>7, Zenon DEF ToggleScreen
  <2> HIDE DEF p, r
  <2>4. CASE Lit # {}
    <3>1. pol' = ScreenWentOff(BlankNow(r))
      <4>1. ToggleNow(p) = ToggleOff(r)
        BY <2>2, <2>4, Zenon
      <4>2. ToggleOff(r).pol = ScreenWentOff(BlankNow(r))
        BY DEF ToggleOff
      <4> QED
        BY <2>3, <4>1, <4>2, Zenon
    <3>2. BlankNow(r) \in PolicyType
      <4>1. r.blanked \cup Lit \in SUBSET Outputs
        BY <1>1, <2>1 DEF PolicyType, Lit
      <4>2. (r.manual \/ (Lit \ r.blanked # {})) \in BOOLEAN
        OBVIOUS
      <4> QED
        BY <2>1, <4>1, <4>2, Zenon DEF BlankNow, PolicyType
    <3> QED
      BY <1>1, <1>4, <1>5, <3>1, <3>2, WentOff
  <2>5. CASE Lit = {}
    <3>1. requests' = Queue(Ask(present, "on"))
      BY <2>2, <2>3, <2>5 DEF ToggleOn
    <3>2. Panel \in Outputs /\ Ask(present, "on")[Panel] = "on"
      BY <1>1, Asked
    <3> QED
      BY <3>1, <3>2 DEF Queue
  <2> QED
    BY <2>4, <2>5
<1>8. CASE Evaluate
  <2> DEFINE e == EvaluatePolicy(EvaluatePhone(p))
  <2>1. /\ EvaluatePhone(p) \in PolicyType /\ EvaluatePhone(p).manual = TRUE
        /\ EvaluatePhone(p).lockIn = p.lockIn
    BY <1>4, PhoneEvaluated, Zenon
  <2>2. p.lockIn # Never => e.lock \/ e.pol.lockIn # Never
    BY <1>1, <2>1, PolicyEvaluated, Zenon DEF Judged
  <2>3. pol' = e.pol /\ (e.lock => locked')
    BY <1>8, Zenon DEF Evaluate
  <2> HIDE DEF e, p
  <2> QED
    BY <1>4, <1>5, <2>2, <2>3
<1> QED
  BY <1>2, <1>6, <1>7, <1>8

(* When the desk leaves while the panel is dark, the session is locked or   *)
(* the screen-off lock is counting, unless the same press lit the panel:    *)
(* the safety half of DarkLocks.                                            *)
THEOREM DeskLeaveIsSecured == Spec => DeskLeaveSecures
<1>1. IInv /\ [Next]_vars
        => [(/\ pol.desk /\ ~pol'.desk
             /\ by[Panel] \in {"user", "idle"} /\ Panel \notin Lit
             /\ cfg.lock # Never \/ cfg.screenOff # Never)
            => locked' \/ pol'.lockIn # Never \/ requests'[Panel] = "on"]_vars
  BY DeskLeaves, Zenon
<1> QED
  BY <1>1, PolicyInvariant, PTL DEF Spec, DeskLeaveSecures
=============================================================================
