------------------------ MODULE FrameSchedulerProofs ------------------------
(***************************************************************************)
(* Proofs about the frame scheduler, for any outputs and textures, any      *)
(* refresh intervals and any width of the serials: it keeps exactly the     *)
(* damage that OutputDamage describes, and the phase of every output.       *)
(***************************************************************************)
EXTENDS FrameScheduler, FiniteSetTheorems, SequenceTheorems, TLAPS

-----------------------------------------------------------------------------
(* Serials that wrap. *)

Half == Word \div 2
Serials == 1 .. Word - 1

(* How long ago a serial was given out: by age, serials do not wrap. *)
Since(s, x) == (s - x) % Word
Age(x) == Since(serial, x)

LEMMA HalfWord ==
    /\ Word \in Nat /\ Half \in Nat /\ Word = 2 * Half /\ Word # 0
    /\ Cardinality(Outputs) \in Nat /\ Cardinality(Outputs) < Half
<1>1. /\ Word \in Nat /\ Word % 2 = 0 /\ FirstSerial \in 0 .. Word - 1
      /\ IsFiniteSet(Outputs) /\ Cardinality(Outputs) < Half
  BY SchedulerBounds DEF Half
<1>2. Half \in Nat /\ Word = 2 * Half /\ Word # 0
  BY <1>1 DEF Half
<1> QED
  BY <1>1, <1>2, FS_CardinalityType

LEMMA Wrap ==
    ASSUME NEW n \in Nat, n # 0, NEW a \in Int, -n <= a, a < 2 * n
    PROVE  a % n = IF a < 0 THEN a + n ELSE IF a < n THEN a ELSE a - n
  OBVIOUS

LEMMA SinceIs ==
    ASSUME NEW s \in 0 .. Word - 1, NEW x \in 0 .. Word - 1
    PROVE  /\ Since(s, x) \in 0 .. Word - 1
           /\ Since(s, x) = IF x <= s THEN s - x ELSE s - x + Word
<1>1. /\ Word \in Nat /\ Word # 0 /\ s - x \in Int
      /\ -Word <= s - x /\ s - x < Word /\ s - x < 2 * Word
  BY HalfWord
<1> DEFINE a == s - x
<1>2. a % Word = IF a < 0 THEN a + Word ELSE IF a < Word THEN a ELSE a - Word
  <2>1. a \in Int /\ -Word <= a /\ a < 2 * Word
    BY <1>1
  <2> HIDE DEF a
  <2> QED
    BY <1>1, <2>1, Wrap
<1>3. Since(s, x) = IF s - x < 0 THEN s - x + Word ELSE s - x
  BY <1>1, <1>2 DEF Since
<1> QED
  BY <1>1, <1>3

(* serial_at_or_before compares ages, of serials that are less than half    *)
(* the word old.                                                            *)
LEMMA ComparesAges ==
    ASSUME NEW s \in 0 .. Word - 1, NEW x \in 0 .. Word - 1, NEW y \in 0 .. Word - 1,
           Since(s, x) < Half, Since(s, y) < Half
    PROVE  /\ AtOrBefore(x, y) <=> Since(s, y) <= Since(s, x)
           /\ x = y <=> Since(s, y) = Since(s, x)
<1>1. AtOrBefore(x, y) <=> Since(y, x) < Half
  BY DEF AtOrBefore, Since, Half
<1>2. Since(s, x) = IF x <= s THEN s - x ELSE s - x + Word
  BY SinceIs
<1>3. Since(s, y) = IF y <= s THEN s - y ELSE s - y + Word
  BY SinceIs
<1>4. Since(y, x) = IF x <= y THEN y - x ELSE y - x + Word
  BY SinceIs
<1> DEFINE sx == Since(s, x)
           sy == Since(s, y)
           yx == Since(y, x)
<1>5. /\ sx = IF x <= s THEN s - x ELSE s - x + Word
      /\ sy = IF y <= s THEN s - y ELSE s - y + Word
      /\ yx = IF x <= y THEN y - x ELSE y - x + Word
      /\ sx < Half /\ sy < Half
      /\ Word \in Nat /\ Half \in Nat /\ Word = 2 * Half
  BY <1>2, <1>3, <1>4, HalfWord
<1>6. (yx < Half <=> sy <= sx) /\ (x = y <=> sy = sx)
  <2> HIDE DEF sx, sy, yx
  <2> QED
    BY <1>5
<1> QED
  BY <1>1, <1>6

(* The k-th serial after s. *)
LEMMA AfterIs ==
    ASSUME NEW s \in 0 .. Word - 1, NEW k \in Nat, 0 < k, k < Half
    PROVE  /\ SerialAfter(s, k) = IF s + k < Word THEN s + k ELSE s + k + 1 - Word
           /\ SerialAfter(s, k) \in Serials
<1> DEFINE w == Word - 1
           a == s + k - 1
<1>1. /\ w \in Nat /\ w # 0 /\ a \in Int /\ -w <= a /\ a < 2 * w
      /\ Word \in Nat /\ Half \in Nat /\ Word = 2 * Half
  BY HalfWord
<1>2. a % w = IF a < 0 THEN a + w ELSE IF a < w THEN a ELSE a - w
  <2> HIDE DEF a, w
  <2> QED
    BY <1>1, Wrap
<1>3. SerialAfter(s, k) = (a % w) + 1
  BY DEF SerialAfter
<1>4. SerialAfter(s, k) = IF a < w THEN a + 1 ELSE a - w + 1
  BY <1>1, <1>2, <1>3
<1> QED
  BY <1>1, <1>4 DEF Serials

LEMMA AfterType ==
    ASSUME NEW s \in 0 .. Word - 1, NEW k \in Nat, k < Half
    PROVE  SerialAfter(s, k) \in 0 .. Word - 1
<1>1. CASE k = 0
  BY <1>1 DEF SerialAfter
<1>2. CASE k # 0
  BY <1>2, AfterIs DEF Serials
<1> QED
  BY <1>1, <1>2

LEMMA SinceType ==
    ASSUME NEW s \in 0 .. Word - 1, NEW x \in 0 .. Word - 1
    PROVE  Since(s, x) \in Int
  BY SinceIs

(* allocate_dirty_serial gives out the next one. *)
LEMMA AfterIsNext ==
    ASSUME NEW s \in 0 .. Word - 1, NEW k \in Nat, k + 1 < Half
    PROVE  SerialAfter(s, k + 1) = NextSerial(SerialAfter(s, k))
<1>0. Word \in Nat /\ Half \in Nat /\ Word = 2 * Half /\ Word # 0
  BY HalfWord
<1>1. ASSUME NEW x \in 0 .. Word - 1
      PROVE  NextSerial(x) = IF x + 1 = Word THEN 1 ELSE x + 1
  <2> DEFINE a == x + 1
  <2>1. a % Word = IF a < 0 THEN a + Word ELSE IF a < Word THEN a ELSE a - Word
    <3>1. a \in Int /\ -Word <= a /\ a < 2 * Word
      BY <1>0
    <3> HIDE DEF a
    <3> QED
      BY <1>0, <3>1, Wrap
  <2>2. (x + 1) % Word = IF x + 1 = Word THEN 0 ELSE x + 1
    BY <1>0, <2>1
  <2> QED
    BY <1>0, <2>2 DEF NextSerial
<1>2. SerialAfter(s, k + 1) = IF s + (k + 1) < Word THEN s + (k + 1) ELSE s + (k + 1) + 1 - Word
  BY AfterIs
<1>3. CASE k = 0
  <2>1. SerialAfter(s, k) = s
    BY <1>3 DEF SerialAfter
  <2> QED
    BY <1>0, <1>1, <1>2, <1>3, <2>1
<1>4. CASE k # 0
  <2>1. /\ SerialAfter(s, k) = IF s + k < Word THEN s + k ELSE s + k + 1 - Word
        /\ SerialAfter(s, k) \in Serials
    BY <1>0, <1>4, AfterIs
  <2>2. NextSerial(SerialAfter(s, k)) = IF SerialAfter(s, k) + 1 = Word THEN 1 ELSE SerialAfter(s, k) + 1
    BY <1>1, <2>1 DEF Serials
  <2> QED
    BY <1>0, <1>2, <1>4, <2>1, <2>2
<1> QED
  BY <1>3, <1>4

(* Marks age what was recorded before, and are younger than all of it; the  *)
(* ages of what was recorded before keep their order.                       *)
LEMMA MarksAge ==
    ASSUME NEW s \in 0 .. Word - 1, NEW x \in 0 .. Word - 1, Since(s, x) < Half,
           NEW k \in Nat, NEW j \in Nat, 0 < j, j <= k, k < Half
    PROVE  /\ Since(SerialAfter(s, k), SerialAfter(s, j)) < Since(SerialAfter(s, k), x)
           /\ Since(SerialAfter(s, k), SerialAfter(s, j)) < Half
<1>0. Word \in Nat /\ Half \in Nat /\ Word = 2 * Half /\ Word # 0
  BY HalfWord
<1> DEFINE t == SerialAfter(s, k)
           u == SerialAfter(s, j)
<1>1. t = (IF s + k < Word THEN s + k ELSE s + k + 1 - Word) /\ t \in 0 .. Word - 1
  BY <1>0, AfterIs DEF Serials
<1>2. u = (IF s + j < Word THEN s + j ELSE s + j + 1 - Word) /\ u \in 0 .. Word - 1
  BY <1>0, AfterIs DEF Serials
<1> HIDE DEF t, u
<1>3. Since(s, x) = IF x <= s THEN s - x ELSE s - x + Word
  BY SinceIs
<1>4. Since(t, u) = IF u <= t THEN t - u ELSE t - u + Word
  BY <1>1, <1>2, SinceIs
<1>5. Since(t, x) = IF x <= t THEN t - x ELSE t - x + Word
  BY <1>1, SinceIs
<1>6. Since(t, u) < Since(t, x) /\ Since(t, u) < Half
  BY <1>0, <1>1, <1>2, <1>3, <1>4, <1>5
<1> QED
  BY <1>6 DEF t, u

LEMMA OrderKept ==
    ASSUME NEW s \in 0 .. Word - 1, NEW x \in 0 .. Word - 1, NEW y \in 0 .. Word - 1,
           Since(s, x) < Half, Since(s, y) < Half, NEW k \in Nat, 0 < k, k < Half
    PROVE  Since(s, y) <= Since(s, x)
             <=> Since(SerialAfter(s, k), y) <= Since(SerialAfter(s, k), x)
<1>0. Word \in Nat /\ Half \in Nat /\ Word = 2 * Half /\ Word # 0
  BY HalfWord
<1> DEFINE t == SerialAfter(s, k)
<1>1. t = (IF s + k < Word THEN s + k ELSE s + k + 1 - Word) /\ t \in 0 .. Word - 1
  BY <1>0, AfterIs DEF Serials
<1> HIDE DEF t
<1>2. Since(s, x) = IF x <= s THEN s - x ELSE s - x + Word
  BY SinceIs
<1>3. Since(s, y) = IF y <= s THEN s - y ELSE s - y + Word
  BY SinceIs
<1>4. Since(t, x) = IF x <= t THEN t - x ELSE t - x + Word
  BY <1>1, SinceIs
<1>5. Since(t, y) = IF y <= t THEN t - y ELSE t - y + Word
  BY <1>1, SinceIs
<1>6. Since(s, y) <= Since(s, x) <=> Since(t, y) <= Since(t, x)
  BY <1>0, <1>1, <1>2, <1>3, <1>4, <1>5
<1> QED
  BY <1>6 DEF t

-----------------------------------------------------------------------------
(* Damage: what is kept of it, in the order of the ages. *)

Damage == Textures \cup {Whole}
Entries == [serial : Serials, textures : UNION {[T -> Serials] : T \in SUBSET Textures}]
Renders == [serial : Serials, covers : SUBSET Damage]

(* At serial s, an entry is younger than half the word and not older than   *)
(* any of its textures.                                                     *)
Recent(e, s) ==
    /\ Since(s, e.serial) < Half
    /\ \A x \in DOMAIN e.textures :
           Since(s, e.textures[x]) < Half /\ Since(s, e.serial) <= Since(s, e.textures[x])

(* A render shows the part of the entry that is not younger than itself. *)
Shows(r, e, s) ==
    /\ Since(s, r.serial) < Half
    /\ Since(s, e.serial) <= Since(s, r.serial)
    /\ Whole \in r.covers <=> e.serial = r.serial
    /\ \A x \in Textures :
           x \in r.covers <=> (x \in DOMAIN e.textures
                               /\ Since(s, r.serial) <= Since(s, e.textures[x]))

Kept(d, s, q) ==
    /\ s \in 0 .. Word - 1
    /\ DOMAIN d \subseteq Outputs /\ d \in [DOMAIN d -> Entries]
    /\ q \in [Outputs -> Seq(Renders)]
    /\ \A o \in Outputs : Len(q[o]) <= 1
    /\ \A o \in DOMAIN d : Recent(d[o], s)
    /\ \A o \in Outputs : \A i \in DOMAIN q[o] : o \in DOMAIN d /\ Shows(q[o][i], d[o], s)

DamageInv == Kept(dirty, serial, renders)

(* The setup is one of them, its outputs are lit or not, and the edges of   *)
(* an output keep their phase.                                              *)
TimeInv ==
    /\ setup \in Setups
    /\ Powered \subseteq Connected
    /\ timelines \in [Powered -> [next : Int, shift : Int]]
    /\ grid \in [Connected -> Int]
    /\ PhaseKept

(* The marks after serial s are younger than what was kept. *)
LEMMA EntryAges ==
    ASSUME NEW s \in 0 .. Word - 1, NEW k \in Nat, k < Half, NEW e \in Entries, Recent(e, s),
           Since(SerialAfter(s, k), e.serial) < Half,
           \A x \in DOMAIN e.textures : Since(SerialAfter(s, k), e.textures[x]) < Half
    PROVE  Recent(e, SerialAfter(s, k))
<1>1. CASE k = 0
  BY <1>1 DEF SerialAfter
<1>2. CASE k # 0
  <2>1. ASSUME NEW x \in DOMAIN e.textures
        PROVE  Since(SerialAfter(s, k), e.serial) <= Since(SerialAfter(s, k), e.textures[x])
    <3>1. e.serial \in 0 .. Word - 1 /\ e.textures[x] \in 0 .. Word - 1
      BY HalfWord DEF Entries, Serials
    <3>2. /\ Since(s, e.serial) < Half /\ Since(s, e.textures[x]) < Half
          /\ Since(s, e.serial) <= Since(s, e.textures[x])
      BY DEF Recent
    <3> QED
      BY <1>2, <3>1, <3>2, OrderKept
  <2> QED
    BY <2>1 DEF Recent
<1> QED
  BY <1>1, <1>2

LEMMA ShowsAges ==
    ASSUME NEW s \in 0 .. Word - 1, NEW k \in Nat, k < Half, NEW e \in Entries, Recent(e, s),
           NEW r \in Renders, Shows(r, e, s), Since(SerialAfter(s, k), r.serial) < Half
    PROVE  Shows(r, e, SerialAfter(s, k))
<1>1. CASE k = 0
  BY <1>1 DEF SerialAfter
<1>2. CASE k # 0
  <2>1. e.serial \in 0 .. Word - 1 /\ r.serial \in 0 .. Word - 1
    BY HalfWord DEF Entries, Renders, Serials
  <2>2. Since(s, e.serial) < Half /\ Since(s, r.serial) < Half
    BY DEF Recent, Shows
  <2>3. Since(SerialAfter(s, k), e.serial) <= Since(SerialAfter(s, k), r.serial)
    BY <1>2, <2>1, <2>2, OrderKept DEF Shows
  <2>4. ASSUME NEW x \in DOMAIN e.textures
        PROVE  Since(s, r.serial) <= Since(s, e.textures[x])
                 <=> Since(SerialAfter(s, k), r.serial) <= Since(SerialAfter(s, k), e.textures[x])
    <3>1. e.textures[x] \in 0 .. Word - 1
      BY HalfWord DEF Entries, Serials
    <3>2. Since(s, e.textures[x]) < Half
      BY DEF Recent
    <3> QED
      BY <1>2, <2>1, <2>2, <3>1, <3>2, OrderKept
  <2> QED
    BY <2>3, <2>4 DEF Shows
<1> QED
  BY <1>1, <1>2

(* mark_output_dirty, the j-th of k: the entry it leaves. *)
LEMMA EntryMarked ==
    ASSUME NEW s \in 0 .. Word - 1, NEW k \in Nat, NEW j \in Nat, 0 < j, j <= k, k < Half,
           NEW d, NEW o, NEW ts \in SUBSET Textures,
           o \in DOMAIN d => /\ d[o] \in Entries /\ Recent(d[o], s)
                             /\ \A x \in DOMAIN d[o].textures :
                                   Since(SerialAfter(s, k), d[o].textures[x]) < Half
    PROVE  LET e == Entry(d, o, SerialAfter(s, j), ts)
           IN  /\ e \in Entries /\ Recent(e, SerialAfter(s, k))
               /\ e.serial = SerialAfter(s, j)
               /\ DOMAIN e.textures
                    = (IF o \in DOMAIN d THEN DOMAIN d[o].textures ELSE {}) \cup ts
               /\ \A x \in ts : e.textures[x] = SerialAfter(s, j)
               /\ \A x \in DOMAIN e.textures \ ts :
                      o \in DOMAIN d /\ x \in DOMAIN d[o].textures
                      /\ e.textures[x] = d[o].textures[x]
<1> DEFINE u == SerialAfter(s, j)
           v == SerialAfter(s, k)
           old == IF o \in DOMAIN d THEN d[o].textures ELSE <<>>
           tex == [x \in DOMAIN old \cup ts |-> IF x \in ts THEN u ELSE old[x]]
           e == Entry(d, o, u, ts)
<1>0. DOMAIN old = (IF o \in DOMAIN d THEN DOMAIN d[o].textures ELSE {})
  OBVIOUS
<1>1. e = [serial |-> u, textures |-> tex]
  BY DEF Entry
<1>2. u \in Serials /\ u \in 0 .. Word - 1
  BY AfterIs, HalfWord DEF Serials
<1>v. v \in 0 .. Word - 1
  BY AfterType
<1>3. ASSUME NEW x \in DOMAIN old
      PROVE  o \in DOMAIN d /\ old = d[o].textures /\ old[x] \in Serials
             /\ DOMAIN old \subseteq Textures
    <2>1. o \in DOMAIN d
      BY <1>0
    <2> QED
      BY <2>1 DEF Entries
<1>4. DOMAIN old \subseteq Textures
  BY <1>3
<1> HIDE DEF u, v, old
<1>5. tex \in [DOMAIN old \cup ts -> Serials]
  BY <1>2, <1>3
<1>6. tex \in UNION {[T -> Serials] : T \in SUBSET Textures}
  BY <1>4, <1>5
<1>7. e \in Entries /\ e.serial = u /\ e.textures = tex
  <2> HIDE DEF tex, e
  <2> QED
    BY <1>1, <1>2, <1>6 DEF Entries
<1>8. /\ DOMAIN e.textures = DOMAIN old \cup ts
      /\ \A x \in ts : e.textures[x] = u
      /\ \A x \in DOMAIN e.textures \ ts :
             o \in DOMAIN d /\ x \in DOMAIN d[o].textures /\ e.textures[x] = d[o].textures[x]
  <2> HIDE DEF e
  <2> QED
    BY <1>3, <1>7
<1> HIDE DEF tex, e
<1>9. Since(v, u) < Half
  <2>1. Since(s, s) < Half
    BY SinceIs, HalfWord
  <2> QED
    BY <2>1, MarksAge DEF u, v
<1>10. ASSUME NEW x \in DOMAIN e.textures
       PROVE  Since(v, e.textures[x]) < Half /\ Since(v, u) <= Since(v, e.textures[x])
  <2>1. CASE x \in ts
    <3>1. e.textures[x] = u
      BY <1>8, <2>1
    <3>2. Since(v, u) \in Int
      BY <1>2, <1>v, SinceType
    <3> QED
      BY <1>9, <3>1, <3>2
  <2>2. CASE x \notin ts
    <3>1. o \in DOMAIN d /\ x \in DOMAIN d[o].textures /\ e.textures[x] = d[o].textures[x]
      BY <1>8, <2>2
    <3> DEFINE y == d[o].textures[x]
    <3>2. y \in 0 .. Word - 1
      BY <3>1, HalfWord DEF Entries, Serials
    <3>3. Since(s, y) < Half
      BY <3>1 DEF Recent
    <3>4. Since(v, y) < Half
      BY <3>1 DEF v
    <3> HIDE DEF y
    <3>5. Since(v, u) < Since(v, y)
      BY <3>2, <3>3, MarksAge DEF u, v
    <3>6. Since(v, u) \in Int /\ Since(v, y) \in Int
      BY <1>2, <1>v, <3>2, SinceType
    <3>7. e.textures[x] = y
      BY <3>1 DEF y
    <3> QED
      BY <3>4, <3>5, <3>6, <3>7
  <2> QED
    BY <2>1, <2>2
<1>11. Recent(e, v)
  BY <1>7, <1>9, <1>10 DEF Recent
<1> QED
  BY <1>0, <1>7, <1>8, <1>11 DEF e, u, v

(* A render of a marked output shows what the mark did not touch. *)
LEMMA ShowsMarked ==
    ASSUME NEW s \in 0 .. Word - 1, NEW k \in Nat, NEW j \in Nat, 0 < j, j <= k, k < Half,
           NEW d, NEW o \in DOMAIN d, NEW ts \in SUBSET Textures,
           d[o] \in Entries, Recent(d[o], s),
           \A x \in DOMAIN d[o].textures : Since(SerialAfter(s, k), d[o].textures[x]) < Half,
           NEW r \in Renders, Shows(r, d[o], s), Since(SerialAfter(s, k), r.serial) < Half
    PROVE  /\ [r EXCEPT !.covers = @ \ (ts \cup {Whole})] \in Renders
           /\ Shows([r EXCEPT !.covers = @ \ (ts \cup {Whole})],
                    Entry(d, o, SerialAfter(s, j), ts), SerialAfter(s, k))
<1> DEFINE u == SerialAfter(s, j)
           v == SerialAfter(s, k)
           e == Entry(d, o, u, ts)
           q == [r EXCEPT !.covers = @ \ (ts \cup {Whole})]
<1>1. /\ e \in Entries /\ Recent(e, v) /\ e.serial = u
      /\ DOMAIN e.textures = DOMAIN d[o].textures \cup ts
      /\ \A x \in ts : e.textures[x] = u
      /\ \A x \in DOMAIN e.textures \ ts :
             x \in DOMAIN d[o].textures /\ e.textures[x] = d[o].textures[x]
  BY EntryMarked
<1>2. q \in Renders /\ q.serial = r.serial /\ q.covers = r.covers \ (ts \cup {Whole})
  BY DEF Renders
<1>3. Shows(r, d[o], v)
  BY ShowsAges
<1> HIDE DEF u, v, e, q
<1>4. r.serial \in 0 .. Word - 1 /\ Since(s, r.serial) < Half
  BY HalfWord DEF Renders, Serials, Shows
<1>5. Since(v, u) < Since(v, r.serial)
  BY <1>4, MarksAge DEF u, v
<1>6. Since(v, u) \in Int /\ Since(v, r.serial) \in Int
  <2>1. u \in 0 .. Word - 1 /\ v \in 0 .. Word - 1
    BY HalfWord, AfterType DEF u, v
  <2> QED
    BY <1>4, <2>1, SinceType
<1>7. u # r.serial
  BY <1>5, <1>6
<1>8. ASSUME NEW x \in Textures
      PROVE  x \in q.covers <=> (x \in DOMAIN e.textures
                                 /\ Since(v, q.serial) <= Since(v, e.textures[x]))
  <2>1. x # Whole
    BY SchedulerBounds
  <2>2. CASE x \in ts
    BY <1>1, <1>2, <1>5, <1>6, <2>2
  <2>3. CASE x \notin ts
    <3>1. x \in q.covers <=> x \in r.covers
      BY <1>2, <2>1, <2>3
    <3>2. x \in r.covers <=> (x \in DOMAIN d[o].textures
                              /\ Since(v, r.serial) <= Since(v, d[o].textures[x]))
      BY <1>3 DEF Shows
    <3>3. x \in DOMAIN e.textures <=> x \in DOMAIN d[o].textures
      BY <1>1, <2>3
    <3>4. x \in DOMAIN e.textures => e.textures[x] = d[o].textures[x]
      BY <1>1, <2>3
    <3> QED
      BY <1>2, <3>1, <3>2, <3>3, <3>4
  <2> QED
    BY <2>2, <2>3
<1>9. Shows(q, e, v)
  <2>1. Since(v, q.serial) < Half
    BY <1>2 DEF v
  <2>2. Since(v, e.serial) <= Since(v, q.serial)
    BY <1>1, <1>2, <1>5, <1>6
  <2>3. Whole \in q.covers <=> e.serial = q.serial
    BY <1>1, <1>2, <1>7
  <2> QED
    BY <1>8, <2>1, <2>2, <2>3 DEF Shows
<1> QED
  BY <1>2, <1>9 DEF u, v, e, q

-----------------------------------------------------------------------------
(* The steps of the scheduler, on what is kept. *)

Unshown(r, ts) == [r EXCEPT !.covers = @ \ (ts \cup {Whole})]

LEMMA UnshownType ==
    ASSUME NEW r \in Renders, NEW ts
    PROVE  /\ Unshown(r, ts) \in Renders
           /\ Unshown(r, ts).serial = r.serial
           /\ Unshown(r, ts).covers = r.covers \ (ts \cup {Whole})
  BY DEF Unshown, Renders

LEMMA StaleQueues ==
    ASSUME NEW q \in [Outputs -> Seq(Renders)], NEW S, NEW ts
    PROVE  /\ Stale(q, S, ts) \in [Outputs -> Seq(Renders)]
           /\ \A o \in Outputs :
                 /\ Len(Stale(q, S, ts)[o]) = Len(q[o])
                 /\ DOMAIN Stale(q, S, ts)[o] = DOMAIN q[o]
                 /\ \A i \in DOMAIN q[o] :
                       /\ q[o][i] \in Renders
                       /\ Stale(q, S, ts)[o][i]
                            = IF o \in S THEN Unshown(q[o][i], ts) ELSE q[o][i]
<1> DEFINE z == Stale(q, S, ts)
<1>1. ASSUME NEW o \in Outputs
      PROVE  /\ z[o] \in Seq(Renders) /\ Len(z[o]) = Len(q[o]) /\ DOMAIN z[o] = DOMAIN q[o]
             /\ \A i \in DOMAIN q[o] :
                   /\ q[o][i] \in Renders
                   /\ z[o][i] = IF o \in S THEN Unshown(q[o][i], ts) ELSE q[o][i]
  <2>1. q[o] \in Seq(Renders) /\ Len(q[o]) \in Nat /\ DOMAIN q[o] = 1 .. Len(q[o])
    BY LenProperties
  <2>2. z[o] = [i \in DOMAIN q[o] |-> IF o \in S THEN Unshown(q[o][i], ts) ELSE q[o][i]]
    BY Zenon DEF Stale, Unshown
  <2>3. \A i \in 1 .. Len(q[o]) : q[o][i] \in Renders
    BY <2>1, ElementOfSeq
  <2>4. \A i \in 1 .. Len(q[o]) :
            (IF o \in S THEN Unshown(q[o][i], ts) ELSE q[o][i]) \in Renders
    BY <2>3, UnshownType, Zenon
  <2> HIDE DEF z
  <2>5. z[o] \in Seq(Renders) /\ DOMAIN z[o] = DOMAIN q[o]
    BY <2>1, <2>2, <2>4, IsASeq
  <2>6. Len(z[o]) = Len(q[o])
    BY <2>1, <2>5, LenProperties
  <2> QED
    BY <2>1, <2>2, <2>3, <2>5, <2>6
<1>2. z = [o \in Outputs |-> z[o]]
  BY Zenon DEF Stale
<1> HIDE DEF z
<1>3. z \in [Outputs -> Seq(Renders)]
  BY <1>1, <1>2
<1> QED
  BY <1>1, <1>3 DEF z

(* What SerialsStayClose guarantees of a serial. *)
StayClose(d, q, s) ==
    /\ \A o \in DOMAIN d :
           /\ Since(s, d[o].serial) < Half
           /\ \A x \in DOMAIN d[o].textures : Since(s, d[o].textures[x]) < Half
    /\ \A o \in Outputs : \A i \in DOMAIN q[o] : Since(s, q[o][i].serial) < Half

LEMMA GuardIsClose ==
    ASSUME NEW s PROVE SerialsStayClose(s) <=> StayClose(dirty, renders, s)
  BY DEF SerialsStayClose, StayClose, Since, Half

(* A run of marks: output o of S gets the place[o]-th of k serials. *)
Run(d, s, S, ts, place) ==
    [o \in DOMAIN d \cup S |->
        IF o \in S THEN Entry(d, o, SerialAfter(s, place[o]), ts) ELSE d[o]]

LEMMA RunKeeps ==
    ASSUME NEW d, NEW s, NEW q, Kept(d, s, q),
           NEW S \in SUBSET Outputs, NEW ts \in SUBSET Textures,
           NEW k \in Nat, k < Half, NEW place \in [S -> 1 .. k],
           StayClose(d, q, SerialAfter(s, k))
    PROVE  Kept(Run(d, s, S, ts, place), SerialAfter(s, k), Stale(q, S, ts))
<1> DEFINE v == SerialAfter(s, k)
           n == Run(d, s, S, ts, place)
           z == Stale(q, S, ts)
<1>0. /\ s \in 0 .. Word - 1 /\ DOMAIN d \subseteq Outputs
      /\ d \in [DOMAIN d -> Entries] /\ q \in [Outputs -> Seq(Renders)]
      /\ \A o \in Outputs : Len(q[o]) <= 1
      /\ \A o \in DOMAIN d : d[o] \in Entries /\ Recent(d[o], s)
      /\ \A o \in Outputs : \A i \in DOMAIN q[o] : o \in DOMAIN d /\ Shows(q[o][i], d[o], s)
  BY DEF Kept
<1>1. v \in 0 .. Word - 1
  BY <1>0, AfterType
<1>2. /\ DOMAIN n = DOMAIN d \cup S /\ n = [o \in DOMAIN n |-> n[o]]
      /\ \A o \in S : n[o] = Entry(d, o, SerialAfter(s, place[o]), ts)
      /\ \A o \in DOMAIN n \ S : o \in DOMAIN d /\ n[o] = d[o]
  BY DEF Run
<1>3. /\ z \in [Outputs -> Seq(Renders)]
      /\ \A o \in Outputs :
            /\ Len(z[o]) = Len(q[o])
            /\ DOMAIN z[o] = DOMAIN q[o]
            /\ \A i \in DOMAIN q[o] :
                  /\ q[o][i] \in Renders
                  /\ z[o][i] = IF o \in S THEN Unshown(q[o][i], ts) ELSE q[o][i]
  BY <1>0, StaleQueues
<1>c. /\ \A o \in DOMAIN d :
            /\ Since(v, d[o].serial) < Half
            /\ \A x \in DOMAIN d[o].textures : Since(v, d[o].textures[x]) < Half
      /\ \A o \in Outputs : \A i \in DOMAIN q[o] : Since(v, q[o][i].serial) < Half
  BY DEF StayClose
<1>p. \A o \in S : place[o] \in Nat /\ 0 < place[o] /\ place[o] <= k
  OBVIOUS
<1> HIDE DEF n, z
<1>4. ASSUME NEW o \in DOMAIN n PROVE n[o] \in Entries /\ Recent(n[o], v)
  <2>1. CASE o \in S
    <3>1. o \in DOMAIN d => /\ d[o] \in Entries /\ Recent(d[o], s)
                            /\ \A x \in DOMAIN d[o].textures :
                                  Since(SerialAfter(s, k), d[o].textures[x]) < Half
      BY <1>0, <1>c
    <3>2. LET e == Entry(d, o, SerialAfter(s, place[o]), ts) IN e \in Entries /\ Recent(e, v)
      BY <1>0, <1>p, <2>1, <3>1, EntryMarked
    <3> QED
      BY <1>2, <2>1, <3>2
  <2>2. CASE o \notin S
    BY <1>0, <1>2, <1>c, <2>2, EntryAges
  <2> QED
    BY <2>1, <2>2
<1>5. ASSUME NEW o \in Outputs, NEW i \in DOMAIN z[o]
      PROVE  o \in DOMAIN n /\ Shows(z[o][i], n[o], v)
  <2>1. /\ i \in DOMAIN q[o] /\ q[o][i] \in Renders
        /\ z[o][i] = IF o \in S THEN Unshown(q[o][i], ts) ELSE q[o][i]
    BY <1>3
  <2>2. /\ o \in DOMAIN d /\ Shows(q[o][i], d[o], s) /\ d[o] \in Entries /\ Recent(d[o], s)
        /\ \A x \in DOMAIN d[o].textures : Since(v, d[o].textures[x]) < Half
        /\ Since(v, q[o][i].serial) < Half
    BY <1>0, <1>c, <2>1
  <2>3. o \in DOMAIN n
    BY <1>2, <2>2
  <2>4. CASE o \in S
    <3>1. z[o][i] = Unshown(q[o][i], ts) /\ n[o] = Entry(d, o, SerialAfter(s, place[o]), ts)
      BY <1>2, <2>1, <2>4
    <3>2. Shows(Unshown(q[o][i], ts), Entry(d, o, SerialAfter(s, place[o]), ts), SerialAfter(s, k))
      BY <1>0, <1>p, <2>1, <2>2, <2>4, ShowsMarked DEF Unshown
    <3> QED
      BY <2>3, <3>1, <3>2
  <2>5. CASE o \notin S
    <3>1. z[o][i] = q[o][i] /\ n[o] = d[o]
      BY <1>2, <2>1, <2>3, <2>5
    <3>2. Shows(q[o][i], d[o], SerialAfter(s, k))
      BY <1>0, <2>1, <2>2, ShowsAges
    <3> QED
      BY <2>3, <3>1, <3>2
  <2> QED
    BY <2>4, <2>5
<1>6. DOMAIN n \subseteq Outputs /\ n \in [DOMAIN n -> Entries]
  BY <1>0, <1>2, <1>4
<1>7. \A o \in Outputs : Len(z[o]) <= 1
  BY <1>0, <1>3
<1> HIDE DEF v
<1>8. Kept(n, v, z)
  BY <1>1, <1>3, <1>4, <1>5, <1>6, <1>7 DEF Kept
<1> QED
  BY <1>8 DEF n, v, z

(* A render is requested for every output of R, of what the output has. *)
Shot(e) == [serial |-> e.serial, covers |-> DOMAIN e.textures \cup {Whole}]

Requested(d, q, R) ==
    [o \in Outputs |-> IF o \in R THEN Append(q[o], Shot(d[o])) ELSE q[o]]

Empty(w) == w = <<>>

LEMMA ShotType ==
    ASSUME NEW e \in Entries PROVE Shot(e) \in Renders
  BY DEF Shot, Entries, Renders, Damage

LEMMA ShotShows ==
    ASSUME NEW s \in 0 .. Word - 1, NEW e \in Entries, Recent(e, s)
    PROVE  Shows(Shot(e), e, s)
<1>1. Shot(e).serial = e.serial /\ Shot(e).covers = DOMAIN e.textures \cup {Whole}
  BY DEF Shot
<1>2. e.serial \in 0 .. Word - 1
  BY HalfWord DEF Entries, Serials
<1>3. Since(s, e.serial) \in Int
  BY <1>2, SinceType
<1>4. \A x \in Textures : x # Whole
  BY SchedulerBounds
<1> QED
  BY <1>1, <1>3, <1>4 DEF Recent, Shows

LEMMA AppendFirst ==
    ASSUME NEW T, NEW r \in T, NEW w, w = <<>>
    PROVE  /\ Append(w, r) = <<r>> /\ <<r>> \in Seq(T)
           /\ Len(<<r>>) = 1 /\ DOMAIN <<r>> = {1} /\ <<r>>[1] = r
  OBVIOUS

LEMMA RequestKeeps ==
    ASSUME NEW d, NEW s, NEW q, Kept(d, s, q), NEW R \in SUBSET (DOMAIN d),
           \A o \in R : Empty(q[o])
    PROVE  Kept(d, s, Requested(d, q, R))
<1> DEFINE z == Requested(d, q, R)
<1>0. /\ s \in 0 .. Word - 1 /\ DOMAIN d \subseteq Outputs
      /\ d \in [DOMAIN d -> Entries] /\ q \in [Outputs -> Seq(Renders)]
      /\ \A o \in Outputs : Len(q[o]) <= 1
      /\ \A o \in DOMAIN d : d[o] \in Entries /\ Recent(d[o], s)
      /\ \A o \in Outputs : \A i \in DOMAIN q[o] : o \in DOMAIN d /\ Shows(q[o][i], d[o], s)
  BY DEF Kept
<1>1. ASSUME NEW o \in Outputs
      PROVE  /\ z[o] \in Seq(Renders) /\ Len(z[o]) <= 1
             /\ \A i \in DOMAIN z[o] : o \in DOMAIN d /\ Shows(z[o][i], d[o], s)
  <2>1. CASE o \in R
    <3>1. o \in DOMAIN d /\ Shot(d[o]) \in Renders /\ Shows(Shot(d[o]), d[o], s)
      BY <1>0, <2>1, ShotType, ShotShows
    <3>2. z[o] = Append(q[o], Shot(d[o])) /\ q[o] = <<>>
      BY <2>1 DEF Requested, Empty
    <3> DEFINE r == Shot(d[o])
    <3> HIDE DEF r, z
    <3>3. /\ z[o] = <<r>> /\ z[o] \in Seq(Renders) /\ Len(z[o]) = 1 /\ DOMAIN z[o] = {1}
          /\ z[o][1] = r
      BY <3>1, <3>2, AppendFirst DEF r
    <3> QED
      BY <3>1, <3>3 DEF r
  <2>2. CASE o \notin R
    <3>1. z[o] = q[o]
      BY <2>2 DEF Requested
    <3> QED
      BY <1>0, <3>1
  <2> QED
    BY <2>1, <2>2
<1>2. z = [o \in Outputs |-> z[o]]
  BY Zenon DEF Requested
<1> HIDE DEF z
<1>3. z \in [Outputs -> Seq(Renders)]
  BY <1>1, <1>2
<1>4. Kept(d, s, z)
  BY <1>0, <1>1, <1>3 DEF Kept
<1> QED
  BY <1>4 DEF z

(* The oldest render of an output, the only one, ends. *)
Ended(q, o) == [q EXCEPT ![o] = Tail(@)]

LEMMA OneIsLast ==
    ASSUME NEW T, NEW w \in Seq(T), w # <<>>, Len(w) <= 1
    PROVE  /\ Tail(w) = <<>> /\ DOMAIN w = {1} /\ Head(w) = w[1] /\ w[1] \in T
<1>1. Len(w) = 1 /\ DOMAIN w = {1} /\ Head(w) = w[1] /\ w[1] \in T
  <2>1. Len(w) \in Nat /\ DOMAIN w = 1 .. Len(w)
    BY LenProperties
  <2>2. Len(w) \in Nat \ {0}
    BY EmptySeq
  <2>3. Len(w) = 1
    BY <2>2
  <2>4. DOMAIN w = {1}
    BY <2>1, <2>3
  <2>5. w[1] \in T
    BY <2>3, ElementOfSeq
  <2> QED
    BY <2>3, <2>4, <2>5
<1>2. Tail(w) \in Seq(T) /\ Len(Tail(w)) = 0
  BY <1>1, HeadTailProperties
<1> QED
  BY <1>1, <1>2, EmptySeq

LEMMA EndKeeps ==
    ASSUME NEW d, NEW s, NEW q, Kept(d, s, q), NEW o \in Outputs, q[o] # <<>>
    PROVE  /\ Kept(d, s, Ended(q, o))
           /\ Ended(q, o)[o] = <<>> /\ \A p \in Outputs \ {o} : Ended(q, o)[p] = q[p]
           /\ DOMAIN q[o] = {1} /\ Head(q[o]) = q[o][1] /\ Head(q[o]) \in Renders
<1> DEFINE z == Ended(q, o)
<1>0. /\ s \in 0 .. Word - 1 /\ DOMAIN d \subseteq Outputs
      /\ d \in [DOMAIN d -> Entries] /\ q \in [Outputs -> Seq(Renders)]
      /\ \A p \in Outputs : Len(q[p]) <= 1
      /\ \A p \in DOMAIN d : Recent(d[p], s)
      /\ \A p \in Outputs : \A i \in DOMAIN q[p] : p \in DOMAIN d /\ Shows(q[p][i], d[p], s)
  BY DEF Kept
<1>1. /\ Tail(q[o]) = <<>> /\ DOMAIN q[o] = {1} /\ Head(q[o]) = q[o][1] /\ q[o][1] \in Renders
  BY <1>0, OneIsLast
<1>2. z[o] = <<>> /\ (\A p \in Outputs \ {o} : z[p] = q[p]) /\ z = [p \in Outputs |-> z[p]]
  BY <1>0, <1>1 DEF Ended
<1> HIDE DEF z
<1>3. <<>> \in Seq(Renders) /\ Len(<<>>) = 0 /\ DOMAIN <<>> = {}
  OBVIOUS
<1>4. z \in [Outputs -> Seq(Renders)]
  BY <1>0, <1>2, <1>3
<1>5. \A p \in Outputs : Len(z[p]) <= 1
  BY <1>0, <1>2, <1>3
<1>6. \A p \in Outputs : \A i \in DOMAIN z[p] : p \in DOMAIN d /\ Shows(z[p][i], d[p], s)
  BY <1>0, <1>2, <1>3
<1>7. Kept(d, s, z)
  BY <1>0, <1>4, <1>5, <1>6 DEF Kept
<1> QED
  BY <1>1, <1>2, <1>7 DEF z

(* complete_render. *)
Retire(d, o, s) ==
    IF o \notin DOMAIN d THEN d
    ELSE IF d[o].serial = s THEN Restrict(d, DOMAIN d \ {o})
    ELSE [d EXCEPT ![o] = Retired(@, s)]

Damaged(d, o) == IF o \in DOMAIN d THEN DOMAIN d[o].textures \cup {Whole} ELSE {}

LEMMA RetiredShown ==
    ASSUME NEW s \in 0 .. Word - 1, NEW e \in Entries, Recent(e, s),
           NEW r \in Renders, Shows(r, e, s), e.serial # r.serial
    PROVE  /\ Retired(e, r.serial) \in Entries /\ Recent(Retired(e, r.serial), s)
           /\ DOMAIN Retired(e, r.serial).textures = DOMAIN e.textures \ r.covers
<1> DEFINE T == {x \in DOMAIN e.textures : ~AtOrBefore(e.textures[x], r.serial)}
           n == Retired(e, r.serial)
<1>1. r.serial \in 0 .. Word - 1 /\ e.serial \in 0 .. Word - 1
  BY HalfWord DEF Entries, Renders, Serials
<1>2. /\ Since(s, r.serial) < Half /\ Since(s, e.serial) < Half
      /\ Since(s, e.serial) <= Since(s, r.serial)
  BY DEF Recent, Shows
<1>3. AtOrBefore(r.serial, e.serial)
  BY <1>1, <1>2, ComparesAges
<1>4. n = [e EXCEPT !.textures = [x \in T |-> e.textures[x]]]
  BY <1>3 DEF Retired, Restrict
<1>5. ASSUME NEW x \in DOMAIN e.textures
      PROVE  e.textures[x] \in Serials /\ x \in Textures
             /\ (AtOrBefore(e.textures[x], r.serial) <=> x \in r.covers)
  <2>1. e.textures[x] \in Serials /\ x \in Textures
    BY DEF Entries
  <2>2. e.textures[x] \in 0 .. Word - 1
    BY <2>1, HalfWord DEF Serials
  <2>3. Since(s, e.textures[x]) < Half
    BY DEF Recent
  <2>4. AtOrBefore(e.textures[x], r.serial) <=> Since(s, r.serial) <= Since(s, e.textures[x])
    BY <1>1, <1>2, <2>2, <2>3, ComparesAges
  <2>5. x \in r.covers <=> Since(s, r.serial) <= Since(s, e.textures[x])
    BY <2>1 DEF Shows
  <2> QED
    BY <2>1, <2>4, <2>5
<1>6. T = DOMAIN e.textures \ r.covers
  BY <1>5
<1> DEFINE f == [x \in T |-> e.textures[x]]
<1>7. f \in [T -> Serials] /\ T \in SUBSET Textures /\ \A x \in T : f[x] = e.textures[x]
  BY <1>5
<1>8. f \in UNION {[X -> Serials] : X \in SUBSET Textures} /\ DOMAIN f = T
  BY <1>7
<1>t. T \subseteq DOMAIN e.textures
  OBVIOUS
<1>9. n \in Entries /\ n.serial = e.serial /\ n.textures = f
  <2>1. n = [e EXCEPT !.textures = f]
    BY <1>4
  <2> HIDE DEF n, f, T
  <2> QED
    BY <1>8, <2>1 DEF Entries
<1> HIDE DEF n, f, T
<1>10. Recent(n, s)
  BY <1>7, <1>8, <1>9, <1>t DEF Recent
<1>11. DOMAIN n.textures = DOMAIN e.textures \ r.covers
  BY <1>6, <1>8, <1>9
<1> QED
  BY <1>9, <1>10, <1>11 DEF n

LEMMA RetireKeeps ==
    ASSUME NEW d, NEW s, NEW q, Kept(d, s, q), NEW o \in Outputs, q[o] # <<>>
    PROVE  /\ Kept(Retire(d, o, Head(q[o]).serial), s, Ended(q, o))
           /\ Damaged(Retire(d, o, Head(q[o]).serial), o) = Damaged(d, o) \ Head(q[o]).covers
           /\ \A p \in Outputs \ {o} : Damaged(Retire(d, o, Head(q[o]).serial), p) = Damaged(d, p)
<1> DEFINE r == Head(q[o])
           n == Retire(d, o, r.serial)
           z == Ended(q, o)
<1>1. /\ Kept(d, s, z) /\ z[o] = <<>> /\ r \in Renders /\ DOMAIN q[o] = {1} /\ r = q[o][1]
  BY EndKeeps
<1>2. /\ s \in 0 .. Word - 1 /\ DOMAIN d \subseteq Outputs
      /\ d \in [DOMAIN d -> Entries]
      /\ \A p \in DOMAIN d : d[p] \in Entries /\ Recent(d[p], s)
  BY DEF Kept
<1>3. o \in DOMAIN d /\ Shows(r, d[o], s)
  BY <1>1 DEF Kept
<1>4. /\ z \in [Outputs -> Seq(Renders)] /\ \A p \in Outputs : Len(z[p]) <= 1
      /\ \A p \in Outputs : \A i \in DOMAIN z[p] : p \in DOMAIN d /\ Shows(z[p][i], d[p], s)
  BY <1>1 DEF Kept
<1>d. DOMAIN z[o] = {}
  BY <1>1
<1>5. CASE d[o].serial = r.serial
  <2>1. n = Restrict(d, DOMAIN d \ {o})
    BY <1>3, <1>5 DEF Retire
  <2>2. DOMAIN n = DOMAIN d \ {o} /\ (\A p \in DOMAIN n : n[p] = d[p]) /\ n = [p \in DOMAIN n |-> n[p]]
    BY <2>1 DEF Restrict
  <2> HIDE DEF n, r, z
  <2>3. n \in [DOMAIN n -> Entries] /\ DOMAIN n \subseteq Outputs
    BY <1>2, <2>2
  <2>4. \A p \in Outputs : \A i \in DOMAIN z[p] : p \in DOMAIN n /\ Shows(z[p][i], n[p], s)
    BY <1>4, <1>d, <2>2
  <2>5. Kept(n, s, z)
    BY <1>2, <1>4, <2>2, <2>3, <2>4 DEF Kept
  <2>6. DOMAIN d[o].textures \cup {Whole} \subseteq r.covers
    <3>1. Whole \in r.covers
      BY <1>3, <1>5 DEF Shows
    <3>2. ASSUME NEW x \in DOMAIN d[o].textures PROVE x \in r.covers
      <4>1. x \in Textures
        BY <1>2, <1>3 DEF Entries
      <4>2. Since(s, d[o].serial) <= Since(s, d[o].textures[x])
        BY <1>2, <1>3 DEF Recent
      <4> QED
        BY <1>3, <1>5, <4>1, <4>2 DEF Shows
    <3> QED
      BY <3>1, <3>2
  <2>7. Damaged(n, o) = Damaged(d, o) \ r.covers
    BY <1>3, <2>2, <2>6 DEF Damaged
  <2>8. \A p \in Outputs \ {o} : Damaged(n, p) = Damaged(d, p)
    BY <2>2 DEF Damaged
  <2> QED
    BY <2>5, <2>7, <2>8 DEF n, r, z
<1>6. CASE d[o].serial # r.serial
  <2>1. n = [d EXCEPT ![o] = Retired(d[o], r.serial)]
    BY <1>3, <1>6 DEF Retire
  <2>2. /\ Retired(d[o], r.serial) \in Entries /\ Recent(Retired(d[o], r.serial), s)
        /\ DOMAIN Retired(d[o], r.serial).textures = DOMAIN d[o].textures \ r.covers
    BY <1>1, <1>2, <1>3, <1>6, RetiredShown
  <2>3. /\ DOMAIN n = DOMAIN d /\ n[o] = Retired(d[o], r.serial)
        /\ (\A p \in DOMAIN d \ {o} : n[p] = d[p]) /\ n = [p \in DOMAIN n |-> n[p]]
    BY <1>3, <2>1
  <2> HIDE DEF n, r, z
  <2>4. n \in [DOMAIN n -> Entries] /\ DOMAIN n \subseteq Outputs
    BY <1>2, <2>2, <2>3
  <2>5. \A p \in Outputs : \A i \in DOMAIN z[p] : p \in DOMAIN n /\ Shows(z[p][i], n[p], s)
    BY <1>4, <1>d, <2>3
  <2>6. \A p \in DOMAIN n : Recent(n[p], s)
    BY <1>2, <2>2, <2>3
  <2>7. Kept(n, s, z)
    BY <1>2, <1>4, <2>4, <2>5, <2>6 DEF Kept
  <2>8. Whole \notin r.covers
    BY <1>3, <1>6 DEF Shows
  <2>9. Damaged(n, o) = Damaged(d, o) \ r.covers
    BY <1>3, <2>2, <2>3, <2>8 DEF Damaged
  <2>10. \A p \in Outputs \ {o} : Damaged(n, p) = Damaged(d, p)
    BY <2>3 DEF Damaged
  <2> QED
    BY <2>7, <2>9, <2>10 DEF n, r, z
<1> QED
  BY <1>5, <1>6

-----------------------------------------------------------------------------
(* What the steps are for OutputDamage. *)

Covers(w) == [i \in DOMAIN w |-> w[i].covers]
Uncover(c, new) == [i \in DOMAIN c |-> c[i] \ new]
New(S, ts, o) == IF o \in S THEN ts \cup {Whole} ELSE {}
Begun(begun, now) == IF begun THEN <<now>> ELSE <<>>

LEMMA CoversType ==
    ASSUME NEW w \in Seq(Renders)
    PROVE  /\ Covers(w) \in Seq(SUBSET Damage) /\ DOMAIN Covers(w) = DOMAIN w
           /\ \A i \in DOMAIN w : Covers(w)[i] = w[i].covers
<1>1. Len(w) \in Nat /\ DOMAIN w = 1 .. Len(w)
  BY LenProperties
<1>2. \A i \in 1 .. Len(w) : w[i] \in Renders
  BY ElementOfSeq
<1>3. \A i \in 1 .. Len(w) : w[i].covers \in SUBSET Damage
  BY <1>2 DEF Renders
<1>4. [i \in 1 .. Len(w) |-> w[i].covers] \in Seq(SUBSET Damage)
  BY <1>1, <1>3, IsASeq
<1> QED
  BY <1>1, <1>4 DEF Covers

LEMMA DamagedType ==
    ASSUME NEW d, NEW s, NEW q, Kept(d, s, q), NEW o
    PROVE  Damaged(d, o) \in SUBSET Damage
  BY DEF Kept, Entries, Damaged, Damage

LEMMA StaleCovers ==
    ASSUME NEW q \in [Outputs -> Seq(Renders)], NEW S, NEW ts, NEW o \in Outputs
    PROVE  Covers(Stale(q, S, ts)[o]) = Uncover(Covers(q[o]), New(S, ts, o))
<1> DEFINE z == Stale(q, S, ts)[o]
           new == New(S, ts, o)
<1>1. DOMAIN z = DOMAIN q[o] /\ \A i \in DOMAIN q[o] :
         q[o][i] \in Renders /\ z[i] = IF o \in S THEN Unshown(q[o][i], ts) ELSE q[o][i]
  BY StaleQueues
<1> HIDE DEF z
<1>2. ASSUME NEW i \in DOMAIN q[o] PROVE z[i].covers = q[o][i].covers \ new
  <2>1. CASE o \in S
    BY <1>1, <2>1, UnshownType DEF New
  <2>2. CASE o \notin S
    BY <1>1, <2>2 DEF New
  <2> QED
    BY <2>1, <2>2
<1> HIDE DEF new
<1>3. Covers(z) = [i \in DOMAIN q[o] |-> q[o][i].covers \ new]
  BY <1>1, <1>2 DEF Covers
<1>4. Uncover(Covers(q[o]), new) = [i \in DOMAIN q[o] |-> q[o][i].covers \ new]
  BY DEF Uncover, Covers
<1>5. Covers(z) = Uncover(Covers(q[o]), new)
  BY <1>3, <1>4
<1> QED
  BY <1>5 DEF z, new

LEMMA RunDamages ==
    ASSUME NEW d, NEW s, NEW q, Kept(d, s, q), NEW S, NEW ts, NEW place, NEW o
    PROVE  Damaged(Run(d, s, S, ts, place), o)
             = Damaged(d, o) \cup New(S, ts, o)
<1> DEFINE n == Run(d, s, S, ts, place)
           u == SerialAfter(s, place[o])
<1>1. CASE o \in S
  <2>1. o \in DOMAIN n /\ n[o] = Entry(d, o, u, ts)
    BY <1>1 DEF Run
  <2> HIDE DEF n, u
  <2>2. DOMAIN Entry(d, o, u, ts).textures
          = (IF o \in DOMAIN d THEN DOMAIN d[o].textures ELSE {}) \cup ts
    BY DEF Entry
  <2> QED
    BY <1>1, <2>1, <2>2 DEF Damaged, New, n
<1>2. CASE o \notin S
  BY <1>2 DEF Run, Damaged, New
<1> QED
  BY <1>1, <1>2

LEMMA RequestCovers ==
    ASSUME NEW d, NEW s, NEW q, Kept(d, s, q), NEW R \in SUBSET (DOMAIN d),
           \A p \in R : Empty(q[p]), NEW o \in Outputs
    PROVE  /\ Covers(Requested(d, q, R)[o])
                = Covers(q[o]) \o Begun(o \in R, Damaged(d, o))
           /\ o \in R => Damaged(d, o) # {}
<1>0. q[o] \in Seq(Renders) /\ d \in [DOMAIN d -> Entries]
  BY DEF Kept
<1>1. Covers(q[o]) \in Seq(SUBSET Damage)
  BY <1>0, CoversType
<1>2. CASE o \in R
  <2>1. Requested(d, q, R)[o] = Append(q[o], Shot(d[o])) /\ q[o] = <<>>
    BY <1>2 DEF Requested, Empty
  <2>2. Shot(d[o]) \in Renders
    BY <1>0, <1>2, ShotType
  <2>3. Shot(d[o]).covers = Damaged(d, o) /\ Damaged(d, o) # {}
    BY <1>2 DEF Shot, Damaged
  <2> DEFINE r == Shot(d[o])
             m == Damaged(d, o)
  <2> HIDE DEF r, m
  <2>4. Requested(d, q, R)[o] = <<r>>
    BY <2>1, <2>2, AppendFirst DEF r
  <2>5. Covers(<<r>>) = <<m>>
    <3>1. r.covers = m
      BY <2>3 DEF r, m
    <3> QED
      BY <3>1 DEF Covers
  <2>6. Covers(q[o]) = <<>>
    BY <2>1 DEF Covers
  <2>7. <<>> \o <<m>> = <<m>>
    BY ConcatEmptySeq
  <2> QED
    BY <1>2, <2>3, <2>4, <2>5, <2>6, <2>7 DEF m, Begun
<1>3. CASE o \notin R
  <2>1. Requested(d, q, R)[o] = q[o]
    BY <1>3 DEF Requested
  <2>2. Covers(q[o]) \o <<>> = Covers(q[o])
    BY <1>1, ConcatEmptySeq
  <2> QED
    BY <1>3, <2>1, <2>2 DEF Begun
<1> QED
  BY <1>2, <1>3

(* Marks and the renders requested after them are a step of OutputDamage. *)
LEMMA MarksAndRequests ==
    ASSUME DamageInv, NEW S \in SUBSET Outputs, NEW ts \in SUBSET Textures,
           NEW k \in Nat, k < Half, NEW place \in [S -> 1 .. k],
           StayClose(dirty, renders, SerialAfter(serial, k)),
           dirty' = Run(dirty, serial, S, ts, place), serial' = SerialAfter(serial, k),
           NEW R \in SUBSET (DOMAIN dirty'), \A p \in R : Empty(Stale(renders, S, ts)[p]),
           renders' = Requested(dirty', Stale(renders, S, ts), R)
    PROVE  DamageInv' /\ Abstract!Next
<1> DEFINE z == Stale(renders, S, ts)
<1>1. Kept(dirty', serial', z)
  BY RunKeeps DEF DamageInv
<1>2. Kept(dirty', serial', renders')
  BY <1>1, RequestKeeps
<1>3. ASSUME NEW o \in Outputs
      PROVE  /\ Damaged(dirty', o) = Damaged(dirty, o) \cup New(S, ts, o)
             /\ Damaged(dirty', o) \in SUBSET Damage
             /\ Covers(renders'[o]) \in Seq(SUBSET Damage)
             /\ Covers(renders'[o])
                  = Uncover(Covers(renders[o]), New(S, ts, o))
                      \o Begun(o \in R, Damaged(dirty', o))
             /\ o \in R => Damaged(dirty', o) # {}
  <2>1. Damaged(dirty', o) = Damaged(dirty, o) \cup New(S, ts, o)
    <3>1. Kept(dirty, serial, renders)
      BY DEF DamageInv
    <3>2. Damaged(Run(dirty, serial, S, ts, place), o) = Damaged(dirty, o) \cup New(S, ts, o)
      BY ONLY <3>1, RunDamages
    <3> QED
      BY <3>2
  <2>2. Damaged(dirty', o) \in SUBSET Damage
    BY <1>2, DamagedType
  <2>3. Covers(renders'[o]) \in Seq(SUBSET Damage)
    <3>1. renders'[o] \in Seq(Renders)
      BY <1>2 DEF Kept
    <3> QED
      BY <3>1, CoversType
  <2>4. renders \in [Outputs -> Seq(Renders)]
    BY DEF DamageInv, Kept
  <2>5. Covers(z[o]) = Uncover(Covers(renders[o]), New(S, ts, o))
    <3>1. Covers(Stale(renders, S, ts)[o]) = Uncover(Covers(renders[o]), New(S, ts, o))
      BY ONLY <2>4, o \in Outputs, S \in SUBSET Outputs, ts \in SUBSET Textures, StaleCovers
    <3> QED
      BY ONLY <3>1
  <2>6. \A p \in R : Empty(z[p])
    OBVIOUS
  <2>7. renders' = Requested(dirty', z, R)
    OBVIOUS
  <2> HIDE DEF z
  <2>8. /\ Covers(Requested(dirty', z, R)[o]) = Covers(z[o]) \o Begun(o \in R, Damaged(dirty', o))
        /\ o \in R => Damaged(dirty', o) # {}
    BY <1>1, <2>6, RequestCovers
  <2> QED
    BY <2>1, <2>2, <2>3, <2>5, <2>7, <2>8
<1> DEFINE damage == [o \in Outputs |-> DamageOf(o)]
           shown == [o \in Outputs |-> [i \in DOMAIN renders[o] |-> renders[o][i].covers]]
<1>4. /\ \A o \in Outputs : damage[o] = Damaged(dirty, o)
      /\ \A o \in Outputs : damage'[o] = Damaged(dirty', o)
      /\ \A o \in Outputs : shown[o] = Covers(renders[o])
      /\ \A o \in Outputs : shown'[o] = Covers(renders'[o])
  BY DEF DamageOf, Damaged, Covers
<1>f. damage' = [o \in Outputs |-> damage'[o]] /\ shown' = [o \in Outputs |-> shown'[o]]
  BY Zenon
<1> HIDE DEF damage, shown
<1>5. damage' \in [Outputs -> SUBSET Damage]
  <2>1. \A o \in Outputs : damage'[o] \in SUBSET Damage
    BY <1>3, <1>4
  <2> QED
    BY <1>f, <2>1
<1>6. shown' \in [Outputs -> Seq(SUBSET Damage)]
  <2>1. \A o \in Outputs : shown'[o] \in Seq(SUBSET Damage)
    BY <1>3, <1>4
  <2> QED
    BY <1>f, <2>1
<1>7. ASSUME NEW o \in Outputs
      PROVE  \E new \in SUBSET Damage, begun \in BOOLEAN : Abstract!Step(o, new, begun)
  <2> DEFINE new == New(S, ts, o)
             begun == o \in R
  <2>1. new \in SUBSET Damage
    BY DEF New, Damage
  <2>2. /\ damage'[o] = damage[o] \cup new
        /\ shown'[o] = Uncover(shown[o], new) \o Begun(begun, damage'[o])
        /\ begun => damage'[o] # {}
    BY <1>3, <1>4
  <2>3. begun \in BOOLEAN
    OBVIOUS
  <2> HIDE DEF new, begun
  <2>4. Abstract!Step(o, new, begun)
    BY <2>2 DEF damage, shown, Abstract!Step, Abstract!Uncovered, Uncover, Begun
  <2> QED
    BY <2>1, <2>3, <2>4, Zenon
<1> QED
  BY <1>2, <1>5, <1>6, <1>7 DEF damage, shown, DamageInv, Abstract!Next, Abstract!Damage, Damage

(* A published render is a Finish of OutputDamage, a dropped one a Drop. *)
LEMMA EndShown ==
    ASSUME DamageInv, NEW o \in Outputs, renders[o] # <<>>, renders' = Ended(renders, o)
    PROVE  LET shown == [p \in Outputs |-> [i \in DOMAIN renders[p] |-> renders[p][i].covers]]
           IN  /\ shown[o] # <<>>
               /\ shown' = [shown EXCEPT ![o] = Tail(@)]
               /\ Head(shown[o]) = Head(renders[o]).covers
<1> DEFINE shown == [p \in Outputs |-> [i \in DOMAIN renders[p] |-> renders[p][i].covers]]
<1>1. /\ renders'[o] = <<>> /\ \A p \in Outputs \ {o} : renders'[p] = renders[p]
      /\ DOMAIN renders[o] = {1} /\ Head(renders[o]) = renders[o][1] /\ Head(renders[o]) \in Renders
  BY EndKeeps DEF DamageInv
<1>2. renders[o] \in Seq(Renders) /\ Len(renders[o]) <= 1
  BY DEF DamageInv, Kept
<1>3. shown[o] = Covers(renders[o])
  BY DEF Covers
<1>4. /\ Covers(renders[o]) \in Seq(SUBSET Damage) /\ DOMAIN Covers(renders[o]) = {1}
      /\ Covers(renders[o])[1] = renders[o][1].covers
  BY <1>1, <1>2, CoversType
<1> DEFINE c == Covers(renders[o])
<1> HIDE DEF c
<1>5. c \in Seq(SUBSET Damage) /\ DOMAIN c = {1}
  BY <1>4 DEF c
<1>6. c # <<>> /\ Len(c) <= 1
  <2>1. Len(c) \in Nat /\ DOMAIN c = 1 .. Len(c)
    BY <1>5, LenProperties
  <2>2. c # <<>>
    BY <1>5
  <2>3. Len(c) <= 1
    <3> SUFFICES ASSUME ~(Len(c) <= 1) PROVE FALSE
      OBVIOUS
    <3>1. 2 \in 1 .. Len(c)
      BY <2>1
    <3> QED
      BY <1>5, <2>1, <3>1
  <2> QED
    BY <2>2, <2>3
<1>7. Tail(c) = <<>> /\ Head(c) = c[1]
  BY <1>5, <1>6, OneIsLast
<1>8. shown[o] = c
  BY <1>3 DEF c
<1>9. shown'[o] = <<>> /\ \A p \in Outputs \ {o} : shown'[p] = shown[p]
  BY <1>1
<1>10. shown = [p \in Outputs |-> shown[p]] /\ shown' = [p \in Outputs |-> shown'[p]]
  BY Zenon
<1>11. c[1] = Head(renders[o]).covers
  BY <1>1, <1>4 DEF c
<1> HIDE DEF shown
<1>12. shown' = [shown EXCEPT ![o] = Tail(@)]
  BY <1>7, <1>8, <1>9, <1>10
<1> QED
  BY <1>6, <1>7, <1>8, <1>11, <1>12 DEF shown

LEMMA CompleteRenderKeeps ==
    ASSUME DamageInv, NEW o \in Outputs, CompleteRender(o)
    PROVE  DamageInv' /\ Abstract!Next
<1> DEFINE damage == [p \in Outputs |-> DamageOf(p)]
           shown == [p \in Outputs |-> [i \in DOMAIN renders[p] |-> renders[p][i].covers]]
<1>1. /\ renders[o] # <<>> /\ renders' = Ended(renders, o) /\ serial' = serial
      /\ dirty' = Retire(dirty, o, Head(renders[o]).serial)
  BY DEF CompleteRender, Ended, Retire
<1>2. /\ DamageInv'
      /\ Damaged(dirty', o) = Damaged(dirty, o) \ Head(renders[o]).covers
      /\ \A p \in Outputs \ {o} : Damaged(dirty', p) = Damaged(dirty, p)
  BY <1>1, RetireKeeps DEF DamageInv
<1>3. /\ shown[o] # <<>>
      /\ shown' = [shown EXCEPT ![o] = Tail(@)]
      /\ Head(shown[o]) = Head(renders[o]).covers
  BY <1>1, EndShown
<1>4. /\ \A p \in Outputs : damage[p] = Damaged(dirty, p)
      /\ \A p \in Outputs : damage'[p] = Damaged(dirty', p)
      /\ damage = [p \in Outputs |-> damage[p]]
      /\ damage' = [p \in Outputs |-> damage'[p]]
  BY DEF DamageOf, Damaged
<1> HIDE DEF damage, shown
<1>5. damage' = [damage EXCEPT ![o] = @ \ Head(shown[o])]
  BY <1>2, <1>3, <1>4
<1>6. Abstract!Finish(o)
  BY <1>3, <1>5 DEF Abstract!Finish, damage, shown
<1> QED
  BY <1>2, <1>6 DEF Abstract!Next

LEMMA DropRenderKeeps ==
    ASSUME DamageInv, NEW o \in Outputs, DropRender(o)
    PROVE  DamageInv' /\ Abstract!Next
<1> DEFINE damage == [p \in Outputs |-> DamageOf(p)]
           shown == [p \in Outputs |-> [i \in DOMAIN renders[p] |-> renders[p][i].covers]]
<1>1. renders[o] # <<>> /\ renders' = Ended(renders, o) /\ serial' = serial /\ dirty' = dirty
  BY DEF DropRender, Ended
<1>2. DamageInv'
  BY <1>1, EndKeeps DEF DamageInv
<1>3. shown[o] # <<>> /\ shown' = [shown EXCEPT ![o] = Tail(@)]
  BY <1>1, EndShown
<1>4. damage' = damage
  BY <1>1 DEF DamageOf
<1> HIDE DEF damage, shown
<1>5. Abstract!Drop(o)
  BY <1>3, <1>4 DEF Abstract!Drop, damage, shown
<1> QED
  BY <1>2, <1>5 DEF Abstract!Next

-----------------------------------------------------------------------------
(* The marks of the actions are runs. *)

Places(S) == [o \in S |-> Cardinality({p \in S : Rank[p] <= Rank[o]})]

LEMMA PlacesOfMarks ==
    ASSUME NEW S \in SUBSET Outputs
    PROVE  /\ Cardinality(S) \in Nat /\ Cardinality(S) < Half
           /\ Places(S) \in [S -> 1 .. Cardinality(S)]
<1>1. /\ IsFiniteSet(S) /\ Cardinality(S) \in Nat /\ Cardinality(S) <= Cardinality(Outputs)
  <2>1. IsFiniteSet(Outputs)
    BY SchedulerBounds
  <2> QED
    BY <2>1, FS_Subset, FS_CardinalityType
<1>2. ASSUME NEW o \in S
      PROVE  Cardinality({p \in S : Rank[p] <= Rank[o]}) \in 1 .. Cardinality(S)
  <2> DEFINE B == {p \in S : Rank[p] <= Rank[o]}
  <2>1. B \subseteq S /\ o \in B
    BY SchedulerBounds
  <2> HIDE DEF B
  <2>2. IsFiniteSet(B) /\ Cardinality(B) \in Nat /\ Cardinality(B) <= Cardinality(S)
    BY <1>1, <2>1, FS_Subset, FS_CardinalityType
  <2>3. Cardinality(B) # 0
    BY <2>1, <2>2, FS_EmptySet
  <2>4. Cardinality(B) \in 1 .. Cardinality(S)
    BY <1>1, <2>2, <2>3
  <2> QED
    BY <2>4 DEF B
<1> QED
  BY <1>1, <1>2, HalfWord DEF Places

LEMMA EachIsRun ==
    ASSUME NEW d, NEW s, NEW S
    PROVE  /\ MarkEach(d, s, S).dirty = Run(d, s, S, {}, Places(S))
           /\ MarkEach(d, s, S).serial = SerialAfter(s, Cardinality(S))
  BY DEF MarkEach, Run, Places

LEMMA NoRequests ==
    ASSUME NEW d, NEW q \in [Outputs -> Seq(Renders)]
    PROVE  Requested(d, q, {}) = q
  BY DEF Requested

LEMMA NoMarks ==
    ASSUME NEW d, NEW s, NEW q, Kept(d, s, q)
    PROVE  /\ Run(d, s, {}, {}, Places({})) = d /\ SerialAfter(s, 0) = s
           /\ Stale(q, {}, {}) = q /\ StayClose(d, q, s)
<1>1. d = [o \in DOMAIN d |-> d[o]] /\ q \in [Outputs -> Seq(Renders)]
  BY DEF Kept
<1>2. Run(d, s, {}, {}, Places({})) = d
  BY <1>1 DEF Run
<1>3. ASSUME NEW o \in Outputs PROVE Stale(q, {}, {})[o] = q[o]
  <2>1. q[o] \in Seq(Renders) /\ q[o] \in [1 .. Len(q[o]) -> Renders] /\ DOMAIN q[o] = 1 .. Len(q[o])
    BY <1>1, LenProperties
  <2>2. Stale(q, {}, {})[o] = [i \in DOMAIN q[o] |-> q[o][i]]
    BY DEF Stale
  <2> QED
    BY <2>1, <2>2
<1>4. Stale(q, {}, {}) = [o \in Outputs |-> Stale(q, {}, {})[o]]
  BY Zenon DEF Stale
<1>5. Stale(q, {}, {}) = q
  BY <1>1, <1>3, <1>4
<1>6. StayClose(d, q, s)
  BY DEF Kept, StayClose, Recent, Shows
<1> QED
  BY <1>2, <1>5, <1>6 DEF SerialAfter

LEMMA MarkAppDirtyKeeps ==
    ASSUME DamageInv, NEW o \in Outputs, NEW ts \in SUBSET Textures, MarkAppDirty(o, ts)
    PROVE  DamageInv' /\ Abstract!Next
<1> DEFINE S == {o}
           place == [p \in S |-> 1]
<1>1. /\ serial' = NextSerial(serial) /\ dirty' = Marked(dirty, o, serial', ts)
      /\ SerialsStayClose(serial') /\ renders' = Stale(renders, {o}, ts)
  BY Zenon DEF MarkAppDirty
<1>2. S \in SUBSET Outputs /\ place \in [S -> 1 .. 1] /\ place[o] = 1
  OBVIOUS
<1>3. 1 < Half
  <2>1. Cardinality(S) = 1 /\ IsFiniteSet(Outputs)
    BY SchedulerBounds, FS_Singleton
  <2>2. Cardinality(S) <= Cardinality(Outputs)
    BY <2>1, FS_Subset
  <2> QED
    BY <2>1, <2>2, HalfWord
<1>4. serial' = SerialAfter(serial, 1)
  <2>1. serial \in 0 .. Word - 1
    BY DEF DamageInv, Kept
  <2>2. SerialAfter(serial, 0 + 1) = NextSerial(SerialAfter(serial, 0))
    BY <1>3, <2>1, AfterIsNext
  <2>3. SerialAfter(serial, 0) = serial
    BY DEF SerialAfter
  <2> QED
    BY <1>1, <2>2, <2>3
<1>5. dirty' = Run(dirty, serial, S, ts, place)
  BY <1>1, <1>2, <1>4 DEF Marked, Run
<1>6. StayClose(dirty, renders, SerialAfter(serial, 1))
  BY <1>1, <1>4, GuardIsClose
<1>7. renders' = Requested(dirty', Stale(renders, S, ts), {})
  <2>1. renders \in [Outputs -> Seq(Renders)]
    BY DEF DamageInv, Kept
  <2>2. Stale(renders, S, ts) \in [Outputs -> Seq(Renders)]
    BY <2>1, StaleQueues
  <2> QED
    BY <1>1, <2>2, NoRequests
<1> DEFINE R == {}
<1>8. R \in SUBSET (DOMAIN dirty') /\ \A p \in R : Empty(Stale(renders, S, ts)[p])
  OBVIOUS
<1> DEFINE k == 1
<1>9. /\ k \in Nat /\ k < Half /\ place \in [S -> 1 .. k]
      /\ serial' = SerialAfter(serial, k) /\ StayClose(dirty, renders, SerialAfter(serial, k))
      /\ renders' = Requested(dirty', Stale(renders, S, ts), R)
  BY <1>2, <1>3, <1>4, <1>6, <1>7
<1> HIDE DEF S, place, R, k
<1> QED
  BY <1>2, <1>5, <1>8, <1>9, MarksAndRequests

LEMMA ReconfigureKeeps ==
    ASSUME DamageInv, NEW powered \in SUBSET Outputs, Reconfigure(powered)
    PROVE  DamageInv' /\ Abstract!Next
<1> DEFINE S == powered \ Powered
<1>1. /\ dirty' = MarkEach(dirty, serial, S).dirty /\ serial' = MarkEach(dirty, serial, S).serial
      /\ SerialsStayClose(serial') /\ renders' = Stale(renders, S, {})
  BY Zenon DEF Reconfigure
<1>2. S \in SUBSET Outputs
  OBVIOUS
<1> HIDE DEF S
<1>3. /\ dirty' = Run(dirty, serial, S, {}, Places(S))
      /\ serial' = SerialAfter(serial, Cardinality(S))
  BY <1>1, EachIsRun
<1>4. /\ Cardinality(S) \in Nat /\ Cardinality(S) < Half
      /\ Places(S) \in [S -> 1 .. Cardinality(S)]
  BY <1>2, PlacesOfMarks
<1>5. StayClose(dirty, renders, SerialAfter(serial, Cardinality(S)))
  BY <1>1, <1>3, GuardIsClose
<1>6. renders' = Requested(dirty', Stale(renders, S, {}), {})
  <2>1. renders \in [Outputs -> Seq(Renders)]
    BY DEF DamageInv, Kept
  <2>2. Stale(renders, S, {}) \in [Outputs -> Seq(Renders)]
    BY <2>1, StaleQueues
  <2> QED
    BY <1>1, <2>2, NoRequests
<1>7. {} \in SUBSET Textures /\ {} \in SUBSET (DOMAIN dirty')
      /\ \A p \in {} : Empty(Stale(renders, S, {})[p])
  OBVIOUS
<1> QED
  BY <1>2, <1>3, <1>4, <1>5, <1>6, <1>7, MarksAndRequests

LEMMA ScheduleKeeps ==
    ASSUME DamageInv, Powered \in SUBSET Outputs, NEW available, Schedule(available)
    PROVE  DamageInv' /\ Abstract!Next
<1> DEFINE due == {o \in Powered : Due(o)}
           clocked == (latched \/ vsync) /\ ClockTicks(available, due)
           marked == IF clocked THEN MarkEach(dirty, serial, Powered)
                     ELSE [dirty |-> dirty, serial |-> serial]
           S == IF clocked THEN Powered ELSE {}
           R == {o \in due \cap available : o \in DOMAIN marked.dirty}
           old == Stale(renders, S, {})
<1>1. /\ available \subseteq {o \in due : Room(o)}
      /\ dirty' = marked.dirty /\ serial' = marked.serial
      /\ S # {} => SerialsStayClose(serial')
      /\ renders' = [o \in Outputs |->
            IF o \in R
            THEN Append(old[o], [serial |-> marked.dirty[o].serial,
                                 covers |-> DOMAIN marked.dirty[o].textures \cup {Whole}])
            ELSE old[o]]
  BY Zenon DEF Schedule
<1>2. S \in SUBSET Outputs
  OBVIOUS
<1>3. /\ dirty' = Run(dirty, serial, S, {}, Places(S))
      /\ serial' = SerialAfter(serial, Cardinality(S))
      /\ StayClose(dirty, renders, SerialAfter(serial, Cardinality(S)))
  <2>n. /\ Run(dirty, serial, {}, {}, Places({})) = dirty /\ SerialAfter(serial, 0) = serial
        /\ StayClose(dirty, renders, serial) /\ Cardinality({}) = 0
    BY NoMarks, FS_EmptySet DEF DamageInv
  <2>1. CASE clocked
    <3>1. S = Powered /\ marked = MarkEach(dirty, serial, Powered)
      BY <2>1
    <3> HIDE DEF S, marked
    <3>2. /\ dirty' = Run(dirty, serial, S, {}, Places(S))
          /\ serial' = SerialAfter(serial, Cardinality(S))
      BY <1>1, <3>1, EachIsRun
    <3>3. CASE S = {}
      BY <2>n, <3>2, <3>3
    <3>4. CASE S # {}
      BY <1>1, <3>2, <3>4, GuardIsClose
    <3> QED
      BY <3>2, <3>3, <3>4
  <2>2. CASE ~clocked
    <3>1. S = {} /\ marked = [dirty |-> dirty, serial |-> serial]
      BY <2>2
    <3> HIDE DEF S, marked
    <3>2. dirty' = dirty /\ serial' = serial
      BY <1>1, <3>1
    <3> QED
      BY <2>n, <3>1, <3>2
  <2> QED
    BY <2>1, <2>2
<1>4. R \in SUBSET (DOMAIN dirty')
  BY <1>1
<1>5. \A p \in R : p \in Outputs /\ renders[p] = <<>>
  BY <1>1 DEF Room
<1>6. renders' = Requested(dirty', old, R)
  <2> HIDE DEF R, old, marked
  <2> QED
    BY <1>1 DEF Requested, Shot
<1> HIDE DEF S, R, marked, due, clocked
<1>7. \A p \in R : Empty(old[p])
  <2> SUFFICES ASSUME NEW p \in R PROVE Empty(old[p])
    OBVIOUS
  <2>1. renders \in [Outputs -> Seq(Renders)]
    BY DEF DamageInv, Kept
  <2>2. old[p] \in Seq(Renders) /\ Len(old[p]) = Len(renders[p])
    BY <1>5, <2>1, StaleQueues
  <2>3. Len(old[p]) = 0
    BY <1>5, <2>2
  <2> HIDE DEF old
  <2> QED
    BY <2>2, <2>3, EmptySeq DEF Empty
<1>8. /\ Cardinality(S) \in Nat /\ Cardinality(S) < Half
      /\ Places(S) \in [S -> 1 .. Cardinality(S)]
  BY <1>2, PlacesOfMarks
<1>9. {} \in SUBSET Textures
  OBVIOUS
<1> QED
  BY <1>2, <1>3, <1>4, <1>6, <1>7, <1>8, <1>9, MarksAndRequests

-----------------------------------------------------------------------------
(* Phases: distances that are multiples of the interval. *)

LEMMA Divided ==
    ASSUME NEW a \in Int, NEW n \in Nat \ {0}
    PROVE  /\ a \div n \in Int /\ a % n \in Int
           /\ a = n * (a \div n) + (a % n) /\ 0 <= a % n /\ a % n < n
  OBVIOUS

LEMMA OnlyMultiple ==
    ASSUME NEW m \in Int, NEW n \in Nat \ {0}, 0 <= n * m, n * m < n
    PROVE  m = 0
  OBVIOUS

LEMMA Multiple ==
    ASSUME NEW a \in Int, NEW n \in Nat \ {0}
    PROVE  a % n = 0 <=> \E k \in Int : a = n * k
<1>1. ASSUME a % n = 0 PROVE \E k \in Int : a = n * k
  BY <1>1, Divided
<1>2. ASSUME NEW k \in Int, a = n * k PROVE a % n = 0
  <2> DEFINE c == a \div n
             r == a % n
  <2>1. c \in Int /\ r \in Int /\ a = n * c + r /\ 0 <= r /\ r < n
    BY Divided
  <2> HIDE DEF c, r
  <2>2. k - c \in Int /\ r = n * (k - c)
    BY <1>2, <2>1
  <2>3. k - c = 0
    BY <2>1, <2>2, OnlyMultiple
  <2>4. r = 0
    BY <2>2, <2>3
  <2> QED
    BY <2>4 DEF r
<1> QED
  BY <1>1, <1>2

(* Distances that differ by a multiple of n are in phase together. *)
LEMMA InPhase ==
    ASSUME NEW a \in Int, NEW n \in Nat \ {0}, NEW k \in Int, a % n = 0
    PROVE  (a + n * k) % n = 0
<1>1. PICK j \in Int : a = n * j
  BY Multiple
<1>2. a + n * k \in Int /\ j + k \in Int /\ a + n * k = n * (j + k)
  BY <1>1
<1> DEFINE b == a + n * k
<1> HIDE DEF b
<1>3. b \in Int /\ \E i \in Int : b = n * i
  BY <1>2 DEF b
<1> QED
  BY <1>3, Multiple DEF b

(* What holds of the setup and the timelines in every state. *)
LEMMA TimeTypes ==
    ASSUME TimeInv
    PROVE  /\ Connected \subseteq Outputs /\ Powered \subseteq Outputs
           /\ \A o \in Connected : Interval[o] \in Nat \ {0} /\ grid[o] \in Int
           /\ \A o \in Powered : /\ o \in Connected
                                 /\ timelines[o].next \in Int /\ timelines[o].shift \in Int
                                 /\ (timelines[o].next - grid[o]) % Interval[o] = 0
<1>1. setup \in Setup(DOMAIN setup.interval) /\ Connected \subseteq Outputs
  BY SchedulerBounds DEF TimeInv, Connected, Interval
<1>2. Interval \in [Connected -> Nat \ {0}]
  BY <1>1 DEF Setup, Connected, Interval
<1>3. \A o \in Connected : grid[o] \in Int
  BY DEF TimeInv
<1>4. /\ Powered \subseteq Connected /\ timelines \in [Powered -> [next : Int, shift : Int]]
      /\ \A o \in Powered : (timelines[o].next - grid[o]) % Interval[o] = 0
  BY DEF TimeInv, PhaseKept
<1>5. \A o \in Powered : timelines[o].next \in Int /\ timelines[o].shift \in Int
  BY <1>4
<1> QED
  BY <1>1, <1>2, <1>3, <1>4, <1>5

(* The edges of a timeline are shown in phase one by one. *)
LEMMA TimeFollows ==
    ASSUME TimeInv, setup' = setup, Powered' \subseteq Connected,
           timelines' = [o \in Powered' |-> timelines'[o]],
           grid' = [o \in Connected |-> grid'[o]],
           \A o \in Connected : grid'[o] \in Int,
           \A o \in Powered' : /\ timelines'[o] \in [next : Int, shift : Int]
                               /\ (timelines'[o].next - grid'[o]) % Interval[o] = 0
    PROVE  TimeInv'
<1>1. Connected' = Connected /\ Interval' = Interval
  BY DEF Connected, Interval
<1>2. PhaseKept'
  BY <1>1 DEF PhaseKept
<1> QED
  BY <1>1, <1>2 DEF TimeInv

LEMMA FreshTimelines ==
    ASSUME TimeInv, setup' = setup, NEW powered \in SUBSET Connected,
           timelines' = [o \in powered |-> NewTimeline], grid' = [o \in Connected |-> 0]
    PROVE  TimeInv'
<1>1. Powered' = powered /\ \A o \in powered : timelines'[o] = NewTimeline /\ grid'[o] = 0
  BY DEF Powered
<1>2. NewTimeline \in [next : Int, shift : Int] /\ NewTimeline.next = 0
  BY DEF NewTimeline
<1>3. \A o \in powered : (0 - 0) % Interval[o] = 0
  BY TimeTypes
<1> QED
  BY <1>1, <1>2, <1>3, TimeFollows

LEMMA TickTime ==
    ASSUME TimeInv, setup' = setup, NEW available, Schedule(available)
    PROVE  TimeInv'
<1> DEFINE due == {o \in Powered : Due(o)}
<1>1. /\ timelines' = [o \in Powered |-> TakeTick(o)]
      /\ grid' = [o \in Connected |-> IF o \in due THEN grid[o] + timelines[o].shift ELSE grid[o]]
  BY Zenon DEF Schedule
<1>2. Powered' = Powered
  BY <1>1 DEF Powered
<1>3. ASSUME NEW o \in Connected PROVE grid'[o] \in Int
  BY <1>1, TimeTypes
<1>4. ASSUME NEW o \in Powered
      PROVE  /\ timelines'[o] \in [next : Int, shift : Int]
             /\ (timelines'[o].next - grid'[o]) % Interval[o] = 0
  <2>1. /\ o \in Connected /\ Interval[o] \in Nat \ {0} /\ grid[o] \in Int
        /\ timelines[o].next \in Int /\ timelines[o].shift \in Int
        /\ (timelines[o].next - grid[o]) % Interval[o] = 0
    BY TimeTypes
  <2>2. timelines'[o] = TakeTick(o)
    BY <1>1
  <2>3. CASE Due(o)
    <3>1. timelines'[o] = [next |-> TickTarget(o), shift |-> 0]
      BY <2>2, <2>3 DEF TakeTick
    <3>2. grid'[o] = grid[o] + timelines[o].shift
      BY <1>1, <2>1, <2>3
    <3> DEFINE n == Interval[o]
               k == Missed(o) + 1
               x == timelines[o].next
               s == timelines[o].shift
               g == grid[o]
    <3>3. -x \in Int /\ (-x) \div n \in Int
      <4> DEFINE y == -x
      <4>1. y \in Int
        BY <2>1
      <4> HIDE DEF y
      <4>2. y \div n \in Int
        BY <2>1, <4>1, Divided
      <4> QED
        BY <4>1, <4>2 DEF y
    <3>4. k \in Int
      BY <3>3 DEF Missed
    <3>5. TickTarget(o) = x + k * n + s
      BY DEF TickTarget
    <3> HIDE DEF n, k, x, s, g
    <3>6. /\ n \in Nat \ {0} /\ x \in Int /\ s \in Int /\ g \in Int /\ (x - g) % n = 0
      BY <2>1 DEF n, x, s, g
    <3> DEFINE a == x - g
    <3>7. (a + n * k) % n = 0
      <4>1. a \in Int /\ a % n = 0
        BY <3>6
      <4> HIDE DEF a
      <4> QED
        BY <3>4, <3>6, <4>1, InPhase
    <3>8. x + k * n + s \in Int /\ (x + k * n + s) - (g + s) = a + n * k
      BY <3>4, <3>6
    <3>9. timelines'[o].next = x + k * n + s /\ timelines'[o] \in [next : Int, shift : Int]
      BY <3>1, <3>5, <3>8
    <3>10. grid'[o] = g + s
      BY <3>2 DEF g, s
    <3>11. timelines'[o].next - grid'[o] = a + n * k
      BY <3>8, <3>9, <3>10
    <3> HIDE DEF a
    <3>12. (timelines'[o].next - grid'[o]) % n = 0
      BY <3>7, <3>11
    <3> QED
      BY <3>9, <3>12 DEF n
  <2>4. CASE ~Due(o)
    <3>1. timelines'[o] = timelines[o]
      BY <2>2, <2>4 DEF TakeTick
    <3>2. grid'[o] = grid[o]
      BY <1>1, <2>1, <2>4
    <3>3. timelines[o] \in [next : Int, shift : Int]
      BY DEF TimeInv
    <3> QED
      BY <2>1, <3>1, <3>2, <3>3
  <2> QED
    BY <2>3, <2>4
<1>5. timelines' = [o \in Powered' |-> timelines'[o]] /\ grid' = [o \in Connected |-> grid'[o]]
  BY <1>1, <1>2
<1>6. Powered \subseteq Connected
  BY DEF TimeInv
<1> QED
  BY <1>2, <1>3, <1>4, <1>5, <1>6, TimeFollows

LEMMA PassTime ==
    ASSUME TimeInv, setup' = setup, Pass
    PROVE  TimeInv'
<1>1. /\ timelines' = [o \in Powered |-> [timelines[o] EXCEPT !.next = @ - 1]]
      /\ grid' = [o \in Connected |-> (grid[o] - 1) % Interval[o]]
  BY Zenon DEF Pass
<1>2. Powered' = Powered
  BY <1>1 DEF Powered
<1>3. ASSUME NEW o \in Connected PROVE grid'[o] \in Int
  <2>1. Interval[o] \in Nat \ {0} /\ grid[o] - 1 \in Int
    BY TimeTypes
  <2>2. (grid[o] - 1) % Interval[o] \in Int
    BY <2>1, Divided
  <2> QED
    BY <1>1, <2>2
<1>4. ASSUME NEW o \in Powered
      PROVE  /\ timelines'[o] \in [next : Int, shift : Int]
             /\ (timelines'[o].next - grid'[o]) % Interval[o] = 0
  <2> DEFINE n == Interval[o]
             x == timelines[o].next
             b == grid[o] - 1
             k == b \div n
             a == x - grid[o]
  <2>1. /\ o \in Connected /\ n \in Nat \ {0} /\ x \in Int /\ b \in Int
        /\ a \in Int /\ a % n = 0 /\ a = x - 1 - b
    BY TimeTypes
  <2>2. timelines[o] \in [next : Int, shift : Int]
    BY DEF TimeInv
  <2>3. timelines'[o] = [timelines[o] EXCEPT !.next = x - 1] /\ grid'[o] = b % n
    BY <1>1, <2>1
  <2> HIDE DEF n, x, b, a
  <2>4. timelines'[o].next = x - 1 /\ timelines'[o] \in [next : Int, shift : Int]
    BY <2>1, <2>2, <2>3
  <2>5. k \in Int /\ b % n \in Int /\ b = n * k + (b % n)
    BY <2>1, Divided
  <2> HIDE DEF k
  <2>6. (a + n * k) % n = 0
    BY <2>1, <2>5, InPhase
  <2>7. x - 1 - (b % n) = a + n * k
    <3> DEFINE m == b % n
    <3>1. m \in Int /\ b = n * k + m
      BY <2>5
    <3> HIDE DEF m
    <3>2. x - 1 - m = a + n * k
      BY <2>1, <2>5, <3>1
    <3> QED
      BY <3>2 DEF m
  <2> QED
    BY <2>3, <2>4, <2>6, <2>7 DEF n
<1>5. timelines' = [o \in Powered' |-> timelines'[o]] /\ grid' = [o \in Connected |-> grid'[o]]
  BY <1>1, <1>2
<1>6. Powered \subseteq Connected
  BY DEF TimeInv
<1> QED
  BY <1>2, <1>3, <1>4, <1>5, <1>6, TimeFollows

LEMMA WakeTime ==
    ASSUME TimeInv, setup' = setup, Wake
    PROVE  TimeInv'
<1>1. /\ timelines' = IF idle THEN [o \in Powered |-> SkipElapsed(timelines[o], Interval[o])]
                      ELSE timelines
      /\ grid' = grid
  BY Zenon DEF Wake
<1>2. Powered' = Powered
  BY <1>1 DEF Powered
<1>3. ASSUME NEW o \in Connected PROVE grid'[o] \in Int
  BY <1>1, TimeTypes
<1>4. ASSUME NEW o \in Powered
      PROVE  /\ timelines'[o] \in [next : Int, shift : Int]
             /\ (timelines'[o].next - grid'[o]) % Interval[o] = 0
  <2> DEFINE n == Interval[o]
             x == timelines[o].next
             g == grid[o]
             a == x - g
  <2>1. /\ o \in Connected /\ n \in Nat \ {0} /\ x \in Int /\ g \in Int
        /\ a \in Int /\ a % n = 0 /\ a = x - g
    BY TimeTypes
  <2>2. timelines[o] \in [next : Int, shift : Int]
    BY DEF TimeInv
  <2>3. CASE timelines'[o] = timelines[o]
    BY <1>1, <2>1, <2>2, <2>3
  <2>4. CASE timelines'[o] # timelines[o]
    <3>1. timelines'[o] = [timelines[o] EXCEPT !.next = x % n]
      BY <1>1, <2>4 DEF SkipElapsed
    <3> DEFINE k == x \div n
               m == x % n
    <3>2. k \in Int /\ m \in Int /\ x = n * k + m
      BY <2>1, Divided
    <3>3. timelines'[o].next = m /\ timelines'[o] \in [next : Int, shift : Int]
      <4>1. timelines'[o] = [timelines[o] EXCEPT !.next = m]
        BY <3>1
      <4> HIDE DEF m
      <4> QED
        BY <2>2, <3>2, <4>1
    <3> HIDE DEF k, m, n, x, g, a
    <3>4. -k \in Int /\ m - g = a + n * (-k)
      BY <2>1, <3>2
    <3> DEFINE j == -k
    <3>5. j \in Int /\ m - g = a + n * j
      BY <3>4
    <3> HIDE DEF j
    <3>6. (m - g) % n = 0
      <4>1. (a + n * j) % n = 0
        BY <2>1, <3>5, InPhase
      <4> QED
        BY <3>5, <4>1
    <3> QED
      BY <1>1, <3>3, <3>6 DEF n, g
  <2> QED
    BY <2>3, <2>4
<1>5. timelines' = [o \in Powered' |-> timelines'[o]] /\ grid' = [o \in Connected |-> grid'[o]]
  <2>1. timelines = [o \in Powered |-> timelines[o]] /\ grid = [o \in Connected |-> grid[o]]
    BY DEF TimeInv
  <2> QED
    BY <1>1, <1>2, <2>1
<1>6. Powered \subseteq Connected
  BY DEF TimeInv
<1> QED
  BY <1>2, <1>3, <1>4, <1>5, <1>6, TimeFollows

LEMMA ObserveTime ==
    ASSUME TimeInv, setup' = setup, NEW o \in Connected,
           NEW shift \in -setup.shift .. setup.shift, ObservePresentation(o, shift)
    PROVE  TimeInv'
<1>1. o \in Powered /\ timelines' = [timelines EXCEPT ![o].shift = shift] /\ grid' = grid
  BY Zenon DEF ObservePresentation
<1>2. shift \in Int
  <2>1. setup.shift \in Nat
    BY SchedulerBounds DEF TimeInv, Setup
  <2> QED
    BY <2>1
<1>3. timelines \in [Powered -> [next : Int, shift : Int]] /\ grid = [p \in Connected |-> grid[p]]
      /\ Powered \subseteq Connected
  BY DEF TimeInv
<1>4. /\ Powered' = Powered /\ timelines' = [p \in Powered |-> timelines'[p]]
      /\ timelines'[o] = [timelines[o] EXCEPT !.shift = shift]
      /\ \A p \in Powered \ {o} : timelines'[p] = timelines[p]
  BY <1>1, <1>3 DEF Powered
<1>5. timelines'[o] \in [next : Int, shift : Int] /\ timelines'[o].next = timelines[o].next
  BY <1>1, <1>2, <1>3, <1>4
<1>6. \A p \in Powered : /\ timelines'[p] \in [next : Int, shift : Int]
                         /\ timelines'[p].next = timelines[p].next
  BY <1>3, <1>4, <1>5
<1>7. \A p \in Powered : (timelines'[p].next - grid'[p]) % Interval[p] = 0
  BY <1>1, <1>6, TimeTypes
<1>8. \A p \in Connected : grid'[p] \in Int
  BY <1>1, TimeTypes
<1> QED
  BY <1>1, <1>3, <1>4, <1>6, <1>7, <1>8, TimeFollows

-----------------------------------------------------------------------------
(* The theorems. *)

Inv == TimeInv /\ DamageInv

LEMMA SchedulerStarts == ASSUME Init PROVE Inv /\ Abstract!Init
<1>1. /\ setup \in Setups /\ timelines = [o \in Connected |-> NewTimeline]
      /\ dirty = <<>> /\ serial = FirstSerial
      /\ renders = [o \in Outputs |-> <<>>] /\ grid = [o \in Connected |-> 0]
  BY Zenon DEF Init
<1>2. TimeInv
  <2>1. /\ Powered = Connected /\ \A o \in Connected : timelines[o] = NewTimeline /\ grid[o] = 0
    BY <1>1 DEF Powered
  <2>2. NewTimeline \in [next : Int, shift : Int] /\ NewTimeline.next = 0
    BY DEF NewTimeline
  <2>3. Interval \in [Connected -> Nat \ {0}]
    BY <1>1, SchedulerBounds DEF Setup, Connected, Interval
  <2>4. \A o \in Connected : (0 - 0) % Interval[o] = 0
    BY <2>3
  <2>5. PhaseKept
    BY <2>1, <2>2, <2>4 DEF PhaseKept
  <2>6. timelines \in [Powered -> [next : Int, shift : Int]] /\ grid \in [Connected -> Int]
    BY <1>1, <2>1, <2>2
  <2> QED
    BY <1>1, <2>1, <2>5, <2>6 DEF TimeInv
<1>3. DamageInv
  <2>1. DOMAIN dirty = {} /\ dirty \in [DOMAIN dirty -> Entries]
    BY <1>1
  <2>2. /\ renders \in [Outputs -> Seq(Renders)]
        /\ \A o \in Outputs : Len(renders[o]) <= 1 /\ DOMAIN renders[o] = {}
    BY <1>1
  <2>3. serial \in 0 .. Word - 1
    BY <1>1, SchedulerBounds
  <2> QED
    BY <2>1, <2>2, <2>3 DEF DamageInv, Kept
<1>4. Abstract!Init
  <2>1. \A o \in Outputs : DamageOf(o) = {}
    BY <1>1 DEF DamageOf
  <2>2. \A o \in Outputs : [i \in DOMAIN renders[o] |-> renders[o][i].covers] = <<>>
    BY <1>1
  <2> QED
    BY <2>1, <2>2 DEF Abstract!Init
<1> QED
  BY <1>2, <1>3, <1>4 DEF Inv

(* A step that touches neither the timelines nor the damage. *)
LEMMA TimeStutters ==
    ASSUME TimeInv, UNCHANGED <<setup, timelines, grid>>
    PROVE  TimeInv'
  BY DEF TimeInv, PhaseKept, Powered, Connected, Interval

LEMMA DamageStutters ==
    ASSUME DamageInv, UNCHANGED <<dirty, serial, renders>>
    PROVE  /\ DamageInv'
           /\ UNCHANGED <<[o \in Outputs |-> DamageOf(o)],
                          [o \in Outputs |-> [i \in DOMAIN renders[o] |-> renders[o][i].covers]]>>
  BY DEF DamageInv, DamageOf

LEMMA SchedulerStep ==
    ASSUME Inv, [Next]_vars
    PROVE  /\ Inv'
           /\ Abstract!Next
                \/ UNCHANGED <<[o \in Outputs |-> DamageOf(o)],
                               [o \in Outputs |->
                                   [i \in DOMAIN renders[o] |-> renders[o][i].covers]]>>
<1> DEFINE Refined == Abstract!Next
                        \/ UNCHANGED <<[o \in Outputs |-> DamageOf(o)],
                                       [o \in Outputs |->
                                           [i \in DOMAIN renders[o] |-> renders[o][i].covers]]>>
<1>0. TimeInv /\ DamageInv
  BY DEF Inv
<1>t. Connected \subseteq Outputs /\ Powered \in SUBSET Outputs
  BY <1>0, TimeTypes
<1>x. ASSUME setup \in Setups PROVE setup.textures \subseteq Textures
  BY <1>x, SchedulerBounds DEF Setup
<1>s. ASSUME UNCHANGED <<dirty, serial, renders>> PROVE DamageInv' /\ Refined
  BY <1>0, <1>s, DamageStutters
<1> HIDE DEF Refined
<1>r. ASSUME Abstract!Next PROVE Refined
  BY <1>r, Zenon DEF Refined
<1>1. CASE UNCHANGED vars
  <2>1. UNCHANGED <<setup, timelines, grid>> /\ UNCHANGED <<dirty, serial, renders>>
    BY <1>1 DEF vars
  <2> QED
    BY <1>0, <1>s, <2>1, TimeStutters DEF Inv, Refined
<1>2. CASE Next
  <2>0. setup' = setup
    BY <1>2 DEF Next
  <2>1. ASSUME NEW o \in Connected, NEW ts \in SUBSET setup.textures, MarkAppDirty(o, ts)
        PROVE  Inv' /\ Refined
    <3>1. ts \in SUBSET Textures /\ o \in Outputs
      BY <1>0, <1>t, <1>x DEF TimeInv
    <3>2. DamageInv' /\ Refined
      BY <1>0, <1>r, <2>1, <3>1, MarkAppDirtyKeeps
    <3>3. UNCHANGED <<setup, timelines, grid>>
      BY <2>0, <2>1 DEF MarkAppDirty
    <3> QED
      BY <1>0, <3>2, <3>3, TimeStutters DEF Inv
  <2>2. ASSUME AwaitVsync \/ Transaction \/ Sleep PROVE Inv' /\ Refined
    <3>1. UNCHANGED <<setup, timelines, grid>> /\ UNCHANGED <<dirty, serial, renders>>
      BY <2>0, <2>2 DEF AwaitVsync, Transaction, Sleep
    <3> QED
      BY <1>0, <1>s, <3>1, TimeStutters DEF Inv
  <2>3. ASSUME Wake PROVE Inv' /\ Refined
    <3>1. UNCHANGED <<dirty, serial, renders>>
      BY <2>3 DEF Wake
    <3> QED
      BY <1>0, <1>s, <2>0, <2>3, <3>1, WakeTime DEF Inv
  <2>4. ASSUME Pass PROVE Inv' /\ Refined
    <3>1. UNCHANGED <<dirty, serial, renders>>
      BY <2>4 DEF Pass
    <3> QED
      BY <1>0, <1>s, <2>0, <2>4, <3>1, PassTime DEF Inv
  <2>5. ASSUME NEW powered \in SUBSET Connected, Reconfigure(powered) PROVE Inv' /\ Refined
    <3>1. powered \in SUBSET Outputs
      BY <1>t
    <3>2. DamageInv' /\ Refined
      BY <1>0, <1>r, <2>5, <3>1, ReconfigureKeeps
    <3>3. timelines' = [o \in powered |-> NewTimeline] /\ grid' = [o \in Connected |-> 0]
      BY <2>5, Zenon DEF Reconfigure
    <3> QED
      BY <1>0, <2>0, <3>2, <3>3, FreshTimelines DEF Inv
  <2>6. ASSUME NEW available \in SUBSET Connected, Schedule(available) PROVE Inv' /\ Refined
    <3>1. DamageInv' /\ Refined
      BY <1>0, <1>r, <1>t, <2>6, ScheduleKeeps
    <3> QED
      BY <1>0, <2>0, <2>6, <3>1, TickTime DEF Inv
  <2>7. ASSUME NEW o \in Outputs, CompleteRender(o) \/ DropRender(o) PROVE Inv' /\ Refined
    <3>1. DamageInv' /\ Refined
      BY <1>0, <1>r, <2>7, CompleteRenderKeeps, DropRenderKeeps
    <3>2. UNCHANGED <<setup, timelines, grid>>
      BY <2>0, <2>7 DEF CompleteRender, DropRender
    <3> QED
      BY <1>0, <3>1, <3>2, TimeStutters DEF Inv
  <2>8. ASSUME NEW o \in Connected, NEW shift \in -setup.shift .. setup.shift,
               ObservePresentation(o, shift)
        PROVE  Inv' /\ Refined
    <3>1. UNCHANGED <<dirty, serial, renders>>
      BY <2>8 DEF ObservePresentation
    <3> QED
      BY <1>0, <1>s, <2>0, <2>8, <3>1, ObserveTime DEF Inv
  <2>9. Inv' /\ Refined
    BY <1>2, <2>1, <2>2, <2>3, <2>4, <2>5, <2>6, <2>7, <2>8 DEF Next, Step
  <2> QED
    BY <2>9 DEF Refined
<1> QED
  BY <1>1, <1>2 DEF Refined

(* complete_render retires what its render covered and nothing damaged      *)
(* since: for every number of outputs, textures and marks, and serials of   *)
(* any width that wrap, the scheduler implements OutputDamage.              *)
THEOREM DamageIsKept == Spec => DamageKept
<1>1. Init => Inv /\ Abstract!Init
  BY SchedulerStarts
<1>2. Inv /\ [Next]_vars => Inv'
  BY SchedulerStep
<1>3. Inv /\ [Next]_vars
        => [Abstract!Next]_<<[o \in Outputs |-> DamageOf(o)],
                             [o \in Outputs |->
                                 [i \in DOMAIN renders[o] |-> renders[o][i].covers]]>>
  BY SchedulerStep
<1> QED
  BY <1>1, <1>2, <1>3, PTL DEF Spec, DamageKept, Abstract!Spec

(* Flutter's clock only moves forward when a frame is dispatched, and       *)
(* skip_elapsed, corrections and power changes leave every output in its    *)
(* phase: for any refresh intervals, corrections and lateness.              *)
THEOREM TimelineIsKept == Spec => TimelineKept
<1>1. Init => Inv
  BY SchedulerStarts
<1>2. Inv /\ [Next]_vars => Inv'
  BY SchedulerStep
<1>3. Inv' => PhaseKept'
  BY DEF Inv, TimeInv
<1>4. [Next]_vars => TargetIncreases
  <2> SUFFICES ASSUME [Next]_vars, vsync, ~vsync' PROVE target' > target
    BY DEF TargetIncreases
  <2>1. \E available \in SUBSET Connected : Schedule(available)
    BY DEF vars, Next, Step, MarkAppDirty, AwaitVsync, Transaction, Sleep, Wake, Pass,
           Reconfigure, CompleteRender, DropRender, ObservePresentation
  <2>2. PICK available : Schedule(available)
    BY <2>1
  <2> DEFINE due == {o \in Powered : Due(o)}
             clocked == (latched \/ vsync) /\ ClockTicks(available, due)
  <2>3. /\ target' = IF clocked THEN TickTarget(clock) ELSE target
        /\ vsync' = (vsync /\ ~clocked)
    BY <2>2, Zenon DEF Schedule
  <2>4. clocked
    BY <2>3
  <2> QED
    BY <2>3, <2>4 DEF ClockTicks
<1>5. Inv /\ Inv' /\ [Next]_vars => [PhaseKept' /\ TargetIncreases]_vars
  BY <1>3, <1>4
<1> QED
  BY <1>1, <1>2, <1>5, PTL DEF Spec, TimelineKept

(* MarkEach is the loop of mark_all_dirty: no mark for no output, and for   *)
(* an output after all others one more mark_output_dirty after theirs, with *)
(* the next serial of allocate_dirty_serial.                                *)
THEOREM MarksInOrder ==
    ASSUME NEW d, d = [p \in DOMAIN d |-> d[p]], NEW s \in 0 .. Word - 1,
           NEW S \in SUBSET Outputs, NEW o \in Outputs \ S, \A p \in S : Rank[p] < Rank[o]
    PROVE  /\ MarkEach(d, s, {}) = [dirty |-> d, serial |-> s]
           /\ LET before == MarkEach(d, s, S)
                  next == NextSerial(before.serial)
              IN  MarkEach(d, s, S \cup {o})
                    = [dirty |-> Marked(before.dirty, o, next, {}), serial |-> next]
<1> DEFINE T == S \cup {o}
           n == Cardinality(S)
           u == SerialAfter(s, n + 1)
           b == MarkEach(d, s, S)
           e == MarkEach(d, s, T)
<1>1. MarkEach(d, s, {}) = [dirty |-> d, serial |-> s]
  <2>1. Cardinality({}) = 0
    BY FS_EmptySet
  <2> QED
    BY <2>1 DEF MarkEach, SerialAfter
<1>2. IsFiniteSet(S) /\ n \in Nat /\ Cardinality(T) = n + 1 /\ n + 1 < Half
  <2>1. IsFiniteSet(S)
    BY SchedulerBounds, FS_Subset
  <2>2. Cardinality(T) = n + 1
    BY <2>1, FS_AddElement
  <2>3. T \in SUBSET Outputs
    OBVIOUS
  <2>4. n \in Nat /\ Cardinality(T) < Half
    BY <2>3, PlacesOfMarks
  <2> QED
    BY <2>1, <2>2, <2>4
<1>3. b.serial = SerialAfter(s, n) /\ e.serial = u
  <2>1. b.serial = SerialAfter(s, n) /\ e.serial = SerialAfter(s, Cardinality(T))
    BY DEF MarkEach
  <2> QED
    BY <1>2, <2>1
<1>4. u = NextSerial(b.serial)
  BY <1>2, <1>3, AfterIsNext
<1>5. \A p \in Outputs : Rank[p] \in Nat
  BY SchedulerBounds
<1>6. \A p \in S : {x \in T : Rank[x] <= Rank[p]} = {x \in S : Rank[x] <= Rank[p]}
  BY <1>5
<1>7. {x \in T : Rank[x] <= Rank[o]} = T
  BY <1>5
<1>8. /\ b.dirty = Run(d, s, S, {}, Places(S)) /\ e.dirty = Run(d, s, T, {}, Places(T))
  BY EachIsRun
<1>9. /\ \A p \in S : Places(T)[p] = Places(S)[p]
      /\ Places(T)[o] = n + 1
  BY <1>2, <1>6, <1>7 DEF Places
<1> HIDE DEF T, n, u, b, e
<1>t. T = S \cup {o} /\ o \notin S
  BY DEF T
<1>10. e.dirty = Marked(b.dirty, o, u, {})
  <2> DEFINE m == Marked(b.dirty, o, u, {})
  <2>1. /\ DOMAIN b.dirty = DOMAIN d \cup S /\ DOMAIN e.dirty = DOMAIN d \cup T
        /\ e.dirty = [p \in DOMAIN d \cup T |-> e.dirty[p]]
    BY <1>8 DEF Run
  <2>2. DOMAIN m = DOMAIN d \cup T /\ m = [p \in DOMAIN d \cup T |-> m[p]]
    BY <1>t, <2>1 DEF Marked
  <2>3. ASSUME NEW p \in DOMAIN d \cup T PROVE e.dirty[p] = m[p]
    <3>1. CASE p = o
      <4>1. e.dirty[p] = Entry(d, o, u, {})
        BY <1>8, <1>9, <1>t, <3>1 DEF Run, u
      <4>2. m[p] = Entry(b.dirty, o, u, {})
        BY <2>2, <3>1 DEF Marked
      <4>3. o \in DOMAIN b.dirty <=> o \in DOMAIN d
        BY <1>t, <2>1
      <4>4. o \in DOMAIN d => b.dirty[o] = d[o]
        BY <1>8, <1>t DEF Run
      <4>5. Entry(b.dirty, o, u, {}) = Entry(d, o, u, {})
        BY <4>3, <4>4 DEF Entry
      <4> QED
        BY <4>1, <4>2, <4>5
    <3>2. CASE p # o
      <4>1. m[p] = b.dirty[p] /\ p \in DOMAIN d \cup S
        <5>1. p \in DOMAIN d \cup S
          BY <1>t, <3>2
        <5>2. p \in DOMAIN b.dirty
          BY <2>1, <5>1
        <5>3. m[p] = b.dirty[p]
          BY <3>2, <5>2, Zenon DEF Marked
        <5> QED
          BY <5>1, <5>3
      <4>2. CASE p \in S
        <5>1. e.dirty[p] = Entry(d, p, SerialAfter(s, Places(T)[p]), {})
          BY <1>8, <1>t, <4>2 DEF Run
        <5>2. b.dirty[p] = Entry(d, p, SerialAfter(s, Places(S)[p]), {})
          BY <1>8, <4>2 DEF Run
        <5>3. Places(T)[p] = Places(S)[p]
          BY <1>9, <4>2
        <5> QED
          BY <4>1, <5>1, <5>2, <5>3
      <4>3. CASE p \notin S
        BY <1>8, <1>t, <3>2, <4>1, <4>3 DEF Run
      <4> QED
        BY <4>2, <4>3
    <3> QED
      BY <3>1, <3>2
  <2> HIDE DEF m
  <2>4. e.dirty = m
    BY <2>1, <2>2, <2>3
  <2> QED
    BY <2>4 DEF m
<1>11. e = [dirty |-> e.dirty, serial |-> e.serial]
  BY DEF e, MarkEach
<1>12. e = [dirty |-> Marked(b.dirty, o, NextSerial(b.serial), {}), serial |-> NextSerial(b.serial)]
  BY <1>3, <1>4, <1>10, <1>11
<1> QED
  BY <1>1, <1>12 DEF e, b, T

-----------------------------------------------------------------------------
(* Types: how far an edge can be away, and which output clocks Flutter. *)

InReach(line, o) ==
    /\ -setup.late <= line.next /\ line.next <= Interval[o] + setup.shift
    /\ -setup.shift <= line.shift /\ line.shift <= setup.shift

LineInv ==
    /\ \A o \in Powered : InReach(timelines[o], o)
    /\ clock = Fastest(Powered)

(* The bounds of a setup. *)
LEMMA SetupTypes ==
    ASSUME setup \in Setups
    PROVE  /\ setup.late \in Nat /\ setup.shift \in Nat
           /\ \A o \in Connected : Interval[o] \in Nat \ {0} /\ Interval[o] > 2 * setup.shift
<1>1. /\ setup \in Setup(DOMAIN setup.interval)
      /\ \A o \in DOMAIN setup.interval : setup.interval[o] > 2 * setup.shift
  BY SchedulerBounds
<1>2. setup.late \in Nat /\ setup.shift \in Nat /\ Interval \in [Connected -> Nat \ {0}]
  BY <1>1 DEF Setup, Connected, Interval
<1> QED
  BY <1>1, <1>2 DEF Connected, Interval

(* The lines are bounded one by one. *)
LEMMA LinesFollow ==
    ASSUME setup' = setup, clock' = Fastest(Powered'),
           \A o \in Powered' : InReach(timelines'[o], o)
    PROVE  LineInv'
<1>1. Interval' = Interval
  BY DEF Interval
<1>2. Fastest(Powered)' = Fastest(Powered')
  BY <1>1 DEF Fastest, None
<1>3. \A o \in Powered' : InReach(timelines[o], o)'
  BY <1>1 DEF InReach
<1> QED
  BY <1>2, <1>3 DEF LineInv

(* A new line is due at once. *)
LEMMA NewInReach ==
    ASSUME setup \in Setups, NEW o \in Connected
    PROVE  InReach(NewTimeline, o)
<1>1. setup.late \in Nat /\ setup.shift \in Nat /\ Interval[o] \in Nat
  BY SetupTypes
<1>2. NewTimeline.next = 0 /\ NewTimeline.shift = 0
  BY DEF NewTimeline
<1> QED
  BY <1>1, <1>2 DEF InReach

(* The next tick is at most an interval and a correction away. *)
LEMMA TickInReach ==
    ASSUME TimeInv, LineInv, NEW o \in Powered
    PROVE  InReach(TakeTick(o), o)
<1>1. /\ o \in Connected /\ Interval[o] \in Nat \ {0}
      /\ timelines[o].next \in Int /\ timelines[o].shift \in Int
  BY TimeTypes
<1>2. setup.late \in Nat /\ setup.shift \in Nat /\ Interval[o] > 2 * setup.shift
  BY <1>1, SetupTypes DEF TimeInv
<1>3. InReach(timelines[o], o)
  BY DEF LineInv
<1>4. CASE Due(o)
  <2> DEFINE n == Interval[o]
             x == timelines[o].next
             y == -x
             k == y \div n
             m == y % n
             s == timelines[o].shift
  <2>1. TickTarget(o) = x + (k + 1) * n + s
    BY DEF TickTarget, Missed
  <2>2. y \in Int /\ x = -y /\ 0 <= y
    BY <1>1, <1>4 DEF Due
  <2>3. /\ n \in Nat \ {0} /\ s \in Int /\ n > 2 * setup.shift
        /\ y <= setup.late /\ -setup.shift <= s /\ s <= setup.shift
    BY <1>1, <1>2, <1>3 DEF InReach
  <2> HIDE DEF n, x, y, s
  <2>4. k \in Int /\ m \in Int /\ y = n * k + m /\ 0 <= m /\ m < n
    BY <2>2, <2>3, Divided
  <2>5. 0 <= k
    <3>1. ASSUME k <= -1 PROVE FALSE
      <4>1. n * k <= -n
        BY <3>1, <2>3, <2>4
      <4> QED
        BY <2>2, <2>3, <2>4, <4>1
    <3> QED
      BY <2>4, <3>1
  <2> HIDE DEF k, m
  <2>6. n * k \in Int /\ 0 <= n * k
    BY <2>3, <2>4, <2>5
  <2>7. (k + 1) * n = n * k + n
    BY <2>3, <2>4
  <2> DEFINE p == n * k
             t == x + (k + 1) * n + s
  <2>8. t = n - m + s /\ m <= y
    <3>1. p \in Int /\ 0 <= p /\ y = p + m /\ (k + 1) * n = p + n
      BY <2>4, <2>6, <2>7
    <3> DEFINE q == (k + 1) * n
    <3>2. q = p + n /\ t = x + q + s
      BY <3>1
    <3> HIDE DEF p, q, t
    <3> QED
      BY <2>2, <2>3, <2>4, <3>1, <3>2
  <2>9. TakeTick(o) = [next |-> t, shift |-> 0]
    BY <1>4, <2>1 DEF TakeTick
  <2> HIDE DEF t
  <2>10. -setup.late <= t /\ t <= n + setup.shift /\ -setup.shift <= 0 /\ 0 <= setup.shift
    BY <1>2, <2>2, <2>3, <2>4, <2>8
  <2> QED
    BY <2>9, <2>10 DEF InReach, n
<1>5. CASE ~Due(o)
  BY <1>3, <1>5 DEF TakeTick
<1> QED
  BY <1>4, <1>5

(* After a sleep the next edge is less than an interval away. *)
LEMMA SkipInReach ==
    ASSUME TimeInv, LineInv, NEW o \in Powered
    PROVE  InReach(SkipElapsed(timelines[o], Interval[o]), o)
<1>1. /\ o \in Connected /\ Interval[o] \in Nat \ {0} /\ timelines[o].next \in Int
      /\ timelines[o] \in [next : Int, shift : Int]
  BY TimeTypes DEF TimeInv
<1>2. setup.late \in Nat /\ setup.shift \in Nat
  BY SetupTypes DEF TimeInv
<1>3. InReach(timelines[o], o)
  BY DEF LineInv
<1>4. CASE timelines[o].next < 0
  <2> DEFINE n == Interval[o]
             x == timelines[o].next
             m == x % n
             z == [timelines[o] EXCEPT !.next = m]
  <2>1. m \in Int /\ 0 <= m /\ m < n
    <3>1. n \in Nat \ {0} /\ x \in Int
      BY <1>1
    <3> HIDE DEF n, x
    <3> QED
      BY <3>1, Divided
  <2>2. SkipElapsed(timelines[o], n) = z
    BY <1>4 DEF SkipElapsed
  <2> HIDE DEF m
  <2>3. z.next = m /\ z.shift = timelines[o].shift
    BY <1>1
  <2> HIDE DEF z
  <2>4. InReach(z, o)
    BY <1>1, <1>2, <1>3, <2>1, <2>3 DEF InReach
  <2> QED
    BY <2>2, <2>4
<1>5. CASE ~(timelines[o].next < 0)
  BY <1>3, <1>5 DEF SkipElapsed
<1> QED
  BY <1>4, <1>5

(* Every step keeps the edges in reach and the clock the fastest output. *)
LEMMA LinesKeep ==
    ASSUME TimeInv, LineInv, [Next]_vars
    PROVE  LineInv'
<1>0. /\ \A o \in Powered : InReach(timelines[o], o)
      /\ clock = Fastest(Powered) /\ Powered \subseteq Connected
      /\ setup \in Setups /\ timelines \in [Powered -> [next : Int, shift : Int]]
  BY DEF LineInv, TimeInv
<1>1. ASSUME UNCHANGED <<setup, timelines, clock>> PROVE LineInv'
  BY <1>0, <1>1, LinesFollow DEF Powered
<1>2. CASE UNCHANGED vars
  BY <1>1, <1>2 DEF vars
<1>3. CASE Next
  <2>0. setup' = setup
    BY <1>3 DEF Next
  <2>1. ASSUME NEW o, NEW ts, MarkAppDirty(o, ts) PROVE LineInv'
    BY <1>1, <2>0, <2>1 DEF MarkAppDirty
  <2>2. ASSUME AwaitVsync \/ Transaction \/ Sleep PROVE LineInv'
    BY <1>1, <2>0, <2>2 DEF AwaitVsync, Transaction, Sleep
  <2>3. ASSUME NEW o, CompleteRender(o) \/ DropRender(o) PROVE LineInv'
    BY <1>1, <2>0, <2>3 DEF CompleteRender, DropRender
  <2>4. ASSUME Wake PROVE LineInv'
    <3>1. /\ timelines' = IF idle THEN [o \in Powered |-> SkipElapsed(timelines[o], Interval[o])]
                          ELSE timelines
          /\ clock' = clock
      BY <2>4, Zenon DEF Wake
    <3>2. Powered' = Powered
      BY <3>1 DEF Powered
    <3>3. \A o \in Powered : InReach(timelines'[o], o)
      BY <1>0, <3>1, SkipInReach
    <3> QED
      BY <1>0, <2>0, <3>1, <3>2, <3>3, LinesFollow
  <2>5. ASSUME Pass PROVE LineInv'
    <3>1. /\ \A o \in Powered : timelines[o].next > -setup.late
          /\ timelines' = [o \in Powered |-> [timelines[o] EXCEPT !.next = @ - 1]]
          /\ clock' = clock
      BY <2>5, Zenon DEF Pass
    <3>2. Powered' = Powered
      BY <3>1 DEF Powered
    <3>3. ASSUME NEW o \in Powered PROVE InReach(timelines'[o], o)
      <4> DEFINE z == timelines'[o]
      <4>1. timelines[o] \in [next : Int, shift : Int]
        BY <1>0
      <4>2. z.next = timelines[o].next - 1 /\ z.shift = timelines[o].shift
        BY <3>1, <4>1
      <4>3. setup.late \in Nat /\ setup.shift \in Nat /\ Interval[o] \in Nat
        BY <1>0, SetupTypes
      <4>4. /\ timelines[o].next > -setup.late /\ InReach(timelines[o], o)
            /\ timelines[o].next \in Int
        BY <1>0, <3>1, <4>1
      <4> HIDE DEF z
      <4>5. InReach(z, o)
        BY <4>2, <4>3, <4>4 DEF InReach
      <4> QED
        BY <4>5 DEF z
    <3> QED
      BY <1>0, <2>0, <3>1, <3>2, <3>3, LinesFollow
  <2>6. ASSUME NEW powered \in SUBSET Connected, Reconfigure(powered) PROVE LineInv'
    <3>1. timelines' = [o \in powered |-> NewTimeline] /\ clock' = Fastest(powered)
      BY <2>6, Zenon DEF Reconfigure
    <3>2. Powered' = powered
      BY <3>1 DEF Powered
    <3>3. \A o \in powered : InReach(timelines'[o], o)
      BY <1>0, <3>1, NewInReach
    <3> QED
      BY <2>0, <3>1, <3>2, <3>3, LinesFollow
  <2>7. ASSUME NEW available, Schedule(available) PROVE LineInv'
    <3>1. timelines' = [o \in Powered |-> TakeTick(o)] /\ clock' = clock
      BY <2>7, Zenon DEF Schedule
    <3>2. Powered' = Powered
      BY <3>1 DEF Powered
    <3>3. \A o \in Powered : InReach(timelines'[o], o)
      BY <3>1, TickInReach
    <3> QED
      BY <1>0, <2>0, <3>1, <3>2, <3>3, LinesFollow
  <2>8. ASSUME NEW o \in Connected, NEW shift \in -setup.shift .. setup.shift,
               ObservePresentation(o, shift)
        PROVE  LineInv'
    <3>1. o \in Powered /\ timelines' = [timelines EXCEPT ![o].shift = shift] /\ clock' = clock
      BY <2>8, Zenon DEF ObservePresentation
    <3>2. /\ Powered' = Powered
          /\ timelines'[o] = [timelines[o] EXCEPT !.shift = shift]
          /\ \A p \in Powered \ {o} : timelines'[p] = timelines[p]
      BY <1>0, <3>1 DEF Powered
    <3>3. InReach(timelines'[o], o)
      <4>1. timelines[o] \in [next : Int, shift : Int] /\ InReach(timelines[o], o)
        BY <1>0, <3>1
      <4>2. timelines'[o].next = timelines[o].next /\ timelines'[o].shift = shift
        BY <3>2, <4>1
      <4>3. -setup.shift <= shift /\ shift <= setup.shift
        BY <1>0, SetupTypes
      <4> QED
        BY <4>1, <4>2, <4>3 DEF InReach
    <3>4. \A p \in Powered : InReach(timelines'[p], p)
      BY <1>0, <3>2, <3>3
    <3> QED
      BY <1>0, <2>0, <3>1, <3>2, <3>4, LinesFollow
  <2> QED
    BY <1>3, <2>1, <2>2, <2>3, <2>4, <2>5, <2>6, <2>7, <2>8 DEF Next, Step
<1> QED
  BY <1>2, <1>3

(* Types: an edge is neither further away than an interval with its         *)
(* correction nor later than the loop, the fastest lit output clocks        *)
(* Flutter, and an output has one render on its way at most.                *)
THEOREM SchedulerTypes == Spec => []TypeOK
<1>1. Init => Inv /\ LineInv
  <2> SUFFICES ASSUME Init PROVE Inv /\ LineInv
    OBVIOUS
  <2>1. Inv /\ setup \in Setups
    BY SchedulerStarts DEF Init
  <2>2. timelines = [o \in Connected |-> NewTimeline] /\ clock = Fastest(Connected)
    BY Zenon DEF Init
  <2>3. Powered = Connected /\ \A o \in Connected : timelines[o] = NewTimeline
    BY <2>2 DEF Powered
  <2> QED
    BY <2>1, <2>2, <2>3, NewInReach DEF LineInv
<1>2. Inv /\ LineInv /\ [Next]_vars => (Inv /\ LineInv)'
  BY SchedulerStep, LinesKeep DEF Inv
<1>3. Inv /\ LineInv => TypeOK
  <2> SUFFICES ASSUME TimeInv, DamageInv, LineInv PROVE TypeOK
    BY DEF Inv
  <2>1. /\ Powered \subseteq Connected /\ setup \in Setups
        /\ timelines \in [Powered -> [next : Int, shift : Int]]
    BY DEF TimeInv
  <2>2. ASSUME NEW o \in Powered
        PROVE  /\ timelines[o].next \in -setup.late .. Interval[o] + setup.shift
               /\ timelines[o].shift \in -setup.shift .. setup.shift
    <3>1. /\ setup.late \in Nat /\ setup.shift \in Nat /\ Interval[o] \in Nat
          /\ timelines[o].next \in Int /\ timelines[o].shift \in Int
      BY <2>1, SetupTypes
    <3>2. InReach(timelines[o], o)
      BY DEF LineInv
    <3> QED
      BY <3>1, <3>2 DEF InReach
  <2>3. clock = Fastest(Powered)
    BY DEF LineInv
  <2>4. /\ DOMAIN dirty \subseteq Outputs /\ serial \in 0 .. Word - 1
        /\ dirty \in [DOMAIN dirty -> Entries]
        /\ \A o \in Outputs : Len(renders[o]) <= 1
    BY DEF DamageInv, Kept
  <2>5. ASSUME NEW o \in DOMAIN dirty
        PROVE  dirty[o].serial \in 1 .. Word - 1 /\ DOMAIN dirty[o].textures \subseteq Textures
    <3>1. dirty[o] \in Entries
      BY <2>4
    <3> QED
      BY <3>1 DEF Entries, Serials
  <2> QED
    BY <2>1, <2>2, <2>3, <2>4, <2>5 DEF TypeOK
<1> QED
  BY <1>1, <1>2, <1>3, PTL DEF Spec
=============================================================================
