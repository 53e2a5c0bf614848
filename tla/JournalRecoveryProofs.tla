----------------------- MODULE JournalRecoveryProofs -----------------------
(***************************************************************************)
(* Proofs about module JournalRecovery: with writes which are flushed and  *)
(* whole, and without compression, the files always hold exactly the       *)
(* pending events, whatever is added, updated, reloaded or killed between  *)
(* two writes and whatever other options are set.                          *)
(* Three more parts are about what holds without some of this: compression *)
(* loses no event of the index while it runs; a kill inside of a write     *)
(* leaves every event of the index for the next process to find; and the   *)
(* counters of the files never fall below what they count.                 *)
(***************************************************************************)
EXTENDS JournalRecovery, JournalProofs, FiniteSetTheorems, WellFoundedInduction

-----------------------------------------------------------------------------
(* The walk through the events of one file.                                *)

Record(s, o) ==
    [id |-> RequestIdAt(s, o), time |-> s[o + 1].time, status |-> s[o + 1].status]

Own(s, o) == IF s[o + 1].status \in Active THEN {Record(s, o)} ELSE {}

Following(s, o) == o + s[o + 1].size

\* one step of the recursion of Walk
WalkStep(s, w) ==
    [o \in 0 .. Len(s) |->
        IF ~ValidEventAt(s, o) THEN {} ELSE w[Following(s, o)] \cup Own(s, o)]

\* the offsets which the walk from o comes to, without a recursion
Closed(s, R) == \A q \in R : ValidEventAt(s, q) => Following(s, q) \in R
Reached(s, o) ==
    {p \in 0 .. Len(s) :
        ValidEventAt(s, p)
        /\ \A R \in SUBSET (0 .. Len(s)) : Closed(s, R) /\ o \in R => p \in R}

(* The size of a cell. *)
LEMMA CellFields ==
    ASSUME NEW s \in Seq(Cell), NEW i \in 1 .. Len(s)
    PROVE  s[i] \in Cell /\ s[i].size \in Nat /\ s[i].time \in Nat
<1>1. s[i] \in Cell
  BY ElementOfSeq
<1>2. QED
  BY <1>1 DEF Cell

(* The event after a valid one starts later, in the file or at its end. *)
LEMMA FollowingProperties ==
    ASSUME NEW s \in Seq(Cell), NEW o \in 0 .. Len(s), ValidEventAt(s, o)
    PROVE  /\ Following(s, o) \in 0 .. Len(s) /\ o + 2 < Following(s, o)
           /\ o + 1 \in 1 .. Len(s) /\ s[o + 1].kind = "ev" /\ s[o + 1].size \in Nat
<1>1. Len(s) \in Nat
  BY LenProperties
<1>2. o + 1 \in 1 .. Len(s)
  BY <1>1 DEF ValidEventAt
<1>3. s[o + 1].size \in Nat
  BY <1>2, CellFields
<1>4. QED
  BY <1>1, <1>2, <1>3 DEF ValidEventAt, Following, EventSize

(* The offsets satisfy the recursion. *)
LEMMA ReachedStep ==
    ASSUME NEW s \in Seq(Cell), NEW o \in 0 .. Len(s)
    PROVE  /\ ~ValidEventAt(s, o) => Reached(s, o) = {}
           /\ ValidEventAt(s, o) =>
                Reached(s, o) = {o} \cup Reached(s, Following(s, o))
<1>1. ASSUME ~ValidEventAt(s, o)
      PROVE  Reached(s, o) = {}
  <2>1. {o} \in SUBSET (0 .. Len(s)) /\ Closed(s, {o}) /\ o \in {o}
    BY <1>1 DEF Closed
  <2>2. QED
    BY <1>1, <2>1 DEF Reached
<1>2. ASSUME ValidEventAt(s, o)
      PROVE  Reached(s, o) = {o} \cup Reached(s, Following(s, o))
  <2> DEFINE n == Following(s, o)
  <2>1. n \in 0 .. Len(s)
    BY <1>2, FollowingProperties
  <2> HIDE DEF n
  <2>2. o \in Reached(s, o)
    BY <1>2 DEF Reached
  <2>3. ASSUME NEW p \in Reached(s, n)
        PROVE  p \in Reached(s, o)
    <3>1. \A R \in SUBSET (0 .. Len(s)) : Closed(s, R) /\ o \in R => n \in R
      BY <1>2 DEF Closed, n
    <3>2. QED
      BY <2>3, <3>1 DEF Reached
  <2>4. ASSUME NEW p \in Reached(s, o), p # o
        PROVE  p \in Reached(s, n)
    <3>1. p \in 0 .. Len(s) /\ ValidEventAt(s, p)
      BY <2>4 DEF Reached
    <3>2. ASSUME NEW R \in SUBSET (0 .. Len(s)), Closed(s, R), n \in R
          PROVE  p \in R
      <4>1. R \cup {o} \in SUBSET (0 .. Len(s))
        OBVIOUS
      <4>2. Closed(s, R \cup {o})
        BY <3>2 DEF Closed, n
      <4>3. p \in R \cup {o}
        BY <2>4, <4>1, <4>2 DEF Reached
      <4>4. QED
        BY <2>4, <4>3
    <3>3. QED
      BY <3>1, <3>2 DEF Reached
  <2>5. QED
    BY <2>2, <2>3, <2>4 DEF n
<1>3. QED
  BY <1>1, <1>2

(* The recursion of Walk has a solution, so that Walk is one. *)
LEMMA WalkEquation ==
    ASSUME NEW s \in Seq(Cell)
    PROVE  Walk(s) = WalkStep(s, Walk(s))
<1> DEFINE P == 0 .. Len(s)
           U == UNION {Own(s, p) : p \in P}
           g == [o \in P |-> {e \in U : \E p \in Reached(s, o) : e \in Own(s, p)}]
<1>1. \A o \in P : Reached(s, o) \subseteq P
  BY DEF Reached
<1>2. \A p \in P : \A e \in Own(s, p) : e \in U
  BY Zenon
<1> HIDE DEF U
<1>3. ASSUME NEW o \in P, ~ValidEventAt(s, o)
      PROVE  g[o] = {}
  BY <1>3, ReachedStep
<1>4. ASSUME NEW o \in P, ValidEventAt(s, o)
      PROVE  g[o] = g[Following(s, o)] \cup Own(s, o)
  <2>1. Following(s, o) \in P
    BY <1>4, FollowingProperties
  <2>2. Reached(s, o) = {o} \cup Reached(s, Following(s, o))
    BY <1>4, ReachedStep
  <2>3. QED
    BY <1>2, <2>1, <2>2
<1>5. g = WalkStep(s, g)
  <2>1. WalkStep(s, g) = [o \in P |-> IF ~ValidEventAt(s, o) THEN {}
                                      ELSE g[Following(s, o)] \cup Own(s, o)]
    BY DEF WalkStep
  <2>2. g = [o \in P |-> g[o]]
    OBVIOUS
  <2> HIDE DEF g
  <2>3. \A o \in P : g[o] = IF ~ValidEventAt(s, o) THEN {}
                            ELSE g[Following(s, o)] \cup Own(s, o)
    BY <1>3, <1>4
  <2> HIDE DEF P
  <2>4. QED
    BY <2>1, <2>2, <2>3
<1> HIDE DEF g
<1>6. Walk(s) = CHOOSE w : w = WalkStep(s, w)
  BY DEF Walk, WalkStep, Own, Record, Following
<1>7. (CHOOSE w : w = WalkStep(s, w)) = WalkStep(s, CHOOSE w : w = WalkStep(s, w))
  BY <1>5, Zenon
<1>8. QED
  BY <1>6, <1>7

-----------------------------------------------------------------------------
(* The shape of a file.  Its events follow each other from the header up   *)
(* to some offset; what lies behind, left over from an earlier use of the  *)
(* file, holds no pending event.                                           *)

EventAt(s, o) == o \in Nat /\ o < Len(s) /\ s[o + 1].kind = "ev"
ActiveAt(s, o) == EventAt(s, o) /\ s[o + 1].status \in Active

\* all the cells of the event at o are its own
WholeAt(s, o) ==
    /\ EventSize(0) < s[o + 1].size /\ Following(s, o) <= Len(s)
    /\ s[o + 2].kind = "id" /\ s[o + 2].id \in RequestIds
    /\ \A i \in (o + 3) .. Following(s, o) :
           s[i] = Plain("data", s[o + 2].id, s[o + 1].time)

TiledTo(s, b) ==
    /\ b \in Nat /\ HeaderSize <= b /\ ~EventAt(s, 0)
    /\ b > HeaderSize => HasHeader(s) /\ b <= Len(s) /\ EventAt(s, HeaderSize)
    /\ \A o \in Nat : EventAt(s, o) /\ o < b =>
           /\ WholeAt(s, o) /\ Following(s, o) <= b
           /\ Following(s, o) < b => EventAt(s, Following(s, o))

QuietFrom(s, b) ==
    \A o \in Nat : EventAt(s, o) /\ b <= o => s[o + 1].status \in Final

Tiled(s, b) == TiledTo(s, b) /\ QuietFrom(s, b)

OnBoundary(s, b, n) == n = b \/ (n < b /\ EventAt(s, n))

\* n is a place where the next event of the file may be saved
Laid(s, n) ==
    \E b \in Nat : Tiled(s, b) /\ (n > 0 => HasHeader(s) /\ OnBoundary(s, b, n))

LEMMA GreatestExists ==
    ASSUME NEW n \in Nat, NEW S \in SUBSET (0 .. n), S # {}
    PROVE  \E x \in S : \A y \in S : y <= x
<1> DEFINE K == {k \in 0 .. n : n - k \in S}
<1>1. K # {} /\ K \subseteq Nat
  <2>1. PICK x \in S : TRUE
    OBVIOUS
  <2>2. n - x \in K
    BY <2>1
  <2>3. K \subseteq Nat
    OBVIOUS
  <2> HIDE DEF K
  <2>4. QED
    BY <2>2, <2>3
<1>2. IsWellFoundedOn(OpToRel(<, Nat), Nat)
  BY NatLessThanWellFounded
<1> HIDE DEF K
<1>3. PICK k \in K : \A j \in K : ~(<<j, k>> \in OpToRel(<, Nat))
  BY <1>1, <1>2, WFMin
<1>4. \A j \in K : ~(j < k)
  BY <1>1, <1>3 DEF OpToRel
<1>5. ASSUME NEW y \in S, ~(y <= n - k) PROVE FALSE
  <2>1. n - y \in K /\ n - y < k
    BY <1>5 DEF K
  <2>2. QED
    BY <1>4, <2>1
<1>6. n - k \in S
  BY DEF K
<1>7. QED
  BY <1>5, <1>6

(* The cells of an event. *)
LEMMA EventFields ==
    ASSUME NEW s \in Seq(Cell), NEW o \in Nat, EventAt(s, o)
    PROVE  /\ Len(s) \in Nat /\ o + 1 \in 1 .. Len(s)
           /\ s[o + 1] \in Cell /\ s[o + 1].size \in Nat /\ s[o + 1].time \in Nat
           /\ s[o + 1].status \in Active \cup Final
           /\ Following(s, o) \in Nat /\ Following(s, o) = o + s[o + 1].size
<1>1. Len(s) \in Nat
  BY LenProperties
<1>2. o + 1 \in 1 .. Len(s)
  BY <1>1 DEF EventAt
<1>3. s[o + 1] \in Cell
  BY <1>2, CellFields
<1>4. s[o + 1].size \in Nat /\ s[o + 1].time \in Nat /\ s[o + 1].status \in Active \cup Final
  BY <1>3 DEF Cell
<1>5. QED
  BY <1>1, <1>2, <1>3, <1>4 DEF Following

(* A whole event is one which a load takes, and no other event starts      *)
(* inside of it.                                                           *)
LEMMA WholeProperties ==
    ASSUME NEW s \in Seq(Cell), NEW o \in Nat, EventAt(s, o), WholeAt(s, o)
    PROVE  /\ ValidEventAt(s, o) /\ o + 2 < Following(s, o)
           /\ o + 1 < Len(s) /\ RequestIdAt(s, o) = s[o + 2].id
           /\ \A p \in Nat : EventAt(s, p) /\ o < p => Following(s, o) <= p
<1>1. /\ Len(s) \in Nat /\ s[o + 1].size \in Nat /\ Following(s, o) \in Nat
      /\ Following(s, o) = o + s[o + 1].size
  BY EventFields
<1>2. ValidEventAt(s, o) /\ o + 2 < Following(s, o) /\ o + 1 < Len(s)
  BY <1>1 DEF EventAt, WholeAt, ValidEventAt, EventSize, Following
<1>3. RequestIdAt(s, o) = s[o + 2].id
  BY <1>2 DEF RequestIdAt, WholeAt
<1>4. ASSUME NEW p \in Nat, EventAt(s, p), o < p, ~(Following(s, o) <= p)
      PROVE  FALSE
  <2>1. s[p + 1].kind = "ev"
    BY <1>4 DEF EventAt
  <2>2. CASE p = o + 1
    <3>1. p + 1 = o + 2
      BY <2>2
    <3>2. QED
      BY <2>1, <3>1 DEF WholeAt
  <2>3. CASE p # o + 1
    <3>1. p + 1 \in (o + 3) .. Following(s, o)
      BY <1>1, <1>4, <2>3
    <3>2. s[p + 1] = Plain("data", s[o + 2].id, s[o + 1].time)
      BY <3>1 DEF WholeAt
    <3>3. QED
      BY <2>1, <3>2 DEF Plain
  <2>4. QED
    BY <2>2, <2>3
<1>5. QED
  BY <1>2, <1>3, <1>4

(* Every offset of a pending event is in the part of the file which is tiled. *)
LEMMA ActiveIsWhole ==
    ASSUME NEW s \in Seq(Cell), NEW b, Tiled(s, b), NEW o \in Nat, ActiveAt(s, o)
    PROVE  /\ b \in Nat /\ o < b /\ HeaderSize <= o /\ EventAt(s, o) /\ WholeAt(s, o)
           /\ Following(s, o) <= b /\ HasHeader(s) /\ b <= Len(s)
<1>1. b \in Nat /\ HeaderSize <= b /\ EventAt(s, o) /\ s[o + 1].status \notin Final /\ o # 0
  BY DEF Tiled, TiledTo, ActiveAt, Active, Final
<1>2. o < b
  BY <1>1 DEF Tiled, QuietFrom
<1>3. QED
  BY <1>1, <1>2 DEF Tiled, TiledTo, HeaderSize

-----------------------------------------------------------------------------
(* What a load finds in a file.                                            *)

LEMMA WalkProperties ==
    ASSUME NEW s \in Seq(Cell), NEW o \in 0 .. Len(s)
    PROVE  /\ ~ValidEventAt(s, o) => Walk(s)[o] = {}
           /\ ValidEventAt(s, o) =>
                Walk(s)[o] = Walk(s)[Following(s, o)] \cup Own(s, o)
<1>1. Walk(s) = WalkStep(s, Walk(s))
  BY WalkEquation
<1> DEFINE w == Walk(s)
<1> HIDE DEF w
<1>2. WalkStep(s, w)[o] = IF ~ValidEventAt(s, o) THEN {}
                          ELSE w[Following(s, o)] \cup Own(s, o)
  BY DEF WalkStep
<1>3. w[o] = WalkStep(s, w)[o]
  BY <1>1 DEF w
<1>4. QED
  BY <1>2, <1>3 DEF w

(* Behind the tiled part a load finds nothing. *)
LEMMA WalkBehind ==
    ASSUME NEW s \in Seq(Cell), NEW b, Tiled(s, b), NEW o \in 0 .. Len(s), b <= o
    PROVE  Walk(s)[o] = {}
<1> DEFINE S == {p \in 0 .. Len(s) : b <= p /\ Walk(s)[p] # {}}
<1>1. Len(s) \in Nat /\ b \in Nat
  BY LenProperties DEF Tiled, TiledTo
<1>2. SUFFICES ASSUME S # {} PROVE FALSE
  OBVIOUS
<1>3. PICK m \in S : \A y \in S : y <= m
  BY <1>1, <1>2, GreatestExists
<1>4. m \in 0 .. Len(s) /\ b <= m /\ Walk(s)[m] # {}
  OBVIOUS
<1>5. ValidEventAt(s, m)
  BY <1>4, WalkProperties
<1>6. EventAt(s, m) /\ s[m + 1].status \in Final
  BY <1>1, <1>4, <1>5 DEF Tiled, QuietFrom, EventAt, ValidEventAt
<1>7. Own(s, m) = {}
  BY <1>6 DEF Own, Active, Final
<1>8. Following(s, m) \in 0 .. Len(s) /\ m < Following(s, m)
  BY <1>1, <1>4, <1>5, FollowingProperties
<1>9. Following(s, m) \notin S
  BY <1>1, <1>3, <1>4, <1>8
<1>10. Walk(s)[Following(s, m)] = {}
  BY <1>1, <1>4, <1>8, <1>9
<1>11. QED
  BY <1>4, <1>5, <1>7, <1>10, WalkProperties

\* the events a load finds from the offset o on
FoundFrom(s, o, e) ==
    \E p \in Nat : ActiveAt(s, p) /\ o <= p /\ e = Record(s, p)

LEMMA WalkTiled ==
    ASSUME NEW s \in Seq(Cell), NEW b, Tiled(s, b), NEW o \in 0 .. Len(s),
           OnBoundary(s, b, o)
    PROVE  \A e : e \in Walk(s)[o] <=> FoundFrom(s, o, e)
<1> DEFINE Good(p) == \A e : e \in Walk(s)[p] <=> FoundFrom(s, p, e)
           S == {p \in 0 .. Len(s) : OnBoundary(s, b, p) /\ ~Good(p)}
<1>1. Len(s) \in Nat /\ b \in Nat
  BY LenProperties DEF Tiled, TiledTo
<1>2. SUFFICES ASSUME S # {} PROVE FALSE
  OBVIOUS
<1>3. PICK m \in S : \A y \in S : y <= m
  <2> HIDE DEF Good
  <2>1. QED
    BY <1>1, <1>2, GreatestExists
<1>4. m \in 0 .. Len(s) /\ OnBoundary(s, b, m) /\ ~Good(m) /\ m \in Nat
  BY <1>1
<1>5. CASE m = b
  <2>1. Walk(s)[m] = {}
    BY <1>1, <1>4, <1>5, WalkBehind
  <2>2. \A e : ~FoundFrom(s, m, e)
    <3>1. ASSUME NEW p \in Nat, ActiveAt(s, p), m <= p PROVE FALSE
      <4>1. p < b
        BY <3>1, ActiveIsWhole
      <4>2. QED
        BY <1>1, <1>5, <3>1, <4>1
    <3>2. QED
      BY <3>1 DEF FoundFrom
  <2>3. QED
    BY <1>4, <2>1, <2>2
<1>6. CASE m < b /\ EventAt(s, m)
  <2> DEFINE n == Following(s, m)
  <2>1. /\ WholeAt(s, m) /\ n <= b /\ (n < b => EventAt(s, n))
    BY <1>4, <1>6 DEF Tiled, TiledTo
  <2>2. /\ ValidEventAt(s, m) /\ m + 2 < n
        /\ \A p \in Nat : EventAt(s, p) /\ m < p => n <= p
    BY <1>4, <1>6, <2>1, WholeProperties
  <2>3. n \in 0 .. Len(s) /\ n \in Nat
    BY <1>1, <1>4, <2>2, FollowingProperties
  <2> HIDE DEF n
  <2>4. OnBoundary(s, b, n)
    BY <1>1, <2>1, <2>3 DEF OnBoundary
  <2>5. Good(n)
    <3>1. n \notin S
      BY <1>1, <1>3, <1>4, <2>2, <2>3
    <3> HIDE DEF Good
    <3>2. QED
      BY <2>3, <2>4, <3>1
  <2>6. Walk(s)[m] = Walk(s)[n] \cup Own(s, m)
    BY <1>4, <2>2, WalkProperties DEF n
  <2>7. ASSUME NEW e
        PROVE  e \in Own(s, m) \/ FoundFrom(s, n, e) <=> FoundFrom(s, m, e)
    <3>1. e \in Own(s, m) <=> ActiveAt(s, m) /\ e = Record(s, m)
      BY <1>6 DEF Own, ActiveAt
    <3>2. \A p \in Nat : ActiveAt(s, p) /\ m <= p => p = m \/ n <= p
      BY <1>4, <2>2 DEF ActiveAt
    <3>3. \A p \in Nat : n <= p => m <= p
      BY <1>4, <2>2, <2>3
    <3>4. m <= m
      BY <1>4
    <3>5. QED
      BY <1>4, <3>1, <3>2, <3>3, <3>4 DEF FoundFrom
  <2>8. Good(m)
    BY <2>5, <2>6, <2>7
  <2>9. QED
    BY <1>4, <2>8
<1>7. QED
  BY <1>4, <1>5, <1>6 DEF OnBoundary

(* The pending events a load finds in a file are those which are in it. *)
LEMMA PersistedInTiled ==
    ASSUME NEW s \in Seq(Cell), NEW b, Tiled(s, b)
    PROVE  \A e : e \in PersistedIn(s) <=>
                    \E o \in Nat : ActiveAt(s, o) /\ e = Record(s, o)
<1>1. Len(s) \in Nat /\ b \in Nat /\ 1 <= b
  BY LenProperties DEF Tiled, TiledTo, HeaderSize
<1>2. \A o \in Nat : ActiveAt(s, o) => 1 <= o /\ o < b /\ HasHeader(s)
  BY ActiveIsWhole DEF HeaderSize
<1>3. CASE ~HasHeader(s)
  BY <1>2, <1>3 DEF PersistedIn, PendingFrom
<1>4. CASE HasHeader(s)
  <2>1. 1 \in 0 .. Len(s)
    BY <1>1, <1>4 DEF HasHeader
  <2>2. OnBoundary(s, b, 1)
    BY <1>1 DEF OnBoundary, Tiled, TiledTo, HeaderSize
  <2>3. \A e : e \in Walk(s)[1] <=> FoundFrom(s, 1, e)
    BY <2>1, <2>2, WalkTiled
  <2>4. PersistedIn(s) = Walk(s)[1]
    BY <1>4 DEF PersistedIn, PendingFrom, HeaderSize
  <2>5. QED
    BY <1>2, <2>3, <2>4 DEF FoundFrom
<1>5. QED
  BY <1>3, <1>4

-----------------------------------------------------------------------------
(* What writes do to the shape of a file.                                  *)

\* the cells from which the record of the event at o is read are the same
SameHead(s, t, o) == t[o + 1] = s[o + 1] /\ t[o + 2] = s[o + 2]

SameActive(s, t) ==
    \A o \in Nat : /\ ActiveAt(t, o) <=> ActiveAt(s, o)
                   /\ ActiveAt(s, o) => SameHead(s, t, o)

LEMMA BoundaryProperties ==
    ASSUME NEW s \in Seq(Cell), NEW b, TiledTo(s, b), NEW n \in Nat,
           OnBoundary(s, b, n), HasHeader(s)
    PROVE  /\ Len(s) \in Nat /\ 1 <= n /\ n <= b /\ n <= Len(s)
           /\ n > 1 => EventAt(s, 1)
           /\ \A o \in Nat : EventAt(s, o) /\ o < n =>
                /\ WholeAt(s, o) /\ o + 2 < Following(s, o) /\ Following(s, o) <= n
                /\ Following(s, o) < n => EventAt(s, Following(s, o))
<1>1. Len(s) \in Nat /\ 1 <= Len(s) /\ b \in Nat /\ 1 <= b
  BY LenProperties DEF TiledTo, HeaderSize, HasHeader
<1>2. 1 <= n /\ n <= b /\ n <= Len(s)
  <2>1. b <= Len(s)
    BY <1>1 DEF TiledTo, HeaderSize
  <2>2. CASE n = b
    BY <1>1, <2>1, <2>2
  <2>3. CASE n < b /\ EventAt(s, n)
    <3>1. n # 0
      BY <2>3 DEF TiledTo
    <3>2. QED
      BY <1>1, <2>1, <2>3, <3>1
  <2>4. QED
    BY <2>2, <2>3 DEF OnBoundary
<1>3. n > 1 => EventAt(s, 1)
  BY <1>1, <1>2 DEF TiledTo, HeaderSize
<1>4. ASSUME NEW o \in Nat, EventAt(s, o), o < n
      PROVE  /\ WholeAt(s, o) /\ o + 2 < Following(s, o) /\ Following(s, o) <= n
             /\ Following(s, o) < n => EventAt(s, Following(s, o))
  <2>1. /\ WholeAt(s, o) /\ Following(s, o) <= b
        /\ Following(s, o) < b => EventAt(s, Following(s, o))
    <3>1. o < b
      BY <1>1, <1>2, <1>4
    <3>2. QED
      BY <1>4, <3>1 DEF TiledTo
  <2>2. /\ Following(s, o) \in Nat /\ o + 2 < Following(s, o)
        /\ \A p \in Nat : EventAt(s, p) /\ o < p => Following(s, o) <= p
    BY <1>4, <2>1, EventFields, WholeProperties
  <2>3. Following(s, o) <= n
    BY <1>4, <2>1, <2>2 DEF OnBoundary
  <2>4. Following(s, o) < n => EventAt(s, Following(s, o))
    BY <1>1, <1>2, <2>1, <2>2
  <2>5. QED
    BY <2>1, <2>2, <2>3, <2>4
<1>5. QED
  BY <1>1, <1>2, <1>3, <1>4

(* A file which keeps its cells up to a boundary is tiled up to there. *)
LEMMA PrefixTiled ==
    ASSUME NEW s \in Seq(Cell), NEW t \in Seq(Cell), NEW b, TiledTo(s, b),
           NEW n \in Nat, OnBoundary(s, b, n), HasHeader(s),
           n <= Len(t), \A i \in 1 .. n : t[i] = s[i]
    PROVE  /\ TiledTo(t, n) /\ HasHeader(t)
           /\ \A o \in Nat : o < n =>
                /\ EventAt(t, o) <=> EventAt(s, o)
                /\ EventAt(s, o) => SameHead(s, t, o)
<1>1. /\ Len(s) \in Nat /\ 1 <= n /\ n <= b /\ n <= Len(s) /\ Len(t) \in Nat
      /\ n > 1 => EventAt(s, 1)
      /\ \A o \in Nat : EventAt(s, o) /\ o < n =>
           /\ WholeAt(s, o) /\ o + 2 < Following(s, o) /\ Following(s, o) <= n
           /\ Following(s, o) < n => EventAt(s, Following(s, o))
  BY BoundaryProperties, LenProperties
<1>2. HasHeader(t)
  BY <1>1 DEF HasHeader
<1>3. ASSUME NEW o \in Nat, o < n
      PROVE  /\ EventAt(t, o) <=> EventAt(s, o)
             /\ t[o + 1] = s[o + 1]
  <2>1. o + 1 \in 1 .. n /\ o < Len(s) /\ o < Len(t)
    BY <1>1, <1>3
  <2>2. t[o + 1] = s[o + 1]
    BY <2>1
  <2>3. QED
    BY <2>1, <2>2 DEF EventAt
<1>4. ASSUME NEW o \in Nat, o < n, EventAt(s, o)
      PROVE  /\ SameHead(s, t, o) /\ WholeAt(t, o) /\ Following(t, o) = Following(s, o)
             /\ Following(t, o) <= n
             /\ Following(t, o) < n => EventAt(t, Following(t, o))
  <2> DEFINE m == Following(s, o)
  <2>1. /\ m \in Nat /\ WholeAt(s, o) /\ o + 2 < m /\ m <= n
        /\ m < n => EventAt(s, m)
    BY <1>1, <1>4, EventFields
  <2>2. o + 2 \in 1 .. n
    BY <1>1, <2>1
  <2>3. t[o + 1] = s[o + 1] /\ t[o + 2] = s[o + 2]
    BY <1>3, <1>4, <2>2
  <2>4. Following(t, o) = m
    BY <2>3 DEF Following
  <2> HIDE DEF m
  <2>5. m <= Len(t)
    BY <1>1, <2>1
  <2>6. \A i \in (o + 3) .. m : t[i] = Plain("data", s[o + 2].id, s[o + 1].time)
    <3> SUFFICES ASSUME NEW i \in (o + 3) .. m
                 PROVE  t[i] = Plain("data", s[o + 2].id, s[o + 1].time)
      OBVIOUS
    <3>1. i \in 1 .. n
      BY <1>1, <2>1
    <3>2. s[i] = Plain("data", s[o + 2].id, s[o + 1].time)
      BY <2>1 DEF WholeAt, m
    <3>3. QED
      BY <3>1, <3>2
  <2>7. WholeAt(t, o)
    BY <2>1, <2>3, <2>4, <2>5, <2>6 DEF WholeAt
  <2>8. m < n => EventAt(t, m)
    BY <1>3, <2>1
  <2>9. QED
    BY <2>1, <2>3, <2>4, <2>7, <2>8 DEF SameHead, m
<1>5. ~EventAt(t, 0)
  BY <1>1, <1>3 DEF TiledTo
<1>6. n > 1 => EventAt(t, 1)
  BY <1>1, <1>3
<1>7. TiledTo(t, n)
  BY <1>1, <1>2, <1>3, <1>4, <1>5, <1>6 DEF TiledTo, HeaderSize
<1>8. QED
  BY <1>2, <1>3, <1>4, <1>7

(* One more event makes the tiled part longer. *)
LEMMA ExtendTiled ==
    ASSUME NEW s \in Seq(Cell), NEW n \in Nat, TiledTo(s, n), HasHeader(s),
           EventAt(s, n), WholeAt(s, n)
    PROVE  TiledTo(s, Following(s, n))
<1> DEFINE m == Following(s, n)
<1>1. /\ m \in Nat /\ n + 2 < m /\ m <= Len(s) /\ 1 <= n
      /\ \A p \in Nat : EventAt(s, p) /\ n < p => m <= p
  BY EventFields, WholeProperties DEF TiledTo, HeaderSize, WholeAt
<1>2. EventAt(s, 1)
  BY <1>1 DEF TiledTo, HeaderSize
<1>3. ASSUME NEW o \in Nat, EventAt(s, o), o < m
      PROVE  /\ WholeAt(s, o) /\ Following(s, o) <= m
             /\ Following(s, o) < m => EventAt(s, Following(s, o))
  <2>1. Following(s, o) \in Nat
    BY <1>3, EventFields
  <2>2. CASE o < n
    <3>1. /\ WholeAt(s, o) /\ Following(s, o) <= n
          /\ Following(s, o) < n => EventAt(s, Following(s, o))
      BY <1>3, <2>2 DEF TiledTo
    <3>2. Following(s, o) < n \/ Following(s, o) = n
      BY <2>1, <3>1
    <3>3. QED
      BY <1>1, <2>1, <3>1, <3>2
  <2>3. CASE o = n
    BY <1>1, <2>3
  <2>4. CASE n < o
    BY <1>1, <1>3, <2>4
  <2>5. QED
    BY <2>2, <2>3, <2>4
<1> HIDE DEF m
<1>4. ~EventAt(s, 0)
  BY DEF TiledTo
<1>5. QED
  BY <1>1, <1>2, <1>3, <1>4 DEF TiledTo, HeaderSize, m

(* A file without pending events is tiled up to its header. *)
LEMMA IdleTiled ==
    ASSUME NEW s \in Seq(Cell), ~EventAt(s, 0), \A o \in Nat : ~ActiveAt(s, o)
    PROVE  Tiled(s, 1)
<1>1. \A o \in Nat : EventAt(s, o) => s[o + 1].status \in Final
  BY EventFields DEF ActiveAt
<1>2. \A o \in Nat : EventAt(s, o) => ~(o < 1)
  <2>1. \A o \in Nat : o < 1 => o = 0
    OBVIOUS
  <2>2. QED
    BY <2>1
<1>3. QED
  BY <1>1, <1>2 DEF Tiled, TiledTo, QuietFrom, HeaderSize

(* The header of a new file object. *)
LEMMA HeaderTiled ==
    ASSUME NEW s \in Seq(Cell), \A o \in Nat : ~ActiveAt(s, o),
           NEW t, t = WriteCells(s, 0, <<JournalHeader>>, 1)
    PROVE  /\ t \in Seq(Cell) /\ Tiled(t, 1) /\ HasHeader(t)
           /\ \A o \in Nat : ~ActiveAt(t, o)
<1>1. \A i \in 1 .. 1 : <<JournalHeader>>[i] \in Cell
  BY ZeroCellType
<1>2. Len(s) \in Nat
  BY LenProperties
<1>3. /\ t \in Seq(Cell) /\ Len(t) = Larger(Len(s), 0 + 1)
      /\ \A i \in 1 .. 1 : t[0 + i] = <<JournalHeader>>[i]
      /\ \A i \in 1 .. Len(s) : i <= 0 \/ 0 + 1 < i => t[i] = s[i]
  BY <1>1, WriteCellsProperties
<1>4. Len(t) \in Nat /\ 1 <= Len(t) /\ (Len(t) = Len(s) \/ Len(t) = 1)
  BY <1>2, <1>3 DEF Larger
<1>5. t[1] = JournalHeader
  <2>1. 1 \in 1 .. 1 /\ 0 + 1 = 1 /\ <<JournalHeader>>[1] = JournalHeader
    OBVIOUS
  <2>2. t[0 + 1] = <<JournalHeader>>[1]
    BY <1>3, <2>1, Zenon
  <2>3. QED
    BY <2>1, <2>2
<1>6. t[1].kind = "EVTJ"
  BY <1>5 DEF JournalHeader, Plain
<1>7. HasHeader(t) /\ ~EventAt(t, 0)
  BY <1>4, <1>6 DEF HasHeader, EventAt
<1>8. ASSUME NEW o \in Nat, ActiveAt(t, o) PROVE FALSE
  <2>1. o # 0 /\ o < Len(t)
    BY <1>7, <1>8 DEF ActiveAt, EventAt
  <2>2. o + 1 \in 1 .. Len(s) /\ 0 + 1 < o + 1 /\ o < Len(s)
    <3>1. CASE Len(t) = Len(s)
      BY <1>2, <2>1, <3>1
    <3>2. CASE Len(t) = 1
      <4>1. o < 1 => o = 0
        OBVIOUS
      <4>2. QED
        BY <2>1, <3>2, <4>1, Zenon
    <3>3. QED
      BY <1>4, <3>1, <3>2
  <2>3. t[o + 1] = s[o + 1]
    BY <1>3, <2>2
  <2>4. ActiveAt(s, o)
    BY <1>8, <2>2, <2>3 DEF ActiveAt, EventAt
  <2>5. QED
    BY <2>4
<1>9. Tiled(t, 1)
  BY <1>3, <1>7, <1>8, IdleTiled
<1>10. QED
  BY <1>3, <1>7, <1>8, <1>9

ActiveBefore(s, n) == \A o \in Nat : ActiveAt(s, o) => o < n

\* t is s with a new pending event at n
SavedAs(s, t, n, id, time) ==
    /\ t[n + 1].time = time /\ t[n + 1].status = "READY" /\ t[n + 2].id = id
    /\ \A o \in Nat : /\ ActiveAt(t, o) <=> o = n \/ ActiveAt(s, o)
                      /\ ActiveAt(s, o) => o # n /\ SameHead(s, t, o)

(* add_event() saves an event at the end of a tiled part behind which no   *)
(* event is pending.                                                       *)
LEMMA SavedTiled ==
    ASSUME NEW s \in Seq(Cell), NEW b, Tiled(s, b), HasHeader(s), NEW n \in Nat,
           OnBoundary(s, b, n), ActiveBefore(s, n),
           NEW id \in RequestIds, NEW d \in Nat \ {0}, NEW time \in Nat,
           NEW t, t = WriteCells(s, n, EventCells(id, d, time), EventSize(d))
    PROVE  /\ t \in Seq(Cell) /\ HasHeader(t) /\ n + EventSize(d) \in Nat
           /\ Tiled(t, n + EventSize(d))
           /\ SavedAs(s, t, n, id, time)
<1> DEFINE z == EventSize(d)
           cells == EventCells(id, d, time)
<1>1. z \in Nat /\ z = d + 2 /\ 3 <= z /\ EventSize(0) = 2
  BY DEF EventSize
<1>2. id \in Ids /\ d \in Nat
  BY DEF Ids
<1>3. /\ \A i \in 1 .. z : cells[i] \in Cell
      /\ cells[1].kind = "ev" /\ cells[1].status = "READY" /\ cells[1].size = z
      /\ cells[1].time = time /\ cells[2].kind = "id" /\ cells[2].id = id
  BY <1>2, EventCellsType
<1>4. \A i \in 3 .. z : cells[i] = Plain("data", id, time)
  BY <1>1 DEF EventCells
<1> HIDE DEF z, cells
<1>5. t = WriteCells(s, n, cells, z)
  BY DEF z, cells
<1>6. /\ t \in Seq(Cell) /\ Len(t) = Larger(Len(s), n + z)
      /\ \A i \in 1 .. z : t[n + i] = cells[i]
      /\ \A i \in 1 .. Len(s) : i <= n \/ n + z < i => t[i] = s[i]
  BY <1>1, <1>3, <1>5, WriteCellsProperties
<1>7. /\ TiledTo(s, b) /\ QuietFrom(s, b)
  BY DEF Tiled
<1>8. /\ Len(s) \in Nat /\ 1 <= n /\ n <= b /\ n <= Len(s)
      /\ \A o \in Nat : EventAt(s, o) /\ o < n =>
           WholeAt(s, o) /\ o + 2 < Following(s, o) /\ Following(s, o) <= n
  BY <1>7, BoundaryProperties
<1>9. Len(t) \in Nat /\ n + z <= Len(t) /\ (Len(t) = Len(s) \/ Len(t) = n + z)
  BY <1>1, <1>6, <1>8 DEF Larger
<1>10. /\ n <= Len(t)
       /\ \A i \in 1 .. n : t[i] = s[i]
  <2>1. \A i \in 1 .. n : i \in 1 .. Len(s) /\ i <= n
    BY <1>8
  <2>2. n <= Len(t)
    BY <1>1, <1>8, <1>9
  <2>3. QED
    BY <1>6, <2>1, <2>2
<1>11. /\ TiledTo(t, n) /\ HasHeader(t)
       /\ \A o \in Nat : o < n =>
            /\ EventAt(t, o) <=> EventAt(s, o)
            /\ EventAt(s, o) => SameHead(s, t, o)
  BY <1>6, <1>7, <1>10, PrefixTiled
<1>12. t[n + 1] = cells[1] /\ t[n + 2] = cells[2]
  <2>1. 1 \in 1 .. z /\ 2 \in 1 .. z
    BY <1>1
  <2>2. QED
    BY <1>6, <2>1
<1>13. EventAt(t, n) /\ Following(t, n) = n + z
  <2>1. n < Len(t)
    BY <1>1, <1>8, <1>9
  <2>2. QED
    BY <1>3, <1>12, <2>1 DEF EventAt, Following
<1>14. WholeAt(t, n)
  <2>1. ASSUME NEW i \in (n + 3) .. (n + z)
        PROVE  t[i] = Plain("data", id, time)
    <3>1. i - n \in 1 .. z /\ i - n \in 3 .. z /\ n + (i - n) = i
      BY <1>1
    <3>2. QED
      BY <1>4, <1>6, <3>1
  <2>2. QED
    BY <1>1, <1>3, <1>9, <1>12, <1>13, <2>1 DEF WholeAt
<1>15. TiledTo(t, n + z)
  BY <1>6, <1>11, <1>13, <1>14, ExtendTiled
<1>16. \A p \in Nat : EventAt(t, p) /\ n < p => n + z <= p
  BY <1>6, <1>13, <1>14, WholeProperties
<1>17. ASSUME NEW o \in Nat, EventAt(t, o), n + z <= o
       PROVE  EventAt(s, o) /\ t[o + 1] = s[o + 1] /\ ~ActiveAt(s, o)
  <2>1. o < Len(t)
    BY <1>17 DEF EventAt
  <2>2. o + 1 \in 1 .. Len(s) /\ n + z < o + 1 /\ o < Len(s)
    BY <1>1, <1>8, <1>9, <1>17, <2>1
  <2>3. t[o + 1] = s[o + 1]
    BY <1>6, <2>2
  <2>4. ~(o < n)
    BY <1>1, <1>17
  <2>5. QED
    BY <1>17, <2>2, <2>3, <2>4 DEF EventAt, ActiveBefore
<1>18. QuietFrom(t, n + z)
  <2>1. ASSUME NEW o \in Nat, EventAt(t, o), n + z <= o
        PROVE  t[o + 1].status \in Final
    <3>1. EventAt(s, o) /\ t[o + 1] = s[o + 1] /\ ~ActiveAt(s, o)
      BY <1>17, <2>1
    <3>2. s[o + 1].status \in Active \cup Final
      BY <3>1, EventFields
    <3>3. QED
      BY <3>1, <3>2 DEF ActiveAt
  <2>2. QED
    BY <2>1 DEF QuietFrom
<1>19. ASSUME NEW o \in Nat
       PROVE  /\ ActiveAt(t, o) <=> o = n \/ ActiveAt(s, o)
              /\ ActiveAt(s, o) => o # n /\ SameHead(s, t, o)
  <2>1. CASE o < n
    <3>1. /\ EventAt(t, o) <=> EventAt(s, o)
          /\ EventAt(s, o) => SameHead(s, t, o)
      BY <1>11, <2>1
    <3>2. o # n
      BY <2>1
    <3>3. QED
      BY <3>1, <3>2 DEF ActiveAt, SameHead
  <2>2. CASE o = n
    <3>1. ActiveAt(t, n)
      BY <1>3, <1>12, <1>13 DEF ActiveAt, Active
    <3>2. ~(n < n)
      OBVIOUS
    <3>3. QED
      BY <2>2, <3>1, <3>2 DEF ActiveBefore
  <2>3. CASE n < o
    <3>1. ~(o < n) /\ o # n
      BY <2>3
    <3>2. ASSUME ActiveAt(t, o) PROVE FALSE
      <4>1. EventAt(t, o) /\ n + z <= o
        BY <1>16, <2>3, <3>2 DEF ActiveAt
      <4>2. EventAt(s, o) /\ t[o + 1] = s[o + 1] /\ ~ActiveAt(s, o)
        BY <1>17, <4>1
      <4>3. QED
        BY <3>2, <4>2 DEF ActiveAt
    <3>3. QED
      BY <3>1, <3>2 DEF ActiveBefore
  <2>4. QED
    BY <2>1, <2>2, <2>3
<1>20. n + z \in Nat /\ Tiled(t, n + z)
  BY <1>1, <1>15, <1>18 DEF Tiled
<1>21. QED
  BY <1>3, <1>6, <1>11, <1>12, <1>19, <1>20 DEF z, SavedAs

Rewritten(s, o, status) == [s EXCEPT ![o + 1] = [s[o + 1] EXCEPT !.status = status]]

\* t is s with another status for the event at o
StatusAs(s, t, o, status) ==
    /\ t[o + 1].time = s[o + 1].time /\ t[o + 1].status = status
    /\ t[o + 2] = s[o + 2]
    /\ \A p \in Nat : /\ EventAt(t, p) <=> EventAt(s, p)
                      /\ p # o => (ActiveAt(t, p) <=> ActiveAt(s, p))
                      /\ ActiveAt(s, p) /\ p # o => SameHead(s, t, p)

(* update_event_status() writes the status of a pending event. *)
LEMMA StatusTiled ==
    ASSUME NEW s \in Seq(Cell), NEW b, Tiled(s, b), NEW o \in Nat, ActiveAt(s, o),
           NEW status \in Active \cup Final, NEW t,
           t = Rewritten(s, o, status)
    PROVE  /\ t \in Seq(Cell) /\ Tiled(t, b)
           /\ HasHeader(t) <=> HasHeader(s)
           /\ StatusAs(s, t, o, status)
<1> DEFINE e == [s[o + 1] EXCEPT !.status = status]
<1>1. /\ b \in Nat /\ o < b /\ 1 <= o /\ EventAt(s, o) /\ WholeAt(s, o)
  BY ActiveIsWhole DEF HeaderSize
<1>2. /\ Len(s) \in Nat /\ o + 1 \in 1 .. Len(s) /\ s[o + 1] \in Cell
  BY <1>1, EventFields
<1>3. /\ e \in Cell /\ e.kind = s[o + 1].kind /\ e.status = status
      /\ e.size = s[o + 1].size /\ e.time = s[o + 1].time
  BY <1>2, CellWithStatus
<1> HIDE DEF e
<1>4. t = [s EXCEPT ![o + 1] = e]
  BY DEF e, Rewritten
<1>5. /\ t \in Seq(Cell) /\ Len(t) = Len(s) /\ t[o + 1] = e
      /\ \A j \in 1 .. Len(s) : j # o + 1 => t[j] = s[j]
  BY <1>2, <1>3, <1>4, ExceptSeq
<1>6. ASSUME NEW p \in Nat
      PROVE  /\ EventAt(t, p) <=> EventAt(s, p)
             /\ EventAt(s, p) => /\ t[p + 1].size = s[p + 1].size
                                 /\ t[p + 1].time = s[p + 1].time
             /\ p # o /\ p < Len(s) => t[p + 1] = s[p + 1]
  <2>1. CASE p = o
    BY <1>2, <1>3, <1>5, <2>1 DEF EventAt
  <2>2. CASE p # o
    <3>1. p < Len(s) => p + 1 \in 1 .. Len(s) /\ p + 1 # o + 1
      BY <1>2, <2>2
    <3>2. p < Len(s) => t[p + 1] = s[p + 1]
      BY <1>5, <3>1
    <3>3. QED
      BY <1>5, <2>2, <3>2 DEF EventAt
  <2>3. QED
    BY <2>1, <2>2
<1>7. HasHeader(t) <=> HasHeader(s)
  <2>1. Len(s) > 0 => 1 \in 1 .. Len(s) /\ 1 # o + 1
    BY <1>1, <1>2
  <2>2. QED
    BY <1>5, <2>1 DEF HasHeader
<1>8. ASSUME NEW p \in Nat, EventAt(s, p), WholeAt(s, p)
      PROVE  WholeAt(t, p) /\ Following(t, p) = Following(s, p) /\ t[p + 2] = s[p + 2]
  <2>1. /\ p + 1 < Len(s) /\ p + 2 < Following(s, p) /\ Following(s, p) \in Nat
        /\ Following(s, p) <= Len(s)
    BY <1>8, EventFields, WholeProperties DEF WholeAt
  <2>2. s[o + 1].kind = "ev"
    BY <1>1 DEF EventAt
  <2>3. t[p + 2] = s[p + 2]
    <3>1. p + 2 \in 1 .. Len(s)
      BY <1>2, <2>1
    <3>2. s[p + 2].kind = "id"
      BY <1>8 DEF WholeAt
    <3>3. p + 2 # o + 1
      BY <2>2, <3>2
    <3>4. QED
      BY <1>5, <3>1, <3>3
  <2>4. Following(t, p) = Following(s, p)
    BY <1>6, <1>8 DEF Following
  <2>5. ASSUME NEW i \in (p + 3) .. Following(s, p)
        PROVE  t[i] = Plain("data", s[p + 2].id, s[p + 1].time)
    <3>1. s[i] = Plain("data", s[p + 2].id, s[p + 1].time)
      BY <1>8 DEF WholeAt
    <3>2. s[i].kind = "data"
      BY <3>1 DEF Plain
    <3>3. i # o + 1
      BY <2>2, <3>2
    <3>4. i \in 1 .. Len(s)
      BY <1>2, <2>1
    <3>5. QED
      BY <1>5, <3>1, <3>3, <3>4
  <2>6. t[p + 1].size = s[p + 1].size /\ t[p + 1].time = s[p + 1].time
    BY <1>6, <1>8
  <2>7. QED
    BY <1>5, <1>8, <2>3, <2>4, <2>5, <2>6 DEF WholeAt
<1>9. TiledTo(t, b)
  <2>1. TiledTo(s, b)
    BY DEF Tiled
  <2>2. ASSUME NEW p \in Nat, EventAt(t, p), p < b
        PROVE  /\ WholeAt(t, p) /\ Following(t, p) <= b
               /\ Following(t, p) < b => EventAt(t, Following(t, p))
    <3>1. EventAt(s, p)
      BY <1>6, <2>2
    <3>2. /\ WholeAt(s, p) /\ Following(s, p) <= b
          /\ Following(s, p) < b => EventAt(s, Following(s, p))
      BY <2>1, <2>2, <3>1 DEF TiledTo
    <3>3. WholeAt(t, p) /\ Following(t, p) = Following(s, p)
      BY <1>8, <3>1, <3>2
    <3>4. Following(s, p) \in Nat
      BY <3>1, EventFields
    <3>5. QED
      BY <1>6, <3>2, <3>3, <3>4
  <2>3. ~EventAt(t, 0)
    BY <1>6, <2>1 DEF TiledTo
  <2>4. b > 1 => HasHeader(t) /\ b <= Len(t) /\ EventAt(t, 1)
    BY <1>5, <1>6, <1>7, <2>1 DEF TiledTo, HeaderSize
  <2>5. QED
    BY <2>1, <2>2, <2>3, <2>4 DEF TiledTo, HeaderSize
<1>10. QuietFrom(t, b)
  <2>1. ASSUME NEW p \in Nat, EventAt(t, p), b <= p
        PROVE  t[p + 1].status \in Final
    <3>1. EventAt(s, p) /\ s[p + 1].status \in Final
      BY <1>6, <2>1 DEF Tiled, QuietFrom
    <3>2. p # o /\ p < Len(s)
      BY <1>1, <2>1, <3>1 DEF EventAt
    <3>3. QED
      BY <1>6, <3>1, <3>2
  <2>2. QED
    BY <2>1 DEF QuietFrom
<1>11. ASSUME NEW p \in Nat, p # o
       PROVE  /\ ActiveAt(t, p) <=> ActiveAt(s, p)
              /\ ActiveAt(s, p) => SameHead(s, t, p)
  <2>1. ActiveAt(t, p) <=> ActiveAt(s, p)
    BY <1>6, <1>11 DEF ActiveAt, EventAt
  <2>2. ASSUME ActiveAt(s, p)
        PROVE  SameHead(s, t, p)
    <3>1. EventAt(s, p) /\ WholeAt(s, p)
      BY <2>2, ActiveIsWhole
    <3>2. t[p + 2] = s[p + 2]
      BY <1>8, <3>1
    <3>3. p < Len(s)
      BY <3>1 DEF EventAt
    <3>4. QED
      BY <1>6, <1>11, <3>2, <3>3 DEF SameHead
  <2>3. QED
    BY <2>1, <2>2
<1>12. t[o + 2] = s[o + 2]
  BY <1>1, <1>8
<1>13. QED
  BY <1>3, <1>5, <1>6, <1>7, <1>9, <1>10, <1>11, <1>12 DEF Tiled, StatusAs

(* What the destructor of a file object leaves: cells of the file, end     *)
(* markers, and all the cells before the place where the file grows.       *)
LEMMA TruncateCells ==
    ASSUME NEW s \in Seq(Cell), NEW n \in Nat, NEW t, t = Truncate(s, n)
    PROVE  /\ t \in Seq(Cell) /\ Len(t) \in Nat
           /\ \A i \in 1 .. Len(t) : t[i] = ZeroCell \/ (i <= Len(s) /\ t[i] = s[i])
           /\ 1 < n /\ n <= Len(s) => n <= Len(t) /\ \A i \in 1 .. n : t[i] = s[i]
<1> DEFINE z == Larger(HeaderSize, n)
           r == Resize(s, z)
           w == WriteCells(s, n, <<ZeroCell>>, 1)
<1>1. Len(s) \in Nat /\ z \in Nat /\ (1 < n => z = n)
  BY LenProperties DEF Larger, HeaderSize
<1>2. t \in Seq(Cell) /\ Len(t) \in Nat
  BY TruncateType, LenProperties
<1>3. t = s \/ (t = w /\ n < Len(s)) \/ (t = << >> /\ z = 1) \/ t = r
  BY <1>1 DEF Truncate, HeaderSize
<1> HIDE DEF z
<1>4. CASE t = s
  BY <1>1, <1>2, <1>4
<1>5. CASE t = w /\ n < Len(s)
  <2>1. w = [i \in 1 .. Larger(Len(s), n + 1) |->
               IF n < i /\ i <= n + 1 THEN <<ZeroCell>>[i - n]
               ELSE IF i <= Len(s) THEN s[i] ELSE ZeroCell]
    BY DEF WriteCells
  <2>2. Larger(Len(s), n + 1) = Len(s)
    BY <1>1, <1>5 DEF Larger
  <2>3. Len(t) = Len(s)
    <3>1. \A i \in 1 .. 1 : <<ZeroCell>>[i] \in Cell
      BY ZeroCellType
    <3>2. Len(w) = Larger(Len(s), n + 1)
      BY <3>1, WriteCellsProperties
    <3>3. QED
      BY <1>5, <2>2, <3>2
  <2>4. \A i \in 1 .. Len(s) : w[i] = IF n < i /\ i <= n + 1 THEN <<ZeroCell>>[i - n]
                                      ELSE IF i <= Len(s) THEN s[i] ELSE ZeroCell
    BY <2>1, <2>2
  <2> HIDE DEF w
  <2>5. ASSUME NEW i \in 1 .. Len(s)
        PROVE  /\ w[i] = ZeroCell \/ w[i] = s[i]
               /\ i <= n => w[i] = s[i]
    <3>1. i <= Len(s) /\ i \in Nat
      BY <1>1
    <3>2. CASE n < i /\ i <= n + 1
      <4>1. i = n + 1 /\ i - n = 1 /\ ~(i <= n)
        BY <3>1, <3>2
      <4>2. <<ZeroCell>>[1] = ZeroCell
        OBVIOUS
      <4>3. w[i] = <<ZeroCell>>[i - n]
        BY <2>4, <3>2
      <4>4. QED
        BY <4>1, <4>2, <4>3
    <3>3. CASE ~(n < i /\ i <= n + 1)
      BY <2>4, <3>1, <3>3
    <3>4. QED
      BY <3>2, <3>3
  <2>6. \A i \in 1 .. Len(s) : i <= Len(s)
    BY <1>1
  <2>7. n <= Len(s) /\ \A i \in 1 .. n : i \in 1 .. Len(s) /\ i <= n
    BY <1>1, <1>5
  <2>8. QED
    BY <1>2, <1>5, <2>3, <2>5, <2>6, <2>7
<1>6. CASE t = << >> /\ z = 1
  <2>1. Len(t) = 0 /\ ~(1 < n)
    BY <1>1, <1>6
  <2>2. QED
    BY <1>2, <2>1
<1>7. CASE t = r
  <2>1. r = [i \in 1 .. z |-> IF i <= Len(s) THEN s[i] ELSE ZeroCell]
    BY DEF Resize
  <2>2. \A i \in 1 .. z : i <= Len(s) => s[i] \in Cell
    BY <1>1, ElementOfSeq
  <2>3. r \in [1 .. z -> Cell]
    BY <1>1, <2>1, <2>2, ZeroCellType
  <2>4. Len(r) = z
    BY <1>1, <2>3, FunctionIsSeq
  <2>5. \A i \in 1 .. z : r[i] = IF i <= Len(s) THEN s[i] ELSE ZeroCell
    BY <2>1
  <2> HIDE DEF r
  <2>6. \A i \in 1 .. n : n <= Len(s) => i <= Len(s)
    BY <1>1
  <2>7. QED
    BY <1>1, <1>2, <1>7, <2>4, <2>5, <2>6
<1>8. QED
  BY <1>3, <1>4, <1>5, <1>6, <1>7

(* Destroying a file object whose next event comes after the pending ones  *)
(* keeps them.                                                             *)
LEMMA TruncateKeeps ==
    ASSUME NEW s \in Seq(Cell), NEW n \in Nat, Laid(s, n),
           \A o \in Nat : ActiveAt(s, o) => o < n,
           NEW t, t = Truncate(s, n)
    PROVE  t \in Seq(Cell) /\ Laid(t, 0) /\ SameActive(s, t)
<1>1. PICK b \in Nat : Tiled(s, b) /\ (n > 0 => HasHeader(s) /\ OnBoundary(s, b, n))
  BY DEF Laid
<1>2. /\ t \in Seq(Cell) /\ Len(t) \in Nat /\ Len(s) \in Nat
      /\ \A i \in 1 .. Len(t) : t[i] = ZeroCell \/ (i <= Len(s) /\ t[i] = s[i])
      /\ 1 < n /\ n <= Len(s) => n <= Len(t) /\ \A i \in 1 .. n : t[i] = s[i]
  BY TruncateCells, LenProperties
<1>3. ASSUME NEW o \in Nat, EventAt(t, o)
      PROVE  EventAt(s, o) /\ t[o + 1] = s[o + 1]
  <2>1. o + 1 \in 1 .. Len(t) /\ t[o + 1].kind = "ev"
    BY <1>2, <1>3 DEF EventAt
  <2>2. t[o + 1] # ZeroCell
    BY <2>1 DEF ZeroCell, Plain
  <2>3. o + 1 <= Len(s) /\ t[o + 1] = s[o + 1]
    BY <1>2, <2>1, <2>2
  <2>4. o < Len(s)
    BY <1>2, <2>3
  <2>5. QED
    BY <2>1, <2>3, <2>4 DEF EventAt
<1>4. \A o \in Nat : ActiveAt(t, o) => ActiveAt(s, o)
  BY <1>3 DEF ActiveAt
<1>5. CASE \A o \in Nat : ~ActiveAt(s, o)
  <2>1. ~EventAt(t, 0)
    BY <1>1, <1>3 DEF Tiled, TiledTo
  <2>2. Tiled(t, 1)
    BY <1>2, <1>4, <1>5, <2>1, IdleTiled
  <2>3. Laid(t, 0)
    BY <2>2 DEF Laid
  <2>4. QED
    BY <1>2, <1>4, <1>5, <2>3 DEF SameActive
<1>6. CASE \E o \in Nat : ActiveAt(s, o)
  <2>1. TiledTo(s, b)
    BY <1>1 DEF Tiled
  <2>2. 1 < n
    <3>1. PICK o \in Nat : ActiveAt(s, o)
      BY <1>6
    <3>2. 1 <= o /\ o < n
      BY <1>1, <3>1, ActiveIsWhole DEF HeaderSize
    <3>3. QED
      BY <3>2
  <2>3. HasHeader(s) /\ OnBoundary(s, b, n)
    BY <1>1, <2>2
  <2>4. n <= Len(s)
    BY <2>1, <2>3, BoundaryProperties
  <2>5. n <= Len(t) /\ \A i \in 1 .. n : t[i] = s[i]
    BY <1>2, <2>2, <2>4
  <2>6. /\ TiledTo(t, n)
        /\ \A o \in Nat : o < n =>
             /\ EventAt(t, o) <=> EventAt(s, o)
             /\ EventAt(s, o) => SameHead(s, t, o)
    BY <1>2, <2>1, <2>3, <2>5, PrefixTiled
  <2>7. QuietFrom(t, n)
    <3>1. ASSUME NEW o \in Nat, EventAt(t, o), n <= o
          PROVE  t[o + 1].status \in Final
      <4>1. EventAt(s, o) /\ t[o + 1] = s[o + 1]
        BY <1>3, <3>1
      <4>2. ~ActiveAt(s, o)
        BY <3>1
      <4>3. s[o + 1].status \in Active \cup Final
        BY <4>1, EventFields
      <4>4. QED
        BY <4>1, <4>2, <4>3 DEF ActiveAt
    <3>2. QED
      BY <3>1 DEF QuietFrom
  <2>8. Laid(t, 0)
    BY <2>6, <2>7 DEF Laid, Tiled
  <2>9. SameActive(s, t)
    <3>1. ASSUME NEW o \in Nat, ActiveAt(s, o)
          PROVE  ActiveAt(t, o) /\ SameHead(s, t, o)
      <4>1. o < n /\ EventAt(s, o)
        BY <3>1 DEF ActiveAt
      <4>2. EventAt(t, o) /\ SameHead(s, t, o)
        BY <2>6, <4>1
      <4>3. QED
        BY <3>1, <4>2 DEF ActiveAt, SameHead
    <3>2. QED
      BY <1>4, <3>1 DEF SameActive
  <2>10. QED
    BY <1>2, <2>8, <2>9
<1>7. QED
  BY <1>5, <1>6

-----------------------------------------------------------------------------
(* The inductive invariant of the files.  It holds when no write is cut    *)
(* short, every write is flushed, every event has inline data and the      *)
(* files are not compressed; without any of the four there are states, in  *)
(* the runs and configurations of the README, where it does not.           *)

Dependable ==
    /\ SyncModes \subseteq {"flush"} /\ CompressModes \subseteq {FALSE}
    /\ 0 \notin DataSizes /\ MaxFaults = 0

\* the place f, o of a file is one which no load has still to read
Passed(sc, f, o) == ~sc.on \/ f < sc.file \/ (f = sc.file /\ o < sc.read)

IsFound(L, f, o) == \E l \in L : l.file = f /\ l.offset = o

\* every pending event of the files is in a file which loads read, and in
\* the index L unless a load has still to read it
Found(c, L, files, sc) ==
    \A f \in Files : \A o \in Nat : ActiveAt(c[f], o) =>
        f < files /\ (Passed(sc, f, o) => IsFound(L, f, o))

\* two pending events differ in their identifiers and in their times
Distinct(c) ==
    \A f, g \in Files : \A o, p \in Nat :
        ActiveAt(c[f], o) /\ ActiveAt(c[g], p) /\ (f # g \/ o # p) =>
            /\ c[f][o + 2].id # c[g][p + 2].id
            /\ c[f][o + 1].time # c[g][p + 1].time

InFile(L, f) == {l \in L : l.file = f}

Counted(k, L) ==
    IsFiniteSet(L) /\ \A f \in Files : k[f] = Cardinality(InFile(L, f))

AllLaid(c, n) == \A f \in Files : Laid(c[f], n[f])

Sound(c, n, k, L, files, sc) ==
    AllLaid(c, n) /\ Found(c, L, files, sc) /\ Distinct(c) /\ Counted(k, L)

\* a load stands on an event or behind the last one
Aligned(s, r) == \E b \in Nat : Tiled(s, b) /\ (b <= r \/ EventAt(s, r))

\* a load has opened no file which it has still to read
OpenedBehind(o, sc) ==
    sc.on => \A g \in o : g < sc.file \/ (g = sc.file /\ sc.read > 0)

FileInv ==
    /\ durable = content /\ timebased_replay = event_locations
    /\ adding = NoRequest /\ ~scan.compress
    /\ Sound(content, next_append, event_count, event_locations, conf.files, scan)
    /\ OpenedBehind(opened, scan)
    /\ scan.on /\ scan.read > 0 => Aligned(content[scan.file], scan.read)

\* what a load would say of the pending events of the files c
Facts(s, o) ==
    [id |-> s[o + 2].id, time |-> s[o + 1].time, status |-> s[o + 1].status]
Pending(c, e) ==
    \E f \in Files : \E o \in Nat : ActiveAt(c[f], o) /\ e = Facts(c[f], o)

SameFiles(c, x) == \A f \in Files : SameActive(c[f], x[f])

LEMMA SameFilesRefl ==
    ASSUME NEW c
    PROVE  SameFiles(c, c)
  BY DEF SameFiles, SameActive, SameHead

LEMMA SamePending ==
    ASSUME NEW c, NEW x, SameFiles(c, x)
    PROVE  \A e : Pending(x, e) <=> Pending(c, e)
<1>1. \A f \in Files, o \in Nat : ActiveAt(x[f], o) <=> ActiveAt(c[f], o)
  BY DEF SameFiles, SameActive
<1>2. \A f \in Files, o \in Nat : ActiveAt(c[f], o) => Facts(x[f], o) = Facts(c[f], o)
  BY DEF SameFiles, SameActive, SameHead, Facts
<1>3. QED
  BY <1>1, <1>2 DEF Pending

LEMMA SameSound ==
    ASSUME NEW c, NEW x, SameFiles(c, x), NEW L, NEW files, NEW sc,
           Found(c, L, files, sc), Distinct(c)
    PROVE  Found(x, L, files, sc) /\ Distinct(x)
<1>1. \A f \in Files, o \in Nat :
        /\ ActiveAt(x[f], o) <=> ActiveAt(c[f], o)
        /\ ActiveAt(c[f], o) => x[f][o + 1] = c[f][o + 1] /\ x[f][o + 2] = c[f][o + 2]
  BY DEF SameFiles, SameActive, SameHead
<1>2. Found(x, L, files, sc)
  BY <1>1 DEF Found
<1>3. Distinct(x)
  BY <1>1 DEF Distinct
<1>4. QED
  BY <1>2, <1>3

(* Destroying the file objects nobody refers to keeps the files sound and  *)
(* their pending events the same.                                          *)
LEMMA ReleasedSound ==
    ASSUME NEW c, NEW o, NEW n, NEW k, NEW held, FileTypes(c, c, o, n, k),
           ReleaseFiles(c, c, o, n, k, held),
           timebased_replay' = event_locations',
           Sound(c, n, k, event_locations', conf'.files, scan'),
           \A f \in o : f \in held \/ ~scan'.on \/ f < scan'.file
    PROVE  /\ durable' = content' /\ opened' \subseteq o
           /\ Sound(content', next_append', event_count', event_locations',
                    conf'.files, scan')
           /\ SameFiles(c, content')
           /\ \A f \in Files : f \in held => content'[f] = c[f]
<1> DEFINE L == event_locations'
           used == {l.file : l \in L}
           gone == o \ (used \cup held)
<1>1. used = {l.file : l \in event_locations' \cup timebased_replay'}
  OBVIOUS
<1>2. /\ opened' = o \ gone
      /\ content' = [f \in Files |->
             IF f \in gone THEN Truncate(c[f], n[f]) ELSE c[f]]
      /\ durable' = [f \in Files |->
             IF f \in gone THEN Truncate(c[f], n[f]) ELSE c[f]]
      /\ next_append' = [f \in Files |-> IF f \in gone THEN 0 ELSE n[f]]
      /\ event_count' = [f \in Files |-> IF f \in gone THEN 0 ELSE k[f]]
  BY <1>1 DEF ReleaseFiles
<1>3. /\ AllLaid(c, n) /\ Found(c, L, conf'.files, scan') /\ Distinct(c)
      /\ Counted(k, L)
  BY DEF Sound
<1>4. \A f \in gone : f \in o /\ f \notin used /\ f \notin held
  OBVIOUS
<1>5. \A f \in gone : \A l \in L : l.file # f
  BY <1>4
<1> HIDE DEF gone, used, L
<1>6. ASSUME NEW f \in Files, f \in gone, NEW p \in Nat, ActiveAt(c[f], p)
      PROVE  FALSE
  <2>1. Passed(scan', f, p)
    BY <1>4, <1>6 DEF Passed
  <2>2. IsFound(L, f, p)
    BY <1>3, <1>6, <2>1 DEF Found
  <2>3. QED
    BY <1>5, <1>6, <2>2 DEF IsFound
<1>7. ASSUME NEW f \in Files
      PROVE  Laid(content'[f], next_append'[f]) /\ SameActive(c[f], content'[f])
  <2>1. c[f] \in Seq(Cell) /\ n[f] \in Nat /\ Laid(c[f], n[f])
    BY <1>3 DEF FileTypes, AllLaid
  <2>2. CASE f \in gone
    <3>1. content'[f] = Truncate(c[f], n[f]) /\ next_append'[f] = 0
      BY <1>2, <2>2
    <3>2. Laid(Truncate(c[f], n[f]), 0) /\ SameActive(c[f], Truncate(c[f], n[f]))
      BY <1>6, <2>1, <2>2, TruncateKeeps
    <3>3. QED
      BY <3>1, <3>2
  <2>3. CASE f \notin gone
    <3>1. content'[f] = c[f] /\ next_append'[f] = n[f]
      BY <1>2, <2>3
    <3>2. QED
      BY <2>1, <3>1 DEF SameActive, SameHead
  <2>4. QED
    BY <2>2, <2>3
<1>8. AllLaid(content', next_append') /\ SameFiles(c, content')
  BY <1>7 DEF AllLaid, SameFiles
<1>9. Found(content', L, conf'.files, scan') /\ Distinct(content')
  BY <1>3, <1>8, SameSound
<1>10. Counted(event_count', L)
  <2>1. ASSUME NEW f \in Files
        PROVE  event_count'[f] = Cardinality(InFile(L, f))
    <3>1. CASE f \in gone
      <4>1. InFile(L, f) = {}
        BY <1>5, <3>1 DEF InFile
      <4>2. Cardinality({}) = 0
        BY FS_EmptySet
      <4>3. event_count'[f] = 0
        BY <1>2, <3>1
      <4>4. QED
        BY <4>1, <4>2, <4>3
    <3>2. CASE f \notin gone
      BY <1>2, <1>3, <3>2 DEF Counted
    <3>3. QED
      BY <3>1, <3>2
  <2>2. QED
    BY <1>3, <2>1 DEF Counted
<1>11. \A f \in Files : f \in held => content'[f] = c[f]
  BY <1>2, <1>4
<1>12. opened' \subseteq o
  BY <1>2
<1>13. QED
  BY <1>2, <1>8, <1>9, <1>10, <1>11, <1>12 DEF Sound, L

-----------------------------------------------------------------------------
(* The index and the files.                                                *)

LEMMA InvParts ==
    ASSUME FileInv
    PROVE  /\ AllLaid(content, next_append)
           /\ Found(content, event_locations, conf.files, scan)
           /\ Distinct(content) /\ Counted(event_count, event_locations)
  BY DEF FileInv, Sound

LEMMA FileTyped ==
    ASSUME IndexInvariant, NEW f \in Files
    PROVE  /\ content[f] \in Seq(Cell) /\ next_append[f] \in Nat
           /\ event_count[f] \in Int /\ f \in Nat
<1>1. FileLimit \in Nat
  BY JournalAssumption
<1>2. QED
  BY <1>1, IndexAsIs DEF FileTypes, Files

(* A location points at a pending event of the files. *)
LEMMA LocationActive ==
    ASSUME IndexInvariant, FileInv, NEW l \in event_locations, NEW s,
           s = content[l.file]
    PROVE  /\ l \in Location /\ l.file \in Files /\ l.offset \in Nat /\ s \in Seq(Cell)
           /\ ActiveAt(s, l.offset) /\ EventAt(s, l.offset) /\ WholeAt(s, l.offset)
           /\ s[l.offset + 2].id = l.id /\ s[l.offset + 1].time = l.time
           /\ s[l.offset + 1].status = l.status
           /\ Following(s, l.offset) = End(l) /\ End(l) \in Nat /\ l.offset < End(l)
           /\ l.file \in opened /\ End(l) <= next_append[l.file]
<1>1. /\ l \in Location /\ l.file \in Files /\ End(l) \in Nat /\ StoredIn(s, l)
      /\ l.file \in opened /\ End(l) <= next_append[l.file]
  BY IndexAsIs
<1>2. l.offset \in Nat /\ l.size \in Nat /\ l.status \in Active /\ s \in Seq(Cell)
  BY <1>1, FileTyped DEF Location
<1>3. /\ Len(s) \in Nat /\ End(l) <= Len(s) /\ 2 <= l.size /\ End(l) = l.offset + l.size
      /\ s[l.offset + 1].kind = "ev" /\ s[l.offset + 1].status = l.status
      /\ s[l.offset + 1].size = l.size /\ s[l.offset + 1].time = l.time
      /\ RequestIdAt(s, l.offset) = l.id
  BY <1>1, <1>2, LenProperties DEF StoredIn, EventSize, End
<1>4. l.offset < End(l) /\ l.offset < Len(s)
  BY <1>2, <1>3
<1>5. EventAt(s, l.offset) /\ ActiveAt(s, l.offset)
  BY <1>2, <1>3, <1>4 DEF EventAt, ActiveAt
<1>6. Following(s, l.offset) = End(l)
  BY <1>3 DEF Following
<1>7. PICK b \in Nat : Tiled(s, b)
  BY <1>1, InvParts DEF AllLaid, Laid
<1>8. WholeAt(s, l.offset)
  BY <1>2, <1>5, <1>7, ActiveIsWhole
<1>9. s[l.offset + 2].id = l.id
  BY <1>2, <1>3, <1>5, <1>8, WholeProperties
<1>10. QED
  BY <1>1, <1>2, <1>3, <1>4, <1>5, <1>6, <1>8, <1>9

(* Two locations of one place are the same. *)
LEMMA SameLocation ==
    ASSUME IndexInvariant, FileInv, NEW l \in event_locations,
           NEW x \in event_locations, x.file = l.file, x.offset = l.offset
    PROVE  x = l
<1>1. /\ l.offset \in Nat /\ x.offset \in Nat /\ End(l) \in Nat /\ End(x) \in Nat
      /\ l.offset < End(l) /\ x.offset < End(x)
  BY LocationActive
<1>2. x # l => End(x) <= l.offset \/ End(l) <= x.offset
  BY DEF IndexInvariant, EventsDisjoint
<1>3. QED
  BY <1>1, <1>2

(* Two locations with one identifier, or with one time, are the same. *)
LEMMA LocationsDiffer ==
    ASSUME IndexInvariant, FileInv, NEW l \in event_locations,
           NEW x \in event_locations, x.id = l.id \/ x.time = l.time
    PROVE  x = l
<1>1. /\ l.file \in Files /\ l.offset \in Nat /\ ActiveAt(content[l.file], l.offset)
      /\ content[l.file][l.offset + 2].id = l.id
      /\ content[l.file][l.offset + 1].time = l.time
  BY LocationActive
<1>2. /\ x.file \in Files /\ x.offset \in Nat /\ ActiveAt(content[x.file], x.offset)
      /\ content[x.file][x.offset + 2].id = x.id
      /\ content[x.file][x.offset + 1].time = x.time
  BY LocationActive
<1>3. Distinct(content)
  BY InvParts
<1>4. ~(x.file # l.file \/ x.offset # l.offset)
  BY SMTT(30), <1>1, <1>2, <1>3 DEF Distinct
<1>5. QED
  BY <1>4, SameLocation

(* The location of a pending event which no load has still to read. *)
LEMMA FoundLocation ==
    ASSUME IndexInvariant, FileInv, NEW f \in Files, NEW o \in Nat,
           ActiveAt(content[f], o), Passed(scan, f, o)
    PROVE  \E l \in event_locations :
               /\ l.file = f /\ l.offset = o
               /\ content[f][o + 2].id = l.id /\ content[f][o + 1].time = l.time
               /\ content[f][o + 1].status = l.status
               /\ f \in opened /\ o < next_append[f]
<1>1. PICK l \in event_locations : l.file = f /\ l.offset = o
  BY InvParts DEF Found, IsFound
<1>2. /\ content[l.file][l.offset + 2].id = l.id
      /\ content[l.file][l.offset + 1].time = l.time
      /\ content[l.file][l.offset + 1].status = l.status
      /\ End(l) \in Nat /\ l.offset < End(l)
      /\ l.file \in opened /\ End(l) <= next_append[l.file]
  BY LocationActive
<1>3. next_append[f] \in Nat
  BY FileTyped
<1>4. QED
  BY <1>1, <1>2, <1>3

(* What a load reads of the files. *)
LEMMA PersistedPending ==
    ASSUME NEW c \in [Files -> Seq(Cell)], NEW n, AllLaid(c, n), NEW files \in Nat,
           0 .. (files - 1) \subseteq Files,
           \A f \in Files, o \in Nat : ActiveAt(c[f], o) => f < files, NEW e
    PROVE  e \in UNION {PersistedIn(c[f]) : f \in 0 .. (files - 1)} <=> Pending(c, e)
<1>1. ASSUME NEW f \in Files
      PROVE  e \in PersistedIn(c[f]) <=>
                 \E o \in Nat : ActiveAt(c[f], o) /\ e = Facts(c[f], o)
  <2>1. c[f] \in Seq(Cell)
    OBVIOUS
  <2>2. PICK b \in Nat : Tiled(c[f], b)
    BY DEF AllLaid, Laid
  <2>3. \A o \in Nat : ActiveAt(c[f], o) => Record(c[f], o) = Facts(c[f], o)
    <3>1. ASSUME NEW o \in Nat, ActiveAt(c[f], o)
          PROVE  RequestIdAt(c[f], o) = c[f][o + 2].id
      <4>1. EventAt(c[f], o) /\ WholeAt(c[f], o)
        BY <2>1, <2>2, <3>1, ActiveIsWhole
      <4>2. QED
        BY <2>1, <4>1, WholeProperties
    <3>2. QED
      BY <3>1 DEF Record, Facts
  <2>4. e \in PersistedIn(c[f]) <=>
            \E o \in Nat : ActiveAt(c[f], o) /\ e = Record(c[f], o)
    BY <2>1, <2>2, PersistedInTiled
  <2>5. QED
    BY <2>3, <2>4
<1>2. \A f \in Files, o \in Nat : ActiveAt(c[f], o) => f \in 0 .. (files - 1)
  <2>1. \A f \in Files : f \in Nat
    BY JournalAssumption DEF Files
  <2>2. \A f \in Files : f < files => f \in 0 .. (files - 1)
    BY <2>1
  <2>3. QED
    BY <2>2
<1>3. ASSUME e \in UNION {PersistedIn(c[f]) : f \in 0 .. (files - 1)}
      PROVE  Pending(c, e)
  <2>1. PICK f \in 0 .. (files - 1) : e \in PersistedIn(c[f])
    BY <1>3
  <2>2. QED
    BY <1>1, <2>1 DEF Pending
<1>4. ASSUME Pending(c, e)
      PROVE  e \in UNION {PersistedIn(c[f]) : f \in 0 .. (files - 1)}
  <2>1. PICK f \in Files : \E o \in Nat : ActiveAt(c[f], o) /\ e = Facts(c[f], o)
    BY <1>4 DEF Pending
  <2>2. e \in PersistedIn(c[f]) /\ f \in 0 .. (files - 1)
    BY <1>1, <1>2, <2>1
  <2>3. QED
    BY <2>2
<1>5. QED
  BY <1>3, <1>4

-----------------------------------------------------------------------------
(* One lemma for each action.  SameFiles says that the pending events of   *)
(* the files are the same before and after.                                *)

LEMMA InvNext ==
    ASSUME durable' = content', timebased_replay' = event_locations',
           adding' = NoRequest, ~scan'.compress,
           Sound(content', next_append', event_count', event_locations',
                 conf'.files, scan'),
           OpenedBehind(opened', scan'),
           scan'.on /\ scan'.read > 0 => Aligned(content'[scan'.file], scan'.read)
    PROVE  FileInv'
  BY DEF FileInv

LEMMA DependableState ==
    ASSUME IndexInvariant, Dependable
    PROVE  conf.sync = "flush" /\ ~conf.compress /\ ~CutShort
<1>1. conf \in Configurations /\ faults \in 0 .. MaxFaults
  BY IndexAsIs DEF RestOK
<1>2. conf.sync \in SyncModes /\ conf.compress \in CompressModes
  BY <1>1 DEF Configurations
<1>3. conf.sync = "flush" /\ ~conf.compress
  BY <1>2 DEF Dependable
<1>4. ~CutShort
  BY <1>1 DEF Dependable, CutShort
<1>5. QED
  BY <1>3, <1>4

(* Files are opened and closed, outside of a load. *)
LEMMA OpenedKeepsFiles ==
    ASSUME IndexInvariant, FileInv, NEW tried \in SUBSET Files,
           ReleaseFiles(content, durable, opened \cup tried, next_append,
                        event_count, {}),
           UNCHANGED <<event_locations, timebased_replay, scan>>,
           ~scan.on, adding' = NoRequest,
           Found(content, event_locations, conf'.files, scan)
    PROVE  FileInv' /\ SameFiles(content, content')
<1> DEFINE o == opened \cup tried
<1>1. durable = content /\ timebased_replay = event_locations /\ ~scan.compress
  BY DEF FileInv
<1>2. FileTypes(content, content, o, next_append, event_count)
  BY IndexAsIs DEF FileTypes
<1>3. ReleaseFiles(content, content, o, next_append, event_count, {})
  BY <1>1
<1>4. Sound(content, next_append, event_count, event_locations', conf'.files, scan')
  BY InvParts DEF Sound
<1>5. timebased_replay' = event_locations' /\ ~scan'.on /\ ~scan'.compress
  BY <1>1
<1> HIDE DEF o
<1>6. /\ durable' = content'
      /\ Sound(content', next_append', event_count', event_locations',
               conf'.files, scan')
      /\ SameFiles(content, content')
  BY <1>2, <1>3, <1>4, <1>5, ReleasedSound
<1>7. OpenedBehind(opened', scan')
  BY <1>5 DEF OpenedBehind
<1>8. QED
  BY <1>5, <1>6, <1>7, InvNext

LEMMA RefuseKeepsFiles ==
    ASSUME IndexInvariant, FileInv, ~scan.on, Refuse
    PROVE  FileInv' /\ SameFiles(content, content')
<1>1. /\ ReleaseFiles(content, durable, opened \cup 0 .. (conf.files - 1),
                      next_append, event_count, {})
      /\ UNCHANGED <<event_locations, timebased_replay, scan>>
      /\ adding' = NoRequest /\ conf' = conf
  BY DEF Refuse, indexVars
<1>2. 0 .. (conf.files - 1) \in SUBSET Files
  BY IndexAsIs, FileRanges
<1>3. Found(content, event_locations, conf'.files, scan)
  BY <1>1, InvParts
<1>4. QED
  BY <1>1, <1>2, <1>3, OpenedKeepsFiles

LEMMA SetMaximumKeepsFiles ==
    ASSUME IndexInvariant, FileInv, NEW m \in FileCounts, SetMaximumNumberOfFiles(m)
    PROVE  FileInv' /\ SameFiles(content, content')
<1> DEFINE over == {f \in Files : m <= f /\ f < conf.files}
           InUse(f) == \E l \in event_locations : l.file = f
           tried == {f \in over : /\ content[f] # << >>
                                  /\ \A g \in over : g < f => ~InUse(g)}
<1>1. /\ ~scan.on
      /\ UNCHANGED <<event_locations, timebased_replay, scan>>
      /\ ReleaseFiles(content, durable, opened \cup tried, next_append,
                      event_count, {})
      /\ IF \E f \in over : InUse(f) THEN UNCHANGED conf
         ELSE conf' = [conf EXCEPT !.files = m]
      /\ adding' = NoRequest
  BY DEF SetMaximumNumberOfFiles, SaveConfiguration, Ready, indexVars
<1>2. tried \in SUBSET Files
  OBVIOUS
<1> HIDE DEF tried
<1>3. m \in Nat /\ conf \in Configurations /\ conf.files \in Nat
  BY JournalAssumption, IndexAsIs, FileRanges DEF RestOK
<1>4. Found(content, event_locations, conf.files, scan)
  BY InvParts
<1>5. Found(content, event_locations, conf'.files, scan)
  <2>1. CASE \E f \in over : InUse(f)
    BY <1>1, <1>4, <2>1
  <2>2. CASE ~\E f \in over : InUse(f)
    <3>1. conf'.files = m
      BY <1>1, <1>3, <2>2 DEF Configurations
    <3>2. ASSUME NEW f \in Files, NEW o \in Nat, ActiveAt(content[f], o)
          PROVE  f < m /\ IsFound(event_locations, f, o)
      <4>1. f < conf.files /\ IsFound(event_locations, f, o)
        BY <1>1, <1>4, <3>2 DEF Found, Passed
      <4>2. InUse(f)
        BY <4>1 DEF IsFound
      <4>3. f \notin over
        BY <2>2, <4>2
      <4>4. f \in Nat
        BY FileTyped
      <4>5. QED
        BY <1>3, <4>1, <4>3, <4>4
    <3>3. QED
      BY <3>1, <3>2 DEF Found
  <2>3. QED
    BY <2>1, <2>2
<1>6. QED
  BY <1>1, <1>2, <1>5, OpenedKeepsFiles

LEMMA SetOptionKeepsFiles ==
    ASSUME IndexInvariant, FileInv, NEW c \in Configurations, SetOption(c)
    PROVE  FileInv' /\ SameFiles(content, content')
<1>1. /\ conf' = c
      /\ \E o \in {"size", "events", "sync", "management", "compress"} :
             c = [conf EXCEPT ![o] = c[o]]
      /\ UNCHANGED <<content, durable, opened, next_append, event_count>>
      /\ UNCHANGED <<event_locations, timebased_replay, scan, adding>>
  BY DEF SetOption, SaveConfiguration, fileVars, indexVars
<1>2. conf \in Configurations
  BY IndexAsIs DEF RestOK
<1>3. conf'.files = conf.files
  BY <1>1, <1>2 DEF Configurations
<1>4. FileInv'
  BY <1>1, <1>3 DEF FileInv
<1>5. QED
  BY <1>1, <1>4, SameFilesRefl

(* The process ends and the next one starts with the same pending events.  *)
LEMMA BootKeepsFiles ==
    ASSUME IndexInvariant, FileInv, NEW disk \in [Files -> Seq(Cell)], Boot(disk),
           \A f \in Files : Laid(disk[f], 0), SameFiles(content, disk)
    PROVE  FileInv' /\ SameFiles(content, content')
<1>1. /\ content' = disk /\ durable' = disk /\ opened' = {}
      /\ next_append' = [f \in Files |-> 0] /\ event_count' = [f \in Files |-> 0]
      /\ event_locations' = {} /\ timebased_replay' = {}
      /\ adding' = NoRequest /\ conf' = conf
      /\ scan'.on = TRUE /\ scan'.compress = FALSE /\ scan'.file = 0 /\ scan'.read = 0
  BY DEF Boot, LoadConfiguration, StartScan, ScanState
<1>2. Found(disk, event_locations, conf.files, scan) /\ Distinct(disk)
  BY InvParts, SameSound
<1>3. Found(disk, {}, conf.files, scan')
  <2>1. ASSUME NEW f \in Files, NEW o \in Nat
        PROVE  ~Passed(scan', f, o)
    <3>1. f \in Nat
      BY FileTyped
    <3>2. QED
      BY <1>1, <3>1 DEF Passed
  <2>2. QED
    BY <1>2, <2>1 DEF Found
<1>4. AllLaid(disk, next_append')
  BY <1>1 DEF AllLaid
<1>5. Counted(event_count', {})
  <2>1. IsFiniteSet({}) /\ Cardinality({}) = 0
    BY FS_EmptySet
  <2>2. \A f \in Files : InFile({}, f) = {}
    BY DEF InFile
  <2>3. QED
    BY <1>1, <2>1, <2>2 DEF Counted
<1>6. Sound(content', next_append', event_count', event_locations', conf'.files, scan')
  BY <1>1, <1>2, <1>3, <1>4, <1>5 DEF Sound
<1>7. OpenedBehind(opened', scan')
  BY <1>1 DEF OpenedBehind
<1>8. FileInv'
  BY <1>1, <1>6, <1>7, InvNext
<1>9. QED
  BY <1>1, <1>8

LEMMA CrashKeepsFiles ==
    ASSUME IndexInvariant, FileInv, Crash
    PROVE  FileInv' /\ SameFiles(content, content')
<1>1. Boot(content) /\ content \in [Files -> Seq(Cell)]
  BY IndexAsIs DEF Crash, FileInv, FileTypes
<1>2. \A f \in Files : Laid(content[f], 0)
  BY InvParts DEF AllLaid, Laid
<1>3. QED
  BY <1>1, <1>2, SameFilesRefl, BootKeepsFiles

LEMMA ReopenKeepsFiles ==
    ASSUME IndexInvariant, FileInv, Reopen
    PROVE  FileInv' /\ SameFiles(content, content')
<1> DEFINE disk == [f \in Files |->
                IF f \in opened THEN Truncate(content[f], next_append[f])
                ELSE content[f]]
<1>1. ~scan.on /\ Boot(disk)
  BY DEF Reopen, Ready
<1>2. ASSUME NEW f \in Files
      PROVE  /\ disk[f] \in Seq(Cell) /\ Laid(disk[f], 0)
             /\ SameActive(content[f], disk[f])
  <2>1. content[f] \in Seq(Cell) /\ next_append[f] \in Nat /\ Laid(content[f], next_append[f])
    BY FileTyped, InvParts DEF AllLaid
  <2>2. CASE f \in opened
    <3>1. \A o \in Nat : ActiveAt(content[f], o) => o < next_append[f]
      BY <1>1, FoundLocation DEF Passed
    <3>2. disk[f] = Truncate(content[f], next_append[f])
      BY <2>2
    <3> HIDE DEF disk
    <3>3. QED
      BY <2>1, <3>1, <3>2, TruncateKeeps
  <2>3. CASE f \notin opened
    <3>1. disk[f] = content[f]
      BY <2>3
    <3> HIDE DEF disk
    <3>2. QED
      BY <2>1, <3>1 DEF Laid, SameActive, SameHead
  <2>4. QED
    BY <2>2, <2>3
<1>3. disk = [f \in Files |-> disk[f]]
  OBVIOUS
<1> HIDE DEF disk
<1>4. disk \in [Files -> Seq(Cell)]
  BY <1>2, <1>3
<1>5. SameFiles(content, disk)
  BY <1>2 DEF SameFiles
<1>6. QED
  BY <1>1, <1>2, <1>4, <1>5, BootKeepsFiles

-----------------------------------------------------------------------------
(* The steps of a load.                                                    *)

LEMMA ScanFacts ==
    ASSUME IndexInvariant, FileInv, scan.on, scan.file < conf.files
    PROVE  /\ scan.file \in Files /\ scan.file \in Nat /\ scan.read \in Nat
           /\ scan \in ScanType
           /\ Scanned = content[scan.file] /\ Scanned \in Seq(Cell)
           /\ ScanSynced = content /\ durable = content
           /\ FileTypes(content, content, opened \cup {scan.file}, next_append, event_count)
<1>1. scan.file \in Files /\ Scanned \in Seq(Cell)
  BY ScanSyncedType
<1>2. scan \in ScanType /\ scan.file \in Nat /\ scan.read \in Nat
  BY IndexAsIs, ScanFields
<1>3. FileTypes(content, durable, opened, next_append, event_count) /\ durable = content
  BY IndexAsIs DEF FileInv
<1>4. ScanSynced = content
  BY <1>1, <1>3 DEF ScanSynced, Scanned, FileTypes
<1>5. FileTypes(content, content, opened \cup {scan.file}, next_append, event_count)
  BY <1>1, <1>3 DEF FileTypes
<1>6. QED
  BY <1>1, <1>2, <1>3, <1>4, <1>5 DEF Scanned

(* A load is done with the file it reads and goes on to the next one. *)
LEMMA NextFileSound ==
    ASSUME IndexInvariant, FileInv, scan.on, scan.file < conf.files,
           NEW k, NEW o \in SUBSET Files, o \subseteq opened \cup {scan.file},
           FileTypes(content, content, o, next_append, k),
           Counted(k, event_locations),
           \A p \in Nat : ActiveAt(content[scan.file], p) => Passed(scan, scan.file, p),
           \/ ReleaseFiles(content, content, o, next_append, k, {})
           \/ UNCHANGED fileVars,
           scan' = NextFile,
           UNCHANGED <<event_locations, timebased_replay, conf, adding>>
    PROVE  FileInv' /\ SameFiles(content, content')
<1>1. /\ scan.file \in Files /\ scan.file \in Nat /\ scan \in ScanType
      /\ timebased_replay' = event_locations' /\ adding' = NoRequest
      /\ ~scan.compress /\ durable = content
  BY ScanFacts DEF FileInv
<1>2. /\ scan'.on = TRUE /\ scan'.file = scan.file + 1 /\ scan'.read = 0
      /\ ~scan'.compress
  BY <1>1 DEF NextFile, ScanType
<1>3. Found(content, event_locations', conf'.files, scan')
  <2>1. ASSUME NEW f \in Files, NEW p \in Nat, ActiveAt(content[f], p), Passed(scan', f, p)
        PROVE  Passed(scan, f, p)
    <3>1. f \in Nat
      BY FileTyped
    <3>2. f < scan.file \/ f = scan.file
      BY <1>1, <1>2, <2>1, <3>1 DEF Passed
    <3>3. QED
      BY <2>1, <3>2 DEF Passed
  <2>2. Found(content, event_locations, conf.files, scan)
    BY InvParts
  <2>3. QED
    BY <2>1, <2>2 DEF Found
<1>4. Sound(content, next_append, k, event_locations', conf'.files, scan')
  BY <1>3, InvParts DEF Sound
<1>5. \A f \in opened \cup {scan.file} : f < scan'.file
  <2>1. \A f \in opened : f < scan.file \/ f = scan.file
    BY DEF FileInv, OpenedBehind
  <2>2. \A f \in opened : f \in Nat
    BY IndexAsIs, FileTyped DEF FileTypes
  <2>3. QED
    BY <1>1, <1>2, <2>1, <2>2
<1>6. CASE ReleaseFiles(content, content, o, next_append, k, {})
  <2>1. \A f \in o : f < scan'.file
    BY <1>5
  <2>2. /\ durable' = content' /\ opened' \subseteq o
        /\ Sound(content', next_append', event_count', event_locations',
                 conf'.files, scan')
        /\ SameFiles(content, content')
    BY <1>1, <1>4, <1>6, <2>1, ReleasedSound
  <2>3. OpenedBehind(opened', scan')
    BY <2>1, <2>2 DEF OpenedBehind
  <2>4. ~(scan'.read > 0)
    BY <1>2
  <2>5. QED
    BY <1>1, <1>2, <2>2, <2>3, <2>4, InvNext
<1>7. CASE UNCHANGED fileVars
  <2>1. UNCHANGED <<content, durable, opened, next_append, event_count>>
    BY <1>7 DEF fileVars
  <2>2. Sound(content', next_append', event_count', event_locations', conf'.files, scan')
    BY <1>3, <2>1, InvParts DEF Sound
  <2>3. OpenedBehind(opened', scan')
    BY <1>5, <2>1 DEF OpenedBehind
  <2>4. ~(scan'.read > 0) /\ durable' = content'
    BY <1>1, <1>2, <2>1
  <2>5. FileInv'
    BY <1>1, <1>2, <2>2, <2>3, <2>4, InvNext
  <2>6. QED
    BY <2>1, <2>5, SameFilesRefl
<1>8. QED
  BY <1>6, <1>7

(* Opening a file resets the number of its events, none of which is in the *)
(* index yet.                                                              *)
LEMMA ResetCounted ==
    ASSUME IndexInvariant, FileInv, scan.on, scan.read = 0, scan.file < conf.files
    PROVE  Counted(ResetEventCount(scan.file), event_locations)
<1>1. Counted(event_count, event_locations) /\ scan.file \in Files /\ scan.file \in Nat
  BY InvParts, ScanFacts
<1>2. InFile(event_locations, scan.file) = {}
  <2>1. \A l \in event_locations : l.file < scan.file /\ l.file \in Nat
    BY IndexAsIs, FileTyped DEF IndexInvariant, ScanInBounds
  <2>2. \A l \in event_locations : l.file # scan.file
    BY <1>1, <2>1
  <2>3. QED
    BY <2>2 DEF InFile
<1>3. Cardinality({}) = 0
  BY FS_EmptySet
<1>4. event_count \in [Files -> Int]
  BY IndexAsIs DEF FileTypes
<1>5. QED
  BY <1>1, <1>2, <1>3, <1>4 DEF Counted, ResetEventCount

LEMMA SkipKeepsFiles ==
    ASSUME IndexInvariant, FileInv, ScanSkipFile
    PROVE  FileInv' /\ SameFiles(content, content')
<1> DEFINE k == ResetEventCount(scan.file)
           o == opened \cup {scan.file}
<1>1. /\ scan.on /\ scan.read = 0 /\ scan.file < conf.files /\ ~HasHeader(Scanned)
      /\ \/ UNCHANGED fileVars
         \/ ReleaseFiles(content, ScanSynced, o, next_append, k, {})
      /\ scan' = NextFile
      /\ UNCHANGED <<event_locations, timebased_replay, conf, adding>>
  BY DEF ScanSkipFile, indexVars
<1>2. /\ scan.file \in Files /\ Scanned = content[scan.file] /\ ScanSynced = content
      /\ Scanned \in Seq(Cell)
      /\ FileTypes(content, content, o, next_append, event_count)
  BY <1>1, ScanFacts
<1>3. FileTypes(content, content, o, next_append, k) /\ o \in SUBSET Files
  BY <1>2 DEF FileTypes, ResetEventCount
<1>4. Counted(k, event_locations)
  BY <1>1, ResetCounted
<1>5. \A p \in Nat : ~ActiveAt(content[scan.file], p)
  <2>1. PICK b \in Nat : Tiled(Scanned, b)
    BY <1>2, InvParts DEF AllLaid, Laid
  <2>2. QED
    BY <1>1, <1>2, <2>1, ActiveIsWhole
<1> HIDE DEF k
<1>6. \/ ReleaseFiles(content, content, o, next_append, k, {})
      \/ UNCHANGED fileVars
  BY <1>1, <1>2
<1> HIDE DEF o
<1>7. o \subseteq opened \cup {scan.file}
  BY DEF o
<1>8. QED
  BY <1>1, <1>3, <1>4, <1>5, <1>6, <1>7, NextFileSound

(* No event is pending at or behind a place which is not an event. *)
LEMMA CloseKeepsFiles ==
    ASSUME IndexInvariant, FileInv, ScanCloseFile
    PROVE  FileInv' /\ SameFiles(content, content')
<1>1. /\ scan.on /\ scan.read > 0 /\ ~ValidEventAt(Scanned, scan.read)
      /\ ReleaseFiles(content, ScanSynced, opened, next_append, event_count, {})
      /\ scan' = NextFile
      /\ UNCHANGED <<event_locations, timebased_replay, conf, adding>>
  BY DEF ScanCloseFile, indexVars
<1>2. scan.file < conf.files
  BY <1>1 DEF IndexInvariant, ScanInBounds
<1>3. /\ scan.file \in Files /\ scan.read \in Nat
      /\ Scanned = content[scan.file] /\ ScanSynced = content
      /\ Scanned \in Seq(Cell)
      /\ FileTypes(content, content, opened, next_append, event_count)
  BY <1>1, <1>2, ScanFacts, IndexAsIs DEF FileTypes
<1>4. PICK b \in Nat : Tiled(Scanned, b) /\ (b <= scan.read \/ EventAt(Scanned, scan.read))
  BY <1>1, <1>3 DEF FileInv, Aligned
<1>5. b <= scan.read
  <2>1. ASSUME EventAt(Scanned, scan.read), scan.read < b PROVE FALSE
    <3>1. WholeAt(Scanned, scan.read)
      BY <1>3, <1>4, <2>1 DEF Tiled, TiledTo
    <3>2. QED
      BY <1>1, <1>3, <2>1, <3>1, WholeProperties
  <2>2. QED
    BY <1>3, <1>4, <2>1
<1>6. ASSUME NEW p \in Nat, ActiveAt(content[scan.file], p)
      PROVE  Passed(scan, scan.file, p)
  <2>1. p < b
    BY <1>3, <1>4, <1>6, ActiveIsWhole
  <2>2. QED
    BY <1>3, <1>5, <2>1 DEF Passed
<1>7. opened \in SUBSET Files /\ opened \subseteq opened \cup {scan.file}
  BY <1>3 DEF FileTypes
<1>8. QED
  BY <1>1, <1>2, <1>3, <1>6, <1>7, InvParts, NextFileSound

LEMMA OpenKeepsFiles ==
    ASSUME IndexInvariant, FileInv, ScanOpenFile
    PROVE  FileInv' /\ SameFiles(content, content')
<1>1. /\ scan.on /\ scan.read = 0 /\ scan.file < conf.files /\ HasHeader(Scanned)
      /\ opened' = opened \cup {scan.file}
      /\ event_count' = ResetEventCount(scan.file)
      /\ durable' = ScanSynced
      /\ scan' = [scan EXCEPT !.read = HeaderSize]
      /\ UNCHANGED <<content, next_append, event_locations, timebased_replay>>
      /\ UNCHANGED <<conf, adding>>
  BY DEF ScanOpenFile, indexVars
<1>2. /\ scan.file \in Files /\ Scanned = content[scan.file] /\ ScanSynced = content
      /\ Scanned \in Seq(Cell) /\ scan \in ScanType
      /\ timebased_replay = event_locations /\ adding = NoRequest /\ ~scan.compress
  BY <1>1, ScanFacts DEF FileInv
<1>3. /\ scan'.on = TRUE /\ scan'.file = scan.file /\ scan'.read = 1 /\ ~scan'.compress
  BY <1>1, <1>2 DEF HeaderSize, ScanType
<1>4. PICK b \in Nat : Tiled(Scanned, b)
  BY <1>2, InvParts DEF AllLaid, Laid
<1>5. Aligned(Scanned, 1)
  BY <1>4 DEF Aligned, Tiled, TiledTo, HeaderSize
<1>6. Found(content, event_locations, conf.files, scan')
  <2>1. ASSUME NEW f \in Files, NEW p \in Nat, ActiveAt(content[f], p), Passed(scan', f, p)
        PROVE  Passed(scan, f, p)
    <3>1. CASE f = scan.file
      <4>1. 1 <= p
        BY <1>2, <1>4, <2>1, <3>1, ActiveIsWhole DEF HeaderSize
      <4>2. f \in Nat
        BY FileTyped
      <4>3. QED
        BY <1>3, <2>1, <3>1, <4>1, <4>2 DEF Passed
    <3>2. CASE f # scan.file
      BY <1>3, <2>1, <3>2 DEF Passed
    <3>3. QED
      BY <3>1, <3>2
  <2>2. Found(content, event_locations, conf.files, scan)
    BY InvParts
  <2>3. QED
    BY <2>1, <2>2 DEF Found
<1>7. Counted(event_count', event_locations)
  BY <1>1, ResetCounted
<1>8. Sound(content', next_append', event_count', event_locations', conf'.files, scan')
  BY <1>1, <1>6, <1>7, InvParts DEF Sound
<1>9. OpenedBehind(opened', scan')
  <2>1. \A f \in opened : f < scan.file \/ f = scan.file
    BY <1>1 DEF FileInv, OpenedBehind
  <2>2. QED
    BY <1>1, <1>3, <2>1 DEF OpenedBehind
<1>10. Aligned(content'[scan'.file], scan'.read)
  BY <1>1, <1>2, <1>3, <1>5
<1>11. durable' = content' /\ timebased_replay' = event_locations' /\ adding' = NoRequest
  BY <1>1, <1>2
<1>12. FileInv'
  BY <1>3, <1>8, <1>9, <1>10, <1>11, InvNext
<1>13. QED
  BY <1>1, <1>12, SameFilesRefl

LEMMA EndKeepsFiles ==
    ASSUME IndexInvariant, FileInv, ScanEnd
    PROVE  FileInv' /\ SameFiles(content, content')
<1>1. /\ scan.on /\ scan.file >= conf.files /\ scan' = NotScanning
      /\ UNCHANGED <<content, durable, opened, next_append, event_count>>
      /\ UNCHANGED <<event_locations, timebased_replay, conf, adding>>
  BY DEF ScanEnd, fileVars, indexVars
<1>2. scan'.on = FALSE /\ scan'.compress = FALSE
  BY <1>1 DEF NotScanning, ScanState
<1>3. scan.file \in Nat /\ conf.files \in Nat
  BY IndexAsIs, ScanFields, FileRanges
<1>4. Found(content, event_locations, conf.files, scan')
  <2>1. Found(content, event_locations, conf.files, scan)
    BY InvParts
  <2>2. ASSUME NEW f \in Files, NEW p \in Nat, ActiveAt(content[f], p)
        PROVE  Passed(scan, f, p)
    <3>1. f < conf.files /\ f \in Nat
      BY <2>1, <2>2, FileTyped DEF Found
    <3>2. QED
      BY <1>1, <1>3, <3>1 DEF Passed
  <2>3. QED
    BY <2>1, <2>2 DEF Found
<1>5. Sound(content', next_append', event_count', event_locations', conf'.files, scan')
  BY <1>1, <1>4, InvParts DEF Sound
<1>6. OpenedBehind(opened', scan')
  BY <1>2 DEF OpenedBehind
<1>7. durable' = content' /\ timebased_replay' = event_locations' /\ adding' = NoRequest
  BY <1>1 DEF FileInv
<1>8. FileInv'
  BY <1>2, <1>5, <1>6, <1>7, InvNext
<1>9. QED
  BY <1>1, <1>8, SameFilesRefl

(* The event a load stands on, and the place behind it. *)
LEMMA ScannedAligned ==
    ASSUME IndexInvariant, FileInv, scan.on, scan.read > 0,
           ValidEventAt(Scanned, scan.read), NEW r, r = scan.read + ScannedEvent.size
    PROVE  /\ scan.file < conf.files /\ r = Following(Scanned, scan.read)
           /\ r \in Nat /\ scan.read < r /\ Aligned(Scanned, r)
           /\ EventAt(Scanned, scan.read)
           /\ \A p \in Nat : ActiveAt(Scanned, p) /\ p < r => p <= scan.read
           /\ ScannedEvent.status \in Active =>
                HasHeader(Scanned) /\ Laid(Scanned, r)
<1>1. /\ scan.file < conf.files /\ scan.read \in Nat /\ Scanned \in Seq(Cell)
      /\ Len(Scanned) \in Nat /\ ScannedEvent.size \in Nat /\ 2 < ScannedEvent.size
  BY ScannedProperties
<1>2. EventAt(Scanned, scan.read)
  BY <1>1 DEF ValidEventAt, EventAt
<1>3. r = Following(Scanned, scan.read) /\ r \in Nat /\ scan.read < r
  BY <1>1 DEF Following, ScannedEvent
<1>4. PICK b \in Nat : Tiled(Scanned, b) /\ (b <= scan.read \/ EventAt(Scanned, scan.read))
  BY DEF FileInv, Aligned, Scanned
<1>5. CASE b <= scan.read
  <2>1. Aligned(Scanned, r)
    <3>1. b <= r
      BY <1>1, <1>3, <1>5
    <3>2. QED
      BY <1>4, <3>1 DEF Aligned
  <2>2. ASSUME NEW p \in Nat, ActiveAt(Scanned, p) PROVE p <= scan.read
    <3>1. p < b
      BY <1>1, <1>4, <2>2, ActiveIsWhole
    <3>2. QED
      BY <1>1, <1>5, <3>1
  <2>3. ScannedEvent.status \notin Active
    <3>1. ScannedEvent.status \in Final
      BY <1>1, <1>2, <1>4, <1>5 DEF Tiled, QuietFrom, ScannedEvent
    <3>2. QED
      BY <3>1 DEF Active, Final
  <2>4. QED
    BY <1>1, <1>2, <1>3, <2>1, <2>2, <2>3
<1>6. CASE scan.read < b
  <2>1. /\ WholeAt(Scanned, scan.read) /\ r <= b /\ (r < b => EventAt(Scanned, r))
    BY <1>1, <1>2, <1>3, <1>4, <1>6 DEF Tiled, TiledTo
  <2>2. Aligned(Scanned, r) /\ OnBoundary(Scanned, b, r)
    <3>1. r = b \/ (r < b /\ EventAt(Scanned, r))
      BY <1>3, <2>1
    <3>2. b <= r \/ EventAt(Scanned, r)
      BY <3>1
    <3>3. QED
      BY <1>4, <3>1, <3>2 DEF Aligned, OnBoundary
  <2>3. \A p \in Nat : EventAt(Scanned, p) /\ scan.read < p => r <= p
    BY <1>1, <1>2, <1>3, <2>1, WholeProperties
  <2>4. \A p \in Nat : ActiveAt(Scanned, p) /\ p < r => p <= scan.read
    BY <1>1, <1>3, <2>3 DEF ActiveAt
  <2>5. HasHeader(Scanned)
    BY <1>1, <1>4, <1>6 DEF Tiled, TiledTo, HeaderSize
  <2>6. Laid(Scanned, r)
    BY <1>4, <2>2, <2>5 DEF Laid
  <2>7. QED
    BY <1>1, <1>2, <1>3, <2>2, <2>4, <2>5, <2>6
<1>7. QED
  BY <1>1, <1>4, <1>5, <1>6

LEMMA FinishedKeepsFiles ==
    ASSUME IndexInvariant, FileInv, ScanFinishedEvent
    PROVE  FileInv' /\ SameFiles(content, content')
<1> DEFINE r == scan.read + ScannedEvent.size
<1>1. /\ scan.on /\ scan.read > 0 /\ ValidEventAt(Scanned, scan.read)
      /\ ScannedEvent.status \in Final
      /\ scan' = [scan EXCEPT !.read = r, !.found = TRUE,
                              !.write = IF scan.found THEN @ ELSE scan.read]
      /\ durable' = ScanSynced
      /\ UNCHANGED <<content, opened, next_append, event_count, event_locations,
                     timebased_replay>>
      /\ UNCHANGED <<conf, adding>>
  BY DEF ScanFinishedEvent, indexVars
<1>2. /\ scan.file < conf.files /\ r \in Nat /\ scan.read < r
      /\ Aligned(Scanned, r)
      /\ \A p \in Nat : ActiveAt(Scanned, p) /\ p < r => p <= scan.read
  BY <1>1, ScannedAligned
<1>3. /\ scan.file \in Files /\ scan.read \in Nat
      /\ Scanned = content[scan.file] /\ ScanSynced = content
      /\ scan \in ScanType
      /\ timebased_replay = event_locations /\ adding = NoRequest /\ ~scan.compress
  BY <1>1, <1>2, ScanFacts DEF FileInv
<1> HIDE DEF r
<1>4. /\ scan'.on = TRUE /\ scan'.file = scan.file /\ scan'.read = r /\ ~scan'.compress
  BY <1>1, <1>3 DEF ScanType
<1>5. ~ActiveAt(Scanned, scan.read)
  BY <1>1 DEF ActiveAt, ScannedEvent, Active, Final
<1>6. Found(content, event_locations, conf.files, scan')
  <2>1. ASSUME NEW f \in Files, NEW p \in Nat, ActiveAt(content[f], p), Passed(scan', f, p)
        PROVE  Passed(scan, f, p)
    <3>1. CASE f = scan.file
      <4>1. f \in Nat
        BY FileTyped
      <4>2. p < r
        BY <1>4, <2>1, <3>1, <4>1 DEF Passed
      <4>3. p <= scan.read /\ p # scan.read
        BY <1>2, <1>3, <1>5, <2>1, <3>1, <4>2
      <4>4. QED
        BY <1>3, <3>1, <4>3 DEF Passed
    <3>2. CASE f # scan.file
      BY <1>4, <2>1, <3>2 DEF Passed
    <3>3. QED
      BY <3>1, <3>2
  <2>2. Found(content, event_locations, conf.files, scan)
    BY InvParts
  <2>3. QED
    BY <2>1, <2>2 DEF Found
<1>7. Sound(content', next_append', event_count', event_locations', conf'.files, scan')
  BY <1>1, <1>6, InvParts DEF Sound
<1>8. OpenedBehind(opened', scan')
  <2>1. \A f \in opened : f < scan.file \/ f = scan.file
    BY <1>1 DEF FileInv, OpenedBehind
  <2>2. r > 0
    BY <1>2, <1>3
  <2>3. QED
    BY <1>1, <1>4, <2>1, <2>2 DEF OpenedBehind
<1>9. Aligned(content'[scan'.file], scan'.read)
  BY <1>1, <1>2, <1>3, <1>4
<1>10. durable' = content' /\ timebased_replay' = event_locations' /\ adding' = NoRequest
  BY <1>1, <1>3
<1>11. FileInv'
  BY <1>4, <1>7, <1>8, <1>9, <1>10, InvNext
<1>12. QED
  BY <1>1, <1>11, SameFilesRefl

(* One more location in the index, one more event in the count of its file. *)
LEMMA CountedAdd ==
    ASSUME NEW k \in [Files -> Int], NEW L, Counted(k, L), NEW l, l \notin L,
           l.file \in Files
    PROVE  Counted([k EXCEPT ![l.file] = @ + 1], L \cup {l})
<1> DEFINE M == L \cup {l}
<1>1. IsFiniteSet(L) /\ \A f \in Files : k[f] = Cardinality(InFile(L, f))
  BY DEF Counted
<1>2. IsFiniteSet(M)
  BY <1>1, FS_AddElement
<1>3. IsFiniteSet(InFile(L, l.file))
  <2>1. InFile(L, l.file) \subseteq L
    BY DEF InFile
  <2>2. QED
    BY <1>1, <2>1, FS_Subset
<1>4. InFile(M, l.file) = InFile(L, l.file) \cup {l} /\ l \notin InFile(L, l.file)
  BY DEF InFile
<1>5. Cardinality(InFile(L, l.file) \cup {l}) = Cardinality(InFile(L, l.file)) + 1
  BY <1>3, <1>4, FS_AddElement
<1>6. \A f \in Files : f # l.file => InFile(M, f) = InFile(L, f)
  BY DEF InFile
<1> HIDE DEF M
<1>7. QED
  BY <1>1, <1>2, <1>4, <1>5, <1>6 DEF Counted, M

LEMMA CountedRemove ==
    ASSUME NEW k \in [Files -> Int], NEW L, Counted(k, L), NEW l \in L, l.file \in Files
    PROVE  Counted([k EXCEPT ![l.file] = @ - 1], L \ {l})
<1> DEFINE M == L \ {l}
<1>1. IsFiniteSet(L) /\ \A f \in Files : k[f] = Cardinality(InFile(L, f))
  BY DEF Counted
<1>2. IsFiniteSet(M)
  BY <1>1, FS_RemoveElement
<1>3. IsFiniteSet(InFile(L, l.file))
  <2>1. InFile(L, l.file) \subseteq L
    BY DEF InFile
  <2>2. QED
    BY <1>1, <2>1, FS_Subset
<1>4. InFile(M, l.file) = InFile(L, l.file) \ {l} /\ l \in InFile(L, l.file)
  BY DEF InFile
<1>5. Cardinality(InFile(L, l.file) \ {l}) = Cardinality(InFile(L, l.file)) - 1
  BY <1>3, <1>4, FS_RemoveElement
<1>6. \A f \in Files : f # l.file => InFile(M, f) = InFile(L, f)
  BY DEF InFile
<1> HIDE DEF M
<1>7. QED
  BY <1>1, <1>2, <1>4, <1>5, <1>6 DEF Counted, M

LEMMA PendingKeepsFiles ==
    ASSUME IndexInvariant, FileInv, ScanPendingEvent
    PROVE  FileInv' /\ SameFiles(content, content')
<1> DEFINE r == scan.read + ScannedEvent.size
           l == ScannedLocation(scan.read)
           n == [next_append EXCEPT ![scan.file] = r]
           k == IncreaseEventCount(scan.file)
           held == {scan.file}
<1>1. /\ scan.on /\ scan.read > 0 /\ ValidEventAt(Scanned, scan.read)
      /\ ScannedEvent.status \in Active
      /\ AddLocation(l)
      /\ ReleaseFiles(content, ScanSynced, opened, n, k, {scan.file})
      /\ scan' = [scan EXCEPT !.read = r]
      /\ UNCHANGED <<conf, adding>>
  BY DEF ScanPendingEvent
<1>2. /\ scan.file < conf.files /\ r \in Nat /\ scan.read < r
      /\ Aligned(Scanned, r) /\ EventAt(Scanned, scan.read)
      /\ \A p \in Nat : ActiveAt(Scanned, p) /\ p < r => p <= scan.read
      /\ Laid(Scanned, r)
  BY <1>1, ScannedAligned
<1>3. /\ scan.file \in Files /\ scan.file \in Nat /\ scan.read \in Nat
      /\ Scanned = content[scan.file] /\ ScanSynced = content
      /\ Scanned \in Seq(Cell) /\ scan \in ScanType
      /\ timebased_replay = event_locations /\ adding = NoRequest /\ ~scan.compress
  BY <1>1, <1>2, ScanFacts DEF FileInv
<1>4. /\ l.file = scan.file /\ l.offset = scan.read /\ l.time = ScannedEvent.time
      /\ l.id = RequestIdAt(Scanned, scan.read)
  BY <1>1, <1>3, ScannedLocationProperties
<1>5. ActiveAt(Scanned, scan.read)
  BY <1>1, <1>2 DEF ActiveAt, ScannedEvent
<1>6. l.id = content[scan.file][scan.read + 2].id
      /\ l.time = content[scan.file][scan.read + 1].time
  <2>1. PICK b \in Nat : Tiled(Scanned, b)
    BY <1>3, InvParts DEF AllLaid, Laid
  <2>2. WholeAt(Scanned, scan.read)
    BY <1>3, <1>5, <2>1, ActiveIsWhole
  <2>3. RequestIdAt(Scanned, scan.read) = Scanned[scan.read + 2].id
    BY <1>2, <1>3, <2>2, WholeProperties
  <2>4. QED
    BY <1>3, <1>4, <2>3 DEF ScannedEvent
<1> HIDE DEF l, r, n
<1>7. ASSUME NEW x \in event_locations
      PROVE  x.id # l.id /\ x.time # l.time
  <2>1. /\ x.file \in Files /\ x.offset \in Nat /\ ActiveAt(content[x.file], x.offset)
        /\ content[x.file][x.offset + 2].id = x.id
        /\ content[x.file][x.offset + 1].time = x.time
        /\ End(x) \in Nat /\ x.offset < End(x)
    BY LocationActive
  <2>2. x.file # scan.file \/ x.offset # scan.read
    <3>1. ASSUME x.file = scan.file PROVE x.offset # scan.read
      <4>1. End(x) <= scan.read
        BY <1>1, <1>3, <3>1 DEF IndexInvariant, ScanInBounds
      <4>2. QED
        BY <1>3, <2>1, <4>1
    <3>2. QED
      BY <3>1
  <2>3. Distinct(content)
    BY InvParts
  <2>4. ActiveAt(content[scan.file], scan.read)
    BY <1>3, <1>5
  <2>5. /\ content[x.file][x.offset + 2].id # content[scan.file][scan.read + 2].id
        /\ content[x.file][x.offset + 1].time # content[scan.file][scan.read + 1].time
    BY ZenonT(30), <1>3, <2>1, <2>2, <2>3, <2>4 DEF Distinct
  <2>6. QED
    BY <1>6, <2>1, <2>5, Zenon
<1>8. event_locations' = event_locations \cup {l} /\ timebased_replay' = event_locations'
  BY <1>1, <1>3, <1>7 DEF AddLocation
<1>9. /\ scan'.on = TRUE /\ scan'.file = scan.file /\ scan'.read = r /\ ~scan'.compress
  BY <1>1, <1>3 DEF ScanType
<1>10. FileTypes(content, durable, opened, next_append, event_count) /\ durable = content
  BY IndexAsIs DEF FileInv
<1>11. FileTypes(content, content, opened, n, k)
  BY <1>2, <1>3, <1>10 DEF FileTypes, IncreaseEventCount, n
<1>12. AllLaid(content, n)
  <2>1. ASSUME NEW f \in Files PROVE Laid(content[f], n[f])
    <3>1. CASE f = scan.file
      BY <1>2, <1>3, <1>10, <3>1 DEF FileTypes, n
    <3>2. CASE f # scan.file
      BY <1>3, <1>10, <3>2, InvParts DEF FileTypes, n, AllLaid
    <3>3. QED
      BY <3>1, <3>2
  <2>2. QED
    BY <2>1 DEF AllLaid
<1>13. Found(content, event_locations', conf'.files, scan')
  <2>1. Found(content, event_locations, conf.files, scan)
    BY InvParts
  <2>2. ASSUME NEW f \in Files, NEW p \in Nat, ActiveAt(content[f], p), Passed(scan', f, p)
        PROVE  IsFound(event_locations', f, p)
    <3>1. CASE f = scan.file /\ p = scan.read
      BY <1>4, <1>8, <3>1 DEF IsFound
    <3>2. CASE ~(f = scan.file /\ p = scan.read)
      <4>1. Passed(scan, f, p)
        <5>1. CASE f = scan.file
          <6>1. p < r
            BY <1>3, <1>9, <2>2, <5>1 DEF Passed
          <6>2. p <= scan.read /\ p # scan.read
            BY <1>2, <1>3, <2>2, <3>2, <5>1, <6>1
          <6>3. QED
            BY <1>3, <5>1, <6>2 DEF Passed
        <5>2. CASE f # scan.file
          BY <1>9, <2>2, <5>2 DEF Passed
        <5>3. QED
          BY <5>1, <5>2
      <4>2. IsFound(event_locations, f, p)
        BY <2>1, <2>2, <4>1 DEF Found
      <4>3. QED
        BY <1>8, <4>2 DEF IsFound
    <3>3. QED
      BY <3>1, <3>2
  <2>3. QED
    BY <1>1, <2>1, <2>2 DEF Found
<1>14. Counted(k, event_locations')
  <2>1. l \notin event_locations
    BY <1>7
  <2>2. event_count \in [Files -> Int]
    BY <1>10 DEF FileTypes
  <2>3. QED
    BY <1>3, <1>4, <1>8, <2>1, <2>2, InvParts, CountedAdd DEF IncreaseEventCount
<1>15. Sound(content, n, k, event_locations', conf'.files, scan')
  BY <1>12, <1>13, <1>14, InvParts DEF Sound
<1> HIDE DEF k
<1>16. \A f \in opened : f < scan.file \/ f = scan.file
  BY <1>1 DEF FileInv, OpenedBehind
<1>17. \A f \in opened : f \in held \/ ~scan'.on \/ f < scan'.file
  BY <1>9, <1>16
<1>18. ReleaseFiles(content, content, opened, n, k, held)
  BY <1>1, <1>3
<1>18a. scan.file \in held
  OBVIOUS
<1> HIDE DEF held
<1>19. /\ durable' = content' /\ opened' \subseteq opened
       /\ Sound(content', next_append', event_count', event_locations',
                conf'.files, scan')
       /\ SameFiles(content, content')
       /\ content'[scan.file] = content[scan.file]
  <2>1. timebased_replay' = event_locations'
    BY <1>8
  <2>2. /\ durable' = content' /\ opened' \subseteq opened
        /\ Sound(content', next_append', event_count', event_locations',
                 conf'.files, scan')
        /\ SameFiles(content, content')
        /\ \A f \in Files : f \in held => content'[f] = content[f]
    BY <1>11, <1>15, <1>17, <1>18, <2>1, ReleasedSound
  <2>3. content'[scan.file] = content[scan.file]
    BY <1>3, <1>18a, <2>2, Zenon
  <2>4. QED
    BY <2>2, <2>3
<1>20. OpenedBehind(opened', scan')
  <2>1. r > 0
    BY <1>2, <1>3
  <2>2. QED
    BY <1>9, <1>16, <1>19, <2>1 DEF OpenedBehind
<1>21. Aligned(content'[scan'.file], scan'.read)
  BY <1>2, <1>3, <1>9, <1>19
<1>22. QED
  BY <1>1, <1>3, <1>8, <1>9, <1>19, <1>20, <1>21, InvNext

-----------------------------------------------------------------------------
(* The three functions which change the pending events change the place f, *)
(* a of the files c, which are x afterwards, and leave the others alone.   *)

OthersSame(c, x, f, a) ==
    \A g \in Files : \A p \in Nat : (g # f \/ p # a) =>
        /\ ActiveAt(x[g], p) <=> ActiveAt(c[g], p)
        /\ ActiveAt(c[g], p) => SameHead(c[g], x[g], p)

\* no other pending event has the identifier or the time of the one at f, a
Unlike(c, x, f, a) ==
    \A g \in Files : \A p \in Nat : ActiveAt(c[g], p) /\ (g # f \/ p # a) =>
        /\ c[g][p + 2].id # x[f][a + 2].id
        /\ c[g][p + 1].time # x[f][a + 1].time

LEMMA ChangedDistinct ==
    ASSUME NEW c, NEW x, NEW f \in Files, NEW a \in Nat, OthersSame(c, x, f, a),
           Distinct(c), Unlike(c, x, f, a)
    PROVE  Distinct(x)
<1>1. ASSUME NEW g \in Files, NEW p \in Nat, ActiveAt(x[g], p), g # f \/ p # a
      PROVE  /\ ActiveAt(c[g], p)
             /\ x[g][p + 1] = c[g][p + 1] /\ x[g][p + 2] = c[g][p + 2]
  BY <1>1 DEF OthersSame, SameHead
<1>2. ASSUME NEW g \in Files, NEW h \in Files, NEW p \in Nat, NEW q \in Nat,
             ActiveAt(x[g], p), ActiveAt(x[h], q), g # h \/ p # q
      PROVE  /\ x[g][p + 2].id # x[h][q + 2].id
             /\ x[g][p + 1].time # x[h][q + 1].time
  <2>1. CASE g = f /\ p = a
    <3>1. h # f \/ q # a
      BY <1>2, <2>1
    <3>2. /\ ActiveAt(c[h], q)
          /\ x[h][q + 1] = c[h][q + 1] /\ x[h][q + 2] = c[h][q + 2]
      BY <1>1, <1>2, <3>1
    <3>3. QED
      BY <1>2, <2>1, <3>1, <3>2 DEF Unlike
  <2>2. CASE h = f /\ q = a
    <3>1. g # f \/ p # a
      BY <1>2, <2>2
    <3>2. /\ ActiveAt(c[g], p)
          /\ x[g][p + 1] = c[g][p + 1] /\ x[g][p + 2] = c[g][p + 2]
      BY <1>1, <1>2, <3>1
    <3>3. QED
      BY <1>2, <2>2, <3>1, <3>2 DEF Unlike
  <2>3. CASE ~(g = f /\ p = a) /\ ~(h = f /\ q = a)
    <3>1. /\ ActiveAt(c[g], p)
          /\ x[g][p + 1] = c[g][p + 1] /\ x[g][p + 2] = c[g][p + 2]
      BY <1>1, <1>2, <2>3
    <3>2. /\ ActiveAt(c[h], q)
          /\ x[h][q + 1] = c[h][q + 1] /\ x[h][q + 2] = c[h][q + 2]
      BY <1>1, <1>2, <2>3
    <3>3. /\ c[g][p + 2].id # c[h][q + 2].id
          /\ c[g][p + 1].time # c[h][q + 1].time
      BY ZenonT(30), <1>2, <3>1, <3>2 DEF Distinct
    <3>4. QED
      BY <3>1, <3>2, <3>3
  <2>4. QED
    BY <2>1, <2>2, <2>3
<1>3. QED
  BY <1>2 DEF Distinct

LEMMA ChangedFound ==
    ASSUME NEW c, NEW x, NEW f \in Files, NEW a \in Nat, OthersSame(c, x, f, a),
           NEW L, NEW M, NEW files, NEW sc, Found(c, L, files, sc), f < files,
           \A y \in L : y.file # f \/ y.offset # a => IsFound(M, y.file, y.offset),
           ActiveAt(x[f], a) => IsFound(M, f, a)
    PROVE  Found(x, M, files, sc)
<1>1. ASSUME NEW g \in Files, NEW p \in Nat, ActiveAt(x[g], p)
      PROVE  g < files /\ (Passed(sc, g, p) => IsFound(M, g, p))
  <2>1. CASE g = f /\ p = a
    BY <1>1, <2>1
  <2>2. CASE g # f \/ p # a
    <3>1. ActiveAt(c[g], p)
      BY <1>1, <2>2 DEF OthersSame
    <3>2. g < files /\ (Passed(sc, g, p) => IsFound(L, g, p))
      BY <3>1, Zenon DEF Found
    <3>3. ASSUME IsFound(L, g, p) PROVE IsFound(M, g, p)
      <4>1. PICK y \in L : y.file = g /\ y.offset = p
        BY <3>3 DEF IsFound
      <4>2. QED
        BY <2>2, <4>1
    <3>4. QED
      BY <3>2, <3>3
  <2>3. QED
    BY <2>1, <2>2
<1>2. QED
  BY <1>1, Zenon DEF Found

LEMMA ChangedPending ==
    ASSUME NEW c, NEW x, NEW f \in Files, NEW a \in Nat, OthersSame(c, x, f, a),
           Distinct(c), NEW e
    PROVE  Pending(x, e) <=>
               \/ Pending(c, e) /\ ~(ActiveAt(c[f], a) /\ e = Facts(c[f], a))
               \/ ActiveAt(x[f], a) /\ e = Facts(x[f], a)
<1>1. \A g \in Files : \A p \in Nat : (g # f \/ p # a) /\ ActiveAt(c[g], p) =>
          Facts(x[g], p) = Facts(c[g], p)
  BY DEF OthersSame, SameHead, Facts
<1>2. ASSUME Pending(x, e), ~(ActiveAt(x[f], a) /\ e = Facts(x[f], a))
      PROVE  Pending(c, e) /\ ~(ActiveAt(c[f], a) /\ e = Facts(c[f], a))
  <2>1. PICK g \in Files, p \in Nat : ActiveAt(x[g], p) /\ e = Facts(x[g], p)
    BY <1>2, Zenon DEF Pending
  <2>2. g # f \/ p # a
    BY <1>2, <2>1
  <2>3. ActiveAt(c[g], p)
    BY <2>1, <2>2 DEF OthersSame
  <2>4. e = Facts(c[g], p)
    BY <1>1, <2>1, <2>2, <2>3
  <2>5. Pending(c, e)
    BY <2>3, <2>4, Zenon DEF Pending
  <2>6. ASSUME ActiveAt(c[f], a) PROVE e # Facts(c[f], a)
    <3>1. c[g][p + 2].id # c[f][a + 2].id
      BY <2>2, <2>3, <2>6, Zenon DEF Distinct
    <3>2. e.id = c[g][p + 2].id /\ Facts(c[f], a).id = c[f][a + 2].id
      BY <2>4 DEF Facts
    <3>3. QED
      BY <3>1, <3>2
  <2>7. QED
    BY <2>5, <2>6
<1>3. ASSUME Pending(c, e), ~(ActiveAt(c[f], a) /\ e = Facts(c[f], a))
      PROVE  Pending(x, e)
  <2>1. PICK g \in Files, p \in Nat : ActiveAt(c[g], p) /\ e = Facts(c[g], p)
    BY <1>3, Zenon DEF Pending
  <2>2. g # f \/ p # a
    BY <1>3, <2>1
  <2>3. ActiveAt(x[g], p)
    BY <2>1, <2>2 DEF OthersSame
  <2>4. e = Facts(x[g], p)
    BY <1>1, <2>1, <2>2
  <2>5. QED
    BY <2>3, <2>4, Zenon DEF Pending
<1>4. ASSUME ActiveAt(x[f], a), e = Facts(x[f], a)
      PROVE  Pending(x, e)
  BY <1>4, Zenon DEF Pending
<1>5. QED
  BY <1>2, <1>3, <1>4, Zenon

(* The file which write_new_event() gets, with its header, and the offset. *)
LEMMA ReadyToSave ==
    ASSUME IndexInvariant, FileInv, ~scan.on, NEW f \in Files,
           NEW h, h = WithHeader(f), NEW a, a = AppendOffset(f)
    PROVE  /\ a \in Nat /\ h \in Seq(Cell) /\ HasHeader(h)
           /\ \E b \in Nat : Tiled(h, b) /\ OnBoundary(h, b, a)
           /\ SameActive(content[f], h)
           /\ \A o \in Nat : ActiveAt(h, o) => o < a
<1>1. /\ content[f] \in Seq(Cell) /\ next_append[f] \in Nat
      /\ Laid(content[f], next_append[f])
  BY FileTyped, InvParts DEF AllLaid
<1>2. \A o \in Nat : ActiveAt(content[f], o) => o < next_append[f]
  <2>1. \A o \in Nat : Passed(scan, f, o)
    BY DEF Passed
  <2>2. QED
    BY <2>1, FoundLocation
<1>3. CASE next_append[f] = 0
  <2>1. \A o \in Nat : ~ActiveAt(content[f], o)
    BY <1>2, <1>3
  <2>2. h = WriteCells(content[f], 0, <<JournalHeader>>, 1)
    BY <1>3 DEF WithHeader
  <2>3. a = 1
    BY <1>3 DEF AppendOffset, Larger, HeaderSize
  <2>4. /\ h \in Seq(Cell) /\ Tiled(h, 1) /\ HasHeader(h)
        /\ \A o \in Nat : ~ActiveAt(h, o)
    BY <1>1, <2>1, <2>2, HeaderTiled
  <2>5. OnBoundary(h, 1, 1)
    BY DEF OnBoundary
  <2>6. SameActive(content[f], h)
    BY <2>1, <2>4 DEF SameActive
  <2>7. QED
    BY <2>3, <2>4, <2>5, <2>6
<1>4. CASE next_append[f] # 0
  <2>1. h = content[f]
    BY <1>4 DEF WithHeader
  <2>2. a = next_append[f] /\ a > 0
    BY <1>1, <1>4 DEF AppendOffset, Larger, HeaderSize
  <2>3. PICK b \in Nat : Tiled(h, b) /\ HasHeader(h) /\ OnBoundary(h, b, a)
    BY <1>1, <2>1, <2>2 DEF Laid
  <2>4. SameActive(content[f], h)
    BY <2>1 DEF SameActive, SameHead
  <2>5. QED
    BY <1>1, <1>2, <2>1, <2>2, <2>3, <2>4
<1>5. QED
  BY <1>3, <1>4

(* The same file once the event is saved. *)
LEMMA SavedFile ==
    ASSUME IndexInvariant, FileInv, ~scan.on, NEW f \in Files,
           NEW id \in RequestIds, NEW d \in Nat \ {0}, NEW time \in Nat,
           NEW a, a = AppendOffset(f),
           NEW t, t = Appended(f, id, d, time, EventSize(d))
    PROVE  /\ a \in Nat /\ t \in Seq(Cell) /\ a + EventSize(d) \in Nat
           /\ Laid(t, a + EventSize(d))
           /\ SavedAs(content[f], t, a, id, time)
<1> DEFINE h == WithHeader(f)
           s == content[f]
<1>1. /\ a \in Nat /\ h \in Seq(Cell) /\ HasHeader(h)
      /\ \E b \in Nat : Tiled(h, b) /\ OnBoundary(h, b, a)
      /\ SameActive(s, h)
      /\ \A o \in Nat : ActiveAt(h, o) => o < a
  BY ReadyToSave
<1>2. t = WriteCells(h, a, EventCells(id, d, time), EventSize(d))
  BY DEF Appended
<1> HIDE DEF h, s
<1>3. PICK b \in Nat : Tiled(h, b) /\ OnBoundary(h, b, a)
  BY <1>1
<1>4. /\ t \in Seq(Cell) /\ HasHeader(t) /\ a + EventSize(d) \in Nat
      /\ Tiled(t, a + EventSize(d))
      /\ t[a + 1].time = time /\ t[a + 1].status = "READY" /\ t[a + 2].id = id
      /\ \A o \in Nat : /\ ActiveAt(t, o) <=> o = a \/ ActiveAt(h, o)
                        /\ ActiveAt(h, o) => o # a /\ SameHead(h, t, o)
  <2>1. /\ h \in Seq(Cell) /\ Tiled(h, b) /\ HasHeader(h) /\ a \in Nat
        /\ OnBoundary(h, b, a)
    BY <1>1, <1>3
  <2>2. ActiveBefore(h, a)
    BY <1>1 DEF ActiveBefore
  <2>3. /\ t \in Seq(Cell) /\ HasHeader(t) /\ a + EventSize(d) \in Nat
        /\ Tiled(t, a + EventSize(d)) /\ SavedAs(h, t, a, id, time)
    BY <1>2, <2>1, <2>2, SavedTiled
  <2>4. QED
    BY <2>3 DEF SavedAs
<1>5. Laid(t, a + EventSize(d))
  BY <1>4 DEF Laid, OnBoundary
<1>6. ASSUME NEW p \in Nat
      PROVE  /\ ActiveAt(t, p) <=> p = a \/ ActiveAt(s, p)
             /\ ActiveAt(s, p) => p # a /\ SameHead(s, t, p)
  BY <1>1, <1>4 DEF SameActive, SameHead
<1>7. SavedAs(s, t, a, id, time)
  BY <1>4, <1>6 DEF SavedAs
<1>8. QED
  BY <1>1, <1>4, <1>5, <1>7 DEF s

LEMMA AddChangesFiles ==
    ASSUME IndexInvariant, FileInv, Dependable, Ready, NEW f \in Files, f < conf.files,
           NEW id \in RequestIds, id \notin Indexed, NEW d \in Nat \ {0},
           NEW time \in Nat, time \notin UsedTimes, WriteNewEvent(f, id, d, time)
    PROVE  /\ FileInv'
           /\ \A e : Pending(content', e) <=>
                  \/ Pending(content, e)
                  \/ e = [id |-> id, time |-> time, status |-> "READY"]
<1> DEFINE a == AppendOffset(f)
           t == Appended(f, id, d, time, EventSize(d))
           c == [content EXCEPT ![f] = t]
           n == [next_append EXCEPT ![f] = a + EventSize(d)]
           k == IncreaseEventCount(f)
           l == NewLocation(f, id, d, time)
           o == opened \cup {f}
<1>1. /\ ~scan.on /\ durable = content /\ timebased_replay = event_locations
      /\ ~scan.compress /\ conf.sync = "flush"
  BY DependableState DEF Ready, FileInv
<1>2. /\ AddLocation(l) /\ ReleaseFiles(c, c, o, n, k, {})
      /\ adding' = NoRequest /\ conf' = conf /\ scan' = scan
  BY <1>1 DEF WriteNewEvent
<1>2a. /\ a \in Nat /\ t \in Seq(Cell) /\ a + EventSize(d) \in Nat
       /\ Laid(t, a + EventSize(d)) /\ SavedAs(content[f], t, a, id, time)
  BY <1>1, SavedFile
<1>3. /\ a \in Nat /\ t \in Seq(Cell) /\ a + EventSize(d) \in Nat
      /\ Laid(t, a + EventSize(d))
      /\ ActiveAt(t, a) /\ ~ActiveAt(content[f], a)
      /\ t[a + 1].time = time /\ t[a + 1].status = "READY" /\ t[a + 2].id = id
      /\ \A p \in Nat : p # a =>
            /\ ActiveAt(t, p) <=> ActiveAt(content[f], p)
            /\ ActiveAt(content[f], p) => SameHead(content[f], t, p)
  BY <1>2a DEF SavedAs
<1>4. l.file = f /\ l.offset = a /\ l.id = id /\ l.time = time
  BY DEF NewLocation
<1> HIDE DEF a, t, l
<1>5. FileTypes(content, durable, opened, next_append, event_count)
  BY IndexAsIs
<1>6. /\ FileTypes(c, c, o, n, k) /\ c[f] = t /\ n[f] = a + EventSize(d)
      /\ \A g \in Files : g # f => c[g] = content[g] /\ n[g] = next_append[g]
  BY <1>3, <1>5 DEF FileTypes, IncreaseEventCount
<1>7. event_count \in [Files -> Int] /\ k = [event_count EXCEPT ![f] = @ + 1]
  BY <1>5 DEF FileTypes, IncreaseEventCount
<1> HIDE DEF c, n, k, o
<1>8. OthersSame(content, c, f, a)
  <2>1. ASSUME NEW g \in Files, NEW p \in Nat, g # f \/ p # a
        PROVE  /\ ActiveAt(c[g], p) <=> ActiveAt(content[g], p)
               /\ ActiveAt(content[g], p) => SameHead(content[g], c[g], p)
    <3>1. CASE g = f
      BY <1>3, <1>6, <2>1, <3>1
    <3>2. CASE g # f
      BY <1>6, <3>2 DEF SameHead
    <3>3. QED
      BY <3>1, <3>2
  <2>2. QED
    BY <2>1 DEF OthersSame
<1>9. \A x \in event_locations : x.id # id /\ x.time # time
  BY <1>1 DEF Indexed, UsedTimes
<1>10. event_locations' = event_locations \cup {l} /\ timebased_replay' = event_locations'
  BY <1>1, <1>2, <1>4, <1>9 DEF AddLocation
<1>11. Distinct(c)
  <2>1. ASSUME NEW g \in Files, NEW p \in Nat, ActiveAt(content[g], p)
        PROVE  /\ content[g][p + 2].id # c[f][a + 2].id
               /\ content[g][p + 1].time # c[f][a + 1].time
    <3>1. Passed(scan, g, p)
      BY <1>1 DEF Passed
    <3>2. PICK x \in event_locations :
              content[g][p + 2].id = x.id /\ content[g][p + 1].time = x.time
      BY <2>1, <3>1, FoundLocation
    <3>3. QED
      BY <1>3, <1>6, <1>9, <3>2
  <2>2. Distinct(content)
    BY InvParts
  <2>3. Unlike(content, c, f, a)
    BY <2>1 DEF Unlike
  <2>4. QED
    BY <1>3, <1>8, <2>2, <2>3, ChangedDistinct
<1>12. Found(c, event_locations', conf'.files, scan')
  <2>1. Found(content, event_locations, conf'.files, scan')
    BY <1>2, InvParts
  <2>2. \A y \in event_locations : IsFound(event_locations', y.file, y.offset)
    BY <1>10 DEF IsFound
  <2>3. IsFound(event_locations', f, a)
    BY <1>4, <1>10 DEF IsFound
  <2>4. f < conf'.files
    BY <1>2
  <2>5. QED
    BY <1>3, <1>8, <2>1, <2>2, <2>3, <2>4, ChangedFound
<1>13. Counted(k, event_locations')
  <2>1. l \notin event_locations
    BY <1>4, <1>9
  <2>2. Counted(event_count, event_locations)
    BY InvParts
  <2>3. Counted([event_count EXCEPT ![l.file] = @ + 1], event_locations \cup {l})
    BY <1>4, <1>7, <2>1, <2>2, CountedAdd
  <2>4. QED
    BY <1>4, <1>7, <1>10, <2>3
<1>14. AllLaid(c, n)
  <2>1. ASSUME NEW g \in Files PROVE Laid(c[g], n[g])
    <3>1. CASE g = f
      BY <1>3, <1>6, <3>1
    <3>2. CASE g # f
      BY <1>6, <3>2, InvParts DEF AllLaid
    <3>3. QED
      BY <3>1, <3>2
  <2>2. QED
    BY <2>1 DEF AllLaid
<1>15. Sound(c, n, k, event_locations', conf'.files, scan')
  BY <1>11, <1>12, <1>13, <1>14 DEF Sound
<1>16. ~scan'.on /\ ~scan'.compress /\ timebased_replay' = event_locations'
  BY <1>1, <1>2, <1>10
<1>17. /\ durable' = content'
       /\ Sound(content', next_append', event_count', event_locations',
                conf'.files, scan')
       /\ SameFiles(c, content')
  BY <1>2, <1>6, <1>15, <1>16, ReleasedSound
<1>18. OpenedBehind(opened', scan')
  BY <1>16 DEF OpenedBehind
<1>19. FileInv'
  BY <1>2, <1>16, <1>17, <1>18, InvNext
<1>20. ASSUME NEW e
       PROVE  Pending(content', e) <=>
                  \/ Pending(content, e)
                  \/ e = [id |-> id, time |-> time, status |-> "READY"]
  <2>1. Pending(content', e) <=> Pending(c, e)
    BY <1>17, SamePending
  <2>2. Distinct(content)
    BY InvParts
  <2>3. Pending(c, e) <=>
            \/ Pending(content, e) /\ ~(ActiveAt(content[f], a) /\ e = Facts(content[f], a))
            \/ ActiveAt(c[f], a) /\ e = Facts(c[f], a)
    BY <1>3, <1>8, <2>2, ChangedPending
  <2>4. Facts(c[f], a) = [id |-> id, time |-> time, status |-> "READY"]
    BY <1>3, <1>6 DEF Facts
  <2>5. QED
    BY <1>3, <1>6, <2>1, <2>3, <2>4
<1>21. QED
  BY <1>19, <1>20

(* The file of a location once its status is written. *)
LEMMA StatusFile ==
    ASSUME IndexInvariant, FileInv, Dependable, NEW l \in event_locations,
           NEW status \in Active \cup Final,
           NEW s, s = content[l.file],
           NEW t, t = Rewritten(s, l.offset, status)
    PROVE  /\ WithStatus(l, status) = [content EXCEPT ![l.file] = t]
           /\ DurableStatus(l, status) = [content EXCEPT ![l.file] = t]
           /\ t \in Seq(Cell) /\ StatusAs(s, t, l.offset, status)
           /\ ActiveAt(t, l.offset) <=> status \in Active
           /\ Laid(t, 1)
           /\ \A n \in Nat : Laid(s, n) => Laid(t, n)
<1> DEFINE a == l.offset
<1>1. /\ l.file \in Files /\ a \in Nat /\ s \in Seq(Cell) /\ ActiveAt(s, a)
      /\ EventAt(s, a)
  BY LocationActive
<1>2. content \in [Files -> Seq(Cell)] /\ durable = content /\ conf.sync = "flush"
  BY IndexAsIs, DependableState DEF FileTypes, FileInv
<1>3. WithStatus(l, status) = [content EXCEPT ![l.file] = t]
  BY DEF WithStatus, Rewritten
<1>4. [content EXCEPT ![l.file] = t][l.file] = t
  BY <1>1, <1>2
<1>5. DurableStatus(l, status) = [content EXCEPT ![l.file] = t]
  BY <1>2, <1>3, <1>4 DEF DurableStatus
<1> HIDE DEF a
<1>6. t = Rewritten(s, a, status)
  BY DEF a
<1>7. ASSUME NEW b \in Nat, Tiled(s, b)
      PROVE  /\ t \in Seq(Cell) /\ Tiled(t, b) /\ (HasHeader(t) <=> HasHeader(s))
             /\ StatusAs(s, t, a, status)
  BY <1>1, <1>6, <1>7, StatusTiled
<1>8. PICK b \in Nat : Tiled(s, b)
  BY <1>1, InvParts DEF AllLaid, Laid
<1>9. StatusAs(s, t, a, status) /\ t \in Seq(Cell) /\ Tiled(t, b)
  BY <1>7, <1>8
<1>10. \A p \in Nat : EventAt(t, p) <=> EventAt(s, p)
  BY <1>9 DEF StatusAs
<1>11. ActiveAt(t, a) <=> status \in Active
  <2>1. EventAt(t, a) /\ t[a + 1].status = status
    BY <1>1, <1>9, <1>10 DEF StatusAs
  <2>2. QED
    BY <2>1 DEF ActiveAt
<1>12. Laid(t, 1)
  <2>1. a < b /\ HeaderSize <= a /\ HasHeader(s)
    BY <1>1, <1>8, ActiveIsWhole
  <2>2. b > 1
    BY <1>1, <2>1 DEF HeaderSize
  <2>3. EventAt(t, 1)
    BY <1>9, <2>2 DEF Tiled, TiledTo, HeaderSize
  <2>4. OnBoundary(t, b, 1) /\ HasHeader(t)
    BY <1>7, <1>8, <2>1, <2>2, <2>3 DEF OnBoundary
  <2>5. QED
    BY <1>9, <2>4 DEF Laid
<1>13. ASSUME NEW n \in Nat, Laid(s, n) PROVE Laid(t, n)
  <2>1. PICK x \in Nat : Tiled(s, x) /\ (n > 0 => HasHeader(s) /\ OnBoundary(s, x, n))
    BY <1>13 DEF Laid
  <2>2. Tiled(t, x) /\ (HasHeader(t) <=> HasHeader(s))
    BY <1>7, <2>1
  <2>3. n > 0 => OnBoundary(t, x, n)
    BY <1>10, <2>1 DEF OnBoundary
  <2>4. QED
    BY <2>1, <2>2, <2>3 DEF Laid
<1>14. QED
  BY <1>3, <1>5, <1>9, <1>11, <1>12, <1>13 DEF a

(* What a new status changes of the files, for both kinds of updates. *)
LEMMA StatusChange ==
    ASSUME IndexInvariant, FileInv, Dependable, NEW l \in event_locations,
           NEW status \in Active \cup Final, NEW c, c = WithStatus(l, status)
    PROVE  /\ c \in [Files -> Seq(Cell)] /\ DurableStatus(l, status) = c
           /\ l.file \in Files /\ l.offset \in Nat
           /\ OthersSame(content, c, l.file, l.offset) /\ Distinct(c)
           /\ ActiveAt(content[l.file], l.offset)
           /\ ActiveAt(c[l.file], l.offset) <=> status \in Active
           /\ Facts(content[l.file], l.offset) =
                  [id |-> l.id, time |-> l.time, status |-> l.status]
           /\ Facts(c[l.file], l.offset) =
                  [id |-> l.id, time |-> l.time, status |-> status]
           /\ c[l.file][l.offset + 1].status = status
           /\ Laid(c[l.file], 1) /\ AllLaid(c, next_append)
<1> DEFINE f == l.file
           a == l.offset
           s == content[f]
           t == Rewritten(s, a, status)
<1>1. /\ f \in Files /\ a \in Nat /\ s \in Seq(Cell) /\ ActiveAt(s, a)
      /\ s[a + 2].id = l.id /\ s[a + 1].time = l.time /\ s[a + 1].status = l.status
  BY LocationActive
<1>2. /\ c = [content EXCEPT ![f] = t] /\ DurableStatus(l, status) = c
      /\ t \in Seq(Cell) /\ StatusAs(s, t, a, status)
      /\ ActiveAt(t, a) <=> status \in Active
      /\ Laid(t, 1) /\ \A n \in Nat : Laid(s, n) => Laid(t, n)
  BY StatusFile
<1> HIDE DEF t
<1>3. content \in [Files -> Seq(Cell)] /\ next_append \in [Files -> Nat]
  BY IndexAsIs DEF FileTypes
<1>4. /\ c \in [Files -> Seq(Cell)] /\ c[f] = t
      /\ \A g \in Files : g # f => c[g] = content[g]
  BY <1>1, <1>2, <1>3
<1> HIDE DEF f, a
<1>5. OthersSame(content, c, f, a)
  <2>1. ASSUME NEW g \in Files, NEW p \in Nat, g # f \/ p # a
        PROVE  /\ ActiveAt(c[g], p) <=> ActiveAt(content[g], p)
               /\ ActiveAt(content[g], p) => SameHead(content[g], c[g], p)
    <3>1. CASE g = f
      BY <1>2, <1>4, <2>1, <3>1 DEF StatusAs
    <3>2. CASE g # f
      BY <1>4, <3>2 DEF SameHead
    <3>3. QED
      BY <3>1, <3>2
  <2>2. QED
    BY <2>1 DEF OthersSame
<1>6. c[f][a + 2].id = l.id /\ c[f][a + 1].time = l.time /\ c[f][a + 1].status = status
  BY <1>1, <1>2, <1>4 DEF StatusAs
<1>7. Distinct(c)
  <2>1. Distinct(content)
    BY InvParts
  <2>2. ASSUME NEW g \in Files, NEW p \in Nat, ActiveAt(content[g], p), g # f \/ p # a
        PROVE  /\ content[g][p + 2].id # c[f][a + 2].id
               /\ content[g][p + 1].time # c[f][a + 1].time
    <3>1. /\ content[g][p + 2].id # content[f][a + 2].id
          /\ content[g][p + 1].time # content[f][a + 1].time
      BY <1>1, <2>1, <2>2, Zenon DEF Distinct
    <3>2. QED
      BY <1>1, <1>6, <3>1
  <2>3. Unlike(content, c, f, a)
    BY <2>2 DEF Unlike
  <2>4. f \in Files /\ a \in Nat
    BY <1>1
  <2>5. QED
    BY <1>5, <2>1, <2>3, <2>4, ChangedDistinct
<1>8. AllLaid(c, next_append)
  <2>1. ASSUME NEW g \in Files PROVE Laid(c[g], next_append[g])
    <3>1. Laid(content[g], next_append[g]) /\ next_append[g] \in Nat
      BY <1>3, InvParts DEF AllLaid
    <3>2. CASE g = f
      BY <1>2, <1>4, <3>1, <3>2
    <3>3. CASE g # f
      BY <1>4, <3>1, <3>3
    <3>4. QED
      BY <3>2, <3>3
  <2>2. QED
    BY <2>1 DEF AllLaid
<1>9. /\ Facts(content[f], a) = [id |-> l.id, time |-> l.time, status |-> l.status]
      /\ Facts(c[f], a) = [id |-> l.id, time |-> l.time, status |-> status]
  BY <1>1, <1>6 DEF Facts
<1>10. QED
  BY <1>1, <1>2, <1>4, <1>5, <1>6, <1>7, <1>8, <1>9 DEF f, a

LEMMA LocationInUse ==
    ASSUME IndexInvariant, FileInv, NEW l \in event_locations
    PROVE  l.file < conf.files
<1>1. l.file \in Files /\ l.offset \in Nat /\ ActiveAt(content[l.file], l.offset)
  BY LocationActive
<1>2. QED
  BY <1>1, InvParts DEF Found

LEMMA AdvanceChangesFiles ==
    ASSUME IndexInvariant, FileInv, Dependable, NEW l \in event_locations,
           NEW status \in Active, AdvanceEvent(l, status)
    PROVE  /\ FileInv'
           /\ \A e : Pending(content', e) <=>
                  \/ /\ Pending(content, e)
                     /\ e # [id |-> l.id, time |-> l.time, status |-> l.status]
                  \/ e = [id |-> l.id, time |-> l.time, status |-> status]
<1> DEFINE f == l.file
           a == l.offset
           c == WithStatus(l, status)
           m == [l EXCEPT !.status = status]
           L == event_locations
<1>1. /\ ~scan.on /\ durable = content /\ timebased_replay = L /\ ~scan.compress
      /\ adding = NoRequest
  BY DEF AdvanceEvent, Ready, FileInv
<1>2. /\ L' = (L \ {l}) \cup {m} /\ timebased_replay' = L'
      /\ content' = c /\ durable' = DurableStatus(l, status)
      /\ UNCHANGED <<opened, next_append, event_count, conf, scan, adding>>
  BY <1>1 DEF AdvanceEvent
<1>3. status \in Active \cup Final
  OBVIOUS
<1>4. /\ c \in [Files -> Seq(Cell)] /\ DurableStatus(l, status) = c
      /\ f \in Files /\ a \in Nat
      /\ OthersSame(content, c, f, a) /\ Distinct(c)
      /\ ActiveAt(content[f], a)
      /\ ActiveAt(c[f], a)
      /\ Facts(content[f], a) = [id |-> l.id, time |-> l.time, status |-> l.status]
      /\ Facts(c[f], a) = [id |-> l.id, time |-> l.time, status |-> status]
      /\ AllLaid(c, next_append)
  BY <1>3, StatusChange
<1>5. m.file = f /\ m.offset = a
  <2>1. l \in Location
    BY LocationActive
  <2>2. QED
    BY <2>1 DEF Location
<1> HIDE DEF c, m, f, a
<1>6. Found(c, L', conf'.files, scan')
  <2>1. Found(content, L, conf'.files, scan')
    BY <1>2, InvParts
  <2>2. \A y \in L : y.file # f \/ y.offset # a => IsFound(L', y.file, y.offset)
    BY <1>2 DEF IsFound, f, a
  <2>3. IsFound(L', f, a)
    BY <1>2, <1>5 DEF IsFound
  <2>4. f < conf'.files
    BY <1>2, LocationInUse DEF f
  <2>5. QED
    BY <1>4, <2>1, <2>2, <2>3, <2>4, ChangedFound
<1>7. Counted(event_count, L')
  <2>1. Counted(event_count, L) /\ event_count \in [Files -> Int]
    BY InvParts, IndexAsIs DEF FileTypes
  <2> DEFINE k == [event_count EXCEPT ![l.file] = @ - 1]
             M == L \ {l}
  <2>2. Counted(k, M)
    <3>1. l.file \in Files
      BY <1>4 DEF f
    <3>2. QED
      BY <2>1, <3>1, CountedRemove, Zenon
  <2>3. k \in [Files -> Int]
    <3>1. event_count[l.file] - 1 \in Int
      BY <1>4, <2>1 DEF f
    <3>2. QED
      BY <2>1, <3>1
  <2>3a. \A g \in Files : [k EXCEPT ![m.file] = @ + 1][g] = event_count[g]
    <3>1. m.file = l.file /\ l.file \in Files
      BY <1>4, <1>5 DEF f
    <3>2. QED
      BY <2>1, <3>1
  <2>4. m \notin M
    <3>1. ASSUME m \in L PROVE m = l
      BY <1>5, <3>1, SameLocation DEF f, a
    <3>2. QED
      BY <3>1
  <2> HIDE DEF k, M
  <2>5. Counted([k EXCEPT ![m.file] = @ + 1], M \cup {m})
    BY <1>4, <1>5, <2>2, <2>3, <2>4, CountedAdd
  <2>6. QED
    BY <1>2, <2>3a, <2>5 DEF M, Counted
<1>8. Sound(content', next_append', event_count', L', conf'.files, scan')
  BY <1>2, <1>4, <1>6, <1>7 DEF Sound
<1>9. OpenedBehind(opened', scan')
  BY <1>1, <1>2 DEF OpenedBehind
<1>10. FileInv'
  BY <1>1, <1>2, <1>4, <1>8, <1>9, InvNext
<1>11. ASSUME NEW e
       PROVE  Pending(content', e) <=>
                  \/ /\ Pending(content, e)
                     /\ e # [id |-> l.id, time |-> l.time, status |-> l.status]
                  \/ e = [id |-> l.id, time |-> l.time, status |-> status]
  <2>1. Distinct(content)
    BY InvParts
  <2>2. Pending(c, e) <=>
            \/ Pending(content, e) /\ ~(ActiveAt(content[f], a) /\ e = Facts(content[f], a))
            \/ ActiveAt(c[f], a) /\ e = Facts(c[f], a)
    <3>1. f \in Files /\ a \in Nat /\ OthersSame(content, c, f, a)
      BY <1>4
    <3>2. QED
      BY <2>1, <3>1, ChangedPending
  <2>3. QED
    BY <1>2, <1>4, <2>2
<1>12. QED
  BY <1>10, <1>11

LEMMA FinishChangesFiles ==
    ASSUME IndexInvariant, FileInv, Dependable, NEW l \in event_locations,
           NEW status \in Final, FinishEvent(l, status)
    PROVE  /\ FileInv'
           /\ \A e : Pending(content', e) <=>
                  /\ Pending(content, e)
                  /\ e # [id |-> l.id, time |-> l.time, status |-> l.status]
<1> DEFINE f == l.file
           a == l.offset
           c == WithStatus(l, status)
           n == [next_append EXCEPT ![f] = AppendAfter(l)]
           k == DecreaseEventCount(f)
           L == event_locations
<1>1. /\ ~scan.on /\ durable = content /\ timebased_replay = L /\ ~scan.compress
      /\ adding = NoRequest
  BY DEF FinishEvent, Ready, FileInv
<1>2. status \in Active \cup Final /\ status \notin Active
  BY DEF Active, Final
<1>3. /\ c \in [Files -> Seq(Cell)] /\ DurableStatus(l, status) = c
      /\ f \in Files /\ a \in Nat
      /\ OthersSame(content, c, f, a) /\ Distinct(c)
      /\ ActiveAt(content[f], a)
      /\ ~ActiveAt(c[f], a)
      /\ Facts(content[f], a) = [id |-> l.id, time |-> l.time, status |-> l.status]
      /\ Laid(c[f], 1) /\ AllLaid(c, next_append)
  BY <1>2, StatusChange
<1>4. /\ L' = L \ {l} /\ timebased_replay' = {x \in L : x.time # l.time}
      /\ ReleaseFiles(c, c, opened, n, k, {})
      /\ UNCHANGED <<conf, scan, adding>>
  BY <1>1, <1>3 DEF FinishEvent
<1>5. timebased_replay' = L'
  <2>1. \A x \in L : x.time = l.time => x = l
    BY LocationsDiffer
  <2>2. QED
    BY <1>4, <2>1
<1>6. /\ next_append \in [Files -> Nat] /\ event_count \in [Files -> Int]
      /\ opened \subseteq Files
  BY IndexAsIs DEF FileTypes
<1>7. n[f] = 1 \/ n[f] = next_append[f]
  BY <1>3, <1>6 DEF AppendAfter, HeaderSize
<1>8. FileTypes(c, c, opened, n, k)
  <2>1. AppendAfter(l) \in Nat
    BY <1>3, <1>6 DEF AppendAfter, HeaderSize
  <2>2. QED
    BY <1>3, <1>6, <2>1 DEF FileTypes, DecreaseEventCount
<1>9. \A g \in Files : g # f => n[g] = next_append[g]
  BY <1>6
<1>10. k = [event_count EXCEPT ![l.file] = @ - 1]
  BY DEF DecreaseEventCount
<1> HIDE DEF c, n, k, f, a
<1>11. AllLaid(c, n)
  <2>1. ASSUME NEW g \in Files PROVE Laid(c[g], n[g])
    BY <1>3, <1>7, <1>9 DEF AllLaid
  <2>2. QED
    BY <2>1 DEF AllLaid
<1>12. Found(c, L', conf'.files, scan')
  <2>1. Found(content, L, conf'.files, scan')
    BY <1>4, InvParts
  <2>2. \A y \in L : y.file # f \/ y.offset # a => IsFound(L', y.file, y.offset)
    BY <1>4 DEF IsFound, f, a
  <2>3. f < conf'.files
    BY <1>4, LocationInUse DEF f
  <2>4. QED
    BY <1>3, <1>3, <2>1, <2>2, <2>3, ChangedFound
<1>13. Counted(k, L')
  BY <1>3, <1>4, <1>6, <1>10, InvParts, CountedRemove DEF f
<1>14. Sound(c, n, k, L', conf'.files, scan')
  BY <1>3, <1>11, <1>12, <1>13 DEF Sound
<1>15. ~scan'.on /\ ~scan'.compress /\ adding' = NoRequest
  BY <1>1, <1>4
<1>16. /\ durable' = content'
       /\ Sound(content', next_append', event_count', L', conf'.files, scan')
       /\ SameFiles(c, content')
  BY <1>4, <1>5, <1>8, <1>14, <1>15, ReleasedSound
<1>17. OpenedBehind(opened', scan')
  BY <1>15 DEF OpenedBehind
<1>18. FileInv'
  BY <1>5, <1>15, <1>16, <1>17, InvNext
<1>19. ASSUME NEW e
       PROVE  Pending(content', e) <=>
                  /\ Pending(content, e)
                  /\ e # [id |-> l.id, time |-> l.time, status |-> l.status]
  <2>1. Distinct(content)
    BY InvParts
  <2>2. Pending(c, e) <=>
            \/ Pending(content, e) /\ ~(ActiveAt(content[f], a) /\ e = Facts(content[f], a))
            \/ ActiveAt(c[f], a) /\ e = Facts(c[f], a)
    <3>1. f \in Files /\ a \in Nat /\ OthersSame(content, c, f, a)
      BY <1>3
    <3>2. QED
      BY <2>1, <3>1, ChangedPending
  <2>3. Pending(content', e) <=> Pending(c, e)
    BY <1>16, SamePending
  <2>4. QED
    BY <1>3, <2>2, <2>3
<1>20. QED
  BY <1>18, <1>19

-----------------------------------------------------------------------------
(* What a step of the journal does to the pending events of its files.     *)

SameEvents == \A e : Pending(content', e) <=> Pending(content, e)

EventAdded ==
    \E id \in RequestIds, time \in 1 .. MaxTime :
        /\ Ready /\ Ready' /\ id \notin Indexed /\ time \notin UsedTimes
        /\ \A e : Pending(content', e) <=>
               \/ Pending(content, e)
               \/ e = [id |-> id, time |-> time, status |-> "READY"]

EventAdvanced ==
    \E l \in event_locations, status \in Active :
        /\ Ready /\ Ready' /\ <<l.status, status>> \in Transitions
        /\ \A e : Pending(content', e) <=>
               \/ /\ Pending(content, e)
                  /\ e # [id |-> l.id, time |-> l.time, status |-> l.status]
               \/ e = [id |-> l.id, time |-> l.time, status |-> status]

EventEnded ==
    \E l \in event_locations :
        /\ Ready /\ Ready'
        /\ \A e : Pending(content', e) <=>
               /\ Pending(content, e)
               /\ e # [id |-> l.id, time |-> l.time, status |-> l.status]

LEMMA AddFileStep ==
    ASSUME IndexInvariant, FileInv, Dependable, Add
    PROVE  FileInv' /\ (SameEvents \/ EventAdded)
<1>1. conf.sync = "flush" /\ ~conf.compress /\ ~CutShort
  BY DependableState
<1>2. PICK id \in RequestIds, d \in DataSizes, t \in InputTimes, time \in 1 .. MaxTime :
          AddEvent(id, d, t, time)
  BY <1>1 DEF Add, AddEventFails, CrashInAddEvent
<1>3. /\ Ready /\ id \notin Indexed /\ time \notin UsedTimes
      /\ \/ \E f \in Files :
                IsNextFit(f, EventSize(d)) /\ WriteNewEvent(f, id, d, time)
         \/ Refuse
  BY <1>1, <1>2 DEF AddEvent, IsFreeTime, CanCompress
<1>4. d \in Nat \ {0} /\ time \in Nat
  BY JournalAssumption DEF Dependable
<1>5. ~scan.on /\ adding = NoRequest
  BY <1>3 DEF Ready
<1>6. CASE Refuse
  BY <1>5, <1>6, RefuseKeepsFiles, SamePending DEF SameEvents
<1>7. CASE \E f \in Files : IsNextFit(f, EventSize(d)) /\ WriteNewEvent(f, id, d, time)
  <2>1. PICK f \in Files : f < conf.files /\ WriteNewEvent(f, id, d, time)
    BY <1>7 DEF IsNextFit
  <2>2. /\ FileInv'
        /\ \A e : Pending(content', e) <=>
               \/ Pending(content, e)
               \/ e = [id |-> id, time |-> time, status |-> "READY"]
    BY <1>3, <1>4, <2>1, AddChangesFiles
  <2>3. Ready'
    BY <1>5, <2>1 DEF WriteNewEvent, Ready
  <2>4. EventAdded
    BY <1>3, <2>2, <2>3, Zenon DEF EventAdded
  <2>5. QED
    BY <2>2, <2>4
<1>8. QED
  BY <1>3, <1>6, <1>7

LEMMA UpdateFileStep ==
    ASSUME IndexInvariant, FileInv, Dependable, Update
    PROVE  FileInv' /\ (EventAdvanced \/ EventEnded)
<1>1. PICK l \in event_locations :
          \/ \E status \in Active : AdvanceEvent(l, status)
          \/ \E status \in Final : FinishEvent(l, status)
  BY DEF Update
<1>2. CASE \E status \in Active : AdvanceEvent(l, status)
  <2>1. PICK status \in Active : AdvanceEvent(l, status)
    BY <1>2
  <2>2. /\ FileInv'
        /\ \A e : Pending(content', e) <=>
               \/ /\ Pending(content, e)
                  /\ e # [id |-> l.id, time |-> l.time, status |-> l.status]
               \/ e = [id |-> l.id, time |-> l.time, status |-> status]
    BY <2>1, AdvanceChangesFiles
  <2>3. Ready /\ Ready' /\ <<l.status, status>> \in Transitions
    BY <2>1 DEF AdvanceEvent, Ready
  <2>4. EventAdvanced
    BY <2>2, <2>3, Zenon DEF EventAdvanced
  <2>5. QED
    BY <2>2, <2>4
<1>3. CASE \E status \in Final : FinishEvent(l, status)
  <2>1. PICK status \in Final : FinishEvent(l, status)
    BY <1>3
  <2>2. /\ FileInv'
        /\ \A e : Pending(content', e) <=>
               /\ Pending(content, e)
               /\ e # [id |-> l.id, time |-> l.time, status |-> l.status]
    BY <2>1, FinishChangesFiles
  <2>3. Ready /\ Ready'
    BY <2>1 DEF FinishEvent, Ready
  <2>4. EventEnded
    BY <2>2, <2>3, Zenon DEF EventEnded
  <2>5. QED
    BY <2>2, <2>4
<1>4. QED
  BY <1>1, <1>2, <1>3

LEMMA StillFileStep ==
    ASSUME UNCHANGED vars, FileInv
    PROVE  FileInv' /\ SameFiles(content, content')
<1>1. /\ content' = content /\ durable' = durable /\ opened' = opened
      /\ next_append' = next_append /\ event_count' = event_count
      /\ event_locations' = event_locations /\ timebased_replay' = timebased_replay
      /\ conf' = conf /\ scan' = scan /\ adding' = adding
  BY DEF vars, fileVars, indexVars
<1>2. FileInv'
  BY <1>1 DEF FileInv
<1>3. QED
  BY <1>1, <1>2, SameFilesRefl

LEMMA FileStep ==
    ASSUME IndexInvariant, FileInv, Dependable, [Next]_vars
    PROVE  FileInv' /\ (SameEvents \/ EventAdded \/ EventAdvanced \/ EventEnded)
<1>1. CASE Add
  BY <1>1, AddFileStep
<1>2. CASE Update
  BY <1>2, UpdateFileStep
<1>3. ASSUME Configure \/ Scan \/ Reopen \/ Crash \/ UNCHANGED vars
      PROVE  FileInv' /\ SameFiles(content, content')
  <2>1. CASE Configure
    BY <2>1, SetMaximumKeepsFiles, SetOptionKeepsFiles DEF Configure
  <2>2. CASE Scan
    <3>1. ~CompressEvent
      BY DEF CompressEvent, FileInv
    <3>2. QED
      BY <2>2, <3>1, SkipKeepsFiles, OpenKeepsFiles, CloseKeepsFiles,
         FinishedKeepsFiles, PendingKeepsFiles, EndKeepsFiles DEF Scan
  <2>3. CASE Reopen
    BY <2>3, ReopenKeepsFiles
  <2>4. CASE Crash
    BY <2>4, CrashKeepsFiles
  <2>5. CASE UNCHANGED vars
    BY <2>5, StillFileStep
  <2>6. QED
    BY <1>3, <2>1, <2>2, <2>3, <2>4, <2>5
<1>4. /\ ~AddEventAgain /\ ~AddEventAgainFails /\ ~CrashInAddEventAgain
      /\ ~CrashInCompress
  BY DependableState DEF AddEventAgain, AddEventAgainFails, CrashInAddEventAgain,
                         CrashInCompress, FileInv
<1>5. CASE Configure \/ Scan \/ Reopen \/ Crash \/ UNCHANGED vars
  <2>1. FileInv' /\ SameFiles(content, content')
    BY <1>3, <1>5
  <2>2. SameEvents
    BY <2>1, SamePending DEF SameEvents
  <2>3. QED
    BY <2>1, <2>2
<1>6. QED
  BY <1>1, <1>2, <1>4, <1>5 DEF Next, Continue

LEMMA InitFiles == Init => FileInv
<1> SUFFICES ASSUME Init PROVE FileInv
  OBVIOUS
<1>1. /\ content = [f \in Files |-> << >>] /\ durable = content /\ opened = {}
      /\ next_append = [f \in Files |-> 0] /\ event_count = [f \in Files |-> 0]
      /\ event_locations = {} /\ timebased_replay = {} /\ adding = NoRequest
      /\ scan = StartScan(FALSE)
  BY DEF Init
<1>2. scan.on /\ scan.file = 0 /\ scan.read = 0 /\ ~scan.compress
  BY <1>1 DEF StartScan, ScanState
<1>3. \A o : ~EventAt(<< >>, o)
  <2>1. Len(<< >>) = 0
    OBVIOUS
  <2>2. \A o \in Nat : ~(o < 0)
    OBVIOUS
  <2>3. QED
    BY <2>1, <2>2 DEF EventAt
<1>4. \A f \in Files : \A o : ~ActiveAt(content[f], o)
  BY <1>1, <1>3 DEF ActiveAt
<1>5. AllLaid(content, next_append)
  <2>1. << >> \in Seq(Cell)
    OBVIOUS
  <2>2. Tiled(<< >>, 1)
    BY <1>3, <2>1, IdleTiled DEF ActiveAt
  <2>3. Laid(<< >>, 0)
    BY <2>2 DEF Laid
  <2>4. QED
    BY <1>1, <2>3 DEF AllLaid
<1>6. Found(content, event_locations, conf.files, scan) /\ Distinct(content)
  BY <1>4 DEF Found, Distinct
<1>7. Counted(event_count, event_locations)
  <2>1. \A f : InFile({}, f) = {}
    BY DEF InFile
  <2>2. IsFiniteSet({}) /\ Cardinality({}) = 0
    BY FS_EmptySet
  <2>3. QED
    BY <1>1, <2>1, <2>2 DEF Counted
<1>8. OpenedBehind(opened, scan)
  BY <1>1 DEF OpenedBehind
<1>9. ~(scan.on /\ scan.read > 0)
  BY <1>2
<1>10. QED
  BY <1>1, <1>2, <1>5, <1>6, <1>7, <1>8, <1>9 DEF FileInv, Sound

-----------------------------------------------------------------------------
(* The theorems.                                                           *)

LEMMA PersistedIsPending ==
    ASSUME IndexInvariant, FileInv
    PROVE  \A e : e \in Persisted <=> Pending(content, e)
<1>1. content \in [Files -> Seq(Cell)] /\ durable = content
  BY IndexAsIs DEF FileTypes, FileInv
<1>2. conf.files \in Nat /\ 0 .. (conf.files - 1) \subseteq Files
  BY IndexAsIs, FileRanges
<1>3. \A f \in Files, o \in Nat : ActiveAt(content[f], o) => f < conf.files
  BY InvParts DEF Found
<1>4. AllLaid(content, next_append)
  BY InvParts
<1>5. ASSUME NEW e PROVE e \in Persisted <=> Pending(content, e)
  <2>1. e \in UNION {PersistedIn(content[f]) : f \in 0 .. (conf.files - 1)}
            <=> Pending(content, e)
    BY <1>1, <1>2, <1>3, <1>4, PersistedPending
  <2>2. QED
    BY <1>1, <2>1 DEF Persisted
<1>6. QED
  BY <1>5

LEMMA IndexedIsPending ==
    ASSUME IndexInvariant, FileInv, Ready
    PROVE  \A e : e \in IndexedEvents <=> Pending(content, e)
<1>1. \A f \in Files, o \in Nat : Passed(scan, f, o)
  BY DEF Ready, Passed
<1>2. ASSUME NEW e, e \in IndexedEvents PROVE Pending(content, e)
  <2>1. PICK l \in event_locations :
            e = [id |-> l.id, time |-> l.time, status |-> l.status]
    BY <1>2 DEF IndexedEvents
  <2>2. /\ l.file \in Files /\ l.offset \in Nat /\ ActiveAt(content[l.file], l.offset)
        /\ content[l.file][l.offset + 2].id = l.id
        /\ content[l.file][l.offset + 1].time = l.time
        /\ content[l.file][l.offset + 1].status = l.status
    BY LocationActive
  <2>3. e = Facts(content[l.file], l.offset)
    BY <2>1, <2>2 DEF Facts
  <2>4. QED
    BY <2>2, <2>3, Zenon DEF Pending
<1>3. ASSUME NEW e, Pending(content, e) PROVE e \in IndexedEvents
  <2>1. PICK f \in Files, o \in Nat : ActiveAt(content[f], o) /\ e = Facts(content[f], o)
    BY <1>3, Zenon DEF Pending
  <2>2. PICK l \in event_locations :
            /\ content[f][o + 2].id = l.id /\ content[f][o + 1].time = l.time
            /\ content[f][o + 1].status = l.status
    BY <1>1, <2>1, FoundLocation
  <2>3. e = [id |-> l.id, time |-> l.time, status |-> l.status]
    BY <2>1, <2>2 DEF Facts
  <2>4. QED
    BY <2>3 DEF IndexedEvents
<1>4. QED
  BY <1>2, <1>3

(* The inductive invariant of the files holds in every reachable state of  *)
(* a journal whose writes are whole and flushed, and which does not        *)
(* compress its files.                                                     *)
THEOREM FileInvariantHolds ==
    ASSUME Dependable
    PROVE  Spec => [](IndexInvariant /\ FileInv)
<1>1. Init => IndexInvariant /\ FileInv
  BY InitInvariant, InitFiles
<1>2. IndexInvariant /\ FileInv /\ [Next]_vars => (IndexInvariant /\ FileInv)'
  BY NextInvariant, FileStep
<1>3. QED
  BY <1>1, <1>2, PTL DEF Spec

(* Whenever the journal answers to its clients, its index in memory is     *)
(* what load_event_locations() would rebuild from the bytes the kernel     *)
(* has: replay offers every pending event, once, and no event which was    *)
(* completed or failed, for any number of files, events, crashes and loads.*)
THEOREM ReplayIsExact ==
    ASSUME Dependable
    PROVE  Spec => []IndexIsPersisted
<1>1. IndexInvariant /\ FileInv => IndexIsPersisted
  <2>1. SUFFICES ASSUME IndexInvariant, FileInv, Ready
                 PROVE  IndexedEvents = Persisted
    BY DEF IndexIsPersisted
  <2>2. \A e : e \in IndexedEvents <=> e \in Persisted
    BY <2>1, IndexedIsPending, PersistedIsPending
  <2> HIDE DEF IndexedEvents, Persisted
  <2>3. QED
    BY <2>2, Zenon
<1>2. QED
  BY <1>1, FileInvariantHolds, PTL

(* f_event_locations and f_timebased_replay hold the same events: replay   *)
(* by identifier and by time agree.                                        *)
THEOREM BothMapsAgree ==
    ASSUME Dependable
    PROVE  Spec => []ReplayAgrees
<1>1. IndexInvariant /\ FileInv => ReplayAgrees
  BY DEF FileInv, ReplayAgrees
<1>2. QED
  BY <1>1, FileInvariantHolds, PTL

(* f_event_count is the number of pending events of its file, so that      *)
(* add_event() turns to another file when this one is full, never before.  *)
THEOREM CountsAreExact ==
    ASSUME Dependable
    PROVE  Spec => []CountIsExact
<1>1. IndexInvariant /\ FileInv => CountIsExact
  BY DEF FileInv, Sound, Counted, InFile, CountIsExact
<1>2. QED
  BY <1>1, FileInvariantHolds, PTL

(* The attachments of a pending event stay the bytes write_new_event()     *)
(* saved, whatever is added behind, rewritten or truncated.                *)
THEOREM AttachmentsStay ==
    ASSUME Dependable
    PROVE  Spec => []AttachmentsIntact
<1>1. IndexInvariant /\ FileInv => AttachmentsIntact
  <2>1. SUFFICES ASSUME IndexInvariant, FileInv, NEW l \in event_locations,
                        NEW i \in (l.offset + EventSize(0) + 1) .. End(l)
                 PROVE  content[l.file][i] = Plain("data", l.id, l.time)
    BY DEF AttachmentsIntact
  <2> DEFINE s == content[l.file]
  <2>2. /\ l.offset \in Nat /\ WholeAt(s, l.offset)
        /\ s[l.offset + 2].id = l.id /\ s[l.offset + 1].time = l.time
        /\ Following(s, l.offset) = End(l)
    BY <2>1, LocationActive
  <2>3. i \in (l.offset + 3) .. Following(s, l.offset)
    BY <2>2 DEF EventSize
  <2>4. s[i] = Plain("data", s[l.offset + 2].id, s[l.offset + 1].time)
    BY <2>2, <2>3 DEF WholeAt
  <2>5. QED
    BY <2>2, <2>4
<1>2. QED
  BY <1>1, FileInvariantHolds, PTL

(* Once event_completed() or event_failed() took an event out of the       *)
(* index, no file offers it any more: not after a crash either.            *)
THEOREM FinishedStaysGone ==
    ASSUME Dependable
    PROVE  Spec => FinishedIsGone
<1>1. IndexIsPersisted' =>
          (Ready /\ Ready' => \A l \in event_locations :
              l.id \in Indexed' \/ \A e \in Persisted' : e.id # l.id)
  <2>1. SUFFICES ASSUME IndexIsPersisted', Ready', NEW l \in event_locations,
                        NEW e \in Persisted', e.id = l.id
                 PROVE  l.id \in Indexed'
    OBVIOUS
  <2>2. e \in IndexedEvents'
    BY <2>1 DEF IndexIsPersisted
  <2>3. PICK m \in event_locations' : e.id = m.id
    BY <2>2 DEF IndexedEvents
  <2>4. QED
    BY <2>1, <2>3 DEF Indexed
<1>2. QED
  BY <1>1, ReplayIsExact, PTL DEF Spec, FinishedIsGone

LEMMA PersistedStep ==
    ASSUME IndexInvariant, FileInv, IndexInvariant', FileInv'
    PROVE  /\ \A e : e \in Persisted <=> Pending(content, e)
           /\ \A e : e \in Persisted' <=> Pending(content', e)
<1>1. content' \in [Files -> Seq(Cell)] /\ durable' = content'
  BY DEF IndexInvariant, TypeOK, FileInv
<1>2. conf'.files \in Nat /\ 0 .. (conf'.files - 1) \subseteq Files
  <2>1. conf'.files \in FileCounts
    BY DEF IndexInvariant, TypeOK, Configurations
  <2>2. conf'.files \in 1 .. FileLimit /\ FileLimit \in Nat
    BY <2>1, JournalAssumption
  <2>3. QED
    BY <2>2 DEF Files
<1>3. /\ AllLaid(content', next_append')
      /\ \A f \in Files, o \in Nat : ActiveAt(content'[f], o) => f < conf'.files
  BY DEF FileInv, Sound, Found
<1>4. ASSUME NEW e PROVE e \in Persisted' <=> Pending(content', e)
  <2>1. e \in UNION {PersistedIn(content'[f]) : f \in 0 .. (conf'.files - 1)}
            <=> Pending(content', e)
    BY <1>1, <1>2, <1>3, PersistedPending
  <2>2. Persisted' = UNION {PersistedIn(content'[f]) : f \in 0 .. (conf'.files - 1)}
    BY <1>1 DEF Persisted
  <2>3. QED
    BY <2>1, <2>2
<1>5. QED
  BY <1>4, PersistedIsPending

(* A load keeps every pending event in the files at each of its steps: a   *)
(* process killed in the middle of load_event_locations() loses none.      *)
THEOREM LoadLosesNothing ==
    ASSUME Dependable
    PROVE  Spec => LoadKeepsEvents
<1>1. IndexInvariant /\ FileInv /\ (IndexInvariant /\ FileInv)' /\ [Next]_vars =>
          (scan.on /\ scan'.on => Persisted \subseteq Persisted')
  <2>1. SUFFICES ASSUME IndexInvariant, FileInv, IndexInvariant', FileInv',
                        [Next]_vars, scan.on
                 PROVE  Persisted \subseteq Persisted'
    OBVIOUS
  <2>2. ~Ready
    BY <2>1 DEF Ready
  <2>3. SameEvents
    BY <2>1, <2>2, FileStep DEF EventAdded, EventAdvanced, EventEnded
  <2>4. \A e : e \in Persisted => e \in Persisted'
    BY <2>1, <2>3, PersistedStep, Zenon DEF SameEvents
  <2> HIDE DEF Persisted
  <2>5. QED
    BY <2>4
<1>2. QED
  BY <1>1, FileInvariantHolds, PTL DEF Spec, LoadKeepsEvents

LEMMA LedgerStep ==
    ASSUME Dependable, IndexInvariant, FileInv, IndexInvariant', FileInv', [Next]_vars
    PROVE  [Ledger!Next]_<<Persisted, Ready>>
<1> DEFINE P == Persisted
           Q == Persisted'
           R == Ready
<1>1. \A e : /\ e \in P <=> Pending(content, e)
             /\ e \in Q <=> Pending(content', e)
  BY PersistedStep
<1>2. SameEvents \/ EventAdded \/ EventAdvanced \/ EventEnded
  BY FileStep
<1>3. R \in BOOLEAN /\ R' \in BOOLEAN
  BY DEF Ready
<1> HIDE DEF P, Q
<1>4. CASE SameEvents
  <2>1. Q = P
    <3>1. \A e : e \in Q <=> e \in P
      BY <1>1, <1>4, Zenon DEF SameEvents
    <3>2. QED
      BY <3>1, Zenon
  <2> HIDE DEF R
  <2>2. CASE R' = R
    BY <2>1, <2>2 DEF P, Q, R
  <2>3. CASE R' # R
    <3>1. R' = ~R
      BY <1>3, <2>3
    <3>2. QED
      BY <2>1, <3>1 DEF P, Q, R, Ledger!Next, Ledger!StopOrStart
  <2>4. QED
    BY <2>2, <2>3
<1>5. CASE EventAdded
  <2>1. PICK id \in RequestIds, time \in 1 .. MaxTime :
            /\ Ready /\ Ready' /\ id \notin Indexed /\ time \notin UsedTimes
            /\ \A e : Pending(content', e) <=>
                   \/ Pending(content, e)
                   \/ e = [id |-> id, time |-> time, status |-> "READY"]
    BY <1>5, Zenon DEF EventAdded
  <2>2. Q = P \cup {[id |-> id, time |-> time, status |-> "READY"]}
    <3> DEFINE new == [id |-> id, time |-> time, status |-> "READY"]
    <3>1. \A e : e \in Q <=> e \in P \/ e = new
      BY <1>1, <2>1, Zenon
    <3> HIDE DEF new
    <3>2. Q = P \cup {new}
      BY <3>1
    <3>3. QED
      BY <3>2 DEF new
  <2>3. \A e \in P : e.id # id /\ e.time # time
    <3>1. SUFFICES ASSUME NEW e \in P PROVE e.id # id /\ e.time # time
      OBVIOUS
    <3>2. e \in IndexedEvents
      BY <1>1, <2>1, IndexedIsPending
    <3>3. PICK l \in event_locations :
              e = [id |-> l.id, time |-> l.time, status |-> l.status]
      BY <3>2 DEF IndexedEvents
    <3>4. timebased_replay = event_locations
      BY DEF FileInv
    <3>5. QED
      BY <2>1, <3>3, <3>4 DEF Indexed, UsedTimes
  <2>4. Ledger!Accept
    BY <2>1, <2>2, <2>3 DEF P, Q, Ledger!Accept
  <2>5. QED
    BY <2>4 DEF Ledger!Next
<1>6. CASE EventAdvanced
  <2>1. PICK l \in event_locations, status \in Active :
            /\ Ready /\ Ready' /\ <<l.status, status>> \in Transitions
            /\ \A e : Pending(content', e) <=>
                   \/ /\ Pending(content, e)
                      /\ e # [id |-> l.id, time |-> l.time, status |-> l.status]
                   \/ e = [id |-> l.id, time |-> l.time, status |-> status]
    BY <1>6, Zenon DEF EventAdvanced
  <2> DEFINE old == [id |-> l.id, time |-> l.time, status |-> l.status]
             new == [id |-> l.id, time |-> l.time, status |-> status]
  <2>2. old \in P
    <3>1. old \in IndexedEvents
      BY DEF IndexedEvents
    <3>2. QED
      BY <1>1, <2>1, <3>1, IndexedIsPending
  <2>3. new = [old EXCEPT !.status = status]
    OBVIOUS
  <2>4. <<old.status, status>> \in Ledger!Later /\ status \in Ledger!Statuses
    <3>1. l \in Location
      BY IndexAsIs
    <3>2. l.status \in Active
      BY <3>1 DEF Location
    <3>3. QED
      BY <2>1, <3>2 DEF Transitions, Active, Ledger!Later, Ledger!Statuses
  <2>5. \A e : e \in Q <=> (e \in P /\ e # old) \/ e = new
    BY <1>1, <2>1, Zenon
  <2> HIDE DEF old, new
  <2>6. Q = (P \ {old}) \cup {new}
    BY <2>5
  <2>7. Ledger!MoveForward
    BY <2>1, <2>2, <2>3, <2>4, <2>6 DEF P, Q, Ledger!MoveForward
  <2>8. QED
    BY <2>7 DEF Ledger!Next
<1>7. CASE EventEnded
  <2>1. PICK l \in event_locations :
            /\ Ready /\ Ready'
            /\ \A e : Pending(content', e) <=>
                   /\ Pending(content, e)
                   /\ e # [id |-> l.id, time |-> l.time, status |-> l.status]
    BY <1>7, Zenon DEF EventEnded
  <2> DEFINE old == [id |-> l.id, time |-> l.time, status |-> l.status]
  <2>2. old \in P
    <3>1. old \in IndexedEvents
      BY DEF IndexedEvents
    <3>2. QED
      BY <1>1, <2>1, <3>1, IndexedIsPending
  <2>3. \A e : e \in Q <=> e \in P /\ e # old
    BY <1>1, <2>1, Zenon
  <2> HIDE DEF old
  <2>4. Q = P \ {old}
    BY <2>3
  <2>5. Ledger!Finish
    BY <2>1, <2>2, <2>4 DEF P, Q, Ledger!Finish
  <2>6. QED
    BY <2>5 DEF Ledger!Next
<1>8. QED
  BY <1>2, <1>4, <1>5, <1>6, <1>7

LEMMA LedgerInit == Init => Ledger!Init
<1> SUFFICES ASSUME Init PROVE Ledger!Init
  OBVIOUS
<1>1. IndexInvariant /\ FileInv
  BY InitInvariant, InitFiles
<1>2. ~Ready
  BY DEF Init, Ready, StartScan, ScanState
<1>3. \A f \in Files : \A o \in Nat : ~ActiveAt(content[f], o)
  <2>1. \A f \in Files : content[f] = << >>
    BY DEF Init
  <2>2. Len(<< >>) = 0 /\ \A o \in Nat : ~(o < 0)
    OBVIOUS
  <2>3. QED
    BY <2>1, <2>2 DEF ActiveAt, EventAt
<1>4. \A e : e \notin Persisted
  BY <1>1, <1>3, PersistedIsPending DEF Pending
<1>5. Persisted = {}
  BY <1>4, Zenon
<1>6. QED
  BY <1>2, <1>5 DEF Ledger!Init

(* The files implement the ledger of module EventLedger: only add_event()  *)
(* makes an event pending, only a client's report moves it forward or ends *)
(* it; a load, a restart, a change of options or a kill between two calls  *)
(* or two steps of a load leaves the events a client may still get as they *)
(* are. A kill inside a write does not: it may leave a record made of the  *)
(* new event's header and an old event's bytes, which the next load takes  *)
(* for an event, so Dependable leaves it out (AttachmentsIntact is         *)
(* violated by it); RestartsKeepEvents says what holds then.               *)
THEOREM JournalKeepsLedger ==
    ASSUME Dependable
    PROVE  Spec => FilesKeepLedger
<1>1. IndexInvariant /\ FileInv /\ (IndexInvariant /\ FileInv)' /\ [Next]_vars =>
          [Ledger!Next]_<<Persisted, Ready>>
  BY LedgerStep
<1>2. QED
  BY <1>1, LedgerInit, FileInvariantHolds, PTL DEF Spec, FilesKeepLedger, Ledger!Spec

-----------------------------------------------------------------------------
(* The paths of a load, and compression.                                   *)

(* p is one of the offsets where a load of the file s from its header on   *)
(* looks for an event: every set of offsets with the first event, and with *)
(* each event the one behind it, holds p.                                  *)
OnPath(s, p) ==
    /\ p \in HeaderSize .. Len(s)
    /\ \A R \in SUBSET (0 .. Len(s)) : Closed(s, R) /\ HeaderSize \in R => p \in R

LEMMA PathRange ==
    ASSUME NEW s \in Seq(Cell), NEW p, OnPath(s, p)
    PROVE  p \in Nat /\ 1 <= p /\ p <= Len(s) /\ Len(s) \in Nat /\ p \in 0 .. Len(s)
           /\ 1 \in 0 .. Len(s)
<1>1. Len(s) \in Nat
  BY LenProperties
<1>2. QED
  BY <1>1 DEF OnPath, HeaderSize

(* The first event is on the path, and behind each event the next one is.  *)
LEMMA PathStarts ==
    ASSUME NEW s \in Seq(Cell), 1 <= Len(s)
    PROVE  OnPath(s, HeaderSize)
<1>1. Len(s) \in Nat
  BY LenProperties
<1>2. QED
  BY <1>1 DEF OnPath, HeaderSize

LEMMA PathGoesOn ==
    ASSUME NEW s \in Seq(Cell), NEW p, OnPath(s, p), ValidEventAt(s, p)
    PROVE  OnPath(s, Following(s, p))
<1>1. p \in 0 .. Len(s) /\ 1 <= p /\ Len(s) \in Nat
  BY PathRange
<1>2. Following(s, p) \in 0 .. Len(s) /\ p + 2 < Following(s, p)
  BY <1>1, FollowingProperties
<1>3. Following(s, p) \in HeaderSize .. Len(s)
  BY <1>1, <1>2 DEF HeaderSize
<1>4. ASSUME NEW R \in SUBSET (0 .. Len(s)), Closed(s, R), HeaderSize \in R
      PROVE  Following(s, p) \in R
  BY <1>4 DEF OnPath, Closed
<1>5. QED
  BY <1>3, <1>4 DEF OnPath

(* Whether p is on the path depends on the cells before p alone.           *)
LEMMA PathPrefix ==
    ASSUME NEW s \in Seq(Cell), NEW t \in Seq(Cell), NEW p, OnPath(s, p),
           p <= Len(t), \A i \in 1 .. p : t[i] = s[i]
    PROVE  OnPath(t, p)
<1>1. /\ p \in Nat /\ 1 <= p /\ p <= Len(s) /\ Len(s) \in Nat /\ Len(t) \in Nat
  BY PathRange, LenProperties
<1>2. p \in HeaderSize .. Len(t)
  BY <1>1 DEF HeaderSize
<1>3. ASSUME NEW R \in SUBSET (0 .. Len(t)), Closed(t, R), HeaderSize \in R, p \notin R
      PROVE  FALSE
  <2> DEFINE Q == {q \in 0 .. Len(s) : p < q \/ (q < p /\ q \in R)}
  <2>1. p \notin Q
    BY <1>1
  <2>2. HeaderSize \in Q
    BY <1>1, <1>3 DEF HeaderSize
  <2>3. Closed(s, Q)
    <3> SUFFICES ASSUME NEW q \in Q, ValidEventAt(s, q)
                 PROVE  Following(s, q) \in Q
      BY DEF Closed
    <3>1. q \in 0 .. Len(s) /\ q \in Nat
      OBVIOUS
    <3>2. Following(s, q) \in 0 .. Len(s) /\ q < Following(s, q)
      BY <1>1, <3>1, FollowingProperties
    <3>3. CASE p < q
      BY <1>1, <3>1, <3>2, <3>3
    <3>4. CASE q < p /\ q \in R
      <4>1. q + 1 \in 1 .. p
        BY <1>1, <3>1, <3>4
      <4>2. t[q + 1] = s[q + 1] /\ Following(t, q) = Following(s, q)
        BY <4>1 DEF Following
      <4>3. CASE p < Following(s, q)
        BY <3>2, <4>3
      <4>4. CASE Following(s, q) <= p
        <5>1. ValidEventAt(t, q)
          BY <1>1, <3>1, <3>2, <3>4, <4>2, <4>4 DEF ValidEventAt, Following
        <5>2. Following(s, q) \in R
          BY <1>3, <3>4, <4>2, <5>1 DEF Closed
        <5>3. Following(s, q) # p
          BY <1>3, <5>2
        <5>4. QED
          BY <1>1, <3>2, <4>4, <5>2, <5>3
      <4>5. QED
        BY <1>1, <3>2, <4>3, <4>4
    <3>5. QED
      BY <3>3, <3>4
  <2>4. Q \in SUBSET (0 .. Len(s))
    OBVIOUS
  <2> HIDE DEF Q
  <2>5. QED
    BY <2>1, <2>2, <2>3, <2>4 DEF OnPath
<1>4. QED
  BY <1>2, <1>3 DEF OnPath

(* A write which leaves the size and the kind of every cell alone keeps    *)
(* the path.                                                               *)
LEMMA PathKept ==
    ASSUME NEW s \in Seq(Cell), NEW t \in Seq(Cell), NEW p, OnPath(s, p),
           Len(t) = Len(s),
           \A i \in 1 .. Len(s) : t[i].kind = s[i].kind /\ t[i].size = s[i].size
    PROVE  OnPath(t, p)
<1>1. Len(s) \in Nat
  BY LenProperties
<1>2. ASSUME NEW q \in 0 .. Len(s)
      PROVE  /\ ValidEventAt(t, q) <=> ValidEventAt(s, q)
             /\ ValidEventAt(s, q) => Following(t, q) = Following(s, q)
  <2>1. q < Len(s) => q + 1 \in 1 .. Len(s)
    BY <1>1
  <2>2. QED
    BY <2>1 DEF ValidEventAt, Following
<1>3. \A R \in SUBSET (0 .. Len(s)) : Closed(t, R) <=> Closed(s, R)
  BY <1>2 DEF Closed
<1>4. QED
  BY <1>3 DEF OnPath

(* What a load finds from an offset of the path on it finds from the start. *)
LEMMA PathFound ==
    ASSUME NEW s \in Seq(Cell), NEW p, OnPath(s, p)
    PROVE  Walk(s)[p] \subseteq Walk(s)[HeaderSize]
<1> DEFINE R == {q \in 0 .. Len(s) : Walk(s)[q] \subseteq Walk(s)[HeaderSize]}
<1>1. p \in 0 .. Len(s) /\ HeaderSize \in 0 .. Len(s)
  BY PathRange DEF HeaderSize
<1>2. HeaderSize \in R /\ R \in SUBSET (0 .. Len(s))
  BY <1>1
<1>3. ASSUME NEW q \in R, ValidEventAt(s, q)
      PROVE  Following(s, q) \in R
  <2>1. q \in 0 .. Len(s) /\ Walk(s)[q] \subseteq Walk(s)[HeaderSize]
    OBVIOUS
  <2>2. Walk(s)[q] = Walk(s)[Following(s, q)] \cup Own(s, q)
    BY <1>3, <2>1, WalkProperties
  <2>3. Following(s, q) \in 0 .. Len(s)
    BY <1>3, <2>1, FollowingProperties
  <2>4. QED
    BY <2>1, <2>2, <2>3
<1>4. p \in R
  <2> HIDE DEF R
  <2>1. Closed(s, R)
    BY <1>3 DEF Closed
  <2>2. QED
    BY <1>2, <2>1 DEF OnPath
<1>5. QED
  BY <1>4

(* The events on the path follow each other without a gap or an overlap.   *)
LEMMA PathChain ==
    ASSUME NEW s \in Seq(Cell), NEW p, NEW q, OnPath(s, p), OnPath(s, q), p < q
    PROVE  ValidEventAt(s, p) /\ Following(s, p) <= q
<1> DEFINE P == 0 .. Len(s)
           V(x) == ValidEventAt(s, x)
           F(x) == Following(s, x)
           Apart(x, y) == x < y => V(x) /\ F(x) <= y
           C == {x \in P : OnPath(s, x) /\ \A y \in P : OnPath(s, y) =>
                                              Apart(x, y) /\ Apart(y, x)}
<1>1. Len(s) \in Nat /\ 1 <= Len(s) /\ P \subseteq Nat
  BY PathRange
<1>2. \A x \in P : V(x) => F(x) \in P /\ x < F(x)
  BY <1>1, FollowingProperties
<1>3. \A x \in P : OnPath(s, x) /\ V(x) => OnPath(s, F(x))
  BY PathGoesOn
<1>4. \A x : OnPath(s, x) => x \in P /\ 1 <= x
  BY PathRange
<1>5. HeaderSize = 1 /\ 1 \in P /\ OnPath(s, 1)
  BY <1>1, PathStarts DEF HeaderSize
<1>6. \A R \in SUBSET P : (\A x \in R : V(x) => F(x) \in R) /\ 1 \in R =>
          \A y \in P : OnPath(s, y) => y \in R
  BY <1>5 DEF OnPath, Closed
<1> HIDE DEF V, F, P
<1>7. 1 \in C
  <2> SUFFICES ASSUME NEW y \in P, OnPath(s, y), 1 < y
               PROVE  V(1) /\ F(1) <= y
    BY <1>1, <1>4, <1>5
  <2> DEFINE R == {x \in P : x = 1 \/ (V(1) /\ F(1) <= x)}
  <2>1. ASSUME NEW x \in R, V(x) PROVE F(x) \in R
    <3>1. x \in P /\ F(x) \in P /\ x < F(x) /\ x \in Nat /\ F(x) \in Nat
      BY <1>1, <1>2, <2>1
    <3>2. CASE x = 1
      BY <2>1, <3>1, <3>2
    <3>3. CASE V(1) /\ F(1) <= x
      <4>1. F(1) \in Nat
        BY <1>1, <1>2, <1>5, <3>3
      <4>2. QED
        BY <3>1, <3>3, <4>1
    <3>4. QED
      BY <3>2, <3>3
  <2>2. 1 \in R /\ R \in SUBSET P
    BY <1>5
  <2>3. y \in R
    <3> HIDE DEF R
    <3>1. QED
      BY <1>6, <2>1, <2>2
  <2>4. QED
    BY <1>1, <2>3
<1>8. ASSUME NEW x \in C, V(x) PROVE F(x) \in C
  <2> DEFINE z == F(x)
  <2>1. /\ x \in P /\ OnPath(s, x) /\ z \in P /\ x < z /\ OnPath(s, z)
        /\ x \in Nat /\ z \in Nat
    BY <1>1, <1>2, <1>3, <1>8
  <2>2. \A y \in P : OnPath(s, y) => Apart(x, y) /\ Apart(y, x)
    OBVIOUS
  <2>3. ASSUME NEW y \in P, OnPath(s, y), y < z PROVE V(y) /\ F(y) <= z
    <3>1. y \in Nat /\ (x < y => z <= y)
      BY <1>1, <2>2, <2>3
    <3>2. y <= x
      BY <2>1, <2>3, <3>1
    <3>3. CASE y = x
      BY <1>8, <2>1, <3>3
    <3>4. CASE y < x
      <4>1. V(y) /\ F(y) <= x
        BY <2>2, <2>3, <3>4
      <4>2. F(y) \in Nat
        BY <1>1, <1>2, <4>1
      <4>3. QED
        BY <2>1, <4>1, <4>2
    <3>5. QED
      BY <2>1, <3>1, <3>2, <3>3, <3>4
  <2>4. ASSUME NEW y \in P, OnPath(s, y), z < y PROVE V(z) /\ F(z) <= y
    <3> DEFINE R == {u \in P : \/ OnPath(s, u) /\ u <= x
                               \/ u = z
                               \/ V(z) /\ F(z) <= u}
    <3>1. ASSUME NEW u \in R, V(u) PROVE F(u) \in R
      <4>1. u \in P /\ F(u) \in P /\ u < F(u) /\ u \in Nat /\ F(u) \in Nat
        BY <1>1, <1>2, <3>1
      <4>2. CASE OnPath(s, u) /\ u <= x
        <5>1. CASE u = x
          BY <4>1, <5>1
        <5>2. CASE u < x
          <6>1. F(u) <= x /\ OnPath(s, F(u))
            BY <1>3, <2>2, <3>1, <4>1, <4>2, <5>2
          <6>2. QED
            BY <4>1, <6>1
        <5>3. QED
          BY <2>1, <4>1, <4>2, <5>1, <5>2
      <4>3. CASE u = z
        BY <3>1, <4>1, <4>3
      <4>4. CASE V(z) /\ F(z) <= u
        <5>1. F(z) \in Nat
          BY <1>1, <1>2, <2>1, <4>4
        <5>2. QED
          BY <4>1, <4>4, <5>1
      <4>5. QED
        BY <4>2, <4>3, <4>4
    <3>2. 1 \in R /\ R \in SUBSET P
      BY <1>4, <1>5, <2>1
    <3>3. y \in R
      <4> HIDE DEF R
      <4>1. QED
        BY <1>6, <2>4, <3>1, <3>2
    <3>4. y \in Nat /\ ~(y <= x) /\ y # z
      BY <1>1, <2>1, <2>4
    <3>5. QED
      BY <3>3, <3>4
  <2>5. QED
    BY <2>1, <2>3, <2>4
<1>9. C \in SUBSET P /\ p \in P /\ q \in P
  BY <1>4
<1>10. p \in C
  <2> HIDE DEF C
  <2>1. QED
    BY <1>6, <1>7, <1>8, <1>9
<1>11. Apart(p, q)
  BY <1>9, <1>10
<1>12. QED
  BY <1>11 DEF V, F

(* Every event a load finds in a file is an active one on the path. *)
LEMMA PathWitness ==
    ASSUME NEW s \in Seq(Cell), 1 <= Len(s), NEW e \in Walk(s)[HeaderSize]
    PROVE  \E p : /\ OnPath(s, p) /\ ValidEventAt(s, p)
                  /\ s[p + 1].status \in Active /\ e = Record(s, p)
<1> DEFINE S == {p \in 0 .. Len(s) : OnPath(s, p) /\ e \in Walk(s)[p]}
<1>1. Len(s) \in Nat
  BY LenProperties
<1>2. HeaderSize \in S
  BY <1>1, PathStarts DEF HeaderSize
<1>3. PICK p \in S : \A y \in S : y <= p
  BY <1>1, <1>2, GreatestExists
<1>4. p \in 0 .. Len(s) /\ OnPath(s, p) /\ e \in Walk(s)[p]
  OBVIOUS
<1>5. ValidEventAt(s, p)
  BY <1>4, WalkProperties
<1>6. Walk(s)[p] = Walk(s)[Following(s, p)] \cup Own(s, p)
  BY <1>4, <1>5, WalkProperties
<1>7. /\ Following(s, p) \in 0 .. Len(s) /\ p < Following(s, p)
      /\ OnPath(s, Following(s, p))
  BY <1>1, <1>4, <1>5, FollowingProperties, PathGoesOn
<1>8. Following(s, p) \notin S
  BY <1>1, <1>3, <1>4, <1>7
<1>9. e \in Own(s, p)
  BY <1>4, <1>6, <1>7, <1>8
<1>10. QED
  BY <1>4, <1>5, <1>9 DEF Own

(* The converse. *)
LEMMA PathRecord ==
    ASSUME NEW s \in Seq(Cell), NEW p, OnPath(s, p), ValidEventAt(s, p),
           s[p + 1].status \in Active
    PROVE  Record(s, p) \in Walk(s)[HeaderSize]
<1>1. p \in 0 .. Len(s)
  BY PathRange
<1>2. Record(s, p) \in Walk(s)[p]
  BY <1>1, WalkProperties DEF Own
<1>3. QED
  BY <1>2, PathFound

(* A load which stands at p depends on the cells from there on alone.      *)
LEMMA WalkSuffix ==
    ASSUME NEW s \in Seq(Cell), NEW t \in Seq(Cell), Len(t) = Len(s),
           NEW p \in 0 .. Len(s), \A i \in (p + 1) .. Len(s) : t[i] = s[i]
    PROVE  Walk(t)[p] = Walk(s)[p]
<1> DEFINE S == {q \in 0 .. Len(s) : p <= q /\ Walk(t)[q] # Walk(s)[q]}
<1>1. Len(s) \in Nat
  BY LenProperties
<1>2. SUFFICES ASSUME S # {} PROVE FALSE
  BY <1>1
<1>3. PICK q \in S : \A y \in S : y <= q
  BY <1>1, <1>2, GreatestExists
<1>4. q \in 0 .. Len(s) /\ p <= q /\ Walk(t)[q] # Walk(s)[q] /\ q \in 0 .. Len(t)
  OBVIOUS
<1>5. q < Len(s) => t[q + 1] = s[q + 1]
  BY <1>1, <1>4
<1>6. ValidEventAt(t, q) <=> ValidEventAt(s, q)
  BY <1>4, <1>5 DEF ValidEventAt
<1>7. ValidEventAt(s, q)
  BY <1>4, <1>6, WalkProperties
<1>8. /\ Following(s, q) \in 0 .. Len(s) /\ q + 2 < Following(s, q)
      /\ Following(t, q) = Following(s, q)
  BY <1>4, <1>5, <1>7, FollowingProperties DEF Following, ValidEventAt
<1>9. Following(s, q) \notin S
  BY <1>1, <1>3, <1>4, <1>8
<1>10. Walk(t)[Following(s, q)] = Walk(s)[Following(s, q)]
  BY <1>1, <1>4, <1>8, <1>9
<1>11. Own(t, q) = Own(s, q)
  <2>1. q + 2 \in (p + 1) .. Len(s) /\ q + 1 \in (p + 1) .. Len(s)
    BY <1>1, <1>4, <1>8
  <2>2. t[q + 1] = s[q + 1] /\ t[q + 2] = s[q + 2]
    BY <2>1
  <2>3. QED
    BY <2>2 DEF Own, Record, RequestIdAt
<1>12. Walk(s)[q] = Walk(s)[Following(s, q)] \cup Own(s, q)
  BY <1>4, <1>7, WalkProperties
<1>13. Walk(t)[q] = Walk(t)[Following(t, q)] \cup Own(t, q)
  BY <1>4, <1>6, <1>7, WalkProperties
<1>14. QED
  BY <1>4, <1>8, <1>10, <1>11, <1>12, <1>13

(* A file which its destroyed object left with a header ends at the place  *)
(* where it would have grown, or has an end marker there.                  *)
LEMMA TruncateEnds ==
    ASSUME NEW s \in Seq(Cell), NEW n \in Nat, 1 <= n, n <= Len(s),
           NEW t, t = Truncate(s, n), HasHeader(t)
    PROVE  /\ t \in Seq(Cell) /\ n <= Len(t)
           /\ \A i \in 1 .. n : t[i] = s[i]
           /\ ~ValidEventAt(t, n)
<1>1. /\ t \in Seq(Cell) /\ Len(t) \in Nat /\ Len(s) \in Nat
      /\ \A i \in 1 .. Len(t) : t[i] = ZeroCell \/ (i <= Len(s) /\ t[i] = s[i])
      /\ 1 < n => n <= Len(t) /\ \A i \in 1 .. n : t[i] = s[i]
  BY TruncateCells, LenProperties
<1>2. 1 <= Len(t) /\ t[1].kind = "EVTJ"
  BY <1>1 DEF HasHeader
<1>3. t[1] = s[1]
  <2>1. t[1] # ZeroCell
    BY <1>2 DEF ZeroCell, Plain
  <2>2. QED
    BY <1>1, <1>2, <2>1
<1>4. n <= Len(t) /\ \A i \in 1 .. n : t[i] = s[i]
  <2>1. CASE n = 1
    BY <1>2, <1>3, <2>1
  <2>2. CASE 1 < n
    BY <1>1, <2>2
  <2>3. QED
    BY <2>1, <2>2
<1>5. ~ValidEventAt(t, n)
  <2> DEFINE w == WriteCells(s, n, <<ZeroCell>>, 1)
             r == Resize(s, n)
  <2>1. Larger(HeaderSize, n) = n
    BY DEF Larger, HeaderSize
  <2>2. t = r \/ (t = s /\ ~(Len(s) > n)) \/ t = w \/ t = << >>
    BY <2>1 DEF Truncate
  <2>3. CASE t = s /\ ~(Len(s) > n)
    BY <1>1, <2>3 DEF ValidEventAt
  <2>4. CASE t = << >>
    BY <1>2, <2>4
  <2>5. CASE t = w
    <3> DEFINE z == <<ZeroCell>>
    <3>1. (\A i \in 1 .. 1 : z[i] \in Cell) /\ 1 \in Nat
      BY ZeroCellType
    <3> HIDE DEF z
    <3>2. \A i \in 1 .. 1 : WriteCells(s, n, z, 1)[n + i] = z[i]
      BY <3>1, WriteCellsProperties
    <3>3. t[n + 1] = z[1]
      BY <2>5, <3>2 DEF z
    <3>4. z[1].kind = "zero"
      BY DEF z, ZeroCell, Plain
    <3>5. QED
      BY <3>3, <3>4 DEF ValidEventAt
  <2>6. CASE t = r
    <3>1. r = [i \in 1 .. n |-> IF i <= Len(s) THEN s[i] ELSE ZeroCell]
      BY DEF Resize
    <3>2. \A i \in 1 .. n : i <= Len(s) => s[i] \in Cell
      BY <1>1, ElementOfSeq
    <3>3. r \in [1 .. n -> Cell]
      BY <1>1, <3>1, <3>2, ZeroCellType
    <3>4. Len(r) = n
      BY <3>3, FunctionIsSeq
    <3> HIDE DEF r
    <3>5. QED
      BY <2>6, <3>4 DEF ValidEventAt
  <2>7. QED
    BY <2>2, <2>3, <2>4, <2>5, <2>6
<1>6. QED
  BY <1>1, <1>4, <1>5

(* The place where a file grows is on its path. *)
GrowsOnPath(s, n) == n > 0 => HasHeader(s) /\ OnPath(s, n)

(* Destroying a file object adds no pending event to the file. *)
LEMMA TruncateFinds ==
    ASSUME NEW s \in Seq(Cell), NEW n \in Nat, GrowsOnPath(s, n),
           NEW e \in PersistedIn(Truncate(s, n))
    PROVE  e \in PersistedIn(s)
<1> DEFINE t == Truncate(s, n)
<1>1. /\ t \in Seq(Cell) /\ Len(t) \in Nat /\ Len(s) \in Nat
      /\ \A i \in 1 .. Len(t) : t[i] = ZeroCell \/ (i <= Len(s) /\ t[i] = s[i])
  BY TruncateCells, LenProperties
<1>2. HasHeader(t) /\ e \in Walk(t)[HeaderSize]
  BY DEF PersistedIn, PendingFrom
<1>3. 1 <= Len(t) /\ HasHeader(s)
  <2>1. 1 <= Len(t) /\ t[1].kind = "EVTJ"
    BY <1>1, <1>2 DEF HasHeader
  <2>2. t[1] # ZeroCell
    BY <2>1 DEF ZeroCell, Plain
  <2>3. t[1] = s[1] /\ 1 <= Len(s)
    BY <1>1, <2>1, <2>2
  <2>4. QED
    BY <1>1, <2>1, <2>3 DEF HasHeader
<1>4. CASE n = 0
  <2>1. t = s \/ t = << >> \/ t = Resize(s, 1)
    BY <1>4 DEF Truncate, Larger, HeaderSize
  <2>2. CASE t = s
    BY <2>2
  <2>3. CASE t = << >>
    BY <1>3, <2>3
  <2>4. CASE t = Resize(s, 1)
    <3> DEFINE r == Resize(s, 1)
    <3>1. r = [i \in 1 .. 1 |-> IF i <= Len(s) THEN s[i] ELSE ZeroCell]
      BY DEF Resize
    <3>2. \A i \in 1 .. 1 : i <= Len(s) => s[i] \in Cell
      BY <1>1, ElementOfSeq
    <3>3. r \in [1 .. 1 -> Cell]
      BY <1>1, <3>1, <3>2, ZeroCellType
    <3>4. Len(r) = 1
      BY <3>3, FunctionIsSeq
    <3> HIDE DEF r
    <3>5. Len(t) = 1
      BY <2>4, <3>4 DEF r
    <3> HIDE DEF t
    <3>6. ~ValidEventAt(t, 1) /\ 1 \in 0 .. Len(t)
      BY <3>5 DEF ValidEventAt
    <3>7. Walk(t)[1] = {}
      BY <1>1, <3>6, WalkProperties
    <3>8. QED
      BY <1>2, <3>7 DEF HeaderSize
  <2>5. QED
    BY <2>1, <2>2, <2>3, <2>4
<1>5. CASE n > 0
  <2>1. OnPath(s, n) /\ 1 <= n /\ n <= Len(s)
    BY <1>5, PathRange DEF GrowsOnPath
  <2>2. n <= Len(t) /\ (\A i \in 1 .. n : t[i] = s[i]) /\ ~ValidEventAt(t, n)
    BY <1>2, <2>1, TruncateEnds
  <2> HIDE DEF t
  <2>3. OnPath(t, n)
    BY <1>1, <2>1, <2>2, PathPrefix
  <2>4. PICK p : /\ OnPath(t, p) /\ ValidEventAt(t, p)
                 /\ t[p + 1].status \in Active /\ e = Record(t, p)
    BY <1>1, <1>2, <1>3, PathWitness
  <2>5. p \in Nat /\ p \in 0 .. Len(t)
    BY <1>1, <2>4, PathRange
  <2>6. p < n
    <3>1. p # n
      BY <2>2, <2>4
    <3>2. ~(n < p)
      BY <1>1, <2>2, <2>3, <2>4, PathChain
    <3>3. QED
      BY <2>5, <3>1, <3>2
  <2>7. Following(t, p) <= n
    BY <1>1, <2>3, <2>4, <2>6, PathChain
  <2>8. p + 2 < Following(t, p) /\ Following(t, p) \in Nat /\ t[p + 1].size \in Nat
    BY <1>1, <2>4, <2>5, FollowingProperties
  <2>9. p + 1 \in 1 .. n /\ p + 2 \in 1 .. n /\ p + 1 < Len(t) /\ p + 1 < Len(s)
    BY <1>1, <2>1, <2>2, <2>5, <2>7, <2>8
  <2>10. t[p + 1] = s[p + 1] /\ t[p + 2] = s[p + 2]
    BY <2>2, <2>9
  <2>11. OnPath(s, p)
    <3>1. p <= Len(s) /\ \A i \in 1 .. p : s[i] = t[i]
      BY <1>1, <2>1, <2>2, <2>5, <2>6
    <3>2. QED
      BY <1>1, <2>4, <3>1, PathPrefix
  <2>12. ValidEventAt(s, p)
    BY <1>1, <2>1, <2>4, <2>5, <2>7, <2>8, <2>10 DEF ValidEventAt, Following
  <2>13. Record(s, p) = e /\ s[p + 1].status \in Active
    BY <2>4, <2>9, <2>10 DEF Record, RequestIdAt
  <2>14. e \in Walk(s)[HeaderSize]
    BY <2>11, <2>12, <2>13, PathRecord
  <2>15. QED
    BY <1>3, <2>14 DEF PersistedIn, PendingFrom
<1>6. QED
  BY <1>4, <1>5

(* Destroying a file object keeps the events of the index. *)
LEMMA TruncateKeepsIndexed ==
    ASSUME NEW s \in Seq(Cell), NEW n \in Nat, GrowsOnPath(s, n),
           NEW l \in Location, StoredIn(s, l), OnPath(s, l.offset),
           l.size > EventSize(0), End(l) <= n
    PROVE  \E e \in PersistedIn(Truncate(s, n)) : e.id = l.id
<1> DEFINE t == Truncate(s, n)
           o == l.offset
<1>1. /\ o \in Nat /\ l.size \in Nat /\ 2 < l.size /\ o + l.size <= n
      /\ 1 <= o /\ l.status \in Active
  BY DEF Location, StoredIn, HeaderSize, EventSize, End
<1>2. /\ HasHeader(s) /\ OnPath(s, n) /\ n <= Len(s) /\ Len(s) \in Nat
  BY <1>1, PathRange DEF GrowsOnPath
<1>3. /\ t \in Seq(Cell) /\ Len(t) \in Nat
      /\ n <= Len(t) /\ \A i \in 1 .. n : t[i] = s[i]
  <2>1. 1 < n
    BY <1>1
  <2>2. QED
    BY <1>2, <2>1, TruncateCells
<1> HIDE DEF t
<1>4. HasHeader(t)
  BY <1>1, <1>2, <1>3 DEF HasHeader
<1>5. OnPath(t, o)
  <2>1. o <= Len(t) /\ \A i \in 1 .. o : t[i] = s[i]
    BY <1>1, <1>3
  <2>2. QED
    BY <1>3, <2>1, PathPrefix
<1>6. t[o + 1] = s[o + 1] /\ t[o + 2] = s[o + 2] /\ o + 1 < Len(t) /\ o + 1 < Len(s)
  BY <1>1, <1>2, <1>3
<1>7. /\ s[o + 1].kind = "ev" /\ s[o + 1].size = l.size /\ s[o + 1].status = l.status
      /\ RequestIdAt(s, o) = l.id
  BY DEF StoredIn
<1>8. ValidEventAt(t, o) /\ t[o + 1].status \in Active
  BY <1>1, <1>2, <1>3, <1>6, <1>7 DEF ValidEventAt, EventSize
<1>9. Record(t, o) \in Walk(t)[HeaderSize]
  BY <1>3, <1>5, <1>8, PathRecord
<1>10. Record(t, o).id = l.id
  BY <1>6, <1>7 DEF Record, RequestIdAt
<1>11. QED
  BY <1>4, <1>9, <1>10 DEF PersistedIn, PendingFrom, t

-----------------------------------------------------------------------------
(* The inductive invariant of the compression, next to IndexInvariant: the *)
(* events of the index, the places where the files grow and the place a    *)
(* load has come to are all on the paths of their files.  Only then does a *)
(* load which starts over come to each of those events.                    *)

PathsOf(c, n, L, files) ==
    /\ \A f \in Files : GrowsOnPath(c[f], n[f])
    /\ \A l \in L : /\ OnPath(c[l.file], l.offset)
                    /\ l.size > EventSize(0) /\ l.file < files

ScanOnPath ==
    /\ scan.compress => scan.on
    /\ scan.on /\ scan.read > 0 =>
         /\ HasHeader(Scanned)
         /\ OnPath(Scanned, IF scan.found /\ scan.compress THEN scan.write ELSE scan.read)

InlineAdding == adding = NoRequest \/ adding.data > 0

PathInv ==
    /\ PathsOf(content, next_append, event_locations, conf.files)
    /\ ScanOnPath
    /\ InlineAdding

LEMMA ReleasedPaths ==
    ASSUME NEW c, NEW d, NEW o, NEW n, NEW k, NEW held, NEW files,
           FileTypes(c, d, o, n, k), ReleaseFiles(c, d, o, n, k, held),
           event_locations' \subseteq Location,
           PathsOf(c, n, event_locations', files)
    PROVE  PathsOf(content', next_append', event_locations', files)
<1> DEFINE used == {l.file : l \in event_locations' \cup timebased_replay'}
           gone == o \ (used \cup held)
<1>1. /\ content' = [f \in Files |->
             IF f \in gone THEN Truncate(c[f], n[f]) ELSE c[f]]
      /\ next_append' = [f \in Files |-> IF f \in gone THEN 0 ELSE n[f]]
  BY DEF ReleaseFiles
<1>2. \A l \in event_locations' : l.file \in Files /\ l.file \notin gone
  BY DEF Location
<1> HIDE DEF gone
<1>3. \A f \in Files : \/ next_append'[f] = 0
                       \/ next_append'[f] = n[f] /\ content'[f] = c[f]
  BY <1>1
<1>4. \A l \in event_locations' : content'[l.file] = c[l.file]
  BY <1>1, <1>2
<1>5. \A f \in Files : GrowsOnPath(content'[f], next_append'[f])
  BY <1>3 DEF PathsOf, GrowsOnPath
<1>6. QED
  BY <1>4, <1>5 DEF PathsOf

LEMMA PathsAsIs ==
    ASSUME IndexInvariant, PathInv
    PROVE  /\ FileTypes(content, durable, opened, next_append, event_count)
           /\ event_locations \subseteq Location /\ RestOK
           /\ \A f \in Files :
                /\ content[f] \in Seq(Cell) /\ next_append[f] \in Nat
                /\ GrowsOnPath(content[f], next_append[f])
           /\ \A m \in event_locations :
                /\ m.file \in Files /\ m.offset \in Nat /\ m.size \in Nat
                /\ OnPath(content[m.file], m.offset)
                /\ m.size > EventSize(0) /\ m.file < conf.files
  BY TypeParts DEF IndexInvariant, PathInv, PathsOf, FileTypes, Location

LEMMA IdleScan ==
    ASSUME ScanOnPath, ~scan.on, scan' = scan
    PROVE  ScanOnPath'
  BY DEF ScanOnPath

(* Opening more files and closing those nobody refers to. *)
LEMMA OpenedPaths ==
    ASSUME IndexInvariant, PathInv, NEW d \in [Files -> Seq(Cell)],
           NEW k \in [Files -> Int], NEW tried \in SUBSET Files,
           ReleaseFiles(content, d, opened \cup tried, next_append, k, {}),
           event_locations' \subseteq event_locations, conf' = conf
    PROVE  PathsOf(content', next_append', event_locations', conf'.files)
<1>1. FileTypes(content, d, opened \cup tried, next_append, k)
  BY PathsAsIs DEF FileTypes
<1>2. event_locations' \subseteq Location
  BY PathsAsIs
<1>3. PathsOf(content, next_append, event_locations', conf.files)
  BY DEF PathInv, PathsOf
<1>4. QED
  BY <1>1, <1>2, <1>3, ReleasedPaths

LEMMA RefusePaths ==
    ASSUME IndexInvariant, PathInv, ~scan.on, Refuse
    PROVE  PathInv'
<1>1. 0 .. (conf.files - 1) \in SUBSET Files
  BY IndexAsIs, FileRanges
<1>2. durable \in [Files -> Seq(Cell)] /\ event_count \in [Files -> Int]
  BY PathsAsIs DEF FileTypes
<1>3. PathsOf(content', next_append', event_locations', conf'.files)
  BY <1>1, <1>2, OpenedPaths DEF Refuse, indexVars
<1>4. ScanOnPath'
  BY IdleScan DEF PathInv, Refuse
<1>5. InlineAdding'
  BY DEF Refuse, InlineAdding
<1>6. QED
  BY <1>3, <1>4, <1>5 DEF PathInv

LEMMA CompressForPaths ==
    ASSUME IndexInvariant, PathInv, NEW id, NEW d \in Nat, d # 0, NEW time,
           CompressFor(id, d, time)
    PROVE  PathInv'
<1>1. 0 .. (conf.files - 1) \in SUBSET Files
  BY IndexAsIs, FileRanges
<1>2. durable \in [Files -> Seq(Cell)] /\ event_count \in [Files -> Int]
  BY PathsAsIs DEF FileTypes
<1>3. PathsOf(content', next_append', event_locations', conf'.files)
  BY <1>1, <1>2, OpenedPaths DEF CompressFor
<1>4. ScanOnPath'
  BY DEF CompressFor, ScanOnPath, StartScan, ScanState
<1>5. InlineAdding'
  BY DEF CompressFor, InlineAdding
<1>6. QED
  BY <1>3, <1>4, <1>5 DEF PathInv

LEMMA SetMaximumPaths ==
    ASSUME IndexInvariant, PathInv, NEW m \in FileCounts, SetMaximumNumberOfFiles(m)
    PROVE  PathInv'
<1> DEFINE over == {f \in Files : m <= f /\ f < conf.files}
           InUse(f) == \E l \in event_locations : l.file = f
           tried == {f \in over : /\ content[f] # << >>
                                  /\ \A g \in over : g < f => ~InUse(g)}
<1>1. /\ ~scan.on
      /\ event_locations' = event_locations
      /\ ReleaseFiles(content, durable, opened \cup tried, next_append,
                      event_count, {})
      /\ \/ conf' = conf
         \/ conf' = [conf EXCEPT !.files = m] /\ ~(\E f \in over : InUse(f))
      /\ scan' = scan /\ adding' = adding
  BY DEF SetMaximumNumberOfFiles, SaveConfiguration, Ready, indexVars
<1>2. tried \in SUBSET Files
  OBVIOUS
<1>3. FileTypes(content, durable, opened \cup tried, next_append, event_count)
  BY <1>2, PathsAsIs DEF FileTypes
<1>4. ASSUME NEW l \in event_locations
      PROVE  l.file < conf'.files
  <2>1. l.file \in Files /\ l.file < conf.files
    BY PathsAsIs
  <2>2. CASE conf' = conf
    BY <2>1, <2>2
  <2>3. CASE conf' = [conf EXCEPT !.files = m] /\ ~(\E f \in over : InUse(f))
    <3>1. ~(m <= l.file)
      BY <2>1, <2>3
    <3>2. conf'.files = m
      BY <2>3, PathsAsIs DEF RestOK, Configurations
    <3>3. m \in Nat /\ l.file \in Nat
      BY <2>1, JournalAssumption DEF Files
    <3>4. QED
      BY <3>1, <3>2, <3>3
  <2>4. QED
    BY <1>1, <2>2, <2>3
<1> HIDE DEF tried
<1>5. PathsOf(content, next_append, event_locations', conf'.files)
  BY <1>1, <1>4, PathsAsIs DEF PathsOf
<1>6. PathsOf(content', next_append', event_locations', conf'.files)
  BY <1>1, <1>3, <1>5, PathsAsIs, ReleasedPaths
<1>7. ScanOnPath' /\ InlineAdding'
  BY <1>1, IdleScan DEF PathInv, InlineAdding
<1>8. QED
  BY <1>6, <1>7 DEF PathInv

LEMMA SetOptionPaths ==
    ASSUME IndexInvariant, PathInv, NEW c, SetOption(c)
    PROVE  PathInv'
<1>1. /\ ~scan.on /\ scan' = scan /\ adding' = adding
      /\ UNCHANGED <<content, next_append, event_locations>>
  BY DEF SetOption, Ready, fileVars, indexVars
<1>2. conf'.files = conf.files
  <2>1. PICK o \in {"size", "events", "sync", "management", "compress"} :
           conf' = [conf EXCEPT ![o] = c[o]]
    BY DEF SetOption, SaveConfiguration
  <2>2. QED
    BY <2>1, PathsAsIs DEF RestOK, Configurations
<1>3. ScanOnPath' /\ InlineAdding'
  BY <1>1, IdleScan DEF PathInv, InlineAdding
<1>4. PathsOf(content', next_append', event_locations', conf'.files)
  BY <1>1, <1>2 DEF PathInv
<1>5. QED
  BY <1>3, <1>4 DEF PathInv

(* Starting over forgets the index; every path starts over with it. *)
LEMMA BootPaths ==
    ASSUME NEW disk, Boot(disk)
    PROVE  PathInv'
<1>1. PathsOf(content', next_append', event_locations', conf'.files)
  BY DEF Boot, PathsOf, GrowsOnPath
<1>2. ScanOnPath' /\ InlineAdding'
  BY DEF Boot, ScanOnPath, InlineAdding, StartScan, ScanState
<1>3. QED
  BY <1>1, <1>2 DEF PathInv

(* Saving any number of the cells of an event keeps the path up to it;     *)
(* saving all of them leads the path on behind it.                         *)
LEMMA AppendedPath ==
    ASSUME IndexInvariant, PathInv, NEW f \in Files, NEW id \in Ids,
           NEW d \in Nat, NEW time \in Nat, NEW n \in 0 .. EventSize(d),
           NEW t, t = Appended(f, id, d, time, n)
    PROVE  /\ HasHeader(t) /\ OnPath(t, AppendOffset(f))
           /\ \A m \in event_locations : m.file = f => OnPath(t, m.offset)
           /\ n = EventSize(d) /\ d # 0 => OnPath(t, AppendOffset(f) + n)
<1> DEFINE a == AppendOffset(f)
           s == content[f]
           h == WithHeader(f)
           cells == EventCells(id, d, time)
<1>1. /\ TypeOK /\ s \in Seq(Cell) /\ next_append[f] \in Nat
      /\ GrowsOnPath(s, next_append[f]) /\ Len(s) \in Nat
  BY PathsAsIs, LenProperties DEF IndexInvariant
<1>2. /\ a \in Nat /\ 1 <= a /\ n \in Nat /\ EventSize(d) = d + 2
      /\ next_append[f] # 0 => a = next_append[f]
      /\ next_append[f] = 0 => a = 1
  BY <1>1 DEF AppendOffset, Larger, HeaderSize, EventSize
<1>3. /\ h \in Seq(Cell) /\ Len(h) \in Nat
      /\ next_append[f] # 0 => h = s
  BY <1>1, WithHeaderProperties, LenProperties
<1>4. a <= Len(h) /\ HasHeader(h)
  <2>1. CASE next_append[f] = 0
    <3>1. h = WriteCells(s, 0, <<JournalHeader>>, 1)
      BY <2>1 DEF WithHeader
    <3>2. \A i \in 1 .. 1 : <<JournalHeader>>[i] \in Cell
      BY ZeroCellType
    <3>3. /\ Len(h) = Larger(Len(s), 0 + 1)
          /\ \A i \in 1 .. 1 : h[0 + i] = <<JournalHeader>>[i]
      BY <1>1, <3>1, <3>2, WriteCellsProperties
    <3> HIDE DEF h, s
    <3>4. 1 <= Len(h)
      BY <1>1, <3>3 DEF Larger
    <3>5. h[1].kind = "EVTJ"
      BY <3>3 DEF JournalHeader, Plain
    <3>6. QED
      BY <1>2, <1>3, <2>1, <3>4, <3>5 DEF HasHeader
  <2>2. CASE next_append[f] # 0
    <3>1. HasHeader(s) /\ OnPath(s, next_append[f])
      BY <1>1, <2>2 DEF GrowsOnPath
    <3>2. QED
      BY <1>1, <1>2, <1>3, <2>2, <3>1, PathRange
  <2>3. QED
    BY <2>1, <2>2
<1> HIDE DEF h
<1>5. /\ t \in Seq(Cell) /\ Len(t) = Larger(Len(h), a + n)
      /\ \A i \in 1 .. n : t[a + i] = cells[i]
      /\ \A i \in 1 .. Len(h) : i <= a \/ a + n < i => t[i] = h[i]
  <2>1. t = WriteCells(h, a, cells, n)
    BY DEF Appended, h
  <2>2. \A i \in 1 .. n : cells[i] \in Cell
    BY <1>2, EventCellsType
  <2> HIDE DEF a, cells
  <2>3. QED
    BY <1>2, <1>3, <2>1, <2>2, WriteCellsProperties, SMTT(30)
<1> HIDE DEF a, cells, s
<1>6. Len(t) \in Nat /\ a <= Len(t) /\ a + n <= Len(t)
  BY <1>2, <1>3, <1>4, <1>5 DEF Larger
<1>7. \A i \in 1 .. a : t[i] = h[i]
  BY <1>2, <1>3, <1>4, <1>5
<1>8. HasHeader(t)
  BY <1>2, <1>4, <1>6, <1>7 DEF HasHeader
<1>9. OnPath(t, a)
  <2>1. CASE next_append[f] = 0
    BY <1>2, <1>5, <1>6, <2>1, PathStarts DEF HeaderSize
  <2>2. CASE next_append[f] # 0
    <3>1. OnPath(h, a) 
      BY <1>1, <1>2, <1>3, <2>2 DEF GrowsOnPath
    <3>2. QED
      BY <1>3, <1>5, <1>6, <1>7, <3>1, PathPrefix
  <2>3. QED
    BY <2>1, <2>2
<1>10. ASSUME NEW m \in event_locations, m.file = f
       PROVE  OnPath(t, m.offset)
  <2>1. /\ m.offset \in Nat /\ m.size \in Nat /\ m.size > 2
        /\ OnPath(s, m.offset) /\ m.offset + m.size <= next_append[f]
    BY <1>10, PathsAsIs, IndexAsIs DEF End, EventSize, s
  <2>2. h = s /\ m.offset <= a
    BY <1>1, <1>2, <1>3, <2>1
  <2>3. m.offset <= Len(t) /\ \A i \in 1 .. m.offset : t[i] = s[i]
    BY <1>2, <1>6, <1>7, <2>1, <2>2
  <2>4. QED
    BY <1>1, <1>5, <2>1, <2>3, PathPrefix
<1>11. ASSUME n = EventSize(d), d # 0
       PROVE  OnPath(t, a + n)
  <2>1. 1 \in 1 .. n
    BY <1>2, <1>11
  <2>2. t[a + 1] = cells[1]
    BY <1>5, <2>1
  <2>3. cells[1].kind = "ev" /\ cells[1].size = EventSize(d)
    BY EventCellsType DEF cells
  <2>4. ValidEventAt(t, a) /\ Following(t, a) = a + n
    <3>1. EventSize(0) = 2 /\ EventSize(d) > 2
      BY <1>11 DEF EventSize
    <3>2. a < Len(t)
      BY <1>2, <1>6, <1>11
    <3>3. QED
      BY <1>6, <1>11, <2>2, <2>3, <3>1, <3>2 DEF ValidEventAt, Following
  <2>5. QED
    BY <1>5, <1>9, <2>4, PathGoesOn
<1>12. QED
  BY <1>8, <1>9, <1>10, <1>11 DEF a

LEMMA WriteNewEventPaths ==
    ASSUME IndexInvariant, PathInv, ~scan.on, NEW f \in Files, NEW id \in Ids,
           NEW d \in Nat, d # 0, NEW time \in Nat, f < conf.files,
           WriteNewEvent(f, id, d, time)
    PROVE  PathInv'
<1> DEFINE size == EventSize(d)
           kept == IF conf.sync = "flush" THEN size ELSE size - 1
           l == NewLocation(f, id, d, time)
           t == Appended(f, id, d, time, size)
           c == [content EXCEPT ![f] = t]
           e == [durable EXCEPT ![f] = Appended(f, id, d, time, kept)]
           o == opened \cup {f}
           n == [next_append EXCEPT ![f] = AppendOffset(f) + size]
           k == IncreaseEventCount(f)
<1>1. /\ AddLocation(l) /\ ReleaseFiles(c, e, o, n, k, {})
      /\ adding' = NoRequest /\ conf' = conf /\ scan' = scan
  BY DEF WriteNewEvent
<1>2. size \in 0 .. size /\ kept \in 0 .. size /\ size \in Nat /\ size > EventSize(0)
  BY DEF EventSize
<1>3. TypeOK /\ IndexMatchesFiles /\ AppendIsPastEvents
  BY DEF IndexInvariant
<1>4. AppendOffset(f) \in Nat /\ t \in Seq(Cell) /\ l \in Location
  BY <1>2, <1>3, AppendedProperties
<1>5. Appended(f, id, d, time, kept) \in Seq(Cell)
  BY <1>2, <1>3, AppendedProperties
<1>6. /\ HasHeader(t) /\ OnPath(t, AppendOffset(f))
      /\ \A m \in event_locations : m.file = f => OnPath(t, m.offset)
      /\ OnPath(t, AppendOffset(f) + size)
  BY <1>2, AppendedPath
<1>7. FileTypes(c, e, o, n, k)
  BY <1>2, <1>4, <1>5, PathsAsIs DEF FileTypes, IncreaseEventCount
<1>8. l.file = f /\ l.offset = AppendOffset(f) /\ l.size = size
  BY DEF NewLocation
<1>9. \A m \in event_locations' : m = l \/ m \in event_locations
  BY <1>1 DEF AddLocation
<1>10. c[f] = t /\ n[f] = AppendOffset(f) + size
  BY PathsAsIs DEF FileTypes
<1>11. \A g \in Files : g # f => c[g] = content[g] /\ n[g] = next_append[g]
  BY PathsAsIs DEF FileTypes
<1> HIDE DEF c, e, o, n, k, l, t, size, kept
<1>12. \A g \in Files : GrowsOnPath(c[g], n[g])
  <2> SUFFICES ASSUME NEW g \in Files PROVE GrowsOnPath(c[g], n[g])
    OBVIOUS
  <2>1. CASE g = f
    BY <1>6, <1>10, <2>1 DEF GrowsOnPath
  <2>2. CASE g # f
    BY <1>11, <2>2, PathsAsIs
  <2>3. QED
    BY <2>1, <2>2
<1>13. ASSUME NEW m \in event_locations'
       PROVE  OnPath(c[m.file], m.offset) /\ m.size > EventSize(0) /\ m.file < conf.files
  <2>1. CASE m = l
    BY <1>2, <1>6, <1>8, <1>10, <2>1
  <2>2. CASE m \in event_locations /\ m.file = f
    BY <1>6, <1>10, <2>2, PathsAsIs
  <2>3. CASE m \in event_locations /\ m.file # f
    BY <1>11, <2>3, PathsAsIs
  <2>4. QED
    BY <1>9, <2>1, <2>2, <2>3
<1>14. PathsOf(c, n, event_locations', conf'.files)
  BY <1>1, <1>12, <1>13 DEF PathsOf
<1>15. event_locations' \subseteq Location
  BY <1>4, <1>9, PathsAsIs
<1>16. PathsOf(content', next_append', event_locations', conf'.files)
  BY <1>1, <1>7, <1>14, <1>15, ReleasedPaths
<1>17. ScanOnPath' /\ InlineAdding'
  BY <1>1, IdleScan DEF PathInv, InlineAdding
<1>18. QED
  BY <1>16, <1>17 DEF PathInv

LEMMA WriteNewEventFailsPaths ==
    ASSUME IndexInvariant, PathInv, ~scan.on, NEW f \in Files, NEW id \in Ids,
           NEW d \in Nat, NEW time \in Nat, NEW w \in 0 .. EventSize(d),
           WriteNewEventFails(f, id, d, time, w)
    PROVE  PathInv'
<1> DEFINE t == Appended(f, id, d, time, w)
           c == [content EXCEPT ![f] = t]
           e == [durable EXCEPT ![f] =
                    IF w = 0 THEN @ ELSE Appended(f, id, d, time, w - 1)]
           o == opened \cup {f}
           n == [next_append EXCEPT ![f] = AppendOffset(f)]
<1>1. /\ event_locations' = event_locations
      /\ ReleaseFiles(c, e, o, n, event_count, {})
      /\ adding' = NoRequest /\ conf' = conf /\ scan' = scan
  BY DEF WriteNewEventFails, indexVars
<1>2. TypeOK /\ IndexMatchesFiles /\ AppendIsPastEvents
  BY DEF IndexInvariant
<1>3. AppendOffset(f) \in Nat /\ t \in Seq(Cell)
  BY <1>2, AppendedProperties
<1>4. w # 0 => Appended(f, id, d, time, w - 1) \in Seq(Cell)
  <2>1. w # 0 => w - 1 \in 0 .. EventSize(d)
    BY DEF EventSize
  <2>2. QED
    BY <1>2, <2>1, AppendedProperties
<1>5. /\ HasHeader(t) /\ OnPath(t, AppendOffset(f))
      /\ \A m \in event_locations : m.file = f => OnPath(t, m.offset)
  BY AppendedPath
<1>6. FileTypes(c, e, o, n, event_count)
  BY <1>3, <1>4, PathsAsIs DEF FileTypes
<1>7. c[f] = t /\ n[f] = AppendOffset(f)
  BY PathsAsIs DEF FileTypes
<1>8. \A g \in Files : g # f => c[g] = content[g] /\ n[g] = next_append[g]
  BY PathsAsIs DEF FileTypes
<1> HIDE DEF c, e, o, n, t
<1>9. \A g \in Files : GrowsOnPath(c[g], n[g])
  <2> SUFFICES ASSUME NEW g \in Files PROVE GrowsOnPath(c[g], n[g])
    OBVIOUS
  <2>1. CASE g = f
    BY <1>5, <1>7, <2>1 DEF GrowsOnPath
  <2>2. CASE g # f
    BY <1>8, <2>2, PathsAsIs
  <2>3. QED
    BY <2>1, <2>2
<1>10. \A m \in event_locations : OnPath(c[m.file], m.offset)
  <2> SUFFICES ASSUME NEW m \in event_locations PROVE OnPath(c[m.file], m.offset)
    OBVIOUS
  <2>1. CASE m.file = f
    BY <1>5, <1>7, <2>1
  <2>2. CASE m.file # f
    BY <1>8, <2>2, PathsAsIs
  <2>3. QED
    BY <2>1, <2>2
<1>11. PathsOf(c, n, event_locations', conf'.files)
  BY <1>1, <1>9, <1>10, PathsAsIs DEF PathsOf
<1>12. PathsOf(content', next_append', event_locations', conf'.files)
  BY <1>1, <1>6, <1>11, PathsAsIs, ReleasedPaths
<1>13. ScanOnPath' /\ InlineAdding'
  BY <1>1, IdleScan DEF PathInv, InlineAdding
<1>14. QED
  BY <1>12, <1>13 DEF PathInv

(* Writing a status keeps every path. *)
LEMMA StatusPath ==
    ASSUME IndexInvariant, PathInv, NEW l \in event_locations,
           NEW status \in Active \cup Final
    PROVE  \A f \in Files :
             /\ \A p : OnPath(content[f], p) => OnPath(WithStatus(l, status)[f], p)
             /\ HasHeader(content[f]) => HasHeader(WithStatus(l, status)[f])
<1> DEFINE s == content[l.file]
           i == l.offset + 1
           e == [s[i] EXCEPT !.status = status]
           w == [s EXCEPT ![i] = e]
           x == WithStatus(l, status)
<1>1. /\ content \in [Files -> Seq(Cell)] /\ l.file \in Files /\ l.offset \in Nat
      /\ l.size \in Nat /\ StoredIn(s, l) /\ s \in Seq(Cell) /\ Len(s) \in Nat
  BY IndexAsIs, LenProperties DEF FileTypes, Location
<1>2. i \in 1 .. Len(s)
  BY <1>1 DEF StoredIn, End, EventSize, HeaderSize
<1>3. s[i] \in Cell
  BY <1>1, <1>2, ElementOfSeq
<1>4. e \in Cell /\ e.kind = s[i].kind /\ e.size = s[i].size
  BY <1>3, CellWithStatus
<1>5. x = [content EXCEPT ![l.file] = w]
  BY DEF WithStatus
<1> HIDE DEF e, s
<1>6. /\ w \in Seq(Cell) /\ Len(w) = Len(s) /\ w[i] = e
      /\ \A j \in 1 .. Len(s) : j # i => w[j] = s[j]
  BY <1>1, <1>2, <1>4, ExceptSeq
<1>7. x[l.file] = w /\ \A f \in Files : f # l.file => x[f] = content[f]
  BY <1>1, <1>5
<1> HIDE DEF w, x, i
<1>8. \A j \in 1 .. Len(s) : w[j].kind = s[j].kind /\ w[j].size = s[j].size
  BY <1>4, <1>6
<1>9. \A p : OnPath(s, p) => OnPath(w, p)
  BY <1>1, <1>6, <1>8, PathKept
<1>10. HasHeader(s) => HasHeader(w)
  <2>1. Len(s) > 0 => 1 \in 1 .. Len(s)
    BY <1>1
  <2>2. QED
    BY <1>6, <1>8, <2>1 DEF HasHeader
<1>11. QED
  BY <1>7, <1>9, <1>10 DEF s, x

LEMMA AdvanceEventPaths ==
    ASSUME IndexInvariant, PathInv, NEW l \in event_locations, NEW status,
           AdvanceEvent(l, status)
    PROVE  PathInv'
<1> DEFINE y == [l EXCEPT !.status = status]
           x == WithStatus(l, status)
<1>1. /\ ~scan.on /\ status \in Active
      /\ event_locations' = (event_locations \ {l}) \cup {y}
      /\ content' = x
      /\ next_append' = next_append /\ conf' = conf /\ scan' = scan /\ adding' = adding
  BY DEF AdvanceEvent, Ready
<1>2. l \in Location /\ y.file = l.file /\ y.offset = l.offset /\ y.size = l.size
  BY <1>1, IndexAsIs, LocationWithStatus
<1>3. \A f \in Files :
        /\ \A p : OnPath(content[f], p) => OnPath(x[f], p)
        /\ HasHeader(content[f]) => HasHeader(x[f])
  BY <1>1, StatusPath
<1> HIDE DEF y, x
<1>4. \A f \in Files : GrowsOnPath(x[f], next_append[f])
  BY <1>3, PathsAsIs DEF GrowsOnPath
<1>5. \A m \in event_locations :
        OnPath(x[m.file], m.offset) /\ m.size > EventSize(0) /\ m.file < conf.files
  BY <1>3, PathsAsIs
<1>6. \A m \in event_locations' :
        OnPath(x[m.file], m.offset) /\ m.size > EventSize(0) /\ m.file < conf.files
  BY <1>1, <1>2, <1>5
<1>7. PathsOf(content', next_append', event_locations', conf'.files)
  BY <1>1, <1>4, <1>6 DEF PathsOf
<1>8. ScanOnPath' /\ InlineAdding'
  BY <1>1, IdleScan DEF PathInv, InlineAdding
<1>9. QED
  BY <1>7, <1>8 DEF PathInv

LEMMA FinishEventPaths ==
    ASSUME IndexInvariant, PathInv, NEW l \in event_locations, NEW status,
           FinishEvent(l, status)
    PROVE  PathInv'
<1> DEFINE x == WithStatus(l, status)
           e == DurableStatus(l, status)
           n == [next_append EXCEPT ![l.file] = AppendAfter(l)]
           k == DecreaseEventCount(l.file)
<1>1. /\ ~scan.on /\ status \in Active \cup Final
      /\ event_locations' = event_locations \ {l}
      /\ ReleaseFiles(x, e, opened, n, k, {})
      /\ conf' = conf /\ scan' = scan /\ adding' = adding
  BY DEF FinishEvent, Ready
<1>2. x \in [Files -> Seq(Cell)] /\ e \in [Files -> Seq(Cell)]
  BY <1>1, WithStatusProperties
<1>3. FileTypes(x, e, opened, n, k)
  BY <1>2, IndexAsIs DEF FileTypes, HeaderSize, DecreaseEventCount, AppendAfter
<1>4. \A f \in Files :
        /\ \A p : OnPath(content[f], p) => OnPath(x[f], p)
        /\ HasHeader(content[f]) => HasHeader(x[f])
  BY <1>1, StatusPath
<1> HIDE DEF x, e
<1>5. ASSUME NEW f \in Files
      PROVE  GrowsOnPath(x[f], n[f])
  <2>1. GrowsOnPath(x[f], next_append[f])
    BY <1>4, PathsAsIs DEF GrowsOnPath
  <2>2. CASE f = l.file /\ n[f] = HeaderSize
    <3>1. l.file \in Files /\ next_append[f] > 0
      <4>1. l.offset \in Nat /\ l.size \in Nat /\ l.size > 2
            /\ l.offset + l.size <= next_append[f] /\ next_append[f] \in Nat
        BY <2>2, PathsAsIs, IndexAsIs DEF End, EventSize
      <4>2. QED
        BY <2>2, <4>1
    <3>2. HasHeader(x[f]) /\ x[f] \in Seq(Cell)
      BY <1>2, <2>1, <3>1 DEF GrowsOnPath
    <3>3. 1 <= Len(x[f])
      BY <3>2, LenProperties DEF HasHeader
    <3>4. QED
      BY <2>2, <3>2, <3>3, PathStarts DEF GrowsOnPath
  <2>3. CASE n[f] = next_append[f]
    BY <2>1, <2>3
  <2>4. QED
    BY <2>2, <2>3, PathsAsIs DEF FileTypes, AppendAfter
<1> HIDE DEF n, k
<1>6. PathsOf(x, n, event_locations', conf'.files)
  BY <1>1, <1>4, <1>5, PathsAsIs DEF PathsOf
<1>7. PathsOf(content', next_append', event_locations', conf'.files)
  BY <1>1, <1>3, <1>6, PathsAsIs, ReleasedPaths
<1>8. ScanOnPath' /\ InlineAdding'
  BY <1>1, IdleScan DEF PathInv, InlineAdding
<1>9. QED
  BY <1>7, <1>8 DEF PathInv

-----------------------------------------------------------------------------
(* The steps of a load keep the paths.                                     *)

LEMMA NextFilePaths ==
    ASSUME IndexInvariant, PathInv, scan.on, scan' = NextFile, adding' = adding
    PROVE  ScanOnPath' /\ InlineAdding'
<1>1. scan \in ScanType
  BY IndexAsIs, ScanFields
<1>2. scan'.on = scan.on /\ scan'.read = 0 /\ scan'.compress = scan.compress
  BY <1>1 DEF NextFile, ScanType
<1>3. QED
  BY <1>2 DEF ScanOnPath, InlineAdding, PathInv

LEMMA ScanSkipFilePaths ==
    ASSUME IndexInvariant, PathInv, ScanSkipFile
    PROVE  PathInv'
<1>1. /\ scan.on /\ scan.file < conf.files /\ event_locations' = event_locations
      /\ scan' = NextFile /\ conf' = conf /\ adding' = adding
      /\ \/ UNCHANGED fileVars
         \/ ReleaseFiles(content, ScanSynced, opened \cup {scan.file}, next_append,
                ResetEventCount(scan.file), {})
  BY DEF ScanSkipFile, indexVars
<1>2. scan.file \in Files /\ ScanSynced \in [Files -> Seq(Cell)]
  BY <1>1, ScanSyncedType
<1>3. ResetEventCount(scan.file) \in [Files -> Int]
  BY <1>2, PathsAsIs DEF FileTypes, ResetEventCount
<1>4. PathsOf(content', next_append', event_locations', conf'.files)
  <2>1. CASE UNCHANGED fileVars
    BY <1>1, <2>1 DEF PathInv, fileVars
  <2>2. CASE ReleaseFiles(content, ScanSynced, opened \cup {scan.file}, next_append,
                ResetEventCount(scan.file), {})
    <3>1. {scan.file} \in SUBSET Files
      BY <1>2
    <3>2. QED
      BY <1>1, <1>2, <1>3, <2>2, <3>1, OpenedPaths
  <2>3. QED
    BY <1>1, <2>1, <2>2
<1>5. QED
  BY <1>1, <1>4, NextFilePaths DEF PathInv

LEMMA ScanCloseFilePaths ==
    ASSUME IndexInvariant, PathInv, ScanCloseFile
    PROVE  PathInv'
<1>1. /\ scan.on /\ scan.read > 0 /\ event_locations' = event_locations
      /\ scan' = NextFile /\ conf' = conf /\ adding' = adding
      /\ ReleaseFiles(content, ScanSynced, opened, next_append, event_count, {})
  BY DEF ScanCloseFile, indexVars
<1>2. scan.file < conf.files
  BY <1>1 DEF IndexInvariant, ScanInBounds
<1>3. ScanSynced \in [Files -> Seq(Cell)] /\ event_count \in [Files -> Int]
  BY <1>1, <1>2, ScanSyncedType, PathsAsIs DEF FileTypes
<1>4. opened = opened \cup {} /\ {} \in SUBSET Files
  OBVIOUS
<1>5. PathsOf(content', next_append', event_locations', conf'.files)
  BY <1>1, <1>3, <1>4, OpenedPaths
<1>6. QED
  BY <1>1, <1>5, NextFilePaths DEF PathInv

LEMMA ScanEndPaths ==
    ASSUME IndexInvariant, PathInv, ScanEnd
    PROVE  PathInv'
<1>1. /\ scan' = NotScanning /\ adding' = adding
      /\ UNCHANGED <<content, next_append, event_locations, conf>>
  BY DEF ScanEnd, fileVars, indexVars
<1>2. ScanOnPath' /\ InlineAdding'
  BY <1>1 DEF PathInv, ScanOnPath, InlineAdding, NotScanning, ScanState
<1>3. QED
  BY <1>1, <1>2 DEF PathInv

LEMMA ScanOpenFilePaths ==
    ASSUME IndexInvariant, PathInv, ScanOpenFile
    PROVE  PathInv'
<1>1. /\ scan.on /\ scan.read = 0 /\ scan.file < conf.files /\ HasHeader(Scanned)
      /\ scan' = [scan EXCEPT !.read = HeaderSize] /\ adding' = adding
      /\ UNCHANGED <<content, next_append, event_locations, conf>>
  BY DEF ScanOpenFile, indexVars
<1>2. scan \in ScanType /\ Scanned \in Seq(Cell) /\ scan.write \in Nat
  BY <1>1, ScanSyncedType, IndexAsIs, ScanFields
<1>3. /\ scan'.on /\ scan'.file = scan.file /\ scan'.read = HeaderSize
      /\ scan'.found = scan.found
  BY <1>1, <1>2 DEF ScanType
<1>4. ~scan.found
  BY <1>1, <1>2 DEF IndexInvariant, ScanInBounds, HeaderSize
<1>5. OnPath(Scanned, HeaderSize)
  <2>1. 1 <= Len(Scanned)
    BY <1>1, <1>2, LenProperties DEF HasHeader
  <2>2. QED
    BY <1>2, <2>1, PathStarts
<1>6. Scanned' = Scanned
  BY <1>1, <1>3 DEF Scanned
<1>7. ScanOnPath' /\ InlineAdding'
  BY <1>1, <1>3, <1>4, <1>5, <1>6 DEF ScanOnPath, InlineAdding, PathInv
<1>8. QED
  BY <1>1, <1>7 DEF PathInv

LEMMA ScanFinishedEventPaths ==
    ASSUME IndexInvariant, PathInv, ScanFinishedEvent
    PROVE  PathInv'
<1> DEFINE r == scan.read + ScannedEvent.size
           w == IF scan.found THEN scan.write ELSE scan.read
<1>1. /\ scan.on /\ scan.read > 0 /\ ValidEventAt(Scanned, scan.read)
      /\ scan' = [scan EXCEPT !.read = r, !.found = TRUE, !.write = w]
      /\ adding' = adding
      /\ UNCHANGED <<content, next_append, event_locations, conf>>
  BY DEF ScanFinishedEvent, indexVars
<1>2. /\ scan \in ScanType /\ Scanned \in Seq(Cell)
      /\ scan.found \in BOOLEAN /\ scan.compress \in BOOLEAN
  BY <1>1, ScannedProperties, IndexAsIs, ScanFields
<1>3. r = Following(Scanned, scan.read)
  BY DEF Following, ScannedEvent
<1> HIDE DEF r, w
<1>4. /\ scan'.on /\ scan'.file = scan.file /\ scan'.read = r /\ scan'.found
      /\ scan'.write = w /\ scan'.compress = scan.compress
  BY <1>1, <1>2 DEF ScanType
<1>5. Scanned' = Scanned
  BY <1>1, <1>4 DEF Scanned
<1>6. /\ HasHeader(Scanned)
      /\ OnPath(Scanned, IF scan.found /\ scan.compress THEN scan.write ELSE scan.read)
  BY <1>1 DEF PathInv, ScanOnPath
<1>7. OnPath(Scanned, IF scan.compress THEN w ELSE r)
  <2>1. CASE scan.compress
    BY <1>6, <2>1 DEF w
  <2>2. CASE ~scan.compress
    BY <1>1, <1>2, <1>3, <1>6, <2>2, PathGoesOn
  <2>3. QED
    BY <2>1, <2>2
<1>8. ScanOnPath' /\ InlineAdding'
  BY <1>1, <1>4, <1>5, <1>6, <1>7 DEF ScanOnPath, InlineAdding, PathInv
<1>9. QED
  BY <1>1, <1>8 DEF PathInv

(* A load adds the location l of the event it stands on to the index, and  *)
(* the file it reads grows behind it.                                      *)
LEMMA ScanAddsPaths ==
    ASSUME IndexInvariant, PathInv, scan.on, scan.read > 0,
           ValidEventAt(Scanned, scan.read),
           NEW c, NEW d, NEW n, NEW k, NEW l \in Location,
           FileTypes(c, d, opened, n, k),
           ReleaseFiles(c, d, opened, n, k, {scan.file}), AddLocation(l),
           \A f \in Files : f # scan.file => c[f] = content[f] /\ n[f] = next_append[f],
           l.file = scan.file, l.size > EventSize(0),
           HasHeader(c[scan.file]), OnPath(c[scan.file], l.offset),
           OnPath(c[scan.file], n[scan.file]),
           \A m \in event_locations :
               m.file = scan.file => OnPath(c[scan.file], m.offset),
           conf' = conf
    PROVE  /\ PathsOf(content', next_append', event_locations', conf'.files)
           /\ content'[scan.file] = c[scan.file]
<1>1. scan.file \in Files /\ scan.file < conf.files
  BY ScannedProperties
<1>2. \A m \in event_locations' : m = l \/ m \in event_locations
  BY DEF AddLocation
<1>3. ASSUME NEW f \in Files PROVE GrowsOnPath(c[f], n[f])
  <2>1. CASE f = scan.file
    BY <2>1 DEF GrowsOnPath
  <2>2. CASE f # scan.file
    BY <2>2, PathsAsIs
  <2>3. QED
    BY <2>1, <2>2
<1>4. ASSUME NEW m \in event_locations'
      PROVE  OnPath(c[m.file], m.offset) /\ m.size > EventSize(0) /\ m.file < conf.files
  <2>1. CASE m = l
    BY <1>1, <2>1
  <2>2. CASE m \in event_locations /\ m.file = scan.file
    BY <2>2, PathsAsIs
  <2>3. CASE m \in event_locations /\ m.file # scan.file
    BY <2>3, PathsAsIs
  <2>4. QED
    BY <1>2, <2>1, <2>2, <2>3
<1>5. PathsOf(c, n, event_locations', conf'.files)
  BY <1>3, <1>4 DEF PathsOf
<1>6. event_locations' \subseteq Location
  BY <1>2, PathsAsIs
<1>7. PathsOf(content', next_append', event_locations', conf'.files)
  BY <1>5, <1>6, ReleasedPaths
<1>8. content'[scan.file] = c[scan.file]
  <2>1. scan.file \in Referenced({scan.file})
    BY DEF Referenced
  <2>2. QED
    BY <1>1, <2>1, ReleaseFilesProperties
<1>9. QED
  BY <1>7, <1>8

LEMMA ScanPendingEventPaths ==
    ASSUME IndexInvariant, PathInv, ScanPendingEvent
    PROVE  PathInv' /\ Scanned' = Scanned
<1> DEFINE r == scan.read + ScannedEvent.size
           l == ScannedLocation(scan.read)
           n == [next_append EXCEPT ![scan.file] = r]
           k == IncreaseEventCount(scan.file)
<1>1. /\ scan.on /\ scan.read > 0 /\ ValidEventAt(Scanned, scan.read)
      /\ ScannedEvent.status \in Active /\ ~(scan.found /\ scan.compress)
      /\ AddLocation(l)
      /\ ReleaseFiles(content, ScanSynced, opened, n, k, {scan.file})
      /\ scan' = [scan EXCEPT !.read = r]
      /\ conf' = conf /\ adding' = adding
  BY DEF ScanPendingEvent
<1>2. /\ scan \in ScanType /\ scan.read \in Nat /\ Scanned \in Seq(Cell)
      /\ scan.file \in Files /\ scan.file < conf.files
      /\ ScannedEvent.size \in Nat /\ 2 < ScannedEvent.size /\ r \in Nat
  BY <1>1, ScannedProperties
<1>3. /\ l \in Location /\ l.file = scan.file /\ l.offset = scan.read
      /\ l.size = ScannedEvent.size
  BY <1>1, <1>2, ScannedLocationProperties
<1>4. FileTypes(content, ScanSynced, opened, n, k)
  BY SMTT(30), <1>1, <1>2, ScanSyncedType, IndexAsIs DEF FileTypes, IncreaseEventCount
<1>5. HasHeader(Scanned) /\ OnPath(Scanned, scan.read)
  BY <1>1 DEF PathInv, ScanOnPath
<1>6. r = Following(Scanned, scan.read)
  BY DEF Following, ScannedEvent
<1>7. OnPath(Scanned, r)
  BY <1>1, <1>2, <1>5, <1>6, PathGoesOn
<1>8. /\ content[scan.file] = Scanned /\ n[scan.file] = r
      /\ \A f \in Files : f # scan.file => n[f] = next_append[f]
  BY <1>2, PathsAsIs DEF FileTypes, Scanned
<1>9. \A m \in event_locations : m.file = scan.file => OnPath(Scanned, m.offset)
  BY PathsAsIs DEF Scanned
<1>10. l.size > EventSize(0) /\ OnPath(Scanned, l.offset)
  BY <1>2, <1>3, <1>5 DEF EventSize
<1> HIDE DEF r, l, k, n
<1>11. /\ PathsOf(content', next_append', event_locations', conf'.files)
       /\ content'[scan.file] = Scanned
  <2>1. /\ HasHeader(content[scan.file]) /\ OnPath(content[scan.file], l.offset)
        /\ OnPath(content[scan.file], n[scan.file])
        /\ \A m \in event_locations :
             m.file = scan.file => OnPath(content[scan.file], m.offset)
        /\ \A f \in Files : f # scan.file =>
             content[f] = content[f] /\ n[f] = next_append[f]
    BY <1>5, <1>7, <1>8, <1>9, <1>10
  <2>2. /\ PathsOf(content', next_append', event_locations', conf'.files)
        /\ content'[scan.file] = content[scan.file]
    BY <1>1, <1>3, <1>4, <1>10, <2>1, ScanAddsPaths
  <2>3. QED
    BY <1>8, <2>2
<1>12. /\ scan'.on /\ scan'.file = scan.file /\ scan'.read = r
       /\ scan'.compress = scan.compress /\ scan'.found = scan.found
  BY <1>1, <1>2 DEF ScanType
<1>13. Scanned' = Scanned
  BY <1>11, <1>12 DEF Scanned
<1>14. ScanOnPath' /\ InlineAdding'
  BY <1>1, <1>5, <1>7, <1>12, <1>13 DEF ScanOnPath, InlineAdding, PathInv
<1>15. QED
  BY <1>11, <1>13, <1>14 DEF PathInv

(* The file after an event was moved up: the cells before the place it     *)
(* moved to and those behind the place it came from are as they were.      *)
LEMMA CompressedCells ==
    ASSUME IndexInvariant, scan.on, scan.read > 0, ValidEventAt(Scanned, scan.read),
           ScannedEvent.status \in Active, scan.found, scan.compress,
           NEW t, t = Compressed(ScannedEvent.size)
    PROVE  /\ Len(t) = Len(Scanned)
           /\ \A i \in 1 .. scan.write : t[i] = Scanned[i]
           /\ \A i \in (scan.read + ScannedEvent.size + 1) .. Len(Scanned) :
                t[i] = Scanned[i]
           /\ t[scan.write + 1] = ScannedEvent
<1> DEFINE s == Scanned
           z == ScannedEvent.size
           id == RequestIdAt(s, scan.read)
           cells == [i \in 1 .. z |->
                        IF i = 2 THEN Plain("id", id, 0) ELSE s[scan.read + i]]
           o == scan.write
<1>1. /\ scan.read \in Nat /\ o \in Nat /\ s \in Seq(Cell) /\ Len(s) \in Nat
      /\ z \in Nat /\ 2 < z /\ scan.read + z <= Len(s) /\ id \in Ids
  BY ScannedProperties
<1>2. 1 <= o /\ o < scan.read
  BY <1>1 DEF IndexInvariant, ScanInBounds, HeaderSize
<1>3. t = WriteCells(s, o, cells, z)
  BY DEF Compressed
<1>4. \A i \in 1 .. z : cells[i] \in Cell
  <2> SUFFICES ASSUME NEW i \in 1 .. z
               PROVE  cells[i] \in Cell
    OBVIOUS
  <2>1. Plain("id", id, 0) \in Cell
    BY <1>1 DEF Plain, Cell, Active
  <2>2. scan.read + i \in 1 .. Len(s)
    BY <1>1
  <2>3. s[scan.read + i] \in Cell
    BY <1>1, <2>2, ElementOfSeq
  <2>4. QED
    BY <2>1, <2>3
<1>5. 1 \in 1 .. z /\ cells[1] = ScannedEvent
  BY <1>1 DEF ScannedEvent
<1> HIDE DEF cells, s, z, o
<1>6. /\ Len(t) = Larger(Len(s), o + z)
      /\ \A i \in 1 .. z : t[o + i] = cells[i]
      /\ \A i \in 1 .. Len(s) : i <= o \/ o + z < i => t[i] = s[i]
  BY <1>1, <1>3, <1>4, WriteCellsProperties, SMTT(30)
<1>7. Len(t) = Len(s)
  BY <1>1, <1>2, <1>6 DEF Larger
<1>8. \A i \in 1 .. o : t[i] = s[i]
  BY SMTT(30), <1>1, <1>2, <1>6
<1>9. \A i \in (scan.read + z + 1) .. Len(s) : t[i] = s[i]
  BY <1>1, <1>2, <1>6
<1>10. t[o + 1] = ScannedEvent
  BY <1>5, <1>6
<1>11. QED
  BY <1>7, <1>8, <1>9, <1>10 DEF s, z, o

LEMMA CompressEventPaths ==
    ASSUME IndexInvariant, PathInv, CompressEvent
    PROVE  PathInv' /\ Scanned' = Compressed(ScannedEvent.size)
<1> DEFINE z == ScannedEvent.size
           r == scan.read + z
           v == scan.write + z
           t == Compressed(z)
           l == ScannedLocation(scan.write)
           c == [content EXCEPT ![scan.file] = t]
           d == [durable EXCEPT ![scan.file] = Compressed(z - 1)]
           n == [next_append EXCEPT ![scan.file] = v]
           k == IncreaseEventCount(scan.file)
<1>1. /\ scan.on /\ scan.read > 0 /\ ValidEventAt(Scanned, scan.read)
      /\ ScannedEvent.status \in Active /\ scan.found /\ scan.compress
      /\ AddLocation(l)
      /\ ReleaseFiles(c, d, opened, n, k, {scan.file})
      /\ scan' = [scan EXCEPT !.read = r, !.write = v]
      /\ conf' = conf /\ adding' = adding
  BY DEF CompressEvent
<1>2. /\ scan \in ScanType /\ scan.read \in Nat /\ scan.write \in Nat
      /\ scan.file \in Files /\ scan.file < conf.files
      /\ z \in Nat /\ 2 < z /\ r <= Len(Scanned) /\ r \in Nat
      /\ v \in Nat /\ Scanned \in Seq(Cell) /\ Len(Scanned) \in Nat
      /\ ScannedEvent.kind = "ev"
  BY <1>1, ScannedProperties
<1>3. l \in Location /\ l.file = scan.file /\ l.offset = scan.write /\ l.size = z
  BY <1>1, <1>2, ScannedLocationProperties
<1>4. HeaderSize <= scan.write /\ scan.write < scan.read
  BY <1>1 DEF IndexInvariant, ScanInBounds
<1>5. z \in 0 .. z /\ z - 1 \in 0 .. z
  BY <1>2
<1>6. t \in Seq(Cell) /\ Compressed(z - 1) \in Seq(Cell)
  BY <1>1, <1>5, CompressedProperties
<1>7. /\ Len(t) = Len(Scanned)
      /\ \A i \in 1 .. scan.write : t[i] = Scanned[i]
      /\ t[scan.write + 1] = ScannedEvent
  BY <1>1, CompressedCells
<1>8. FileTypes(c, d, opened, n, k)
  <2>1. FileTypes(content, durable, opened, next_append, event_count)
    BY IndexAsIs
  <2>2. c \in [Files -> Seq(Cell)] /\ d \in [Files -> Seq(Cell)]
    BY <1>2, <1>6, <2>1 DEF FileTypes
  <2>3. n \in [Files -> Nat] /\ k \in [Files -> Int]
    BY <1>2, <2>1 DEF FileTypes, IncreaseEventCount
  <2>4. QED
    BY <2>1, <2>2, <2>3 DEF FileTypes
<1>9. /\ c[scan.file] = t /\ n[scan.file] = v
       /\ \A f \in Files : f # scan.file => c[f] = content[f] /\ n[f] = next_append[f]
  BY <1>2, IndexAsIs DEF FileTypes
<1> HIDE DEF t, k, l, d, c, n
<1>10. HasHeader(Scanned) /\ OnPath(Scanned, scan.write)
  BY <1>1 DEF PathInv, ScanOnPath
<1>11. HasHeader(t)
  BY <1>2, <1>4, <1>7, <1>10 DEF HasHeader, HeaderSize
<1>12. OnPath(t, scan.write)
  <2>1. scan.write <= Len(t)
    BY <1>2, <1>4, <1>7
  <2>2. QED
    BY <1>2, <1>6, <1>7, <1>10, <2>1, PathPrefix
<1>13. OnPath(t, v)
  <2>1. ValidEventAt(t, scan.write) /\ Following(t, scan.write) = v
    BY <1>2, <1>4, <1>7 DEF ValidEventAt, Following, EventSize
  <2>2. QED
    BY <1>6, <1>12, <2>1, PathGoesOn
<1>14. ASSUME NEW m \in event_locations, m.file = scan.file
       PROVE  OnPath(t, m.offset)
  <2>1. /\ m.offset \in Nat /\ m.size \in Nat /\ m.file \in Files
        /\ OnPath(Scanned, m.offset)
    BY <1>14, PathsAsIs DEF Scanned
  <2>2. m.offset + m.size <= scan.write
    BY <1>1, <1>14, <2>1 DEF IndexInvariant, ScanInBounds, End, Files
  <2>3. m.offset <= Len(t) /\ \A i \in 1 .. m.offset : t[i] = Scanned[i]
    BY SMTT(30), <1>2, <1>4, <1>7, <2>1, <2>2
  <2>4. QED
    BY <1>2, <1>6, <2>1, <2>3, PathPrefix
<1>15. l.size > EventSize(0) /\ OnPath(t, l.offset)
  BY <1>2, <1>3, <1>12 DEF EventSize
<1>16. /\ PathsOf(content', next_append', event_locations', conf'.files)
       /\ content'[scan.file] = t
  <2> HIDE DEF z, r, v
  <2>1. /\ HasHeader(c[scan.file]) /\ OnPath(c[scan.file], l.offset)
        /\ OnPath(c[scan.file], n[scan.file])
        /\ \A m \in event_locations :
             m.file = scan.file => OnPath(c[scan.file], m.offset)
    BY <1>9, <1>11, <1>13, <1>14, <1>15
  <2>2. /\ PathsOf(content', next_append', event_locations', conf'.files)
        /\ content'[scan.file] = c[scan.file]
    BY <1>1, <1>3, <1>8, <1>9, <1>15, <2>1, ScanAddsPaths
  <2>3. QED
    BY <1>9, <2>2
<1>17. /\ scan'.on /\ scan'.file = scan.file /\ scan'.read = r /\ scan'.write = v
       /\ scan'.compress = scan.compress /\ scan'.found = scan.found
  <2> HIDE DEF r, v
  <2>1. QED
    BY <1>1, <1>2 DEF ScanType
<1>18. Scanned' = t
  BY <1>16, <1>17 DEF Scanned
<1>19. ScanOnPath' /\ InlineAdding'
  BY <1>1, <1>11, <1>13, <1>17, <1>18 DEF ScanOnPath, InlineAdding, PathInv
<1>20. QED
  BY <1>16, <1>18, <1>19 DEF PathInv, t

-----------------------------------------------------------------------------
(* What a compression knows.                                               *)

\* the load has still to read the file f
Ahead(f, sc) == sc.file < f \/ (sc.file = f /\ sc.read = 0)

LEMMA KnownNow ==
    ASSUME NEW x \in Known
    PROVE  \/ \E l \in event_locations : x = l.id
           \/ /\ scan.on
              /\ \E f \in 0 .. (conf.files - 1) : Ahead(f, scan) /\
                     \E e \in PersistedIn(AtClose(f)) : x = e.id
           \/ /\ scan.on /\ scan.read # 0
              /\ \E e \in PendingFrom(Scanned, scan.read) : x = e.id
  BY DEF Known, Indexed, Unread, Ahead

LEMMA KnownThen ==
    /\ \A l \in event_locations' : l.id \in Known'
    /\ scan'.on =>
         \A f \in 0 .. (conf'.files - 1) : Ahead(f, scan') =>
             \A e \in PersistedIn(AtClose(f)') : e.id \in Known'
    /\ scan'.on /\ scan'.read # 0 =>
         \A e \in PendingFrom(Scanned', scan'.read) : e.id \in Known'
<1>1. \A l \in event_locations' : l.id \in Known'
  BY DEF Known, Indexed
<1>2. ASSUME scan'.on, NEW f \in 0 .. (conf'.files - 1), Ahead(f, scan'),
             NEW e \in PersistedIn(AtClose(f)')
      PROVE  e.id \in Known'
  <2>1. e \in Unread'
    BY <1>2 DEF Unread, Ahead
  <2>2. QED
    BY <1>2, <2>1 DEF Known
<1>3. ASSUME scan'.on, scan'.read # 0, NEW e \in PendingFrom(Scanned', scan'.read)
      PROVE  e.id \in Known'
  <2>1. e \in Unread'
    BY <1>3 DEF Unread
  <2>2. QED
    BY <1>3, <2>1 DEF Known
<1>4. QED
  BY <1>1, <1>2, <1>3

(* A file which a step does not write holds the same once it is closed,    *)
(* whether or not the step closes it.                                      *)
LEMMA AtCloseReleased ==
    ASSUME NEW c, NEW d, NEW o, NEW n, NEW k, NEW held,
           ReleaseFiles(c, d, o, n, k, held), conf' = conf,
           NEW f \in Files, c[f] = content[f], n[f] = next_append[f],
           f \in o <=> f \in opened
    PROVE  AtClose(f)' = AtClose(f)
<1> DEFINE used == {l.file : l \in event_locations' \cup timebased_replay'}
           gone == o \ (used \cup held)
<1>1. /\ opened' = o \ gone
      /\ content' = [g \in Files |->
             IF g \in gone THEN Truncate(c[g], n[g]) ELSE c[g]]
      /\ next_append' = [g \in Files |-> IF g \in gone THEN 0 ELSE n[g]]
  BY DEF ReleaseFiles
<1>2. gone \subseteq o
  OBVIOUS
<1> HIDE DEF gone
<1>3. CASE f \in gone
  BY <1>1, <1>2, <1>3 DEF AtClose
<1>4. CASE f \notin gone
  <2>1. /\ content'[f] = content[f] /\ next_append'[f] = next_append[f]
        /\ f \in opened' <=> f \in opened
    BY <1>1, <1>4
  <2>2. Truncate(content[f], next_append[f])' = Truncate(content[f], next_append[f])
    BY <2>1 DEF Truncate
  <2>3. QED
    BY <2>1, <2>2 DEF AtClose
<1>5. QED
  BY <1>3, <1>4

(* What a file holds once it is closed is among what it holds.             *)
LEMMA AtCloseFinds ==
    ASSUME IndexInvariant, PathInv, NEW f \in Files, NEW e \in PersistedIn(AtClose(f))
    PROVE  e \in PersistedIn(content[f])
  BY PathsAsIs, TruncateFinds DEF AtClose

(* Every event of the index is in what its file holds once it is closed.   *)
LEMMA AtCloseKeepsIndexed ==
    ASSUME IndexInvariant, PathInv, NEW l \in event_locations
    PROVE  \E e \in PersistedIn(AtClose(l.file)) : e.id = l.id
<1> DEFINE s == content[l.file]
           n == next_append[l.file]
<1>1. /\ l \in Location /\ l.file \in Files /\ StoredIn(s, l)
      /\ l.file \in opened /\ End(l) <= n
  BY IndexAsIs
<1>2. /\ s \in Seq(Cell) /\ n \in Nat /\ GrowsOnPath(s, n)
      /\ OnPath(s, l.offset) /\ l.size > EventSize(0)
  BY <1>1, PathsAsIs
<1> HIDE DEF s, n
<1>3. \E e \in PersistedIn(Truncate(s, n)) : e.id = l.id
  BY <1>1, <1>2, TruncateKeepsIndexed
<1>4. QED
  BY <1>1, <1>3 DEF AtClose, s, n

(* The start of a compression: the index is cleared, but what was in it is *)
(* in the files which the load is about to read.                           *)
LEMMA CompressForKnows ==
    ASSUME IndexInvariant, PathInv, ~scan.on, NEW id, NEW d, NEW time,
           CompressFor(id, d, time)
    PROVE  Known \subseteq Known'
<1> SUFFICES ASSUME NEW x \in Known PROVE x \in Known'
  OBVIOUS
<1> DEFINE o == opened \cup 0 .. (conf.files - 1)
<1>1. /\ ReleaseFiles(content, durable, o, next_append, event_count, {})
      /\ conf' = conf /\ scan' = StartScan(TRUE)
  BY DEF CompressFor
<1>2. scan'.on /\ scan'.file = 0 /\ scan'.read = 0
  BY <1>1 DEF StartScan, ScanState
<1>3. PICK l \in event_locations : x = l.id
  BY KnownNow
<1>4. l.file \in Files /\ l.file \in opened /\ l.file < conf.files
  BY IndexAsIs, PathsAsIs
<1>5. conf.files \in Nat /\ l.file \in Nat
  <2>1. conf.files \in 1 .. FileLimit
    BY IndexAsIs, FileRanges
  <2>2. QED
    BY <1>4, <2>1 DEF Files
<1>6. PICK e \in PersistedIn(AtClose(l.file)) : e.id = l.id
  BY AtCloseKeepsIndexed
<1>7. AtClose(l.file)' = AtClose(l.file)
  <2>1. l.file \in o <=> l.file \in opened
    BY <1>4
  <2> HIDE DEF o
  <2> DEFINE f == l.file
  <2>2. f \in Files /\ (f \in o <=> f \in opened)
    BY <1>4, <2>1
  <2> HIDE DEF f
  <2>3. AtClose(f)' = AtClose(f)
    BY <1>1, <2>2, AtCloseReleased
  <2>4. QED
    BY <2>3 DEF f
<1>8. l.file \in 0 .. (conf'.files - 1) /\ Ahead(l.file, scan')
  <2>1. l.file \in 0 .. (conf.files - 1)
    BY <1>4, <1>5
  <2>2. 0 < l.file \/ 0 = l.file
    BY <1>5
  <2>3. QED
    BY <1>1, <1>2, <2>1, <2>2 DEF Ahead
<1>9. e \in PersistedIn(AtClose(l.file)')
  BY <1>7
<1>10. e.id \in Known'
  BY <1>2, <1>8, <1>9, KnownThen
<1>11. QED
  BY <1>3, <1>6, <1>10

(* A load goes on: what it has still to read, and what it is about to      *)
(* read, it still knows after the step.                                    *)
LEMMA ScanKnows ==
    ASSUME NEW x \in Known, scan.on,
           \A l \in event_locations : \E m \in event_locations' : m.id = l.id,
           \A f \in 0 .. (conf.files - 1) : Ahead(f, scan) =>
               \A e \in PersistedIn(AtClose(f)) : e.id \in Known',
           scan.read # 0 =>
               \A e \in PendingFrom(Scanned, scan.read) : e.id \in Known'
    PROVE  x \in Known'
<1>1. CASE \E l \in event_locations : x = l.id
  <2>1. PICK m \in event_locations' : m.id = x
    BY <1>1
  <2>2. QED
    BY <2>1, KnownThen
<1>2. CASE \E f \in 0 .. (conf.files - 1) : Ahead(f, scan) /\
               \E e \in PersistedIn(AtClose(f)) : x = e.id
  BY <1>2
<1>3. CASE scan.read # 0 /\ \E e \in PendingFrom(Scanned, scan.read) : x = e.id
  BY <1>3
<1>4. QED
  BY <1>1, <1>2, <1>3, KnownNow

(* The files a load has still to read after a step which releases files.   *)
LEMMA AheadKnows ==
    ASSUME IndexInvariant, scan.on, scan'.on, conf' = conf,
           NEW c, NEW d, NEW o, NEW n, NEW k, NEW held,
           ReleaseFiles(c, d, o, n, k, held),
           NEW f \in 0 .. (conf.files - 1), Ahead(f, scan'),
           c[f] = content[f], n[f] = next_append[f], f \in o <=> f \in opened,
           NEW e \in PersistedIn(AtClose(f))
    PROVE  e.id \in Known'
<1>1. f \in Files
  BY IndexAsIs, FileRanges
<1>2. AtClose(f)' = AtClose(f)
  BY <1>1, AtCloseReleased
<1>3. e \in PersistedIn(AtClose(f)')
  BY <1>2
<1>4. QED
  BY <1>3, KnownThen

(* The files a load has still to read after a step which closes none.      *)
LEMMA AheadStays ==
    ASSUME scan'.on, UNCHANGED <<content, next_append, conf>>,
           NEW f \in 0 .. (conf.files - 1), Ahead(f, scan'),
           f \in opened' <=> f \in opened,
           NEW e \in PersistedIn(AtClose(f))
    PROVE  e.id \in Known'
<1>1. Truncate(content[f], next_append[f])' = Truncate(content[f], next_append[f])
  BY DEF Truncate
<1>2. AtClose(f)' = AtClose(f)
  BY <1>1 DEF AtClose
<1>3. e \in PersistedIn(AtClose(f)')
  BY <1>2
<1>4. QED
  BY <1>3, KnownThen

(* The file after the one a load reads.                                    *)
LEMMA NextFileAhead ==
    ASSUME IndexInvariant, scan.on, scan' = NextFile
    PROVE  /\ scan'.on /\ scan'.read = 0
           /\ \A f \in Nat : Ahead(f, scan) /\ f # scan.file => Ahead(f, scan')
<1>1. scan \in ScanType /\ scan.file \in Nat
  BY IndexAsIs, ScanFields
<1>2. scan'.on = scan.on /\ scan'.file = scan.file + 1 /\ scan'.read = 0
  BY <1>1 DEF NextFile, ScanType
<1>3. QED
  BY <1>1, <1>2 DEF Ahead

LEMMA ScanSkipFileKnows ==
    ASSUME IndexInvariant, PathInv, ScanSkipFile
    PROVE  Known \subseteq Known'
<1> SUFFICES ASSUME NEW x \in Known PROVE x \in Known'
  OBVIOUS
<1> DEFINE o == opened \cup {scan.file}
           k == ResetEventCount(scan.file)
<1>1. /\ scan.on /\ scan.read = 0 /\ scan.file < conf.files
      /\ ~HasHeader(Scanned) /\ event_locations' = event_locations
      /\ scan' = NextFile /\ conf' = conf
      /\ UNCHANGED fileVars \/ ReleaseFiles(content, ScanSynced, o, next_append, k, {})
  BY DEF ScanSkipFile, indexVars
<1>2. /\ scan'.on /\ scan.file \in Files
      /\ \A f \in Nat : Ahead(f, scan) /\ f # scan.file => Ahead(f, scan')
  BY <1>1, NextFileAhead, ScanSyncedType
<1>3. ASSUME NEW f \in 0 .. (conf.files - 1), Ahead(f, scan),
             NEW e \in PersistedIn(AtClose(f))
      PROVE  e.id \in Known'
  <2>1. f \in Files /\ f \in Nat
    BY IndexAsIs, FileRanges DEF Files
  <2>2. f # scan.file
    <3>1. e \in PersistedIn(content[f])
      BY <2>1, AtCloseFinds
    <3>2. HasHeader(content[f])
      BY <3>1 DEF PersistedIn, PendingFrom
    <3>3. QED
      BY <1>1, <3>2 DEF Scanned
  <2>3. Ahead(f, scan')
    BY <1>2, <1>3, <2>1, <2>2
  <2>4. CASE UNCHANGED fileVars
    <3>1. UNCHANGED <<content, next_append, conf, opened>>
      BY <1>1, <2>4 DEF fileVars
    <3>2. QED
      BY <1>2, <2>3, <3>1, AheadStays
  <2>5. CASE ReleaseFiles(content, ScanSynced, o, next_append, k, {})
    <3>1. f \in o <=> f \in opened
      BY <2>2
    <3> HIDE DEF o, k
    <3>2. QED
      BY <1>1, <1>2, <2>3, <2>5, <3>1, AheadKnows
  <2>6. QED
    BY <1>1, <2>4, <2>5
<1>4. QED
  BY <1>1, <1>3, ScanKnows

LEMMA ScanCloseFileKnows ==
    ASSUME IndexInvariant, PathInv, ScanCloseFile
    PROVE  Known \subseteq Known'
<1> SUFFICES ASSUME NEW x \in Known PROVE x \in Known'
  OBVIOUS
<1>1. /\ scan.on /\ scan.read > 0 /\ ~ValidEventAt(Scanned, scan.read)
      /\ event_locations' = event_locations
      /\ ReleaseFiles(content, ScanSynced, opened, next_append, event_count, {})
      /\ scan' = NextFile /\ conf' = conf
  BY DEF ScanCloseFile, indexVars
<1>2. /\ scan'.on
      /\ \A f \in Nat : Ahead(f, scan) /\ f # scan.file => Ahead(f, scan')
  BY <1>1, NextFileAhead
<1>3. /\ scan.read \in Nat /\ scan.file \in Nat /\ scan.file < conf.files
      /\ Scanned \in Seq(Cell) /\ scan.read \in 0 .. Len(Scanned)
  <2>1. scan.read \in Nat /\ scan.file \in Nat /\ scan.file < conf.files
    BY <1>1, IndexAsIs, ScanFields DEF IndexInvariant, ScanInBounds
  <2>2. Scanned \in Seq(Cell) /\ Len(Scanned) \in Nat
    BY <1>1, <2>1, ScanSyncedType, LenProperties
  <2>3. scan.read <= Len(Scanned)
    BY <1>1 DEF IndexInvariant, ScanInBounds, Scanned
  <2>4. QED
    BY <2>1, <2>2, <2>3
<1>4. PendingFrom(Scanned, scan.read) = {}
  BY <1>1, <1>3, WalkProperties DEF PendingFrom
<1>5. ASSUME NEW f \in 0 .. (conf.files - 1), Ahead(f, scan),
             NEW e \in PersistedIn(AtClose(f))
      PROVE  e.id \in Known'
  <2>1. f \in Nat /\ f # scan.file
    BY <1>1, <1>3, <1>5 DEF Ahead
  <2>2. Ahead(f, scan')
    BY <1>2, <1>5, <2>1
  <2>3. QED
    BY <1>1, <1>2, <2>2, AheadKnows
<1>6. QED
  BY <1>1, <1>4, <1>5, ScanKnows

LEMMA ScanEndKnows ==
    ASSUME IndexInvariant, ScanEnd
    PROVE  Known \subseteq Known'
<1> SUFFICES ASSUME NEW x \in Known PROVE x \in Known'
  OBVIOUS
<1>1. /\ scan.on /\ scan.read = 0 /\ scan.file >= conf.files
      /\ event_locations' = event_locations
  BY DEF ScanEnd, indexVars
<1>2. scan.file \in Nat /\ conf.files \in Nat
  <2>1. conf.files \in 1 .. FileLimit
    BY IndexAsIs, FileRanges
  <2>2. QED
    BY <2>1, IndexAsIs, ScanFields
<1>3. \A f \in 0 .. (conf.files - 1) : ~Ahead(f, scan)
  BY <1>1, <1>2 DEF Ahead
<1>4. QED
  BY <1>1, <1>3, ScanKnows

LEMMA ScanOpenFileKnows ==
    ASSUME IndexInvariant, PathInv, ScanOpenFile
    PROVE  Known \subseteq Known'
<1> SUFFICES ASSUME NEW x \in Known PROVE x \in Known'
  OBVIOUS
<1>1. /\ scan.on /\ scan.read = 0 /\ scan.file < conf.files
      /\ opened' = opened \cup {scan.file}
      /\ scan' = [scan EXCEPT !.read = HeaderSize]
      /\ event_locations' = event_locations
      /\ UNCHANGED <<content, next_append, conf>>
  BY DEF ScanOpenFile, indexVars
<1>2. scan \in ScanType /\ scan.file \in Nat
  BY IndexAsIs, ScanFields
<1>3. scan'.on /\ scan'.file = scan.file /\ scan'.read = HeaderSize
  BY <1>1, <1>2 DEF ScanType
<1>4. ASSUME NEW f \in 0 .. (conf.files - 1), Ahead(f, scan),
             NEW e \in PersistedIn(AtClose(f))
      PROVE  e.id \in Known'
  <2>1. f \in Files /\ f \in Nat
    BY IndexAsIs, FileRanges DEF Files
  <2>2. CASE f = scan.file
    <3>1. e \in PersistedIn(content[f])
      BY <2>1, AtCloseFinds
    <3>2. Scanned' = content[f]
      BY <1>1, <1>3, <2>2 DEF Scanned
    <3>3. e \in PendingFrom(Scanned', scan'.read)
      BY <1>3, <3>1, <3>2 DEF PersistedIn
    <3>4. QED
      BY <1>3, <3>3, KnownThen DEF HeaderSize
  <2>3. CASE f # scan.file
    <3>1. Ahead(f, scan')
      BY <1>3, <1>4, <2>3 DEF Ahead
    <3>2. f \in opened' <=> f \in opened
      BY <1>1, <2>3
    <3>3. QED
      BY <1>1, <1>3, <3>1, <3>2, AheadStays
  <2>4. QED
    BY <2>2, <2>3
<1>5. QED
  BY <1>1, <1>4, ScanKnows

(* What a load finds from the event it stands on: it and what lies behind. *)
LEMMA PendingStep ==
    ASSUME IndexInvariant, scan.on, scan.read > 0, ValidEventAt(Scanned, scan.read),
           NEW e \in PendingFrom(Scanned, scan.read)
    PROVE  \/ /\ ScannedEvent.status \in Active
              /\ e.id = RequestIdAt(Scanned, scan.read)
           \/ e \in PendingFrom(Scanned, scan.read + ScannedEvent.size)
<1>1. /\ scan.read \in Nat /\ Scanned \in Seq(Cell) /\ Len(Scanned) \in Nat
      /\ ScannedEvent.size \in Nat /\ scan.read + ScannedEvent.size <= Len(Scanned)
  BY ScannedProperties
<1>2. scan.read \in 0 .. Len(Scanned)
  BY <1>1
<1>3. HasHeader(Scanned) /\ e \in Walk(Scanned)[scan.read]
  BY DEF PendingFrom
<1>4. Following(Scanned, scan.read) = scan.read + ScannedEvent.size
  BY DEF Following, ScannedEvent
<1>5. e \in Walk(Scanned)[scan.read + ScannedEvent.size] \cup Own(Scanned, scan.read)
  BY <1>1, <1>2, <1>3, <1>4, WalkProperties
<1>6. CASE e \in Own(Scanned, scan.read)
  BY <1>6 DEF Own, Record, ScannedEvent
<1>7. CASE e \in Walk(Scanned)[scan.read + ScannedEvent.size]
  BY <1>3, <1>7 DEF PendingFrom
<1>8. QED
  BY <1>5, <1>6, <1>7

LEMMA ScanFinishedEventKnows ==
    ASSUME IndexInvariant, PathInv, ScanFinishedEvent
    PROVE  Known \subseteq Known'
<1> SUFFICES ASSUME NEW x \in Known PROVE x \in Known'
  OBVIOUS
<1> DEFINE r == scan.read + ScannedEvent.size
           w == IF scan.found THEN scan.write ELSE scan.read
<1>1. /\ scan.on /\ scan.read > 0 /\ ValidEventAt(Scanned, scan.read)
      /\ ScannedEvent.status \in Final
      /\ scan' = [scan EXCEPT !.read = r, !.found = TRUE, !.write = w]
      /\ event_locations' = event_locations /\ opened' = opened
      /\ UNCHANGED <<content, next_append, conf>>
  BY DEF ScanFinishedEvent, indexVars
<1>2. /\ scan \in ScanType /\ scan.file \in Nat /\ scan.read \in Nat
      /\ ScannedEvent.size \in Nat
  BY <1>1, ScannedProperties, IndexAsIs, ScanFields
<1>3. r # 0
  BY <1>1, <1>2
<1> HIDE DEF w
<1>4. scan'.on /\ scan'.file = scan.file /\ scan'.read = r
  <2> HIDE DEF r
  <2>1. QED
    BY <1>1, <1>2 DEF ScanType
<1>5. Scanned' = Scanned
  BY <1>1, <1>4 DEF Scanned
<1>6. ASSUME NEW f \in 0 .. (conf.files - 1), Ahead(f, scan),
             NEW e \in PersistedIn(AtClose(f))
      PROVE  e.id \in Known'
  <2>1. Ahead(f, scan')
    BY <1>1, <1>2, <1>4, <1>6 DEF Ahead
  <2>2. QED
    BY <1>1, <1>4, <2>1, AheadStays
<1>7. ASSUME NEW e \in PendingFrom(Scanned, scan.read)
      PROVE  e.id \in Known'
  <2>1. e \in PendingFrom(Scanned, r)
    BY <1>1, PendingStep DEF Active, Final
  <2>2. e \in PendingFrom(Scanned', scan'.read)
    BY <1>4, <1>5, <2>1
  <2>3. QED
    BY <1>3, <1>4, <2>2, KnownThen
<1>8. QED
  BY <1>1, <1>6, <1>7, ScanKnows

(* A load has added the location l of the event it stood on to the index.  *)
LEMMA ScanAddsKnows ==
    ASSUME IndexInvariant, scan.on, scan.read > 0, ValidEventAt(Scanned, scan.read),
           NEW c, NEW d, NEW n, NEW k, NEW l,
           ReleaseFiles(c, d, opened, n, k, {scan.file}), AddLocation(l),
           \A f \in Files : f # scan.file => c[f] = content[f] /\ n[f] = next_append[f],
           l.id = RequestIdAt(Scanned, scan.read),
           conf' = conf, scan'.on, scan'.file = scan.file,
           scan'.read = scan.read + ScannedEvent.size,
           PendingFrom(Scanned, scan'.read) = PendingFrom(Scanned', scan'.read)
    PROVE  Known \subseteq Known'
<1> SUFFICES ASSUME NEW x \in Known PROVE x \in Known'
  OBVIOUS
<1>1. scan.file \in Nat /\ scan.read \in Nat /\ ScannedEvent.size \in Nat
  BY ScannedProperties, IndexAsIs, ScanFields
<1>2. scan'.read # 0 /\ scan'.read > 0
  BY <1>1
<1>3. l \in event_locations'
  BY DEF AddLocation
<1>4. \A m \in event_locations : \E y \in event_locations' : y.id = m.id
  BY <1>3 DEF AddLocation
<1>5. ASSUME NEW f \in 0 .. (conf.files - 1), Ahead(f, scan),
             NEW e \in PersistedIn(AtClose(f))
      PROVE  e.id \in Known'
  <2>1. f \in Files /\ f \in Nat
    BY IndexAsIs, FileRanges DEF Files
  <2>2. f # scan.file /\ Ahead(f, scan')
    BY <1>1, <1>5, <2>1 DEF Ahead
  <2>3. c[f] = content[f] /\ n[f] = next_append[f]
    BY <2>1, <2>2
  <2>4. QED
    BY <2>2, <2>3, AheadKnows
<1>6. ASSUME NEW e \in PendingFrom(Scanned, scan.read)
      PROVE  e.id \in Known'
  <2>1. CASE e.id = RequestIdAt(Scanned, scan.read)
    BY <1>3, <2>1, KnownThen
  <2>2. CASE e \in PendingFrom(Scanned, scan.read + ScannedEvent.size)
    <3>1. e \in PendingFrom(Scanned', scan'.read)
      BY <2>2
    <3>2. QED
      BY <1>2, <3>1, KnownThen
  <2>3. QED
    BY <2>1, <2>2, PendingStep
<1>7. QED
  BY <1>4, <1>5, <1>6, ScanKnows

LEMMA ScanPendingEventKnows ==
    ASSUME IndexInvariant, PathInv, ScanPendingEvent
    PROVE  Known \subseteq Known'
<1> DEFINE r == scan.read + ScannedEvent.size
           l == ScannedLocation(scan.read)
           n == [next_append EXCEPT ![scan.file] = r]
           k == IncreaseEventCount(scan.file)
<1>1. /\ scan.on /\ scan.read > 0 /\ ValidEventAt(Scanned, scan.read)
      /\ AddLocation(l)
      /\ ReleaseFiles(content, ScanSynced, opened, n, k, {scan.file})
      /\ scan' = [scan EXCEPT !.read = r] /\ conf' = conf
  BY DEF ScanPendingEvent
<1>2. scan \in ScanType /\ Scanned' = Scanned
  BY <1>1, ScannedProperties, ScanPendingEventPaths
<1>3. l.id = RequestIdAt(Scanned, scan.read)
  BY DEF ScannedLocation
<1>4. \A f \in Files : f # scan.file =>
         content[f] = content[f] /\ n[f] = next_append[f]
  BY PathsAsIs DEF FileTypes
<1>5. scan'.on /\ scan'.file = scan.file /\ scan'.read = r
  <2> HIDE DEF r
  <2>1. QED
    BY <1>1, <1>2 DEF ScanType
<1> HIDE DEF l, n, k
<1>6. PendingFrom(Scanned, scan'.read) = PendingFrom(Scanned', scan'.read)
  BY <1>2
<1>7. QED
  BY <1>1, <1>3, <1>4, <1>5, <1>6, ScanAddsKnows

LEMMA CompressEventKnows ==
    ASSUME IndexInvariant, PathInv, CompressEvent
    PROVE  Known \subseteq Known'
<1> DEFINE z == ScannedEvent.size
           r == scan.read + z
           v == scan.write + z
           t == Compressed(z)
           l == ScannedLocation(scan.write)
           c == [content EXCEPT ![scan.file] = t]
           d == [durable EXCEPT ![scan.file] = Compressed(z - 1)]
           n == [next_append EXCEPT ![scan.file] = v]
           k == IncreaseEventCount(scan.file)
<1>1. /\ scan.on /\ scan.read > 0 /\ ValidEventAt(Scanned, scan.read)
      /\ ScannedEvent.status \in Active /\ scan.found /\ scan.compress
      /\ AddLocation(l)
      /\ ReleaseFiles(c, d, opened, n, k, {scan.file})
      /\ scan' = [scan EXCEPT !.read = r, !.write = v] /\ conf' = conf
  BY DEF CompressEvent
<1>2. /\ scan \in ScanType /\ scan.read \in Nat /\ z \in Nat
      /\ r <= Len(Scanned) /\ Scanned \in Seq(Cell) /\ Len(Scanned) \in Nat
  BY <1>1, ScannedProperties
<1>3. l.id = RequestIdAt(Scanned, scan.read)
  BY DEF ScannedLocation
<1>4. \A f \in Files : f # scan.file => c[f] = content[f] /\ n[f] = next_append[f]
  BY PathsAsIs DEF FileTypes
<1>5. scan'.on /\ scan'.file = scan.file /\ scan'.read = r
  <2> HIDE DEF r, v
  <2>1. QED
    BY <1>1, <1>2 DEF ScanType
<1>6. Scanned' = t /\ PathInv'
  BY CompressEventPaths
<1>7. /\ Len(t) = Len(Scanned)
      /\ \A i \in (r + 1) .. Len(Scanned) : t[i] = Scanned[i]
  BY <1>1, CompressedCells
<1>8. t \in Seq(Cell)
  <2>1. z \in 0 .. z
    BY <1>2
  <2>2. QED
    BY <1>1, <2>1, CompressedProperties
<1> HIDE DEF t, l, c, d, n, k
<1>9. r \in 0 .. Len(Scanned) /\ r > 0
  BY <1>1, <1>2
<1>10. Walk(t)[r] = Walk(Scanned)[r]
  <2> HIDE DEF r
  <2>1. QED
    BY <1>2, <1>7, <1>8, <1>9, WalkSuffix
<1>11. HasHeader(Scanned) /\ HasHeader(t)
  <2>1. HasHeader(Scanned)
    BY <1>1 DEF PathInv, ScanOnPath
  <2>2. HasHeader(Scanned')
    <3>1. scan'.read > 0
      BY <1>5, <1>9
    <3>2. QED
      BY <1>5, <1>6, <3>1 DEF PathInv, ScanOnPath
  <2>3. QED
    BY <1>6, <2>1, <2>2
<1>12. PendingFrom(Scanned, scan'.read) = PendingFrom(Scanned', scan'.read)
  BY <1>5, <1>6, <1>10, <1>11 DEF PendingFrom
<1>13. QED
  BY SMTT(30), <1>1, <1>3, <1>4, <1>5, <1>12, ScanAddsKnows

-----------------------------------------------------------------------------
(* Every step of the journal.                                              *)

LEMMA InitPaths == Init => PathInv
  BY DEF Init, PathInv, PathsOf, GrowsOnPath, ScanOnPath, InlineAdding,
         StartScan, ScanState

LEMMA AddPaths ==
    ASSUME 0 \notin DataSizes, IndexInvariant, PathInv, Add
    PROVE  PathInv'
<1>1. PICK id \in RequestIds, d \in DataSizes, t \in InputTimes, time \in 1 .. MaxTime :
         \/ AddEvent(id, d, t, time)
         \/ AddEventFails(id, d, t, time)
         \/ CrashInAddEvent(id, d, t, time)
  BY DEF Add
<1>2. id \in Ids /\ d \in Nat /\ d # 0 /\ time \in Nat
  BY JournalAssumption DEF Ids
<1>3. CASE AddEvent(id, d, t, time)
  <2>1. ~scan.on
    BY <1>3 DEF AddEvent, Ready
  <2>2. CASE \E f \in Files : IsNextFit(f, EventSize(d)) /\ WriteNewEvent(f, id, d, time)
    <3>1. PICK f \in Files : f < conf.files /\ WriteNewEvent(f, id, d, time)
      BY <2>2 DEF IsNextFit
    <3>2. QED
      BY <1>2, <2>1, <3>1, WriteNewEventPaths
  <2>3. CASE CompressFor(id, d, time)
    BY <1>2, <2>3, CompressForPaths
  <2>4. CASE Refuse
    BY <2>1, <2>4, RefusePaths
  <2>5. QED
    BY <1>3, <2>2, <2>3, <2>4 DEF AddEvent
<1>4. CASE AddEventFails(id, d, t, time)
  <2>1. ~scan.on
    BY <1>4 DEF AddEventFails, Ready
  <2>2. PICK f \in Files, n \in {0} \cup 2 .. (d + 1) :
           WriteNewEventFails(f, id, d, time, n)
    BY <1>4 DEF AddEventFails
  <2>3. n \in 0 .. EventSize(d)
    BY <1>2 DEF EventSize
  <2>4. QED
    BY <1>2, <2>1, <2>2, <2>3, WriteNewEventFailsPaths
<1>5. CASE CrashInAddEvent(id, d, t, time)
  BY <1>5, BootPaths DEF CrashInAddEvent
<1>6. QED
  BY <1>1, <1>3, <1>4, <1>5

LEMMA AddEventAgainPaths ==
    ASSUME IndexInvariant, PathInv, AddEventAgain
    PROVE  PathInv'
<1>1. adding.id \in Ids /\ adding.data \in Nat /\ adding.time \in Nat
  BY IndexAsIs DEF RestOK
<1>2. ~scan.on /\ adding.data # 0
  BY <1>1 DEF AddEventAgain, PathInv, InlineAdding
<1>3. CASE \E f \in Files : /\ IsNextFit(f, EventSize(adding.data))
                            /\ WriteNewEvent(f, adding.id, adding.data, adding.time)
  <2>1. PICK f \in Files : /\ f < conf.files
                           /\ WriteNewEvent(f, adding.id, adding.data, adding.time)
    BY <1>3 DEF IsNextFit
  <2>2. QED
    BY <1>1, <1>2, <2>1, WriteNewEventPaths
<1>4. CASE Refuse
  BY <1>2, <1>4, RefusePaths
<1>5. QED
  BY <1>3, <1>4 DEF AddEventAgain

LEMMA AddEventAgainFailsPaths ==
    ASSUME IndexInvariant, PathInv, AddEventAgainFails
    PROVE  PathInv'
<1>1. adding.id \in Ids /\ adding.data \in Nat /\ adding.time \in Nat
  BY IndexAsIs DEF RestOK
<1>2. ~scan.on
  BY DEF AddEventAgainFails
<1>3. PICK f \in Files, n \in {0} \cup 2 .. (adding.data + 1) :
         WriteNewEventFails(f, adding.id, adding.data, adding.time, n)
  BY DEF AddEventAgainFails
<1>4. n \in 0 .. EventSize(adding.data)
  BY <1>1 DEF EventSize
<1>5. QED
  BY <1>1, <1>2, <1>3, <1>4, WriteNewEventFailsPaths

LEMMA PathStep ==
    ASSUME 0 \notin DataSizes, IndexInvariant, PathInv, [Next]_vars
    PROVE  PathInv'
<1>1. CASE Add
  BY <1>1, AddPaths
<1>2. CASE Update
  BY <1>2, AdvanceEventPaths, FinishEventPaths DEF Update
<1>3. CASE Configure
  BY <1>3, SetMaximumPaths, SetOptionPaths DEF Configure
<1>4. CASE Scan
  BY <1>4, ScanSkipFilePaths, ScanOpenFilePaths, ScanCloseFilePaths,
     ScanFinishedEventPaths, ScanPendingEventPaths, CompressEventPaths, ScanEndPaths
     DEF Scan
<1>5. CASE AddEventAgain
  BY <1>5, AddEventAgainPaths
<1>6. CASE Reopen \/ Crash \/ CrashInAddEventAgain \/ CrashInCompress
  BY <1>6, BootPaths DEF Reopen, Crash, CrashInAddEventAgain, CrashInCompress
<1>7. CASE UNCHANGED vars
  <2>1. /\ UNCHANGED <<content, next_append, event_locations, conf>>
        /\ UNCHANGED <<scan, adding>>
    BY <1>7 DEF vars, fileVars, indexVars
  <2>2. PathsOf(content', next_append', event_locations', conf'.files)
    BY <2>1 DEF PathInv
  <2>3. Scanned' = Scanned
    BY <2>1 DEF Scanned
  <2>4. ScanOnPath' /\ InlineAdding'
    BY <2>1, <2>3 DEF PathInv, ScanOnPath, InlineAdding
  <2>5. QED
    BY <2>2, <2>4 DEF PathInv
<1>8. CASE AddEventAgainFails
  BY <1>8, AddEventAgainFailsPaths
<1>9. QED
  BY <1>1, <1>2, <1>3, <1>4, <1>5, <1>6, <1>7, <1>8 DEF Next, Continue

(* The steps which neither start a compression nor are a part of one. *)
LEMMA NoCompression ==
    ASSUME ScanOnPath, (~scan.on /\ scan' = scan) \/ scan' = StartScan(FALSE)
    PROVE  ~(scan'.compress \/ (scan.compress /\ ~scan'.on))
  BY DEF ScanOnPath, StartScan, ScanState

LEMMA KnownStep ==
    ASSUME IndexInvariant, PathInv, Next,
           scan'.compress \/ (scan.compress /\ ~scan'.on)
    PROVE  Known \subseteq Known'
<1>1. ScanOnPath
  BY DEF PathInv
<1>2. CASE Scan
  BY <1>2, ScanSkipFileKnows, ScanOpenFileKnows, ScanCloseFileKnows,
     ScanFinishedEventKnows, ScanPendingEventKnows, CompressEventKnows, ScanEndKnows
     DEF Scan
<1>3. ASSUME NEW id, NEW d, NEW time, ~scan.on, CompressFor(id, d, time)
      PROVE  Known \subseteq Known'
  BY <1>3, CompressForKnows
<1>4. ASSUME NEW disk, Boot(disk) PROVE FALSE
  BY <1>1, <1>4, NoCompression DEF Boot
<1>5. CASE Add
  <2>1. PICK id \in RequestIds, d \in DataSizes, t \in InputTimes, time \in 1 .. MaxTime :
           \/ AddEvent(id, d, t, time)
           \/ AddEventFails(id, d, t, time)
           \/ CrashInAddEvent(id, d, t, time)
    BY <1>5 DEF Add
  <2>2. CASE AddEvent(id, d, t, time)
    <3>1. ~scan.on
      BY <2>2 DEF AddEvent, Ready
    <3>2. scan' = scan \/ CompressFor(id, d, time)
      BY <2>2 DEF AddEvent, WriteNewEvent, Refuse
    <3>3. QED
      BY <1>1, <1>3, <3>1, <3>2, NoCompression
  <2>3. CASE AddEventFails(id, d, t, time)
    <3>1. ~scan.on /\ scan' = scan
      BY <2>3 DEF AddEventFails, WriteNewEventFails, Ready
    <3>2. QED
      BY <1>1, <3>1, NoCompression
  <2>4. CASE CrashInAddEvent(id, d, t, time)
    BY <1>4, <2>4 DEF CrashInAddEvent
  <2>5. QED
    BY <2>1, <2>2, <2>3, <2>4
<1>6. CASE Update \/ Configure \/ AddEventAgain \/ AddEventAgainFails
  <2>1. ~scan.on /\ scan' = scan
    BY <1>6 DEF Update, AdvanceEvent, FinishEvent, Configure, SetMaximumNumberOfFiles,
                SetOption, AddEventAgain, WriteNewEvent, Refuse, Ready,
                AddEventAgainFails, WriteNewEventFails
  <2>2. QED
    BY <1>1, <2>1, NoCompression
<1>7. CASE Reopen \/ Crash \/ CrashInAddEventAgain \/ CrashInCompress
  BY <1>4, <1>7 DEF Reopen, Crash, CrashInAddEventAgain, CrashInCompress
<1>8. QED
  BY <1>2, <1>5, <1>6, <1>7 DEF Next, Continue

(* The events of the index, the places where the files grow and the place  *)
(* load_event_locations() has come to stay on the paths of their files,    *)
(* for every journal whose events all have inline data: an event without   *)
(* any is one load_event_locations() takes for the end of its file.        *)
THEOREM PathsHold ==
    ASSUME 0 \notin DataSizes
    PROVE  Spec => [](IndexInvariant /\ PathInv)
<1>1. Init => IndexInvariant /\ PathInv
  BY InitInvariant, InitPaths
<1>2. IndexInvariant /\ PathInv /\ [Next]_vars => (IndexInvariant /\ PathInv)'
  BY NextInvariant, PathStep
<1>3. QED
  BY <1>1, <1>2, PTL DEF Spec

(* When add_event() has load_event_locations() compress the files, no step *)
(* of it loses an event which was pending: it is in the new index or the   *)
(* load still comes to it, for any number of files and events, and after   *)
(* any crash, write cut short, flush left out or file which was reused.    *)
THEOREM CompressionLosesNothing ==
    ASSUME 0 \notin DataSizes
    PROVE  Spec => CompressLosesNothing
<1>1. IndexInvariant /\ PathInv /\ [Next]_vars =>
         [ scan'.compress \/ (scan.compress /\ ~scan'.on) => Known \subseteq Known' ]_vars
  BY KnownStep
<1>2. QED
  BY <1>1, PathsHold, PTL DEF Spec, CompressLosesNothing

-----------------------------------------------------------------------------
(* Kills inside of a write.  When every write is flushed, what the kernel  *)
(* has agrees with the file up to the end of each event of the index, also *)
(* after a write which failed half way; and while a load runs, the two are *)
(* the same and the load has opened no file which it has still to read.    *)

FlushedOnly ==
    SyncModes \subseteq {"flush"} /\ CompressModes \subseteq {FALSE} /\ 0 \notin DataSizes

SameUpTo(s, t, n) == n <= Len(t) /\ \A i \in 1 .. n : t[i] = s[i]

Agrees(s, t, n) == t = s \/ SameUpTo(s, t, n)

AllAgree(c, d, L) == \A l \in L : Agrees(c[l.file], d[l.file], End(l))

KillInv ==
    /\ ~scan.compress /\ adding = NoRequest
    /\ scan.on => durable = content
    /\ OpenedBehind(opened, scan)
    /\ AllAgree(content, durable, event_locations)

LEMMA FlushedState ==
    ASSUME IndexInvariant, FlushedOnly
    PROVE  conf.sync = "flush" /\ ~conf.compress
<1>1. conf \in Configurations
  BY IndexAsIs DEF RestOK
<1>2. conf.sync \in SyncModes /\ conf.compress \in CompressModes
  BY <1>1 DEF Configurations
<1>3. QED
  BY <1>2 DEF FlushedOnly

(* Closing files keeps what agrees. *)
LEMMA ReleasedAgree ==
    ASSUME NEW c, NEW d, NEW o, NEW n, NEW k, NEW held,
           ReleaseFiles(c, d, o, n, k, held), event_locations' \subseteq Location
    PROVE  /\ AllAgree(c, d, event_locations') =>
                  AllAgree(content', durable', event_locations')
           /\ (\A f \in Files : d[f] = c[f]) => durable' = content'
           /\ opened' \subseteq o
<1> DEFINE used == {l.file : l \in event_locations' \cup timebased_replay'}
           gone == o \ (used \cup held)
<1>1. /\ opened' = o \ gone
      /\ content' = [f \in Files |-> IF f \in gone THEN Truncate(c[f], n[f]) ELSE c[f]]
      /\ durable' = [f \in Files |-> IF f \in gone THEN Truncate(c[f], n[f]) ELSE d[f]]
  BY DEF ReleaseFiles
<1>2. \A l \in event_locations' : l.file \in Files /\ l.file \notin gone
  BY DEF Location
<1> HIDE DEF gone
<1>3. \A l \in event_locations' : /\ content'[l.file] = c[l.file]
                                  /\ durable'[l.file] = d[l.file]
  BY <1>1, <1>2
<1>4. AllAgree(c, d, event_locations') => AllAgree(content', durable', event_locations')
  BY <1>3 DEF AllAgree
<1>5. QED
  BY <1>1, <1>4

(* Saving cells of a new event changes no cell of an event of the index.   *)
LEMMA AppendedCells ==
    ASSUME IndexInvariant, NEW f \in Files, NEW id \in Ids, NEW d \in Nat,
           NEW time \in Nat, NEW n \in 0 .. EventSize(d),
           NEW m \in event_locations, m.file = f,
           NEW t, t = Appended(f, id, d, time, n)
    PROVE  SameUpTo(content[f], t, End(m))
<1> DEFINE s == content[f]
           cells == EventCells(id, d, time)
<1>1. /\ TypeOK /\ s \in Seq(Cell) /\ Len(s) \in Nat /\ next_append[f] \in Nat
      /\ End(m) \in Nat /\ End(m) <= next_append[f] /\ StoredIn(s, m)
      /\ m \in Location
  BY IndexAsIs, LenProperties DEF FileTypes, IndexInvariant
<1>2. End(m) <= Len(s) /\ 1 <= End(m)
  BY <1>1 DEF StoredIn, End, HeaderSize, EventSize, Location
<1>3. next_append[f] # 0 /\ AppendOffset(f) = next_append[f] /\ WithHeader(f) = s
  BY <1>1, <1>2, WithHeaderProperties DEF AppendOffset, Larger, HeaderSize
<1>4. n \in Nat /\ \A i \in 1 .. n : cells[i] \in Cell
  BY EventCellsType DEF EventSize
<1>5. t = WriteCells(s, next_append[f], cells, n)
  BY <1>3 DEF Appended
<1> HIDE DEF s, cells
<1>6. /\ Len(t) = Larger(Len(s), next_append[f] + n)
      /\ \A i \in 1 .. Len(s) : i <= next_append[f] => t[i] = s[i]
  BY <1>1, <1>4, <1>5, WriteCellsProperties
<1>7. End(m) <= Len(t)
  BY <1>1, <1>2, <1>4, <1>6 DEF Larger
<1>8. \A i \in 1 .. End(m) : t[i] = s[i]
  BY <1>1, <1>2, <1>6
<1>9. QED
  BY <1>7, <1>8 DEF SameUpTo, s

LEMMA WriteNewEventAgrees ==
    ASSUME IndexInvariant, KillInv, FlushedOnly, ~scan.on, NEW f \in Files,
           NEW id, NEW d \in Nat, NEW time, WriteNewEvent(f, id, d, time),
           IndexInvariant'
    PROVE  KillInv'
<1> DEFINE t == Appended(f, id, d, time, EventSize(d))
           c == [content EXCEPT ![f] = t]
           e == [durable EXCEPT ![f] = t]
           o == opened \cup {f}
           n == [next_append EXCEPT ![f] = AppendOffset(f) + EventSize(d)]
           k == IncreaseEventCount(f)
           l == NewLocation(f, id, d, time)
<1>1. ReleaseFiles(c, e, o, n, k, {})
  BY FlushedState DEF WriteNewEvent
<1>2. /\ event_locations' \subseteq event_locations \cup {l}
      /\ scan' = scan /\ adding' = NoRequest /\ l.file = f
  BY DEF WriteNewEvent, AddLocation, NewLocation
<1>3. c[f] = e[f] /\ \A g \in Files : g # f => c[g] = content[g] /\ e[g] = durable[g]
  BY IndexAsIs DEF FileTypes
<1>4. event_locations' \subseteq Location /\ event_locations \subseteq Location
  BY TypePartsNext, TypeParts DEF IndexInvariant
<1> HIDE DEF c, e, o, n, k, l, t
<1>5. AllAgree(c, e, event_locations')
  <2> SUFFICES ASSUME NEW m \in event_locations' PROVE Agrees(c[m.file], e[m.file], End(m))
    BY DEF AllAgree
  <2>1. CASE m.file = f
    BY <1>3, <2>1 DEF Agrees
  <2>2. CASE m.file # f
    <3>1. m \in event_locations /\ m.file \in Files
      BY <1>2, <1>4, <2>2 DEF Location
    <3>2. QED
      BY <1>3, <2>2, <3>1 DEF KillInv, AllAgree
  <2>3. QED
    BY <2>1, <2>2
<1>6. AllAgree(content', durable', event_locations')
  BY <1>1, <1>4, <1>5, ReleasedAgree
<1>7. QED
  BY <1>2, <1>6 DEF KillInv, OpenedBehind

LEMMA WriteNewEventFailsAgrees ==
    ASSUME IndexInvariant, KillInv, ~scan.on, NEW f \in Files, NEW id \in Ids,
           NEW d \in Nat, NEW time \in Nat, NEW w \in 0 .. EventSize(d),
           WriteNewEventFails(f, id, d, time, w)
    PROVE  KillInv'
<1> DEFINE t == Appended(f, id, d, time, w)
           u == Appended(f, id, d, time, w - 1)
           c == [content EXCEPT ![f] = t]
           e == [durable EXCEPT ![f] = IF w = 0 THEN @ ELSE u]
           o == opened \cup {f}
           n == [next_append EXCEPT ![f] = AppendOffset(f)]
<1>1. /\ ReleaseFiles(c, e, o, n, event_count, {})
      /\ event_locations' = event_locations /\ scan' = scan /\ adding' = NoRequest
  BY DEF WriteNewEventFails, indexVars
<1>2. /\ c[f] = t /\ e[f] = IF w = 0 THEN durable[f] ELSE u
      /\ \A g \in Files : g # f => c[g] = content[g] /\ e[g] = durable[g]
  BY IndexAsIs DEF FileTypes
<1>3. event_locations \subseteq Location
  BY TypeParts DEF IndexInvariant
<1> HIDE DEF c, e, o, n
<1>4. AllAgree(c, e, event_locations)
  <2> SUFFICES ASSUME NEW m \in event_locations PROVE Agrees(c[m.file], e[m.file], End(m))
    BY DEF AllAgree
  <2>1. CASE m.file = f
    <3>1. SameUpTo(content[f], t, End(m)) /\ End(m) \in Nat
      BY <2>1, AppendedCells, IndexAsIs
    <3>2. SameUpTo(content[f], e[f], End(m))
      <4>1. CASE w = 0
        <5>1. End(m) <= Len(content[f])
          BY <2>1, IndexAsIs DEF StoredIn
        <5>2. Agrees(content[f], durable[f], End(m))
          BY <2>1 DEF KillInv, AllAgree
        <5>3. QED
          BY <1>2, <4>1, <5>1, <5>2 DEF Agrees, SameUpTo
      <4>2. CASE w # 0
        <5>1. w - 1 \in 0 .. EventSize(d)
          BY <4>2 DEF EventSize
        <5>2. SameUpTo(content[f], u, End(m))
          BY <2>1, <5>1, AppendedCells
        <5>3. QED
          BY <1>2, <4>2, <5>2
      <4>3. QED
        BY <4>1, <4>2
    <3>3. SameUpTo(c[f], e[f], End(m))
      BY <1>2, <3>1, <3>2 DEF SameUpTo
    <3>4. QED
      BY <2>1, <3>3 DEF Agrees
  <2>2. CASE m.file # f
    BY <1>2, <1>3, <2>2 DEF KillInv, AllAgree, Location
  <2>3. QED
    BY <2>1, <2>2
<1>5. AllAgree(content', durable', event_locations')
  BY <1>1, <1>3, <1>4, ReleasedAgree
<1>6. QED
  BY <1>1, <1>5 DEF KillInv, OpenedBehind

(* A status which is written is flushed. *)
LEMMA StatusAgrees ==
    ASSUME IndexInvariant, KillInv, FlushedOnly, NEW l \in event_locations,
           NEW status
    PROVE  /\ WithStatus(l, status)[l.file] = DurableStatus(l, status)[l.file]
           /\ \A g \in Files : g # l.file =>
                  /\ WithStatus(l, status)[g] = content[g]
                  /\ DurableStatus(l, status)[g] = durable[g]
<1>1. l.file \in Files /\ content \in [Files -> Seq(Cell)] /\ durable \in [Files -> Seq(Cell)]
  BY IndexAsIs DEF FileTypes
<1>2. conf.sync = "flush"
  BY FlushedState
<1>3. DurableStatus(l, status) = [durable EXCEPT ![l.file] = WithStatus(l, status)[l.file]]
  BY <1>2 DEF DurableStatus
<1>4. \A g \in Files : g # l.file => WithStatus(l, status)[g] = content[g]
  BY <1>1 DEF WithStatus
<1>5. QED
  BY <1>1, <1>3, <1>4

LEMMA UpdateAgrees ==
    ASSUME IndexInvariant, KillInv, FlushedOnly, Update, IndexInvariant'
    PROVE  KillInv'
<1>1. PICK l \in event_locations, status \in Active \cup Final :
         AdvanceEvent(l, status) \/ FinishEvent(l, status)
  BY DEF Update
<1> DEFINE c == WithStatus(l, status)
           e == DurableStatus(l, status)
<1>2. /\ ~scan.on /\ scan' = scan /\ adding' = adding
      /\ \A m \in event_locations' : m \in event_locations \/ m.file = l.file
  <2>1. CASE AdvanceEvent(l, status)
    <3>1. \A m \in event_locations' :
             m \in event_locations \/ m = [l EXCEPT !.status = status]
      BY <2>1 DEF AdvanceEvent
    <3>2. [l EXCEPT !.status = status].file = l.file
      BY IndexAsIs DEF Location
    <3>3. QED
      BY <2>1, <3>1, <3>2 DEF AdvanceEvent, Ready
  <2>2. CASE FinishEvent(l, status)
    BY <2>2 DEF FinishEvent, Ready
  <2>3. QED
    BY <1>1, <2>1, <2>2
<1>3. /\ c[l.file] = e[l.file]
      /\ \A g \in Files : g # l.file => c[g] = content[g] /\ e[g] = durable[g]
  BY StatusAgrees
<1>4. event_locations' \subseteq Location
  BY TypePartsNext DEF IndexInvariant
<1> HIDE DEF c, e
<1>5. AllAgree(c, e, event_locations')
  <2> SUFFICES ASSUME NEW m \in event_locations' PROVE Agrees(c[m.file], e[m.file], End(m))
    BY DEF AllAgree
  <2>1. CASE m.file = l.file
    BY <1>3, <2>1 DEF Agrees
  <2>2. CASE m.file # l.file
    <3>1. m \in event_locations /\ m.file \in Files
      BY <1>2, <1>4, <2>2 DEF Location
    <3>2. QED
      BY <1>3, <2>2, <3>1 DEF KillInv, AllAgree
  <2>3. QED
    BY <2>1, <2>2
<1>6. AllAgree(content', durable', event_locations')
  <2>1. CASE AdvanceEvent(l, status)
    BY <1>5, <2>1 DEF AdvanceEvent, c, e
  <2>2. CASE FinishEvent(l, status)
    <3> DEFINE n == [next_append EXCEPT ![l.file] = AppendAfter(l)]
               k == DecreaseEventCount(l.file)
    <3>1. ReleaseFiles(c, e, opened, n, k, {})
      BY <2>2 DEF FinishEvent, c, e
    <3> HIDE DEF n, k
    <3>2. QED
      BY <1>4, <1>5, <3>1, ReleasedAgree
  <2>3. QED
    BY <1>1, <2>1, <2>2
<1>7. QED
  BY <1>2, <1>6 DEF KillInv, OpenedBehind

(* A load writes nothing which the kernel does not have. *)
LEMMA ScanAgrees ==
    ASSUME IndexInvariant, KillInv, Scan, IndexInvariant'
    PROVE  KillInv'
<1>1. /\ scan.on /\ ~scan.compress /\ durable = content /\ adding' = adding
      /\ ~CompressEvent
  BY DEF KillInv, Scan, ScanSkipFile, ScanOpenFile, ScanCloseFile, ScanFinishedEvent,
         ScanPendingEvent, CompressEvent, ScanEnd
<1>2. /\ content \in [Files -> Seq(Cell)] /\ scan \in ScanType
      /\ scan.file \in Nat /\ scan.read \in Nat
  BY IndexAsIs, ScanFields DEF FileTypes
<1>3. ScanSynced = content
  BY <1>1, <1>2 DEF ScanSynced, Scanned
<1>4. event_locations' \subseteq Location
  BY TypePartsNext DEF IndexInvariant
<1>5. \A g \in opened : g < scan.file \/ (g = scan.file /\ scan.read > 0)
  BY <1>1 DEF KillInv, OpenedBehind
<1>6. opened \subseteq Files /\ Files \subseteq Nat
  BY IndexAsIs DEF FileTypes, Files
<1>7. ASSUME scan' = NextFile, NEW o, opened' \subseteq o, o \subseteq opened \cup {scan.file}
      PROVE  scan'.on /\ ~scan'.compress /\ OpenedBehind(opened', scan')
  <2>1. scan'.on /\ ~scan'.compress /\ scan'.file = scan.file + 1
    BY <1>1, <1>2, <1>7 DEF NextFile, ScanType
  <2>2. \A g \in opened' : g < scan.file + 1
    BY <1>2, <1>5, <1>6, <1>7
  <2>3. QED
    BY <2>1, <2>2 DEF OpenedBehind
<1>8. ASSUME durable' = content', ~scan'.compress, OpenedBehind(opened', scan')
      PROVE  KillInv'
  <2>1. AllAgree(content', durable', event_locations')
    BY <1>8 DEF AllAgree, Agrees
  <2>2. QED
    BY <1>1, <1>8, <2>1 DEF KillInv
<1>9. CASE ScanSkipFile
  <2> DEFINE o == opened \cup {scan.file}
             k == ResetEventCount(scan.file)
  <2>1. scan' = NextFile /\ (UNCHANGED fileVars \/
                             ReleaseFiles(content, content, o, next_append, k, {}))
    BY <1>3, <1>9 DEF ScanSkipFile
  <2>2. durable' = content' /\ opened' \subseteq o
    <3>1. CASE UNCHANGED fileVars
      BY <1>1, <3>1 DEF fileVars
    <3>2. CASE ReleaseFiles(content, content, o, next_append, k, {})
      <4> HIDE DEF o, k
      <4>1. QED
        BY <1>4, <3>2, ReleasedAgree
    <3>3. QED
      BY <2>1, <3>1, <3>2
  <2>3. QED
    BY <1>7, <1>8, <2>1, <2>2
<1>10. CASE ScanCloseFile
  <2>1. scan' = NextFile /\ ReleaseFiles(content, content, opened, next_append, event_count, {})
    BY <1>3, <1>10 DEF ScanCloseFile
  <2>2. durable' = content' /\ opened' \subseteq opened
    BY <1>4, <2>1, ReleasedAgree
  <2>3. QED
    BY <1>7, <1>8, <2>1, <2>2
<1>11. CASE ScanOpenFile
  <2>1. /\ durable' = content' /\ opened' = opened \cup {scan.file}
        /\ scan' = [scan EXCEPT !.read = HeaderSize]
    BY <1>3, <1>11 DEF ScanOpenFile
  <2>2. ~scan'.compress /\ scan'.file = scan.file /\ scan'.read = 1
    BY <1>1, <1>2, <2>1 DEF ScanType, HeaderSize
  <2>3. OpenedBehind(opened', scan')
    BY <1>5, <2>1, <2>2 DEF OpenedBehind
  <2>4. QED
    BY <1>8, <2>1, <2>2, <2>3
<1>12. CASE ScanFinishedEvent
  <2> DEFINE r == scan.read + ScannedEvent.size
  <2>1. /\ durable' = content' /\ opened' = opened /\ scan.read > 0
        /\ scan' = [scan EXCEPT !.read = r, !.found = TRUE,
                                !.write = IF scan.found THEN @ ELSE scan.read]
        /\ ValidEventAt(Scanned, scan.read)
    BY <1>3, <1>12 DEF ScanFinishedEvent
  <2>2. r > 0
    BY <1>1, <1>2, <2>1, ScannedProperties
  <2> HIDE DEF r
  <2>3. ~scan'.compress /\ scan'.file = scan.file /\ scan'.read = r
    BY <1>1, <1>2, <2>1 DEF ScanType
  <2>4. OpenedBehind(opened', scan')
    BY <1>5, <2>1, <2>2, <2>3 DEF OpenedBehind
  <2>5. QED
    BY <1>8, <2>1, <2>3, <2>4
<1>13. CASE ScanPendingEvent
  <2> DEFINE r == scan.read + ScannedEvent.size
             n == [next_append EXCEPT ![scan.file] = r]
             k == IncreaseEventCount(scan.file)
  <2>1. /\ scan.read > 0 /\ scan' = [scan EXCEPT !.read = r]
        /\ ReleaseFiles(content, content, opened, n, k, {scan.file})
        /\ ValidEventAt(Scanned, scan.read)
    BY <1>3, <1>13 DEF ScanPendingEvent
  <2>2. r > 0
    BY <1>1, <1>2, <2>1, ScannedProperties
  <2> HIDE DEF r, n, k
  <2>3. durable' = content' /\ opened' \subseteq opened
    BY <1>4, <2>1, ReleasedAgree
  <2>4. ~scan'.compress /\ scan'.file = scan.file /\ scan'.read = r
    BY <1>1, <1>2, <2>1 DEF ScanType
  <2>5. OpenedBehind(opened', scan')
    BY <1>5, <2>2, <2>3, <2>4 DEF OpenedBehind
  <2>6. QED
    BY <1>8, <2>3, <2>4, <2>5
<1>14. CASE ScanEnd
  <2>1. durable' = content' /\ ~scan'.on /\ ~scan'.compress
    BY <1>1, <1>14 DEF ScanEnd, fileVars, NotScanning, ScanState
  <2>2. QED
    BY <1>8, <2>1 DEF OpenedBehind
<1>15. QED
  BY <1>1, <1>9, <1>10, <1>11, <1>12, <1>13, <1>14 DEF Scan

(* The options, and a journal without room. *)
LEMMA OthersAgree ==
    ASSUME IndexInvariant, KillInv, IndexInvariant',
           event_locations' = event_locations, scan' = scan, ~scan.on,
           adding' = NoRequest,
           \/ UNCHANGED fileVars
           \/ \E o : ReleaseFiles(content, durable, o, next_append, event_count, {})
    PROVE  KillInv'
<1>1. event_locations' \subseteq Location
  BY TypePartsNext DEF IndexInvariant
<1>2. AllAgree(content, durable, event_locations')
  BY DEF KillInv
<1>3. AllAgree(content', durable', event_locations')
  <2>1. CASE UNCHANGED fileVars
    BY <1>2, <2>1 DEF fileVars
  <2>2. CASE \E o : ReleaseFiles(content, durable, o, next_append, event_count, {})
    <3>1. PICK o : ReleaseFiles(content, durable, o, next_append, event_count, {})
      BY <2>2
    <3>2. QED
      BY <1>1, <1>2, <3>1, ReleasedAgree
  <2>3. QED
    BY <2>1, <2>2
<1>4. QED
  BY <1>3 DEF KillInv, OpenedBehind

LEMMA BootAgrees ==
    ASSUME NEW disk, Boot(disk)
    PROVE  KillInv'
  BY DEF Boot, KillInv, StartScan, ScanState, OpenedBehind, AllAgree

(* The second attempt of add_event() follows a compression alone. *)
LEMMA NoSecondAttempt ==
    ASSUME IndexInvariant, KillInv, FlushedOnly
    PROVE  /\ ~AddEventAgain /\ ~AddEventAgainFails /\ ~CrashInAddEventAgain
           /\ ~CrashInCompress
           /\ \A id, d, time : ~(CanCompress /\ CompressFor(id, d, time))
  BY FlushedState DEF AddEventAgain, AddEventAgainFails, CrashInAddEventAgain,
     CrashInCompress, CanCompress, KillInv

LEMMA KillStep ==
    ASSUME IndexInvariant, KillInv, FlushedOnly, [Next]_vars, IndexInvariant'
    PROVE  KillInv'
<1>1. CASE Add
  <2>1. PICK id \in RequestIds, d \in DataSizes, t \in InputTimes, time \in 1 .. MaxTime :
           \/ AddEvent(id, d, t, time)
           \/ AddEventFails(id, d, t, time)
           \/ CrashInAddEvent(id, d, t, time)
    BY <1>1 DEF Add
  <2>2. id \in Ids /\ d \in Nat /\ time \in Nat
    BY JournalAssumption DEF Ids
  <2>3. CASE AddEvent(id, d, t, time)
    <3>1. CASE \E f \in Files : WriteNewEvent(f, id, d, time)
      BY <2>2, <2>3, <3>1, WriteNewEventAgrees DEF AddEvent, Ready
    <3>2. CASE Refuse
      BY <2>3, <3>2, OthersAgree DEF Refuse, indexVars, AddEvent, Ready
    <3>3. QED
      BY <2>3, <3>1, <3>2, NoSecondAttempt DEF AddEvent
  <2>4. CASE AddEventFails(id, d, t, time)
    <3>1. PICK f \in Files, n \in {0} \cup 2 .. (d + 1) :
             WriteNewEventFails(f, id, d, time, n)
      BY <2>4 DEF AddEventFails
    <3>2. n \in 0 .. EventSize(d)
      BY <2>2 DEF EventSize
    <3>3. ~scan.on
      BY <2>4 DEF AddEventFails, Ready
    <3>4. QED
      BY <2>2, <3>1, <3>2, <3>3, WriteNewEventFailsAgrees
  <2>5. CASE CrashInAddEvent(id, d, t, time)
    BY <2>5, BootAgrees DEF CrashInAddEvent
  <2>6. QED
    BY <2>1, <2>3, <2>4, <2>5
<1>2. CASE Update
  BY <1>2, UpdateAgrees
<1>3. CASE Configure
  <2>1. /\ event_locations' = event_locations /\ scan' = scan /\ ~scan.on
        /\ adding' = NoRequest
        /\ \/ UNCHANGED fileVars
           \/ \E o : ReleaseFiles(content, durable, o, next_append, event_count, {})
    BY <1>3 DEF Configure, SetMaximumNumberOfFiles, SetOption, Ready, indexVars
  <2>2. QED
    BY <2>1, OthersAgree
<1>4. CASE Scan
  BY <1>4, ScanAgrees
<1>5. CASE Reopen \/ Crash
  BY <1>5, BootAgrees DEF Reopen, Crash
<1>6. CASE UNCHANGED vars
  BY <1>6 DEF vars, fileVars, indexVars, KillInv
<1>7. QED
  BY <1>1, <1>2, <1>3, <1>4, <1>5, <1>6, NoSecondAttempt DEF Next, Continue

(* An event of the index is found, with its attachments, in any file which *)
(* agrees with the event's own up to its end.                              *)
LEMMA AgreeingFileHolds ==
    ASSUME IndexInvariant, PathInv, NEW l \in event_locations,
           NEW t \in Seq(Cell), Agrees(content[l.file], t, End(l))
    PROVE  /\ [id |-> l.id, time |-> l.time, status |-> l.status] \in PersistedIn(t)
           /\ \A i \in (l.offset + EventSize(0) + 1) .. End(l) :
                  t[i] = content[l.file][i]
<1> DEFINE s == content[l.file]
           o == l.offset
<1>1. /\ l \in Location /\ l.file \in Files /\ StoredIn(s, l) /\ s \in Seq(Cell)
      /\ OnPath(s, o) /\ l.size > EventSize(0)
      /\ GrowsOnPath(s, next_append[l.file]) /\ next_append[l.file] \in Nat
      /\ End(l) <= next_append[l.file]
  BY IndexAsIs, PathsAsIs
<1>2. /\ o \in Nat /\ l.size \in Nat /\ 2 < l.size /\ 1 <= o /\ l.status \in Active
      /\ Len(s) \in Nat /\ Len(t) \in Nat /\ End(l) = o + l.size /\ End(l) <= Len(s)
  BY <1>1, LenProperties DEF Location, StoredIn, HeaderSize, EventSize, End
<1>3. HasHeader(s)
  BY <1>1, <1>2 DEF GrowsOnPath
<1>4. End(l) <= Len(t) /\ \A i \in 1 .. End(l) : t[i] = s[i]
  BY <1>2 DEF Agrees, SameUpTo
<1> HIDE DEF s, o
<1>5. HasHeader(t)
  BY <1>2, <1>3, <1>4 DEF HasHeader
<1>6. OnPath(t, o)
  <2>1. o <= Len(t) /\ \A i \in 1 .. o : t[i] = s[i]
    BY <1>2, <1>4
  <2>2. QED
    BY <1>1, <2>1, PathPrefix
<1>7. t[o + 1] = s[o + 1] /\ t[o + 2] = s[o + 2] /\ o + 1 < Len(t) /\ o + 1 < Len(s)
  BY <1>2, <1>4
<1>8. /\ s[o + 1].kind = "ev" /\ s[o + 1].size = l.size /\ s[o + 1].status = l.status
      /\ s[o + 1].time = l.time /\ RequestIdAt(s, o) = l.id
  BY <1>1 DEF StoredIn, o
<1>9. ValidEventAt(t, o) /\ t[o + 1].status \in Active
  BY <1>2, <1>4, <1>7, <1>8 DEF ValidEventAt, EventSize
<1>10. Record(t, o) \in Walk(t)[HeaderSize]
  BY <1>6, <1>9, PathRecord
<1>11. Record(t, o) = [id |-> l.id, time |-> l.time, status |-> l.status]
  BY <1>7, <1>8 DEF Record, RequestIdAt
<1>12. [id |-> l.id, time |-> l.time, status |-> l.status] \in PersistedIn(t)
  BY <1>5, <1>10, <1>11 DEF PersistedIn, PendingFrom
<1>13. \A i \in (o + EventSize(0) + 1) .. End(l) : t[i] = s[i]
  BY <1>2, <1>4 DEF EventSize
<1>14. QED
  BY <1>12, <1>13 DEF s, o

(* What the next process finds agrees with the files of this one.          *)
LEMMA BootedFiles ==
    ASSUME IndexInvariant, PathInv, KillInv,
           \/ Crash \/ Reopen
           \/ \E id \in RequestIds, d \in DataSizes, t \in InputTimes, time \in 1 .. MaxTime :
                  CrashInAddEvent(id, d, t, time)
    PROVE  /\ content' \in [Files -> Seq(Cell)]
           /\ \A l \in event_locations : Agrees(content[l.file], content'[l.file], End(l))
<1>1. /\ content \in [Files -> Seq(Cell)] /\ durable \in [Files -> Seq(Cell)]
      /\ next_append \in [Files -> Nat] /\ AllAgree(content, durable, event_locations)
      /\ TypeOK /\ IndexMatchesFiles /\ AppendIsPastEvents
  BY IndexAsIs DEF FileTypes, KillInv, IndexInvariant
<1>2. CASE Crash
  BY <1>1, <1>2 DEF Crash, Boot, AllAgree
<1>3. CASE Reopen
  <2> DEFINE disk == [f \in Files |-> IF f \in opened THEN Truncate(content[f], next_append[f])
                                      ELSE content[f]]
  <2>1. content' = disk
    BY <1>3 DEF Reopen, Boot
  <2>2. \A f \in Files : disk[f] \in Seq(Cell)
    BY <1>1, TruncateType
  <2>3. ASSUME NEW l \in event_locations
        PROVE  SameUpTo(content[l.file], disk[l.file], End(l))
    <3> DEFINE n == next_append[l.file]
               s == content[l.file]
    <3>1. /\ l.file \in Files /\ l.file \in opened /\ End(l) \in Nat /\ End(l) <= n
          /\ n \in Nat /\ s \in Seq(Cell) /\ StoredIn(s, l) /\ l \in Location
          /\ GrowsOnPath(s, n)
      BY IndexAsIs, PathsAsIs
    <3>2. 1 < n /\ n <= Len(s) /\ Len(s) \in Nat
      BY <3>1, PathRange DEF GrowsOnPath, StoredIn, End, Location, HeaderSize, EventSize
    <3>3. disk[l.file] = Truncate(s, n)
      BY <3>1
    <3> HIDE DEF n, s, disk
    <3>4. /\ Len(disk[l.file]) \in Nat
          /\ n <= Len(disk[l.file]) /\ \A i \in 1 .. n : disk[l.file][i] = s[i]
      BY <3>1, <3>2, <3>3, TruncateCells
    <3>5. SameUpTo(s, disk[l.file], End(l))
      BY <3>1, <3>4 DEF SameUpTo
    <3>6. QED
      BY <3>5 DEF s
  <2>4. disk \in [Files -> Seq(Cell)]
    BY <2>2
  <2> HIDE DEF disk
  <2>5. QED
    BY <2>1, <2>3, <2>4 DEF Agrees
<1>4. ASSUME NEW id \in RequestIds, NEW d \in DataSizes, NEW t \in InputTimes,
             NEW time \in 1 .. MaxTime, CrashInAddEvent(id, d, t, time)
      PROVE  /\ content' \in [Files -> Seq(Cell)]
             /\ \A l \in event_locations :
                    Agrees(content[l.file], content'[l.file], End(l))
  <2>1. id \in Ids /\ d \in Nat /\ time \in Nat
    BY JournalAssumption DEF Ids
  <2>2. PICK f \in Files, n \in 0 .. (d + 1) :
           Boot([durable EXCEPT ![f] = Appended(f, id, d, time, n)])
    BY <1>4 DEF CrashInAddEvent
  <2>3. n \in 0 .. EventSize(d)
    BY <2>1 DEF EventSize
  <2> DEFINE u == Appended(f, id, d, time, n)
  <2>4. u \in Seq(Cell)
    BY <1>1, <2>1, <2>3, AppendedProperties
  <2>5. \A l \in event_locations : l.file = f => SameUpTo(content[f], u, End(l))
    BY <2>1, <2>3, AppendedCells
  <2>6. content' = [durable EXCEPT ![f] = u]
    BY <2>2 DEF Boot
  <2> HIDE DEF u
  <2>7. /\ content' \in [Files -> Seq(Cell)] /\ content'[f] = u
        /\ \A g \in Files : g # f => content'[g] = durable[g]
    BY <1>1, <2>4, <2>6
  <2>8. ASSUME NEW l \in event_locations
        PROVE  Agrees(content[l.file], content'[l.file], End(l))
    <3>1. l.file \in Files
      BY IndexAsIs
    <3>2. CASE l.file = f
      BY <2>5, <2>7, <3>2 DEF Agrees
    <3>3. CASE l.file # f
      BY <1>1, <2>7, <3>1, <3>3 DEF AllAgree
    <3>4. QED
      BY <3>2, <3>3
  <2>9. QED
    BY <2>7, <2>8
<1>5. QED
  BY <1>2, <1>3, <1>4

(* The only steps which start a load are those which end the process. *)
LEMMA LoadStarts ==
    ASSUME IndexInvariant, KillInv, FlushedOnly, Next, ~scan.on \/ ~Scan, scan.on \/ scan'.on
    PROVE  \/ Crash
           \/ /\ ~scan.on
              /\ \/ Reopen
                 \/ \E id \in RequestIds, d \in DataSizes, t \in InputTimes,
                       time \in 1 .. MaxTime : CrashInAddEvent(id, d, t, time)
<1>1. CASE Add
  <2>1. PICK id \in RequestIds, d \in DataSizes, t \in InputTimes, time \in 1 .. MaxTime :
           \/ AddEvent(id, d, t, time)
           \/ AddEventFails(id, d, t, time)
           \/ CrashInAddEvent(id, d, t, time)
    BY <1>1 DEF Add
  <2>2. ~scan.on
    BY <2>1 DEF AddEvent, AddEventFails, CrashInAddEvent, Ready
  <2>3. ~AddEventFails(id, d, t, time)
    BY <2>2 DEF AddEventFails, WriteNewEventFails
  <2>4. ~AddEvent(id, d, t, time)
    BY <2>2, NoSecondAttempt DEF AddEvent, WriteNewEvent, Refuse
  <2>5. QED
    BY <2>1, <2>2, <2>3, <2>4
<1>2. ~Update /\ ~Configure
  BY DEF Update, AdvanceEvent, FinishEvent, Configure, SetMaximumNumberOfFiles,
         SetOption, Ready
<1>3. Scan => scan.on
  BY DEF Scan, ScanSkipFile, ScanOpenFile, ScanCloseFile, ScanFinishedEvent,
         ScanPendingEvent, CompressEvent, ScanEnd
<1>4. Reopen => ~scan.on
  BY DEF Reopen, Ready
<1>5. QED
  BY <1>1, <1>2, <1>3, <1>4, NoSecondAttempt DEF Next, Continue

LEMMA RestartFindsEvents ==
    ASSUME IndexInvariant, PathInv, KillInv, FlushedOnly, Next,
           Ready, scan'.on, NEW l \in event_locations
    PROVE  /\ [id |-> l.id, time |-> l.time, status |-> l.status]
                  \in PersistedIn(content'[l.file])
           /\ \A i \in (l.offset + EventSize(0) + 1) .. End(l) :
                  content'[l.file][i] = content[l.file][i]
<1>1. /\ content' \in [Files -> Seq(Cell)]
      /\ Agrees(content[l.file], content'[l.file], End(l))
  <2>1. ~scan.on
    BY DEF Ready
  <2>2. \/ Crash \/ Reopen
        \/ \E id \in RequestIds, d \in DataSizes, t \in InputTimes,
              time \in 1 .. MaxTime : CrashInAddEvent(id, d, t, time)
    BY <2>1, LoadStarts
  <2>3. QED
    BY <2>2, BootedFiles
<1>2. content'[l.file] \in Seq(Cell)
  BY <1>1, IndexAsIs
<1>3. QED
  BY <1>1, <1>2, AgreeingFileHolds

(* The load of the next process has every file ahead of it. *)
LEMMA BootKnows ==
    ASSUME IndexInvariant, PathInv, KillInv, NEW disk, Boot(disk),
           content' \in [Files -> Seq(Cell)],
           \A l \in event_locations : Agrees(content[l.file], content'[l.file], End(l)),
           scan.on => content' = content
    PROVE  Known \subseteq Known'
<1> SUFFICES ASSUME NEW x \in Known PROVE x \in Known'
  OBVIOUS
<1>1. /\ scan'.on /\ scan'.file = 0 /\ scan'.read = 0 /\ opened' = {} /\ conf' = conf
  BY DEF Boot, StartScan, ScanState, LoadConfiguration
<1>2. ASSUME NEW f \in 0 .. (conf.files - 1), NEW e \in PersistedIn(content'[f])
      PROVE  e.id \in Known'
  <2>1. Ahead(f, scan') /\ AtClose(f)' = content'[f]
    BY <1>1, <1>2 DEF Ahead, AtClose
  <2>2. QED
    BY <1>1, <1>2, <2>1, KnownThen
<1>3. ASSUME NEW l \in event_locations, x = l.id PROVE x \in Known'
  <2>1. l.file \in Files /\ l.file < conf.files /\ l.file \in 0 .. (conf.files - 1)
    BY PathsAsIs, FileRanges, IndexAsIs DEF Files
  <2>2. [id |-> l.id, time |-> l.time, status |-> l.status] \in PersistedIn(content'[l.file])
    BY <2>1, AgreeingFileHolds
  <2>3. QED
    BY <1>2, <1>3, <2>1, <2>2
<1>4. ASSUME scan.on, NEW f \in 0 .. (conf.files - 1), Ahead(f, scan),
             NEW e \in PersistedIn(AtClose(f)), x = e.id
      PROVE  x \in Known'
  <2>1. f \notin opened
    <3>1. scan.file \in Nat /\ scan.read \in Nat /\ f \in Nat
      BY IndexAsIs, ScanFields
    <3>2. QED
      BY <1>4, <3>1 DEF KillInv, OpenedBehind, Ahead
  <2>2. AtClose(f) = content'[f]
    BY <1>4, <2>1 DEF AtClose
  <2>3. QED
    BY <1>2, <1>4, <2>2
<1>5. ASSUME scan.on, scan.read # 0, NEW e \in PendingFrom(Scanned, scan.read), x = e.id
      PROVE  x \in Known'
  <2>1. /\ scan.read \in Nat /\ scan.file \in Nat /\ scan.read > 0 /\ ~scan.compress
    BY <1>5, IndexAsIs, ScanFields DEF KillInv
  <2>2. HasHeader(Scanned) /\ OnPath(Scanned, scan.read)
    BY <1>5, <2>1 DEF PathInv, ScanOnPath
  <2>3. scan.file < conf.files
    BY <1>5, <2>1 DEF IndexInvariant, ScanInBounds
  <2>4. scan.file \in Files /\ Scanned \in Seq(Cell)
    BY <1>5, <2>3, ScanSyncedType
  <2>5. e \in PersistedIn(Scanned)
    BY <1>5, <2>2, <2>4, PathFound DEF PersistedIn, PendingFrom
  <2>6. Scanned = content'[scan.file] /\ scan.file \in 0 .. (conf.files - 1)
    BY <1>5, <2>1, <2>3, <2>4, FileRanges, IndexAsIs DEF Scanned, RestOK
  <2>7. QED
    BY <1>2, <1>5, <2>5, <2>6
<1>6. QED
  BY <1>3, <1>4, <1>5, KnownNow

LEMMA LoadFindsStep ==
    ASSUME IndexInvariant, PathInv, KillInv, FlushedOnly, Next, scan.on \/ scan'.on
    PROVE  Known \subseteq Known'
<1>1. CASE Scan
  <2>1. ~CompressEvent
    BY DEF KillInv, CompressEvent
  <2>2. QED
    BY <1>1, <2>1, ScanSkipFileKnows, ScanOpenFileKnows, ScanCloseFileKnows,
       ScanFinishedEventKnows, ScanPendingEventKnows, ScanEndKnows DEF Scan
<1>2. CASE ~Scan
  <2>1. \/ Crash
        \/ /\ ~scan.on
           /\ \/ Reopen
              \/ \E id \in RequestIds, d \in DataSizes, t \in InputTimes,
                    time \in 1 .. MaxTime : CrashInAddEvent(id, d, t, time)
    BY <1>2, LoadStarts
  <2>2. /\ content' \in [Files -> Seq(Cell)]
        /\ \A l \in event_locations : Agrees(content[l.file], content'[l.file], End(l))
    BY <2>1, BootedFiles
  <2>3. \E disk : Boot(disk)
    <3>1. ASSUME NEW id \in RequestIds, NEW d \in DataSizes, NEW t \in InputTimes,
                 NEW time \in 1 .. MaxTime, CrashInAddEvent(id, d, t, time)
          PROVE  \E disk : Boot(disk)
      BY <3>1 DEF CrashInAddEvent
    <3>2. QED
      BY <2>1, <3>1 DEF Crash, Reopen
  <2>4. scan.on => content' = content
    BY <2>1 DEF Crash, Boot, KillInv
  <2>5. QED
    BY <2>2, <2>3, <2>4, BootKnows
<1>3. QED
  BY <1>1, <1>2

LEMMA KillInvariantHolds ==
    ASSUME FlushedOnly
    PROVE  Spec => [](IndexInvariant /\ PathInv /\ KillInv)
<1>1. Init => IndexInvariant /\ PathInv /\ KillInv
  <2>1. Init => KillInv
    BY DEF Init, KillInv, StartScan, ScanState, OpenedBehind, AllAgree
  <2>2. QED
    BY <2>1, InitInvariant, InitPaths
<1>2. IndexInvariant /\ PathInv /\ KillInv /\ [Next]_vars =>
          (IndexInvariant /\ PathInv /\ KillInv)'
  BY NextInvariant, PathStep, KillStep DEF FlushedOnly
<1>3. QED
  BY <1>1, <1>2, PTL DEF Spec

(* Whatever ends the process, a kill inside of the write of a new event    *)
(* included, the next one finds in the files every event of the index,     *)
(* with its identifier, its time, its status and its attachments: for any  *)
(* number of files, events and cut writes, when each write is flushed, the *)
(* files are not compressed and every event has inline data.               *)
THEOREM RestartsKeepEvents ==
    ASSUME FlushedOnly
    PROVE  Spec => RestartKeepsEvents
<1>1. IndexInvariant /\ PathInv /\ KillInv /\ [Next]_vars =>
         [ Ready /\ scan'.on /\ ~scan'.compress =>
              \A l \in event_locations :
                /\ [id |-> l.id, time |-> l.time, status |-> l.status]
                       \in PersistedIn(content'[l.file])
                /\ \A i \in (l.offset + EventSize(0) + 1) .. End(l) :
                       content'[l.file][i] = content[l.file][i] ]_vars
  <2> SUFFICES ASSUME IndexInvariant, PathInv, KillInv, Next, Ready, scan'.on,
                      NEW l \in event_locations
               PROVE  /\ [id |-> l.id, time |-> l.time, status |-> l.status]
                             \in PersistedIn(content'[l.file])
                      /\ \A i \in (l.offset + EventSize(0) + 1) .. End(l) :
                             content'[l.file][i] = content[l.file][i]
    OBVIOUS
  <2>1. QED
    BY RestartFindsEvents
<1>2. QED
  BY <1>1, KillInvariantHolds, PTL DEF Spec, RestartKeepsEvents

(* The load of the next process then comes to each of them: also when it   *)
(* is itself killed and starts over, and whatever a cut write left behind. *)
THEOREM LoadsFindEvents ==
    ASSUME FlushedOnly
    PROVE  Spec => LoadFindsEvents
<1>1. IndexInvariant /\ PathInv /\ KillInv /\ [Next]_vars =>
         [ scan.on \/ scan'.on => Known \subseteq Known' ]_vars
  BY LoadFindsStep
<1>2. QED
  BY <1>1, KillInvariantHolds, PTL DEF Spec, LoadFindsEvents

-----------------------------------------------------------------------------
(* The counters of the files, whatever happens to the journal.             *)

Covers(k, L) == IsFiniteSet(L) /\ \A f \in Files : Cardinality(InFile(L, f)) <= k[f]

LEMMA CoversParts ==
    ASSUME NEW L, IsFiniteSet(L), NEW f
    PROVE  IsFiniteSet(InFile(L, f)) /\ Cardinality(InFile(L, f)) \in Nat
<1>1. InFile(L, f) \subseteq L
  BY DEF InFile
<1>2. IsFiniteSet(InFile(L, f))
  BY <1>1, FS_Subset
<1>3. QED
  BY <1>2, FS_CardinalityType

LEMMA CoversFewer ==
    ASSUME NEW k \in [Files -> Int], NEW L, Covers(k, L), NEW M, M \subseteq L
    PROVE  Covers(k, M)
<1>1. IsFiniteSet(L) /\ IsFiniteSet(M)
  BY FS_Subset DEF Covers
<1>2. ASSUME NEW f \in Files PROVE Cardinality(InFile(M, f)) <= k[f]
  <2>1. /\ IsFiniteSet(InFile(L, f)) /\ Cardinality(InFile(L, f)) \in Nat
        /\ Cardinality(InFile(M, f)) \in Nat
    BY <1>1, CoversParts
  <2>2. InFile(M, f) \subseteq InFile(L, f)
    BY DEF InFile
  <2>3. Cardinality(InFile(M, f)) <= Cardinality(InFile(L, f))
    BY <2>1, <2>2, FS_Subset
  <2>4. QED
    BY <2>1, <2>3 DEF Covers
<1>3. QED
  BY <1>1, <1>2 DEF Covers

LEMMA CoversAdd ==
    ASSUME NEW k \in [Files -> Int], NEW L, Covers(k, L), NEW l, l.file \in Files,
           NEW M, M \subseteq L \cup {l}, NEW j, j = [k EXCEPT ![l.file] = @ + 1]
    PROVE  Covers(j, M)
<1> DEFINE N == L \cup {l}
<1>1. IsFiniteSet(L) /\ IsFiniteSet(N) /\ j \in [Files -> Int]
  BY FS_AddElement DEF Covers
<1>2. ASSUME NEW f \in Files PROVE Cardinality(InFile(N, f)) <= j[f]
  <2>1. /\ IsFiniteSet(InFile(L, f)) /\ Cardinality(InFile(L, f)) \in Nat
        /\ Cardinality(InFile(L, f)) <= k[f]
    BY <1>1, CoversParts DEF Covers
  <2>2. CASE f = l.file
    <3>1. InFile(N, f) = InFile(L, f) \cup {l}
      BY <2>2 DEF InFile
    <3>2. \/ Cardinality(InFile(N, f)) = Cardinality(InFile(L, f))
          \/ Cardinality(InFile(N, f)) = Cardinality(InFile(L, f)) + 1
      BY <2>1, <3>1, FS_AddElement
    <3>3. QED
      BY <2>1, <2>2, <3>2
  <2>3. CASE f # l.file
    <3>1. InFile(N, f) = InFile(L, f)
      BY <2>3 DEF InFile
    <3>2. QED
      BY <2>1, <2>3, <3>1
  <2>4. QED
    BY <2>2, <2>3
<1> HIDE DEF N
<1>3. Covers(j, N)
  BY <1>1, <1>2 DEF Covers
<1>4. M \subseteq N
  BY DEF N
<1>5. QED
  BY <1>1, <1>3, <1>4, CoversFewer

LEMMA CoversRemove ==
    ASSUME NEW k \in [Files -> Int], NEW L, Covers(k, L), NEW l \in L, l.file \in Files,
           NEW j, j = [k EXCEPT ![l.file] = @ - 1]
    PROVE  Covers(j, L \ {l})
<1> DEFINE M == L \ {l}
<1>1. IsFiniteSet(L) /\ IsFiniteSet(M)
  BY FS_RemoveElement DEF Covers
<1>2. ASSUME NEW f \in Files
      PROVE  Cardinality(InFile(M, f)) <= j[f]
  <2>1. /\ IsFiniteSet(InFile(L, f)) /\ Cardinality(InFile(L, f)) \in Nat
        /\ Cardinality(InFile(L, f)) <= k[f]
    BY <1>1, CoversParts DEF Covers
  <2>2. CASE f = l.file
    <3>1. InFile(M, f) = InFile(L, f) \ {l} /\ l \in InFile(L, f)
      BY <2>2 DEF InFile
    <3>2. Cardinality(InFile(M, f)) = Cardinality(InFile(L, f)) - 1
      BY <2>1, <3>1, FS_RemoveElement
    <3>3. QED
      BY <2>1, <2>2, <3>2
  <2>3. CASE f # l.file
    <3>1. InFile(M, f) = InFile(L, f)
      BY <2>3 DEF InFile
    <3>2. QED
      BY <2>1, <2>3, <3>1
  <2>4. QED
    BY <2>2, <2>3
<1>3. QED
  BY <1>1, <1>2 DEF Covers

(* A count starts over in a file which has no event in the index.          *)
LEMMA CoversReset ==
    ASSUME NEW k \in [Files -> Int], NEW L, Covers(k, L), NEW f,
           \A l \in L : l.file # f, NEW j, j = [k EXCEPT ![f] = 0]
    PROVE  Covers(j, L)
<1>1. InFile(L, f) = {} /\ Cardinality({}) = 0
  BY FS_EmptySet DEF InFile
<1>2. QED
  BY <1>1 DEF Covers

LEMMA CoversReleased ==
    ASSUME NEW c, NEW d, NEW o, NEW n, NEW k \in [Files -> Int], NEW held,
           ReleaseFiles(c, d, o, n, k, held), Covers(k, event_locations')
    PROVE  Covers(event_count', event_locations')
<1> DEFINE used == {l.file : l \in event_locations' \cup timebased_replay'}
           gone == o \ (used \cup held)
<1>1. event_count' = [f \in Files |-> IF f \in gone THEN 0 ELSE k[f]]
  BY DEF ReleaseFiles
<1>2. \A f \in gone : InFile(event_locations', f) = {}
  BY DEF InFile
<1>3. Cardinality({}) = 0
  BY FS_EmptySet
<1> HIDE DEF gone
<1>4. QED
  BY <1>1, <1>2, <1>3 DEF Covers

CountInv == Covers(event_count, event_locations)

LEMMA CountTyped ==
    ASSUME IndexInvariant
    PROVE  event_count \in [Files -> Int] /\ \A l \in event_locations : l.file \in Files
  BY IndexAsIs DEF FileTypes

LEMMA AddsCovers ==
    ASSUME IndexInvariant, CountInv, NEW l, AddLocation(l), l.file \in Files,
           NEW c, NEW d, NEW o, NEW n, NEW held,
           ReleaseFiles(c, d, o, n, IncreaseEventCount(l.file), held)
    PROVE  CountInv'
<1> DEFINE k == IncreaseEventCount(l.file)
<1>1. k = [event_count EXCEPT ![l.file] = @ + 1] /\ k \in [Files -> Int]
  BY CountTyped DEF IncreaseEventCount
<1>2. event_locations' \subseteq event_locations \cup {l}
  BY DEF AddLocation
<1> HIDE DEF k
<1>3. Covers(k, event_locations')
  BY <1>1, <1>2, CountTyped, CoversAdd DEF CountInv
<1>4. Covers(event_count', event_locations')
  BY <1>1, <1>3, CoversReleased DEF k
<1>5. QED
  BY <1>4 DEF CountInv

LEMMA KeepsCovers ==
    ASSUME IndexInvariant, CountInv, event_locations' \subseteq event_locations,
           NEW c, NEW d, NEW o, NEW n, NEW held,
           ReleaseFiles(c, d, o, n, event_count, held)
    PROVE  CountInv'
<1>1. Covers(event_count, event_locations')
  BY CountTyped, CoversFewer DEF CountInv
<1>2. Covers(event_count', event_locations')
  BY <1>1, CountTyped, CoversReleased
<1>3. QED
  BY <1>2 DEF CountInv

LEMMA NoneCovers ==
    ASSUME event_locations' = {}, event_count' = [f \in Files |-> 0]
    PROVE  CountInv'
<1>1. IsFiniteSet({}) /\ Cardinality({}) = 0 /\ \A f : InFile({}, f) = {}
  BY FS_EmptySet DEF InFile
<1>2. QED
  BY <1>1 DEF CountInv, Covers

LEMMA WritesCover ==
    ASSUME IndexInvariant, CountInv, NEW f \in Files, NEW id, NEW d, NEW time,
           WriteNewEvent(f, id, d, time)
    PROVE  CountInv'
<1> DEFINE l == NewLocation(f, id, d, time)
<1>1. l.file = f
  BY DEF NewLocation
<1>2. AddLocation(l)
  BY DEF WriteNewEvent
<1> HIDE DEF l
<1>3. \E c, e, o, n : ReleaseFiles(c, e, o, n, IncreaseEventCount(l.file), {})
  BY <1>1 DEF WriteNewEvent
<1>4. QED
  BY <1>1, <1>2, <1>3, AddsCovers

LEMMA UpdateCovers ==
    ASSUME IndexInvariant, CountInv, Update
    PROVE  CountInv'
<1>1. PICK l \in event_locations, status \in ClientStatuses :
          AdvanceEvent(l, status) \/ FinishEvent(l, status)
  BY DEF Update
<1>2. /\ event_count \in [Files -> Int] /\ l.file \in Files /\ l \in Location
      /\ Covers(event_count, event_locations)
  BY CountTyped, IndexAsIs DEF CountInv
<1> DEFINE j == [event_count EXCEPT ![l.file] = @ - 1]
<1>3. j \in [Files -> Int] /\ Covers(j, event_locations \ {l})
  <2>1. j \in [Files -> Int] /\ j = [event_count EXCEPT ![l.file] = @ - 1]
    BY <1>2
  <2> HIDE DEF j
  <2>2. QED
    BY <1>2, <2>1, CoversRemove
<1>4. CASE AdvanceEvent(l, status)
  <2> DEFINE m == [l EXCEPT !.status = status]
  <2>1. event_locations' = (event_locations \ {l}) \cup {m} /\ event_count' = event_count
    BY <1>4 DEF AdvanceEvent
  <2>2. m.file = l.file
    BY <1>2 DEF Location
  <2> HIDE DEF m
  <2>3. event_count = [j EXCEPT ![m.file] = @ + 1]
    <3>1. event_count[l.file] \in Int /\ (event_count[l.file] - 1) + 1 = event_count[l.file]
      BY <1>2
    <3>2. QED
      BY <1>2, <2>2, <3>1
  <2>4. Covers(event_count, event_locations')
    <3> HIDE DEF j
    <3>1. QED
      BY <1>2, <1>3, <2>1, <2>2, <2>3, CoversAdd
  <2>5. QED
    BY <2>1, <2>3, <2>4 DEF CountInv
<1>5. CASE FinishEvent(l, status)
  <2>1. event_locations' = event_locations \ {l}
    BY <1>5 DEF FinishEvent
  <2>2. \E c, e, n : ReleaseFiles(c, e, opened, n, j, {})
    BY <1>5 DEF FinishEvent, DecreaseEventCount
  <2> HIDE DEF j
  <2>3. Covers(event_count', event_locations')
    BY <1>3, <2>1, <2>2, CoversReleased
  <2>4. QED
    BY <2>3 DEF CountInv
<1>6. QED
  BY <1>1, <1>4, <1>5

LEMMA ScanCovers ==
    ASSUME IndexInvariant, CountInv, Scan
    PROVE  CountInv'
<1> DEFINE k == ResetEventCount(scan.file)
<1>1. /\ event_count \in [Files -> Int]
      /\ scan.file \in Nat /\ Files \subseteq Nat
      /\ \A l \in event_locations : l.file \in Files
  BY CountTyped, IndexAsIs, ScanFields DEF Files
<1>2. ASSUME scan.on, scan.read = 0, scan.file < conf.files
      PROVE  k \in [Files -> Int] /\ Covers(k, event_locations)
  <2>1. \A l \in event_locations : l.file # scan.file
    BY <1>1, <1>2 DEF IndexInvariant, ScanInBounds
  <2>2. QED
    <3>1. k = [event_count EXCEPT ![scan.file] = 0] /\ k \in [Files -> Int]
      BY <1>1, <1>2, ScanSyncedType DEF ResetEventCount
    <3>2. Covers(event_count, event_locations)
      BY DEF CountInv
    <3> HIDE DEF k
    <3>3. Covers(k, event_locations)
      BY <1>1, <2>1, <3>1, <3>2, CoversReset
    <3>4. QED
      BY <3>1, <3>3 DEF k
<1>3. CASE ScanSkipFile
  <2>1. /\ scan.on /\ scan.read = 0 /\ scan.file < conf.files
        /\ event_locations' = event_locations
        /\ UNCHANGED fileVars \/
           \E d, o : ReleaseFiles(content, d, o, next_append, k, {})
    BY <1>3 DEF ScanSkipFile, indexVars
  <2> HIDE DEF k
  <2>2. CASE UNCHANGED fileVars
    BY <2>1, <2>2 DEF fileVars, CountInv
  <2>3. CASE \E d, o : ReleaseFiles(content, d, o, next_append, k, {})
    <3>1. Covers(event_count', event_locations')
      BY <1>2, <2>1, <2>3, CoversReleased
    <3>2. QED
      BY <3>1 DEF CountInv
  <2>4. QED
    BY <2>1, <2>2, <2>3
<1>4. CASE ScanOpenFile
  BY <1>2, <1>4 DEF ScanOpenFile, indexVars, CountInv
<1>5. CASE ScanCloseFile
  BY <1>5, KeepsCovers DEF ScanCloseFile, indexVars
<1>6. CASE ScanFinishedEvent \/ ScanEnd
  BY <1>6 DEF ScanFinishedEvent, ScanEnd, fileVars, indexVars, CountInv
<1>7. ASSUME NEW offset, AddLocation(ScannedLocation(offset)), scan.on, scan.read > 0,
             \E c, d, o, n : ReleaseFiles(c, d, o, n, IncreaseEventCount(scan.file), {scan.file})
      PROVE  CountInv'
  <2> DEFINE l == ScannedLocation(offset)
  <2>1. l.file = scan.file
    BY DEF ScannedLocation
  <2>2. scan.file \in Files
    BY <1>7, IndexAsIs DEF IndexInvariant, ScanInBounds, FileTypes
  <2> HIDE DEF l
  <2>3. AddLocation(l)
    BY <1>7 DEF l
  <2>4. QED
    BY <1>7, <2>1, <2>2, <2>3, AddsCovers
<1>8. CASE ScanPendingEvent
  BY <1>7, <1>8 DEF ScanPendingEvent
<1>9. CASE CompressEvent
  BY <1>7, <1>9 DEF CompressEvent
<1>10. QED
  BY <1>3, <1>4, <1>5, <1>6, <1>8, <1>9 DEF Scan

LEMMA CountStep ==
    ASSUME IndexInvariant, CountInv, [Next]_vars
    PROVE  CountInv'
<1>1. ASSUME NEW disk, Boot(disk) PROVE CountInv'
  BY <1>1, NoneCovers DEF Boot
<1>2. ASSUME NEW f, NEW id, NEW d, NEW time, NEW n, WriteNewEventFails(f, id, d, time, n)
      PROVE  CountInv'
  BY <1>2, KeepsCovers DEF WriteNewEventFails, indexVars
<1>3. CASE Refuse
  BY <1>3, KeepsCovers DEF Refuse, indexVars
<1>4. CASE Add
  <2>1. PICK id \in RequestIds, d \in DataSizes, t \in InputTimes, time \in 1 .. MaxTime :
           \/ AddEvent(id, d, t, time)
           \/ AddEventFails(id, d, t, time)
           \/ CrashInAddEvent(id, d, t, time)
    BY <1>4 DEF Add
  <2>2. CASE AddEvent(id, d, t, time)
    <3>1. CASE CompressFor(id, d, time)
      BY <3>1, KeepsCovers DEF CompressFor
    <3>2. QED
      BY <1>3, <2>2, <3>1, WritesCover DEF AddEvent
  <2>3. CASE AddEventFails(id, d, t, time)
    BY <1>2, <2>3 DEF AddEventFails
  <2>4. CASE CrashInAddEvent(id, d, t, time)
    BY <1>1, <2>4 DEF CrashInAddEvent
  <2>5. QED
    BY <2>1, <2>2, <2>3, <2>4
<1>5. CASE Update
  BY <1>5, UpdateCovers
<1>6. CASE Configure
  BY <1>6, KeepsCovers DEF Configure, SetMaximumNumberOfFiles, SetOption, indexVars,
                           fileVars, CountInv
<1>7. CASE Scan
  BY <1>7, ScanCovers
<1>8. CASE AddEventAgain
  BY <1>3, <1>8, WritesCover DEF AddEventAgain
<1>9. CASE AddEventAgainFails
  BY <1>2, <1>9 DEF AddEventAgainFails
<1>10. CASE Reopen \/ Crash \/ CrashInAddEventAgain \/ CrashInCompress
  BY <1>1, <1>10 DEF Reopen, Crash, CrashInAddEventAgain, CrashInCompress
<1>11. CASE UNCHANGED vars
  BY <1>11 DEF vars, fileVars, indexVars, CountInv
<1>12. QED
  BY <1>4, <1>5, <1>6, <1>7, <1>8, <1>9, <1>10, <1>11 DEF Next, Continue

(* The unsigned counter of a file is never decreased below the number of   *)
(* the file's pending events, for any constants: whatever was compressed,  *)
(* moved, cut short, lost by a kill or counted again by a load.            *)
THEOREM CountersCover == Spec => []CountCovers
<1>1. Init => IndexInvariant /\ CountInv
  <2>1. IsFiniteSet({}) /\ Cardinality({}) = 0 /\ \A f : InFile({}, f) = {}
    BY FS_EmptySet DEF InFile
  <2>2. ASSUME Init PROVE CountInv
    <3>1. event_locations = {} /\ event_count = [f \in Files |-> 0]
      BY <2>2 DEF Init
    <3>2. QED
      BY <2>1, <3>1 DEF CountInv, Covers
  <2>3. QED
    BY <2>2, InitInvariant
<1>2. IndexInvariant /\ CountInv /\ [Next]_vars => (IndexInvariant /\ CountInv)'
  BY NextInvariant, CountStep
<1>3. CountInv => CountCovers
  BY DEF CountInv, Covers, InFile, CountCovers
<1>4. QED
  BY <1>1, <1>2, <1>3, PTL DEF Spec

=============================================================================
