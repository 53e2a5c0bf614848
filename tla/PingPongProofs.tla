--------------------------- MODULE PingPongProofs ---------------------------
(***************************************************************************)
(* Proofs about PingPong, for any connections, any limit of failures and   *)
(* any modulus of the serial numbers.                                      *)
(***************************************************************************)
EXTENDS PingPong, FiniteSetTheorems, WellFoundedInduction, TLAPS

SerialNumbers == 1 .. (SerialModulus - 1)

PingTypes ==
    /\ linkUp \in [Links -> BOOLEAN]
    /\ expected \in [Links -> {0} \union SerialNumbers]
    /\ noAnswer \in [Links -> Nat]
    /\ serial \in SerialNumbers
    /\ pings \subseteq Links \X SerialNumbers
    /\ pongs \subseteq Links \X SerialNumbers
    /\ stopped \in BOOLEAN
    /\ silence \in [Links -> Nat]
    /\ ticks \in 0 .. MaxTicks /\ others \in 0 .. MaxOthers

(***************************************************************************)
(* The serial numbers a call of the timer uses.                            *)
(***************************************************************************)

\* A set of connections which is not empty has a first one.
LEMMA FirstExists ==
    ASSUME NEW S, S \subseteq Nat, S # {}
    PROVE  \E x \in S : \A y \in S : x <= y
  <1>1. IsWellFoundedOn(OpToRel(<, Nat), Nat)
    BY NatLessThanWellFounded
  <1>2. PICK x \in S : \A y \in S : ~(<<y, x>> \in OpToRel(<, Nat))
    BY <1>1, WFMin
  <1>3. \A y \in S : ~(y < x)
    BY <1>2 DEF OpToRel
  <1>4. QED
    BY <1>3

\* The connections of a turn are numbered from 1 on without a repetition.
LEMMA TurnsDiffer ==
    ASSUME NEW D, D \subseteq Nat, IsFiniteSet(D), NEW l \in D
    PROVE  /\ Cardinality(D) \in Nat
           /\ Cardinality({k \in D : k <= l}) \in 1 .. Cardinality(D)
           /\ \A m \in D : Cardinality({k \in D : k <= m}) = Cardinality({k \in D : k <= l}) => m = l
  <1> DEFINE Up(x) == {k \in D : k <= x}
  <1>1. \A x \in D : IsFiniteSet(Up(x)) /\ Cardinality(Up(x)) \in Nat /\ Cardinality(Up(x)) <= Cardinality(D)
    BY FS_Subset, FS_CardinalityType
  <1>2. Cardinality(D) \in Nat
    BY FS_CardinalityType
  <1>3. Cardinality(Up(l)) # 0
    <2>1. l \in Up(l)
      OBVIOUS
    <2>2. Up(l) # {}
      BY <2>1
    <2> HIDE DEF Up
    <2>3. QED
      BY <1>1, <2>2, FS_EmptySet
  <1>4. ASSUME NEW x \in D, NEW y \in D, x < y
        PROVE  Cardinality(Up(x)) # Cardinality(Up(y))
    <2>1. Up(x) \in SUBSET Up(y)
      <3>1. \A k \in D : k <= x => k <= y
        BY <1>4
      <3>2. QED
        BY <3>1
    <2>2. y \in Up(y) /\ y \notin Up(x)
      BY <1>4
    <2>3. Up(x) # Up(y)
      BY <2>2
    <2> HIDE DEF Up
    <2>4. QED
      BY <1>1, <2>1, <2>3, FS_Subset
  <1>5. \A m \in D : Cardinality(Up(m)) = Cardinality(Up(l)) => m = l
    <2>1. \A m \in D : m = l \/ m < l \/ l < m
      OBVIOUS
    <2> HIDE DEF Up
    <2>2. QED
      BY <1>4, <2>1
  <1>6. Cardinality(Up(l)) \in 1 .. Cardinality(D)
    <2> HIDE DEF Up
    <2>1. QED
      BY <1>1, <1>2, <1>3
  <1>7. QED
    BY <1>2, <1>5, <1>6

\* get_next_serial_number() called n times goes past zero at most once.
LEMMA NextSerialValue ==
    ASSUME NEW s \in SerialNumbers, NEW n \in Nat, n < SerialModulus
    PROVE  /\ NextSerial(s, n) = IF s + n < SerialModulus THEN s + n ELSE s + n + 1 - SerialModulus
           /\ NextSerial(s, n) \in SerialNumbers
  <1>1. SerialModulus \in Nat /\ SerialModulus > 2
    BY PingPongAssumption
  <1>2. CASE s + n < SerialModulus
    BY <1>1, <1>2 DEF NextSerial, SerialNumbers
  <1>3. CASE s + n >= SerialModulus
    <2> DEFINE r == s + n + 1 - SerialModulus
    <2>1. r \in 1 .. (SerialModulus - 1)
      BY <1>1, <1>3 DEF SerialNumbers
    <2>2. (s + n + 1) % SerialModulus = r
      <3>1. s + n + 1 = SerialModulus * 1 + r
        BY <1>1 DEF SerialNumbers
      <3>2. QED
        BY <1>1, <2>1, <3>1 DEF SerialNumbers
    <2>3. QED
      BY <1>1, <1>3, <2>1, <2>2 DEF NextSerial, SerialNumbers
  <1>4. QED
    BY <1>1, <1>2, <1>3 DEF SerialNumbers

(***************************************************************************)
(* The parts of a call of the timer, under names of their own.             *)
(***************************************************************************)

Failing == {l \in Pinged : expected[l] # 0 /\ noAnswer[l] + 1 >= MaxFailures}
Served == {l \in Pinged : \A f \in Failing : l < f}
Turn(l) == Cardinality({k \in Served : k <= l})
Late == {l \in Pinged : expected[l] # 0 /\ \A f \in Failing : l <= f}
Number(l) == NextSerial(serial, Turn(l))

\* What a call of the timer does.
LEMMA TickEffect ==
    ASSUME Tick
    PROVE  /\ ~stopped /\ ticks < MaxTicks /\ ticks' = ticks + 1
           /\ noAnswer' = [l \in Links |-> IF l \in Late THEN noAnswer[l] + 1 ELSE noAnswer[l]]
           /\ silence' = [l \in Links |-> IF l \in Late THEN silence[l] + 1 ELSE silence[l]]
           /\ expected' = [l \in Links |-> IF l \in Served THEN Number(l) ELSE expected[l]]
           /\ serial' = NextSerial(serial, Cardinality(Served))
           /\ pings' = pings \union {<<l, Number(l)>> : l \in {k \in Served : linkUp[k]}}
           /\ stopped' = (Failing # {})
           /\ linkUp' = linkUp /\ pongs' = pongs /\ others' = others
  BY DEF Tick, Failing, Served, Turn, Late, Number

\* The connections which get a PING are numbered without a repetition, and
\* there are at most as many as PINGs are sent to.
LEMMA ServedTurns ==
    /\ Served \subseteq Nat /\ IsFiniteSet(Served) /\ Served \subseteq Links
    /\ Cardinality(Pinged) \in Nat /\ Cardinality(Served) \in Nat
    /\ Cardinality(Served) <= Cardinality(Pinged)
    /\ \A l \in Served : Turn(l) \in 1 .. Cardinality(Served)
    /\ \A l, m \in Served : Turn(m) = Turn(l) => m = l
  <1>1. Served \in SUBSET Pinged /\ Served \subseteq Nat /\ Served \subseteq Links
    BY PingPongAssumption DEF Served
  <1>2. IsFiniteSet(Served) /\ Cardinality(Served) <= Cardinality(Pinged)
    BY <1>1, FS_Subset, PingPongAssumption
  <1>3. Cardinality(Pinged) \in Nat /\ Cardinality(Served) \in Nat
    BY <1>2, FS_CardinalityType, PingPongAssumption
  <1>4. \A l \in Served : Turn(l) \in 1 .. Cardinality(Served)
    <2>1. ASSUME NEW l \in Served
          PROVE  Cardinality({k \in Served : k <= l}) \in 1 .. Cardinality(Served)
      BY ZenonT(30), <1>1, <1>2, TurnsDiffer
    <2>2. QED
      BY Zenon, <2>1 DEF Turn
  <1>5. \A l, m \in Served : Turn(m) = Turn(l) => m = l
    <2>1. QED
      BY ZenonT(30), <1>1, <1>2, TurnsDiffer DEF Turn
  <1>6. QED
    BY <1>1, <1>2, <1>3, <1>4, <1>5

-----------------------------------------------------------------------------
(* Giving up.  A PONG which clears the silence of a connection clears its  *)
(* failures as well, so that there are never more of these.                *)

FailuresAreSilence ==
    /\ noAnswer \in [Links -> Nat] /\ silence \in [Links -> Nat]
    /\ \A l \in Links : noAnswer[l] <= silence[l]
    /\ GivesUpOnlyOnSilence

\* A call of the timer which throws does so for the first connection with too
\* many failures, and that one was silent as often.
LEMMA TickKeepsSilence == FailuresAreSilence /\ Tick => FailuresAreSilence'
  <1>1. SUFFICES ASSUME FailuresAreSilence, Tick
                 PROVE  FailuresAreSilence'
    OBVIOUS
  <1>2. /\ ~stopped
        /\ noAnswer' = [l \in Links |-> IF l \in Late THEN noAnswer[l] + 1 ELSE noAnswer[l]]
        /\ silence' = [l \in Links |-> IF l \in Late THEN silence[l] + 1 ELSE silence[l]]
        /\ stopped' = (Failing # {})
    BY <1>1, TickEffect
  <1>3. noAnswer' \in [Links -> Nat] /\ silence' \in [Links -> Nat]
    BY <1>1, <1>2 DEF FailuresAreSilence
  <1>4. \A l \in Links : noAnswer'[l] <= silence'[l]
    BY <1>1, <1>2 DEF FailuresAreSilence
  <1>5. ASSUME Failing # {}
        PROVE  \E l \in Pinged : silence'[l] >= MaxFailures
    <2>1. Failing \subseteq Nat /\ Failing \subseteq Pinged /\ Pinged \subseteq Links
      BY PingPongAssumption DEF Failing
    <2>2. PICK f \in Failing : \A g \in Failing : f <= g
      BY <1>5, <2>1, FirstExists
    <2>3. f \in Late
      BY <2>2 DEF Late, Failing
    <2>4. f \in Links /\ silence'[f] = silence[f] + 1
      BY <1>2, <2>1, <2>3
    <2>5. noAnswer[f] + 1 >= MaxFailures
      BY <2>2 DEF Failing
    <2>6. silence'[f] >= MaxFailures
      BY <1>1, <2>4, <2>5, PingPongAssumption DEF FailuresAreSilence
    <2>7. QED
      BY <2>1, <2>6
  <1>6. GivesUpOnlyOnSilence'
    BY <1>2, <1>5 DEF GivesUpOnlyOnSilence
  <1>7. QED
    BY <1>3, <1>4, <1>6 DEF FailuresAreSilence

\* msg_pong() clears the failures of every connection it finds.
LEMMA PongKeepsSilence == FailuresAreSilence /\ MsgPong => FailuresAreSilence'
  <1>1. SUFFICES ASSUME FailuresAreSilence, MsgPong
                 PROVE  FailuresAreSilence'
    OBVIOUS
  <1>2. PICK p \in pongs :
            LET match == {l \in Links : expected[l] = PingSerial(p)} IN
            /\ HasExpectedPing(match)
            /\ silence' = [silence EXCEPT ![p[1]] = IF p[1] \in match THEN 0 ELSE @]
    BY <1>1 DEF MsgPong
  <1> DEFINE match == {l \in Links : expected[l] = PingSerial(p)}
  <1>3. noAnswer' = [l \in Links |-> IF l \in match THEN 0 ELSE noAnswer[l]]
    BY <1>2 DEF HasExpectedPing
  <1>4. silence' = [silence EXCEPT ![p[1]] = IF p[1] \in match THEN 0 ELSE @]
    BY <1>2
  <1> HIDE DEF match
  <1>5. noAnswer' \in [Links -> Nat] /\ silence' \in [Links -> Nat]
    BY <1>1, <1>3, <1>4 DEF FailuresAreSilence
  <1>6. \A l \in Links : noAnswer'[l] <= silence'[l]
    BY <1>1, <1>3, <1>4 DEF FailuresAreSilence
  <1>7. ~stopped /\ stopped' = stopped
    BY <1>1 DEF MsgPong
  <1>8. QED
    BY <1>5, <1>6, <1>7 DEF FailuresAreSilence, GivesUpOnlyOnSilence

\* A process gives up only on a connection which did not answer in MaxFailures
\* calls of the timer in a row, whatever PONGs come late or on a connection
\* which was made again (send_pings(), has_expected_ping()).
THEOREM GivesUpOnlyOnSilenceHolds == PingSpec => []GivesUpOnlyOnSilence
  <1>1. PingInit => FailuresAreSilence
    BY DEF PingInit, FailuresAreSilence, GivesUpOnlyOnSilence
  <1>2. FailuresAreSilence /\ [PingNext]_pingpong => FailuresAreSilence'
    <2>1. SUFFICES ASSUME FailuresAreSilence, [PingNext]_pingpong
                   PROVE  FailuresAreSilence'
      OBVIOUS
    <2>2. CASE MsgPing \/ OtherMessage
      BY <2>1, <2>2 DEF MsgPing, OtherMessage, FailuresAreSilence, GivesUpOnlyOnSilence
    <2>3. ASSUME NEW l \in Links, LinkGoesDown(l) \/ LinkComesUp(l)
          PROVE  FailuresAreSilence'
      BY <2>1, <2>3 DEF LinkGoesDown, LinkComesUp, FailuresAreSilence, GivesUpOnlyOnSilence
    <2>4. CASE UNCHANGED pingpong
      BY <2>1, <2>4 DEF pingpong, FailuresAreSilence, GivesUpOnlyOnSilence
    <2>5. QED
      BY <2>1, <2>2, <2>3, <2>4, TickKeepsSilence, PongKeepsSilence DEF PingNext
  <1>3. FailuresAreSilence => GivesUpOnlyOnSilence
    BY DEF FailuresAreSilence
  <1>4. QED
    BY <1>1, <1>2, <1>3, PTL DEF PingSpec

-----------------------------------------------------------------------------
(* The serial numbers.  They are used again once all of them were, so that *)
(* a PONG could be taken for another one if it were so late; the theorem   *)
(* is about no more messages than there are numbers.  The age of a number  *)
(* is how many numbers were used since.                                    *)

NoMoreMessagesThanNumbers == MaxTicks * Cardinality(Pinged) + MaxOthers < SerialModulus

AgeAt(s, x) == IF x <= s THEN s - x ELSE s + (SerialModulus - 1) - x

\* The pairs of a connection and a number which count: on their way or awaited.
Records ==
    pings \union pongs \union {<<l, expected[l]>> : l \in {k \in Links : expected[k] # 0}}

YoungRecords ==
    \A r \in Records : AgeAt(serial, r[2]) < ticks * Cardinality(Pinged) + others

OneOwner == \A r, q \in Records : r[2] = q[2] => r[1] = q[1]

SerialInv == PingTypes /\ YoungRecords /\ OneOwner

\* The age of a number is a number below the modulus.
LEMMA AgeType ==
    ASSUME NEW s \in SerialNumbers, NEW x \in SerialNumbers
    PROVE  AgeAt(s, x) \in 0 .. (SerialModulus - 2)
  BY PingPongAssumption DEF SerialNumbers, AgeAt

\* A number which was used earlier gets older by the numbers used since.
LEMMA AgeOfOld ==
    ASSUME NEW s \in SerialNumbers, NEW x \in SerialNumbers, NEW c \in Nat,
           AgeAt(s, x) + c <= SerialModulus - 2
    PROVE  AgeAt(NextSerial(s, c), x) = AgeAt(s, x) + c
  <1>1. c < SerialModulus
    BY AgeType, PingPongAssumption DEF SerialNumbers
  <1>2. NextSerial(s, c) = IF s + c < SerialModulus THEN s + c ELSE s + c + 1 - SerialModulus
    BY <1>1, NextSerialValue
  <1>3. QED
    BY <1>1, <1>2, PingPongAssumption DEF AgeAt, SerialNumbers

\* The j-th of c new numbers is followed by c - j others.
LEMMA AgeOfNew ==
    ASSUME NEW s \in SerialNumbers, NEW c \in Nat, NEW j \in 1 .. c, c < SerialModulus
    PROVE  AgeAt(NextSerial(s, c), NextSerial(s, j)) = c - j
  <1>1. NextSerial(s, c) = IF s + c < SerialModulus THEN s + c ELSE s + c + 1 - SerialModulus
    BY NextSerialValue
  <1>2. j \in Nat /\ j < SerialModulus
    BY PingPongAssumption
  <1>3. NextSerial(s, j) = IF s + j < SerialModulus THEN s + j ELSE s + j + 1 - SerialModulus
    BY <1>2, NextSerialValue
  <1>4. QED
    BY <1>1, <1>3, PingPongAssumption DEF AgeAt, SerialNumbers

\* What a call of the timer adds to the number of PINGs.
LEMMA TickVolume ==
    ASSUME NEW t \in Nat, NEW k \in Nat, NEW m \in Nat, t < m
    PROVE  (t + 1) * k = t * k + k /\ t * k \in Nat /\ t * k + k <= m * k
  <1>1. t * k \in Nat /\ m * k \in Nat /\ (t + 1) * k = t * k + k
    OBVIOUS
  <1>2. m * k = (t + 1) * k + (m - t - 1) * k
    OBVIOUS
  <1>3. (m - t - 1) * k >= 0
    <2>1. m - t - 1 \in Nat
      OBVIOUS
    <2>2. QED
      BY <2>1
  <1>4. QED
    BY <1>1, <1>2, <1>3

\* A record is a connection and a serial number.
LEMMA RecordsType == PingTypes => Records \subseteq Links \X SerialNumbers
  BY DEF PingTypes, Records

\* The numbers of one call of the timer are new and differ.
LEMMA TickNumbers ==
    ASSUME NoMoreMessagesThanNumbers, PingTypes, YoungRecords, Tick
    PROVE  /\ serial' \in SerialNumbers
           /\ \A l \in Served : /\ Number(l) \in SerialNumbers
                                /\ AgeAt(serial', Number(l)) = Cardinality(Served) - Turn(l)
           /\ \A r \in Records : /\ r[2] \in SerialNumbers
                                 /\ AgeAt(serial', r[2]) = AgeAt(serial, r[2]) + Cardinality(Served)
           /\ ticks' * Cardinality(Pinged) = ticks * Cardinality(Pinged) + Cardinality(Pinged)
           /\ ticks * Cardinality(Pinged) \in Nat /\ others \in Nat /\ others' = others
  <1> DEFINE c == Cardinality(Served)
  <1> DEFINE k == Cardinality(Pinged)
  <1>1. ticks \in Nat /\ ticks < MaxTicks /\ ticks' = ticks + 1 /\ serial' = NextSerial(serial, c)
        /\ serial \in SerialNumbers /\ others \in Nat /\ others <= MaxOthers /\ others' = others
    BY TickEffect, PingPongAssumption DEF PingTypes
  <1>2. c \in Nat /\ k \in Nat /\ c <= k
    BY ServedTurns
  <1>3. \A l \in Served : Turn(l) \in 1 .. c
    BY ServedTurns
  <1>4. MaxTicks \in Nat /\ MaxOthers \in Nat /\ SerialModulus \in Nat /\ MaxTicks * k + MaxOthers < SerialModulus
    BY PingPongAssumption DEF NoMoreMessagesThanNumbers
  <1>5. \A r \in Records : r[2] \in SerialNumbers /\ AgeAt(serial, r[2]) < ticks * k + others
    BY RecordsType DEF YoungRecords
  <1> HIDE DEF c, k
  <1>6. ticks' * k = ticks * k + k /\ ticks * k \in Nat /\ ticks * k + k <= MaxTicks * k /\ MaxTicks * k \in Nat
    BY <1>1, <1>2, <1>4, TickVolume
  <1>7. c < SerialModulus /\ ticks * k + others + c < SerialModulus
    BY <1>1, <1>2, <1>4, <1>6
  <1>8. ASSUME NEW l \in Served
        PROVE  /\ Number(l) \in SerialNumbers
               /\ AgeAt(serial', Number(l)) = c - Turn(l)
    <2>1. Turn(l) \in 1 .. c /\ Turn(l) \in Nat /\ Turn(l) < SerialModulus
      BY <1>2, <1>3, <1>4, <1>7
    <2>2. QED
      BY <1>1, <1>2, <1>7, <2>1, NextSerialValue, AgeOfNew DEF Number
  <1>9. ASSUME NEW r \in Records
        PROVE  AgeAt(serial', r[2]) = AgeAt(serial, r[2]) + c
    <2>1. r[2] \in SerialNumbers /\ AgeAt(serial, r[2]) < ticks * k + others
      BY <1>5
    <2>2. AgeAt(serial, r[2]) \in Nat
      BY <1>1, <2>1, AgeType, <1>4, PingPongAssumption
    <2>3. AgeAt(serial, r[2]) + c <= SerialModulus - 2
      BY <1>1, <1>2, <1>4, <1>6, <1>7, <2>1, <2>2
    <2>4. QED
      BY <1>1, <1>2, <2>1, <2>3, AgeOfOld
  <1>10. serial' \in SerialNumbers
    BY <1>1, <1>2, <1>7, NextSerialValue
  <1>11. QED
    BY <1>1, <1>5, <1>6, <1>8, <1>9, <1>10 DEF c, k

\* The records after a call of the timer are old ones and new ones.
LEMMA TickRecords ==
    ASSUME PingTypes, Tick
    PROVE  Records' \subseteq Records \union {<<l, Number(l)>> : l \in Served}
  <1>1. /\ expected' = [l \in Links |-> IF l \in Served THEN Number(l) ELSE expected[l]]
        /\ pings' = pings \union {<<l, Number(l)>> : l \in {k \in Served : linkUp[k]}}
        /\ pongs' = pongs
    BY TickEffect
  <1>2. {<<l, expected'[l]>> : l \in {k \in Links : expected'[k] # 0}}
            \subseteq Records \union {<<l, Number(l)>> : l \in Served}
    BY <1>1 DEF Records
  <1>3. QED
    BY <1>1, <1>2 DEF Records

\* A call of the timer keeps the numbers apart.
LEMMA TickKeepsSerials ==
    ASSUME NoMoreMessagesThanNumbers, SerialInv, Tick
    PROVE  SerialInv'
  <1> DEFINE c == Cardinality(Served)
  <1> DEFINE k == Cardinality(Pinged)
  <1>1. PingTypes /\ YoungRecords /\ OneOwner
    BY DEF SerialInv
  <1>2. /\ serial' \in SerialNumbers
        /\ \A l \in Served : Number(l) \in SerialNumbers /\ AgeAt(serial', Number(l)) = c - Turn(l)
        /\ \A r \in Records : /\ r[2] \in SerialNumbers
                              /\ AgeAt(serial', r[2]) = AgeAt(serial, r[2]) + c
        /\ ticks' * k = ticks * k + k
        /\ ticks * k \in Nat /\ others \in Nat /\ others' = others
    BY <1>1, TickNumbers
  <1>3. c \in Nat /\ k \in Nat /\ c <= k /\ Served \subseteq Links
    BY ServedTurns
  <1>4. \A l \in Served : Turn(l) \in 1 .. c
    BY ServedTurns
  <1>5. \A l, m \in Served : Turn(m) = Turn(l) => m = l
    BY ServedTurns
  <1>6. \A r \in Records : AgeAt(serial, r[2]) \in Nat /\ AgeAt(serial, r[2]) < ticks * k + others
    <2>1. \A r \in Records : r[2] \in SerialNumbers
      BY <1>2
    <2>2. QED
      BY <1>1, <2>1, AgeType, PingPongAssumption DEF PingTypes, YoungRecords
  <1>7. Records' \subseteq Records \union {<<l, Number(l)>> : l \in Served}
    BY <1>1, TickRecords
  <1> HIDE DEF c, k
  <1>8. PingTypes'
    <2>1. ticks' \in 0 .. MaxTicks
      BY <1>1, TickEffect, PingPongAssumption DEF PingTypes
    <2>2. expected' \in [Links -> {0} \union SerialNumbers]
      BY <1>1, <1>2, TickEffect DEF PingTypes
    <2>3. pings' \subseteq Links \X SerialNumbers
      BY <1>1, <1>2, <1>3, TickEffect DEF PingTypes
    <2>4. noAnswer' \in [Links -> Nat] /\ silence' \in [Links -> Nat]
      BY <1>1, TickEffect DEF PingTypes
    <2>5. QED
      BY <1>1, <1>2, <2>1, <2>2, <2>3, <2>4, TickEffect DEF PingTypes
  <1>9. YoungRecords'
    <2>1. ASSUME NEW r \in Records
          PROVE  AgeAt(serial', r[2]) < ticks' * k + others'
      BY <1>2, <1>3, <1>6
    <2>2. ASSUME NEW l \in Served
          PROVE  AgeAt(serial', Number(l)) < ticks' * k + others'
      BY <1>2, <1>3, <1>4
    <2>3. QED
      BY <1>7, <2>1, <2>2 DEF YoungRecords, k
  <1>10. OneOwner'
    <2>1. ASSUME NEW r \in Records, NEW l \in Served
          PROVE  r[2] # Number(l)
      BY <1>2, <1>3, <1>4, <1>6
    <2>2. ASSUME NEW l \in Served, NEW m \in Served, Number(l) = Number(m)
          PROVE  l = m
      <3>1. Turn(l) = Turn(m)
        BY <1>2, <1>3, <1>4, <2>2
      <3>2. QED
        BY <1>5, <3>1
    <2>3. QED
      BY <1>1, <1>7, <2>1, <2>2 DEF OneOwner
  <1>11. QED
    BY <1>8, <1>9, <1>10 DEF SerialInv

\* Another message makes the numbers older, and no record.
LEMMA OtherKeepsSerials ==
    ASSUME NoMoreMessagesThanNumbers, SerialInv, OtherMessage
    PROVE  SerialInv'
  <1> DEFINE v == ticks * Cardinality(Pinged)
  <1>1. PingTypes /\ YoungRecords /\ OneOwner
    BY DEF SerialInv
  <1>2. /\ others < MaxOthers /\ others' = others + 1 /\ serial' = NextSerial(serial, 1)
        /\ UNCHANGED <<linkUp, expected, noAnswer, pings, pongs, stopped, silence, ticks>>
    BY DEF OtherMessage
  <1>3. others \in Nat /\ MaxOthers \in Nat /\ SerialModulus \in Nat /\ SerialModulus > 2
        /\ ticks \in Nat /\ MaxTicks \in Nat /\ ticks <= MaxTicks /\ serial \in SerialNumbers
    BY <1>1, PingPongAssumption DEF PingTypes
  <1>4. v \in Nat /\ v + MaxOthers < SerialModulus
    <2> DEFINE k == Cardinality(Pinged)
    <2>1. k \in Nat /\ MaxTicks * k + MaxOthers < SerialModulus
      BY ServedTurns DEF NoMoreMessagesThanNumbers
    <2> HIDE DEF k
    <2>2. ticks * k \in Nat /\ MaxTicks * k \in Nat /\ ticks * k <= MaxTicks * k
      <3>1. CASE ticks < MaxTicks
        BY <1>3, <2>1, <3>1, TickVolume
      <3>2. CASE ticks = MaxTicks
        BY <1>3, <2>1, <3>2
      <3>3. QED
        BY <1>3, <3>1, <3>2
    <2>3. QED
      BY <1>3, <2>1, <2>2 DEF k
  <1>5. serial' \in SerialNumbers
    BY <1>2, <1>3, NextSerialValue
  <1>6. PingTypes' /\ Records' = Records
    BY <1>1, <1>2, <1>3, <1>5 DEF PingTypes, Records
  <1>7. \A r \in Records : r[2] \in SerialNumbers /\ AgeAt(serial, r[2]) < v + others
    BY <1>1, RecordsType DEF YoungRecords
  <1>8. v' = v
    BY <1>2
  <1> HIDE DEF v
  <1>9. ASSUME NEW r \in Records
        PROVE  AgeAt(serial', r[2]) < v + others'
    <2>1. r[2] \in SerialNumbers /\ AgeAt(serial, r[2]) < v + others /\ AgeAt(serial, r[2]) \in Nat
      BY <1>3, <1>7, AgeType
    <2>2. AgeAt(serial, r[2]) + 1 <= SerialModulus - 2
      BY <1>2, <1>3, <1>4, <2>1
    <2>3. AgeAt(serial', r[2]) = AgeAt(serial, r[2]) + 1
      BY <1>2, <1>3, <2>1, <2>2, AgeOfOld
    <2>4. QED
      BY <1>2, <1>3, <1>4, <2>1, <2>3
  <1>10. YoungRecords'
    BY <1>6, <1>8, <1>9 DEF YoungRecords, v
  <1>11. OneOwner'
    BY <1>1, <1>6 DEF OneOwner
  <1>12. QED
    BY <1>6, <1>10, <1>11 DEF SerialInv

\* A step which makes no new record, and leaves the numbers alone, keeps them
\* apart.
LEMMA FewerRecords ==
    ASSUME SerialInv, PingTypes', Records' \subseteq Records, UNCHANGED <<serial, ticks, others>>
    PROVE  SerialInv'
  BY DEF SerialInv, YoungRecords, OneOwner

\* A late PONG is never taken for the answer of another connection, for any
\* number of connections, as long as no more messages were made than there are
\* serial numbers (get_next_serial_number() wraps and skips zero; msg_pong()
\* finds the connection by the number alone).
THEOREM SerialsIdentifyHolds ==
    ASSUME NoMoreMessagesThanNumbers
    PROVE  PingSpec => []SerialsIdentify
  <1>1. PingInit => SerialInv
    <2>1. SUFFICES ASSUME PingInit
                   PROVE  SerialInv
      OBVIOUS
    <2>2. Records = {}
      BY <2>1 DEF PingInit, Records
    <2>3. PingTypes
      <3>1. serial \in SerialNumbers
        BY <2>1, PingPongAssumption DEF PingInit, SerialNumbers
      <3>2. linkUp \in [Links -> BOOLEAN] /\ stopped \in BOOLEAN
        BY <2>1 DEF PingInit
      <3>3. /\ expected \in [Links -> {0} \union SerialNumbers]
            /\ noAnswer \in [Links -> Nat] /\ silence \in [Links -> Nat]
            /\ ticks \in 0 .. MaxTicks /\ others \in 0 .. MaxOthers
        BY <2>1, PingPongAssumption DEF PingInit
      <3>4. QED
        BY <2>1, <3>1, <3>2, <3>3 DEF PingInit, PingTypes
    <2>4. QED
      BY <2>2, <2>3 DEF SerialInv, YoungRecords, OneOwner
  <1>2. SerialInv /\ [PingNext]_pingpong => SerialInv'
    <2>1. SUFFICES ASSUME SerialInv, [PingNext]_pingpong
                   PROVE  SerialInv'
      OBVIOUS
    <2>2. CASE MsgPing
      <3>1. PICK p \in pings : pings' = pings \ {p} /\ pongs' = pongs \union {Pong(p)}
        BY <2>2 DEF MsgPing
      <3>2. PingTypes' /\ Records' \subseteq Records
        BY <2>1, <2>2, <3>1 DEF MsgPing, Pong, SerialInv, PingTypes, Records
      <3>3. QED
        BY <2>1, <2>2, <3>2, FewerRecords DEF MsgPing
    <2>3. CASE MsgPong
      <3>1. PICK p \in pongs :
                LET match == {l \in Links : expected[l] = PingSerial(p)} IN
                /\ pongs' = pongs \ {p}
                /\ HasExpectedPing(match)
                /\ silence' = [silence EXCEPT ![p[1]] = IF p[1] \in match THEN 0 ELSE @]
        BY <2>3 DEF MsgPong
      <3> DEFINE match == {l \in Links : expected[l] = PingSerial(p)}
      <3>2. /\ expected' = [l \in Links |-> IF l \in match THEN 0 ELSE expected[l]]
            /\ noAnswer' = [l \in Links |-> IF l \in match THEN 0 ELSE noAnswer[l]]
        BY <3>1 DEF HasExpectedPing
      <3> HIDE DEF match
      <3>3. expected' \in [Links -> {0} \union SerialNumbers] /\ noAnswer' \in [Links -> Nat]
        BY <2>1, <3>2 DEF SerialInv, PingTypes
      <3>4. silence' \in [Links -> Nat]
        BY <2>1, <3>1 DEF SerialInv, PingTypes
      <3>5. PingTypes'
        BY <2>1, <2>3, <3>1, <3>3, <3>4 DEF MsgPong, SerialInv, PingTypes
      <3>6. Records' \subseteq Records
        BY <2>1, <2>3, <3>1, <3>2 DEF MsgPong, Records
      <3>7. QED
        BY <2>1, <2>3, <3>5, <3>6, FewerRecords DEF MsgPong
    <2>4. ASSUME NEW l \in Links, LinkGoesDown(l) \/ LinkComesUp(l)
          PROVE  SerialInv'
      <3>1. PingTypes' /\ Records' \subseteq Records
        BY <2>1, <2>4 DEF LinkGoesDown, LinkComesUp, SerialInv, PingTypes, Records
      <3>2. QED
        BY <2>1, <2>4, <3>1, FewerRecords DEF LinkGoesDown, LinkComesUp
    <2>5. CASE UNCHANGED pingpong
      <3>1. PingTypes' /\ Records' \subseteq Records
        BY <2>1, <2>5 DEF pingpong, SerialInv, PingTypes, Records
      <3>2. QED
        BY <2>1, <2>5, <3>1, FewerRecords DEF pingpong
    <2>6. QED
      BY <2>1, <2>2, <2>3, <2>4, <2>5, TickKeepsSerials, OtherKeepsSerials DEF PingNext
  <1>3. SerialInv => SerialsIdentify
    <2>1. SUFFICES ASSUME SerialInv, NEW p \in pings \union pongs
                   PROVE  p[2] # 0 /\ \A l \in Links : expected[l] = p[2] => l = p[1]
      BY DEF SerialsIdentify
    <2>2. p \in Records /\ p[2] \in SerialNumbers
      BY <2>1 DEF SerialInv, PingTypes, Records
    <2>3. p[2] # 0
      BY <2>2, PingPongAssumption DEF SerialNumbers
    <2>4. ASSUME NEW l \in Links, expected[l] = p[2]
          PROVE  l = p[1]
      <3>1. <<l, expected[l]>> \in Records
        BY <2>3, <2>4 DEF Records
      <3>2. QED
        BY <2>1, <2>2, <2>4, <3>1 DEF SerialInv, OneOwner
    <2>5. QED
      BY <2>3, <2>4
  <1>4. QED
    BY <1>1, <1>2, <1>3, PTL DEF PingSpec
=============================================================================
