--------------------------- MODULE ClusterProofs ---------------------------
(***************************************************************************)
(* Proofs about Cluster, for any daemons, addresses and number of          *)
(* restarts: the types, and that daemons which are up and have handled     *)
(* their mail have not missed each other.                                  *)
(***************************************************************************)
EXTENDS Cluster, SequenceTheorems, TLAPS

\* What Broadcast() leaves in the mailboxes are messages.
LEMMA BroadcastType ==
    ASSUME mail \in [Daemons -> Seq(Messages)], NEW d \in Daemons,
           NEW ms \in Seq(Messages)
    PROVE  Broadcast(mail, d, ms) \in [Daemons -> Seq(Messages)]
  <1>1. SUFFICES ASSUME NEW e \in Daemons
                 PROVE  mail[e] \o ms \in Seq(Messages) /\ mail[e] \in Seq(Messages)
    BY DEF Broadcast
  <1>2. QED
    BY ConcatProperties

\* Two messages in a row are a sequence of messages.
LEMMA PairIsSequence ==
    ASSUME NEW S, NEW x \in S, NEW y \in S
    PROVE  <<x, y>> \in Seq(S)
  OBVIOUS

\* The messages a daemon makes have their type.
LEMMA MessageType ==
    ASSUME NEW d \in Daemons, NEW u \in BOOLEAN
    PROVE  Message("status", d, u) \in Messages /\ Message("query", d, u) \in Messages
  BY DEF Message, Messages

\* start_binary_connection() keeps the types of what it changes.
LEMMA StartBinaryConnectionType ==
    ASSUME TypeOK, NEW d \in Daemons, NEW met, StartBinaryConnection(d, met)
    PROVE  /\ listening' \in [Daemons -> BOOLEAN]
           /\ mail' \in [Daemons -> Seq(Messages)]
           /\ polled' \in [Daemons -> SUBSET ({"messenger", "listeners", "node"} \X (Daemons \union {0}))]
  <1> DEFINE two == <<Message("query", d, FALSE), Message("status", d, TRUE)>>
  <1> DEFINE kinds == {"messenger", "listeners", "node"} \X (Daemons \union {0})
  <1>1. CASE ~listening[d] /\ met = Gates
    <2>1. two \in Seq(Messages)
      <3>1. Message("query", d, FALSE) \in Messages /\ Message("status", d, TRUE) \in Messages
        BY Zenon, MessageType
      <3>2. QED
        BY Zenon, <3>1, PairIsSequence
    <2>2. mail' = Broadcast(mail, d, two)
      BY <1>1 DEF StartBinaryConnection
    <2>3. mail' \in [Daemons -> Seq(Messages)]
      <3> HIDE DEF two
      <3>1. QED
        BY <2>1, <2>2, BroadcastType DEF TypeOK
    <2>4. <<"listeners", 0>> \in kinds
      OBVIOUS
    <2>5. polled' \in [Daemons -> SUBSET kinds]
      <3>1. polled \in [Daemons -> SUBSET kinds]
        BY DEF TypeOK
      <3>2. polled' = [polled EXCEPT ![d] = @ \union {<<"listeners", 0>>}]
        BY <1>1 DEF StartBinaryConnection
      <3> HIDE DEF kinds
      <3>3. QED
        BY <2>4, <3>1, <3>2
    <2>6. QED
      BY <1>1, <2>3, <2>5 DEF StartBinaryConnection, TypeOK
  <1>2. CASE ~(~listening[d] /\ met = Gates)
    BY <1>2 DEF StartBinaryConnection, TypeOK
  <1>3. QED
    BY <1>1, <1>2

\* connect_to_node() counts one more node_client, or none.
LEMMA ConnectToNodeType ==
    ASSUME nodes \in [Daemons -> [Daemons -> Nat]], NEW d \in Daemons, NEW a \in Daemons
    PROVE  ConnectToNode(d, a) \in [Daemons -> [Daemons -> Nat]]
  BY DEF ConnectToNode

\* The first message of a mailbox and the others.
LEMMA MailType ==
    ASSUME TypeOK, NEW d \in Daemons, mail[d] # <<>>
    PROVE  /\ Head(mail[d]) \in Messages
           /\ [mail EXCEPT ![d] = Tail(@)] \in [Daemons -> Seq(Messages)]
  <1>1. mail[d] \in Seq(Messages)
    BY DEF TypeOK
  <1>2. Head(mail[d]) \in Messages /\ Tail(mail[d]) \in Seq(Messages)
    BY <1>1, HeadTailProperties
  <1>3. QED
    BY <1>2 DEF TypeOK

\* Every step keeps the types.
LEMMA TypeStep == TypeOK /\ [Next]_vars => TypeOK'
  <1>1. SUFFICES ASSUME TypeOK, [Next]_vars
                 PROVE  TypeOK'
    OBVIOUS
  <1>2. ASSUME NEW d \in Daemons, NEW g \in Gates, SetGate(d, g)
        PROVE  TypeOK'
    <2>1. gates' \in [Daemons -> SUBSET Gates]
      BY <1>1, <1>2 DEF SetGate, TypeOK
    <2>2. /\ listening' \in [Daemons -> BOOLEAN]
          /\ mail' \in [Daemons -> Seq(Messages)]
          /\ polled' \in [Daemons -> SUBSET ({"messenger", "listeners", "node"} \X (Daemons \union {0}))]
      BY <1>1, <1>2, StartBinaryConnectionType DEF SetGate
    <2>3. QED
      BY <1>1, <1>2, <2>1, <2>2 DEF SetGate, TypeOK
  <1>3. ASSUME NEW d \in Daemons, RegisterPrinbeeDaemon(d)
        PROVE  TypeOK'
    <2>1. Head(mail[d]) \in Messages /\ mail' \in [Daemons -> Seq(Messages)]
      BY <1>1, <1>3, MailType DEF RegisterPrinbeeDaemon
    <2>2. Head(mail[d]).from \in Daemons
      BY <2>1 DEF Messages
    <2>3. nodes' \in [Daemons -> [Daemons -> Nat]]
      BY <1>1, <1>3, <2>2, ConnectToNodeType DEF RegisterPrinbeeDaemon, TypeOK
    <2>4. QED
      BY <1>1, <1>3, <2>1, <2>3 DEF RegisterPrinbeeDaemon, TypeOK
  <1>4. ASSUME NEW d \in Daemons, SendOurStatus(d)
        PROVE  TypeOK'
    <2> DEFINE m == Head(mail[d])
    <2> DEFINE rest == [mail EXCEPT ![d] = Tail(@)]
    <2>1. m \in Messages /\ rest \in [Daemons -> Seq(Messages)]
      BY <1>1, <1>4, MailType DEF SendOurStatus
    <2>2. m.from \in Daemons
      BY <2>1 DEF Messages
    <2>3. Message("status", d, listening[d]) \in Messages
      BY <1>1, MessageType DEF TypeOK
    <2>4. Append(rest[m.from], Message("status", d, listening[d])) \in Seq(Messages)
      BY <2>1, <2>2, <2>3, AppendProperties
    <2>5. \/ mail' = [rest EXCEPT ![m.from] = Append(@, Message("status", d, listening[d]))]
          \/ mail' = rest
      BY <1>4 DEF SendOurStatus
    <2>6. mail' \in [Daemons -> Seq(Messages)]
      BY <2>1, <2>4, <2>5
    <2>7. QED
      BY <1>1, <1>4, <2>6 DEF SendOurStatus, TypeOK
  <1>5. ASSUME NEW d \in Daemons, Restart(d)
        PROVE  TypeOK'
    <2>1. <<"messenger", 0>> \in {"messenger", "listeners", "node"} \X (Daemons \union {0})
      OBVIOUS
    <2>2. polled' \in [Daemons -> SUBSET ({"messenger", "listeners", "node"} \X (Daemons \union {0}))]
      BY <1>1, <1>5, <2>1 DEF Restart, TypeOK
    <2>3. mail' \in [Daemons -> Seq(Messages)]
      BY <1>1, <1>5, EmptySeq DEF Restart, TypeOK
    <2>4. restarts' \in 0..MaxRestarts
      BY <1>1, <1>5, ClusterAssumption DEF Restart, TypeOK
    <2>5. QED
      BY <1>1, <1>5, <2>2, <2>3, <2>4 DEF Restart, TypeOK
  <1>6. CASE UNCHANGED vars
    BY <1>1, <1>6 DEF vars, TypeOK
  <1>7. QED
    BY <1>1, <1>2, <1>3, <1>4, <1>5, <1>6 DEF Next, Starts, Handles

\* The daemons start with the types.
LEMMA TypeInit == Init => TypeOK
  <1>1. ASSUME Init
        PROVE  TypeOK
    <2>1. <<"messenger", 0>> \in {"messenger", "listeners", "node"} \X (Daemons \union {0})
      OBVIOUS
    <2>2. polled \in [Daemons -> SUBSET ({"messenger", "listeners", "node"} \X (Daemons \union {0}))]
      BY <1>1, <2>1 DEF Init
    <2>3. mail \in [Daemons -> Seq(Messages)]
      BY <1>1, EmptySeq DEF Init
    <2>4. restarts \in 0..MaxRestarts
      BY <1>1, ClusterAssumption DEF Init
    <2>5. QED
      BY <1>1, <2>2, <2>3, <2>4 DEF Init, TypeOK
  <1>2. QED
    BY <1>1

\* The mailboxes, counters and listeners of Cluster always have their types.
THEOREM TypeCorrect == Spec => []TypeOK
  <1>1. QED
    BY TypeInit, TypeStep, PTL DEF Spec

-----------------------------------------------------------------------------

\* m is among the messages of a mailbox
InBox(box, m) == \E i \in 1..Len(box) : box[i] = m

\* What MetWhenSettled needs to be inductive: as long as e has no reference to d,
\* the status of d is on its way to e, or the query of e is on its way to d; and
\* a daemon which listens is ready for both.
MetInv ==
    /\ \A d \in Daemons : listening[d] => gates[d] = Gates
    /\ \A d, e \in Daemons :
          ConnectsTo(e, d) /\ listening[d] /\ listening[e] =>
              \/ nodes[e][d] > 0
              \/ InBox(mail[e], Message("status", d, TRUE))
              \/ InBox(mail[d], Message("query", e, FALSE))

\* A message stays in a mailbox to which others are added.
LEMMA InBoxConcat ==
    ASSUME NEW s \in Seq(Messages), NEW t \in Seq(Messages), NEW m,
           InBox(s, m) \/ InBox(t, m)
    PROVE  InBox(s \o t, m)
  <1>1. /\ Len(s \o t) = Len(s) + Len(t) /\ Len(s) \in Nat /\ Len(t) \in Nat
        /\ \A i \in 1..Len(s) : (s \o t)[i] = s[i]
        /\ \A i \in 1..Len(t) : (s \o t)[Len(s) + i] = t[i]
    BY ConcatProperties, LenProperties
  <1>2. CASE InBox(s, m)
    BY <1>1, <1>2 DEF InBox
  <1>3. CASE InBox(t, m)
    <2>1. PICK i \in 1..Len(t) : t[i] = m
      BY <1>3 DEF InBox
    <2>2. Len(s) + i \in 1..Len(s \o t) /\ (s \o t)[Len(s) + i] = m
      BY <1>1, <2>1
    <2>3. QED
      BY <2>2 DEF InBox
  <1>4. QED
    BY <1>2, <1>3

\* A message other than the first stays when the first is taken.
LEMMA InBoxTail ==
    ASSUME NEW s \in Seq(Messages), s # <<>>, NEW m, InBox(s, m), Head(s) # m
    PROVE  InBox(Tail(s), m)
  <1>1. PICK i \in 1..Len(s) : s[i] = m
    BY DEF InBox
  <1>2. i # 1
    BY <1>1
  <1>3. Len(Tail(s)) = Len(s) - 1 /\ \A j \in 1..Len(Tail(s)) : Tail(s)[j] = s[j + 1]
    BY HeadTailProperties, LenProperties
  <1>4. i - 1 \in 1..Len(Tail(s)) /\ Tail(s)[i - 1] = m
    BY <1>1, <1>2, <1>3, LenProperties
  <1>5. QED
    BY <1>4 DEF InBox

\* A message which is added is in the mailbox, as are the ones before it.
LEMMA InBoxAppend ==
    ASSUME NEW s \in Seq(Messages), NEW n \in Messages, NEW m, m = n \/ InBox(s, m)
    PROVE  InBox(Append(s, n), m)
  <1>1. /\ Len(Append(s, n)) = Len(s) + 1 /\ Append(s, n)[Len(s) + 1] = n
        /\ \A i \in 1..Len(s) : Append(s, n)[i] = s[i]
    BY AppendProperties
  <1>2. QED
    BY <1>1, LenProperties DEF InBox

\* The messages a broadcast adds are in the mailboxes of the other daemons which
\* are ready; the ones which were in a mailbox still are.
LEMMA BroadcastDelivers ==
    ASSUME mail \in [Daemons -> Seq(Messages)], NEW d \in Daemons, NEW ms \in Seq(Messages),
           NEW e \in Daemons, NEW m,
           InBox(mail[e], m) \/ (e # d /\ "ready" \in gates[e] /\ InBox(ms, m))
    PROVE  InBox(Broadcast(mail, d, ms)[e], m)
  <1>1. mail[e] \in Seq(Messages)
    OBVIOUS
  <1>2. Broadcast(mail, d, ms)[e]
            = IF e # d /\ "ready" \in gates[e] THEN mail[e] \o ms ELSE mail[e]
    BY DEF Broadcast
  <1>3. CASE e # d /\ "ready" \in gates[e]
    BY <1>1, <1>2, <1>3, InBoxConcat
  <1>4. CASE ~(e # d /\ "ready" \in gates[e])
    BY <1>2, <1>4
  <1>5. QED
    BY <1>3, <1>4

\* A condition which comes true keeps the invariant: the daemon which starts to
\* listen asks the others and tells them.
LEMMA SetGateMet ==
    ASSUME TypeOK, MetInv, NEW d \in Daemons, NEW g \in Gates, SetGate(d, g)
    PROVE  MetInv'
  <1> DEFINE two == <<Message("query", d, FALSE), Message("status", d, TRUE)>>
  <1>1. gates' = [gates EXCEPT ![d] = @ \union {g}] /\ nodes' = nodes
    BY DEF SetGate
  <1>2. \A e \in Daemons : gates[e] = Gates => gates'[e] = Gates
    BY <1>1 DEF TypeOK
  <1>3. CASE ~listening[d] /\ gates'[d] = Gates
    <2>1. /\ listening' = [listening EXCEPT ![d] = TRUE]
          /\ mail' = Broadcast(mail, d, two)
      BY <1>3 DEF SetGate, StartBinaryConnection
    <2>2. two \in Seq(Messages)
      <3>1. Message("query", d, FALSE) \in Messages /\ Message("status", d, TRUE) \in Messages
        BY Zenon, MessageType
      <3>2. QED
        BY Zenon, <3>1, PairIsSequence
    <2>3. InBox(two, Message("query", d, FALSE)) /\ InBox(two, Message("status", d, TRUE))
      <3>1. Len(two) = 2 /\ two[1] = Message("query", d, FALSE) /\ two[2] = Message("status", d, TRUE)
        OBVIOUS
      <3>2. 1 \in 1..Len(two) /\ 2 \in 1..Len(two)
        BY <3>1
      <3> HIDE DEF two
      <3>3. QED
        BY <3>1, <3>2 DEF InBox
    <2> HIDE DEF two
    <2>4. \A e \in Daemons : \A m : InBox(mail[e], m) => InBox(mail'[e], m)
      BY <2>1, <2>2, BroadcastDelivers DEF TypeOK
    <2>5. \A e \in Daemons : e # d /\ listening[e] =>
              InBox(mail'[e], Message("query", d, FALSE)) /\ InBox(mail'[e], Message("status", d, TRUE))
      <3>1. SUFFICES ASSUME NEW e \in Daemons, e # d, listening[e]
                     PROVE  InBox(mail'[e], Message("query", d, FALSE)) /\ InBox(mail'[e], Message("status", d, TRUE))
        OBVIOUS
      <3>2. "ready" \in gates[e]
        BY <3>1 DEF MetInv, Gates
      <3>3. QED
        BY <2>1, <2>2, <2>3, <3>1, <3>2, BroadcastDelivers DEF TypeOK
    <2>6. \A e \in Daemons : listening'[e] => gates'[e] = Gates
      BY <1>2, <1>3, <2>1 DEF MetInv, TypeOK
    <2>7. ASSUME NEW x \in Daemons, NEW y \in Daemons,
                 ConnectsTo(y, x), listening'[x], listening'[y]
          PROVE  \/ nodes'[y][x] > 0
                 \/ InBox(mail'[y], Message("status", x, TRUE))
                 \/ InBox(mail'[x], Message("query", y, FALSE))
      <3>1. x # y
        BY <2>7 DEF ConnectsTo
      <3>2. CASE x = d
        BY <2>1, <2>5, <2>7, <3>1, <3>2 DEF TypeOK
      <3>3. CASE y = d
        BY <2>1, <2>5, <2>7, <3>1, <3>3 DEF TypeOK
      <3>4. CASE x # d /\ y # d
        BY <1>1, <2>1, <2>4, <2>7, <3>4 DEF MetInv, TypeOK
      <3>5. QED
        BY <3>2, <3>3, <3>4
    <2>8. QED
      BY <2>6, <2>7 DEF MetInv, ConnectsTo
  <1>4. CASE ~(~listening[d] /\ gates'[d] = Gates)
    <2>1. listening' = listening /\ mail' = mail
      BY <1>4 DEF SetGate, StartBinaryConnection
    <2>2. QED
      BY <1>1, <1>2, <2>1 DEF MetInv, ConnectsTo
  <1>5. QED
    BY <1>3, <1>4

\* The status of another daemon is used up by a reference to it.
LEMMA RegisterMet ==
    ASSUME TypeOK, MetInv, NEW d \in Daemons, RegisterPrinbeeDaemon(d)
    PROVE  MetInv'
  <1> DEFINE m == Head(mail[d])
  <1>1. /\ m \in Messages /\ m.from \in Daemons /\ mail[d] # <<>> /\ m.kind = "status"
        /\ mail' = [mail EXCEPT ![d] = Tail(@)]
        /\ nodes' = IF m.up THEN ConnectToNode(d, m.from) ELSE nodes
        /\ gates' = gates /\ listening' = listening
    BY MailType DEF RegisterPrinbeeDaemon, Messages
  <1>2. mail[d] \in Seq(Messages)
    BY DEF TypeOK
  <1>3. \A x, y \in Daemons : nodes[y][x] > 0 => nodes'[y][x] > 0
    BY <1>1 DEF TypeOK, ConnectToNode
  <1>4. ASSUME NEW x \in Daemons, NEW y \in Daemons, ConnectsTo(y, x), listening[x], listening[y]
        PROVE  \/ nodes'[y][x] > 0
               \/ InBox(mail'[y], Message("status", x, TRUE))
               \/ InBox(mail'[x], Message("query", y, FALSE))
    <2>1. CASE nodes[y][x] > 0
      BY <1>3, <2>1
    <2>2. CASE InBox(mail[y], Message("status", x, TRUE))
      <3>1. CASE y = d /\ m = Message("status", x, TRUE)
        <4>1. m.up /\ m.from = x
          BY <3>1 DEF Message
        <4>2. nodes' = [nodes EXCEPT ![y][x] = @ + 1]
          BY <1>1, <1>4, <3>1, <4>1 DEF ConnectToNode, ConnectsTo
        <4>3. nodes \in [Daemons -> [Daemons -> Nat]]
          BY DEF TypeOK
        <4>4. nodes'[y][x] = nodes[y][x] + 1 /\ nodes[y][x] \in Nat
          BY <4>2, <4>3
        <4>5. nodes'[y][x] > 0
          BY <4>4
        <4>6. QED
          BY <4>5
      <3>2. CASE y = d /\ m # Message("status", x, TRUE)
        <4>1. InBox(Tail(mail[d]), Message("status", x, TRUE))
          BY <1>1, <1>2, <2>2, <3>2, InBoxTail
        <4>2. QED
          BY <1>1, <3>2, <4>1 DEF TypeOK
      <3>3. CASE y # d
        BY <1>1, <2>2, <3>3 DEF TypeOK
      <3>4. QED
        BY <3>1, <3>2, <3>3
    <2>3. CASE InBox(mail[x], Message("query", y, FALSE))
      <3>1. m # Message("query", y, FALSE)
        BY <1>1 DEF Message
      <3>2. CASE x = d
        <4>1. InBox(Tail(mail[d]), Message("query", y, FALSE))
          BY <1>1, <1>2, <2>3, <3>1, <3>2, InBoxTail
        <4>2. QED
          BY <1>1, <3>2, <4>1 DEF TypeOK
      <3>3. CASE x # d
        BY <1>1, <2>3, <3>3 DEF TypeOK
      <3>4. QED
        BY <3>2, <3>3
    <2>4. QED
      BY <1>4, <2>1, <2>2, <2>3 DEF MetInv
  <1>5. QED
    BY <1>1, <1>4 DEF MetInv, ConnectsTo

\* A query is used up by the status it asks for, which is sent to a daemon that
\* listens.
LEMMA SendOurStatusMet ==
    ASSUME TypeOK, MetInv, NEW d \in Daemons, SendOurStatus(d)
    PROVE  MetInv'
  <1> DEFINE m == Head(mail[d])
  <1> DEFINE rest == [mail EXCEPT ![d] = Tail(@)]
  <1> DEFINE answer == Message("status", d, listening[d])
  <1>1. /\ m \in Messages /\ m.from \in Daemons /\ mail[d] # <<>> /\ m.kind = "query"
        /\ rest \in [Daemons -> Seq(Messages)]
        /\ mail' = IF "ready" \in gates[m.from] THEN [rest EXCEPT ![m.from] = Append(@, answer)] ELSE rest
        /\ gates' = gates /\ listening' = listening /\ nodes' = nodes
    BY MailType DEF SendOurStatus, Messages
  <1>2. mail[d] \in Seq(Messages) /\ answer \in Messages
    BY MessageType DEF TypeOK
  <1>3. \A e \in Daemons : \A n : InBox(rest[e], n) => InBox(mail'[e], n)
    <2> HIDE DEF rest, answer, m
    <2>1. QED
      BY <1>1, <1>2, InBoxAppend
  <1>4. \A e \in Daemons : \A n : InBox(mail[e], n) /\ (e = d => m # n) => InBox(mail'[e], n)
    <2>1. \A e \in Daemons : \A n : InBox(mail[e], n) /\ (e = d => m # n) => InBox(rest[e], n)
      BY <1>1, <1>2, InBoxTail DEF TypeOK
    <2> HIDE DEF rest, m
    <2>2. QED
      BY <1>3, <2>1
  <1>5. ASSUME NEW x \in Daemons, NEW y \in Daemons, ConnectsTo(y, x), listening[x], listening[y]
        PROVE  \/ nodes'[y][x] > 0
               \/ InBox(mail'[y], Message("status", x, TRUE))
               \/ InBox(mail'[x], Message("query", y, FALSE))
    <2>1. CASE nodes[y][x] > 0
      BY <1>1, <2>1
    <2>2. CASE InBox(mail[y], Message("status", x, TRUE))
      <3>1. m # Message("status", x, TRUE)
        BY <1>1 DEF Message
      <3>2. QED
        BY <1>4, <2>2, <3>1
    <2>3. CASE InBox(mail[x], Message("query", y, FALSE))
      <3>1. CASE x = d /\ m = Message("query", y, FALSE)
        <4>1. m.from = y /\ answer = Message("status", x, TRUE)
          BY <1>5, <3>1 DEF Message, TypeOK
        <4>2. "ready" \in gates[y]
          BY <1>5 DEF MetInv, Gates
        <4>3. mail'[y] = Append(rest[y], Message("status", x, TRUE))
          BY <1>1, <4>1, <4>2
        <4>4. rest[y] \in Seq(Messages) /\ Message("status", x, TRUE) \in Messages
          BY <1>1, <1>2, <4>1
        <4> HIDE DEF rest, answer, m
        <4>5. QED
          BY <4>3, <4>4, InBoxAppend
      <3>2. CASE ~(x = d /\ m = Message("query", y, FALSE))
        BY <1>4, <2>3, <3>2
      <3>3. QED
        BY <3>1, <3>2
    <2>4. QED
      BY <1>5, <2>1, <2>2, <2>3 DEF MetInv
  <1>6. QED
    BY <1>1, <1>5 DEF MetInv, ConnectsTo

\* A daemon which restarts does not listen, and leaves the others as they are.
LEMMA RestartMet ==
    ASSUME TypeOK, MetInv, NEW d \in Daemons, Restart(d)
    PROVE  MetInv'
  <1>1. /\ gates' = [gates EXCEPT ![d] = {}]
        /\ listening' = [listening EXCEPT ![d] = FALSE]
        /\ mail' = [mail EXCEPT ![d] = <<>>]
        /\ nodes' = [nodes EXCEPT ![d] = [e \in Daemons |-> 0]]
    BY DEF Restart
  <1>2. \A e \in Daemons : listening'[e] =>
            e # d /\ listening[e] /\ mail'[e] = mail[e] /\ nodes'[e] = nodes[e] /\ gates'[e] = gates[e]
    BY <1>1 DEF TypeOK
  <1>3. QED
    BY <1>2 DEF MetInv, ConnectsTo

\* Every step keeps the invariant.
LEMMA MetStep == TypeOK /\ MetInv /\ [Next]_vars => MetInv'
  <1>1. SUFFICES ASSUME TypeOK, MetInv, [Next]_vars
                 PROVE  MetInv'
    OBVIOUS
  <1>2. CASE UNCHANGED vars
    BY <1>1, <1>2 DEF vars, MetInv, ConnectsTo
  <1>3. CASE \E d \in Daemons : Starts(d) \/ Handles(d) \/ Restart(d)
    BY <1>1, <1>3, SetGateMet, RegisterMet, SendOurStatusMet, RestartMet DEF Starts, Handles
  <1>4. QED
    BY <1>1, <1>2, <1>3 DEF Next

\* In a settled pair nothing is on its way, so that the reference is there.
LEMMA MetImplies == MetInv => MetWhenSettled
  <1>1. SUFFICES ASSUME MetInv, NEW d \in Daemons, NEW e \in Daemons,
                        ConnectsTo(e, d), Settled(d, e)
                 PROVE  nodes[e][d] > 0
    BY DEF MetWhenSettled
  <1>2. \A m : ~InBox(<<>>, m)
    BY DEF InBox
  <1>3. QED
    BY <1>1, <1>2 DEF MetInv, Settled

\* Daemons which are up and have handled their mail did not miss each other
\* (start_binary_connection(), send_our_status(), register_prinbee_daemon()), for
\* any number of daemons with any addresses, in whichever order they start and
\* restart.
THEOREM MetWhenSettledHolds == Spec => []MetWhenSettled
  <1>1. Init => MetInv
    BY DEF Init, MetInv
  <1>2. Spec => []TypeOK
    BY TypeCorrect
  <1>3. QED
    BY <1>1, <1>2, MetStep, MetImplies, PTL DEF Spec
=============================================================================
