------------------------- MODULE RegistrationProofs -------------------------
(***************************************************************************)
(* Proofs about Registration, for any clients, daemons and numbers of      *)
(* faults: types, when the proxy listens, which connections it knows, and  *)
(* which list of contexts a client has.                                    *)
(***************************************************************************)
EXTENDS Registration, FiniteSetTheorems, SequenceTheorems, TLAPS

Statuses == {"up", "down", "service_down"}

-----------------------------------------------------------------------------
(* Types.                                                                  *)

\* The messages which the processes make.
LEMMA MessageTypes ==
    /\ \A n \in Nat : /\ Msg("REG", n) \in Messages /\ Msg("LCTX", n) \in Messages
                      /\ ListMessage(n) \in Messages
    /\ \A m \in Messages : Acknowledge(m) \in Messages /\ ErrorMessage(m) \in Messages
  BY DEF Msg, Messages, MessageKinds, ListMessage, Acknowledge, ErrorMessage

\* What the messages say.
LEMMA MessageContents ==
    /\ \A n : ListMessage(n).kind = "LIST" /\ ListMessage(n).n = n
    /\ \A m : Acknowledge(m).kind = "ACK" /\ ErrorMessage(m).kind = "ERR"
  BY DEF Msg, ListMessage, Acknowledge, ErrorMessage

\* One more message at the end of one of the queues.
LEMMA QueueAppend ==
    ASSUME NEW S, NEW M, NEW q \in [S -> Seq(M)], NEW x \in S, NEW m \in M
    PROVE  [q EXCEPT ![x] = Append(@, m)] \in [S -> Seq(M)]
  <1>1. Append(q[x], m) \in Seq(M)
    BY AppendProperties
  <1>2. QED
    BY <1>1

\* The first message of one of the queues, and what is left without it.
LEMMA QueueTail ==
    ASSUME NEW S, NEW M, NEW q \in [S -> Seq(M)], NEW x \in S, q[x] # <<>>
    PROVE  Head(q[x]) \in M /\ [q EXCEPT ![x] = Tail(@)] \in [S -> Seq(M)]
  <1>1. Head(q[x]) \in M /\ Tail(q[x]) \in Seq(M)
    BY HeadTailProperties
  <1>2. QED
    BY <1>1

\* A message to the services which are ready.
LEMMA BroadcastType ==
    ASSUME mail \in [Clients -> Seq(Statuses)], NEW m \in Statuses, Broadcast(m)
    PROVE  mail' \in [Clients -> Seq(Statuses)]
  <1>1. \A c \in Clients : Append(mail[c], m) \in Seq(Statuses) /\ mail[c] \in Seq(Statuses)
    BY AppendProperties
  <1>2. QED
    BY <1>1 DEF Broadcast

\* start_binary_listener() opens the listener and tells the clients, or not.
LEMMA StartBinaryListenerType ==
    ASSUME TypeOK, NEW met, NEW dready \in BOOLEAN, StartBinaryListener(met, dready)
    PROVE  listener' \in BOOLEAN /\ mail' \in [Clients -> Seq(Statuses)]
  <1>1. mail \in [Clients -> Seq(Statuses)] /\ listener \in BOOLEAN
    BY DEF TypeOK, Statuses
  <1>2. OurStatus(TRUE) \in Statuses
    BY DEF OurStatus, Statuses
  <1>3. mail' \in [Clients -> Seq(Statuses)]
    BY <1>1, <1>2, BroadcastType DEF StartBinaryListener
  <1>4. QED
    BY <1>1, <1>3 DEF StartBinaryListener

\* send_message_to_all_clients() adds a message to some of the queues.
LEMMA SendToAllType ==
    ASSUME TypeOK, NEW m \in Messages, SendToAllClients(m)
    PROVE  toClient' \in [Clients -> Seq(Messages)]
  <1>1. \A c \in Clients : Append(toClient[c], m) \in Seq(Messages) /\ toClient[c] \in Seq(Messages)
    BY AppendProperties DEF TypeOK
  <1>2. QED
    BY <1>1 DEF SendToAllClients

\* The last connection of a client.
LEMMA CurrentType ==
    ASSUME TypeOK, NEW c \in Clients
    PROVE  Current(c) \in Clients \X Nat /\ Current(c)[1] = c /\ Current(c)[2] = count[c]
  BY DEF TypeOK, Current

\* start_binary_connection() of a client.
LEMMA StartBinaryConnectionType ==
    ASSUME TypeOK, NEW c \in Clients, StartBinaryConnection(c)
    PROVE  /\ conn' \in [Clients -> {"none", "timer", "up"}]
           /\ registered' \in [Clients -> BOOLEAN]
           /\ expect' \in [Clients -> SUBSET Nat]
           /\ clientList' \in [Clients -> Nat]
           /\ broken' \subseteq Clients \X Nat
           /\ toProxy' \in [Clients -> Seq(Messages)] /\ toClient' \in [Clients -> Seq(Messages)]
           /\ count' = count
  <1> DEFINE drop == ~IsProxyReady(c)
  <1> DEFINE create == ~drop /\ conn[c] = "none"
  <1>1. /\ conn' = [conn EXCEPT ![c] = IF drop THEN "none" ELSE IF create THEN "timer" ELSE @]
        /\ registered' = [registered EXCEPT ![c] = @ /\ ~drop /\ ~create]
        /\ expect' = [expect EXCEPT ![c] = IF drop \/ create THEN {} ELSE @]
        /\ clientList' = [clientList EXCEPT ![c] = IF drop \/ create THEN 0 ELSE @]
        /\ broken' = IF drop /\ conn[c] = "up" THEN broken \union {Current(c)} ELSE broken
        /\ toProxy' = [toProxy EXCEPT ![c] = IF drop THEN <<>> ELSE @]
        /\ toClient' = [toClient EXCEPT ![c] = IF drop THEN <<>> ELSE @]
        /\ count' = count
    BY DEF StartBinaryConnection
  <1> HIDE DEF drop, create
  <1>2. conn' \in [Clients -> {"none", "timer", "up"}]
    BY <1>1 DEF TypeOK
  <1>3. registered' \in [Clients -> BOOLEAN]
    BY <1>1 DEF TypeOK
  <1>4. expect' \in [Clients -> SUBSET Nat] /\ clientList' \in [Clients -> Nat]
    BY <1>1 DEF TypeOK
  <1>5. broken' \subseteq Clients \X Nat
    <2>1. Current(c) \in Clients \X Nat
      BY CurrentType
    <2>2. QED
      BY <1>1, <2>1 DEF TypeOK
  <1>6. toProxy' \in [Clients -> Seq(Messages)] /\ toClient' \in [Clients -> Seq(Messages)]
    BY <1>1, EmptySeq DEF TypeOK
  <1>7. QED
    BY <1>1, <1>2, <1>3, <1>4, <1>5, <1>6

\* The steps of the proxy and of its messenger keep the types.
LEMMA ProxyTypes ==
    ASSUME TypeOK, \/ \E g \in Gates : ProxyStep(g)
                   \/ ListenerStep
                   \/ \E c \in Clients : ProxyRegisters(c) \/ ProxyForwards(c) \/ ProxyGetsQuery(c)
    PROVE  TypeOK'
  <1>1. ASSUME NEW g \in Gates, SetGate(g)
        PROVE  TypeOK'
    <2>1. flags' \subseteq Gates
      BY <1>1 DEF SetGate, TypeOK
    <2>2. listener' \in BOOLEAN /\ mail' \in [Clients -> Seq(Statuses)]
      BY <1>1, StartBinaryListenerType DEF SetGate, TypeOK
    <2>3. QED
      BY <1>1, <2>1, <2>2 DEF SetGate, TypeOK, Statuses, proxyVars, listenVars, daemonVars,
                             clientVars, linkVars
  <1>2. ASSUME NEW k, ProxyAccepts(k) \/ ClientDisconnected(k)
        PROVE  TypeOK'
    <2>1. refs' \subseteq Clients \X Nat /\ backlog' \subseteq Clients \X Nat
      BY ZenonT(40), <1>2 DEF ProxyAccepts, ClientDisconnected, TypeOK
    <2>2. QED
      BY <1>2, <2>1 DEF ProxyAccepts, ClientDisconnected, TypeOK, proxyVars, listenVars,
                        daemonVars, clientVars, linkVars
  <1>3. ASSUME NEW c \in Clients, ProxyRegisters(c)
        PROVE  TypeOK'
    <2>1. Head(toProxy[c]) \in Messages /\ toProxy' \in [Clients -> Seq(Messages)]
      BY <1>3, QueueTail DEF ProxyRegisters, TypeOK
    <2>2. toClient' \in [Clients -> Seq(Messages)]
      <3>1. toClient \in [Clients -> Seq(Messages)]
        BY DEF TypeOK
      <3>2. \E m \in Messages : toClient' = [toClient EXCEPT ![c] = Append(@, m)]
        BY <1>3, <2>1, MessageTypes DEF ProxyRegisters
      <3>3. QED
        BY <3>1, <3>2, QueueAppend
    <2>3. accepted' \subseteq Clients \X Nat
      BY ZenonT(40), <1>3, CurrentType DEF ProxyRegisters, TypeOK
    <2>4. QED
      BY <1>3, <2>1, <2>2, <2>3 DEF ProxyRegisters, TypeOK, proxyVars, listenVars, daemonVars,
                                    clientVars, linkVars
  <1>4. ASSUME NEW c \in Clients, ProxyForwards(c)
        PROVE  TypeOK'
    <2>1. Head(toProxy[c]) \in Messages /\ toProxy' \in [Clients -> Seq(Messages)]
      BY <1>4, QueueTail DEF ProxyForwards, TypeOK
    <2>2. toDaemon' \in [Daemons -> Seq(Messages)]
      <3>1. CASE FirstDaemon \in Daemons
        <4>1. toDaemon \in [Daemons -> Seq(Messages)]
          BY DEF TypeOK
        <4>2. \/ toDaemon' = toDaemon
              \/ \E m \in Messages : toDaemon' = [toDaemon EXCEPT ![FirstDaemon] = Append(@, m)]
          BY <1>4, <2>1 DEF ProxyForwards
        <4>3. ASSUME NEW m \in Messages
              PROVE  [toDaemon EXCEPT ![FirstDaemon] = Append(@, m)] \in [Daemons -> Seq(Messages)]
          BY Zenon, <3>1, <4>1, QueueAppend
        <4>4. QED
          BY Zenon, <4>1, <4>2, <4>3
      <3>2. CASE FirstDaemon \notin Daemons
        BY <1>4, <3>2 DEF ProxyForwards, TypeOK
      <3>3. QED
        BY <3>1, <3>2
    <2>3. QED
      BY <1>4, <2>1, <2>2 DEF ProxyForwards, TypeOK, proxyVars, listenVars, daemonVars,
                              clientVars, linkVars
  <1>5. ASSUME NEW c \in Clients, ProxyGetsQuery(c)
        PROVE  TypeOK'
    <2>1. OurStatus(listener) \in Statuses
      BY DEF OurStatus, Statuses
    <2>2. mail \in [Clients -> Seq(Statuses)]
      BY DEF TypeOK, Statuses
    <2>3. mail' \in [Clients -> Seq(Statuses)]
      BY <1>5, <2>1, <2>2, QueueAppend DEF ProxyGetsQuery
    <2>4. QED
      BY <1>5, <2>3 DEF ProxyGetsQuery, TypeOK, Statuses, proxyVars, listenVars, daemonVars,
                        clientVars, linkVars
  <1>6. QED
    BY <1>1, <1>2, <1>3, <1>4, <1>5 DEF ProxyStep, ListenerStep

\* The steps on the connections to the daemons keep the types.
LEMMA DaemonTypes ==
    ASSUME TypeOK, NEW d \in Daemons, DaemonStep(d) \/ DaemonDisconnected(d) \/ DaemonListChanges(d)
    PROVE  TypeOK'
  <1>0. /\ faults \in 0..MaxFaults /\ MaxFaults \in Nat /\ MaxList \in Nat
        /\ daemonList \in [Daemons -> 1..MaxList]
    BY RegistrationAssumption DEF TypeOK
  <1>1. CASE ConnectToDaemon(d)
    <2>1. dconn' \in [Daemons -> {"none", "timer", "up"}]
      BY <1>1 DEF ConnectToDaemon, TypeOK
    <2>2. QED
      BY <1>1, <2>1 DEF ConnectToDaemon, TypeOK, proxyVars, listenVars, daemonVars, clientVars,
                        linkVars
  <1>2. CASE DaemonConnected(d)
    <2>1. dconn' \in [Daemons -> {"none", "timer", "up"}] /\ dcount' \in [Daemons -> Nat]
      <3>1. dconn \in [Daemons -> {"none", "timer", "up"}] /\ dcount \in [Daemons -> Nat]
        BY DEF TypeOK
      <3>2. QED
        BY <1>2, <3>1 DEF DaemonConnected
    <2>2. dcount'[d] \in Nat
      BY <2>1
    <2>3. <<Msg("REG", dcount'[d])>> \in Seq(Messages)
      BY <2>2, MessageTypes
    <2>4. toDaemon' \in [Daemons -> Seq(Messages)]
      BY <1>2, <2>3 DEF DaemonConnected, TypeOK
    <2>5. dexpect' \in [Daemons -> SUBSET Nat]
      BY <1>2, <2>2 DEF DaemonConnected, TypeOK
    <2>6. QED
      BY <1>2, <2>1, <2>4, <2>5 DEF DaemonConnected, TypeOK, proxyVars, listenVars, daemonVars,
                                    clientVars, linkVars
  <1>3. CASE DaemonAnswers(d)
    <2>1. Head(toDaemon[d]) \in Messages /\ toDaemon' \in [Daemons -> Seq(Messages)]
      BY <1>3, QueueTail DEF DaemonAnswers, TypeOK
    <2>2. daemonList[d] \in Nat
      BY <1>0
    <2>3. PICK r : /\ r \in {ListMessage(daemonList[d]), Acknowledge(Head(toDaemon[d])),
                              ErrorMessage(Head(toDaemon[d]))}
                   /\ fromDaemon' = [fromDaemon EXCEPT ![d] = Append(@, r)]
      BY <1>3 DEF DaemonAnswers
    <2>4. r \in Messages
      BY <2>1, <2>2, <2>3, MessageTypes
    <2>5. fromDaemon' \in [Daemons -> Seq(Messages)]
      BY <2>3, <2>4, QueueAppend DEF TypeOK
    <2>6. QED
      BY <1>3, <2>1, <2>5 DEF DaemonAnswers, TypeOK, proxyVars, listenVars, daemonVars,
                              clientVars, linkVars
  <1>4. CASE ProxyGetsReply(d)
    <2>1. fromDaemon' \in [Daemons -> Seq(Messages)]
      BY <1>4, QueueTail DEF ProxyGetsReply, TypeOK
    <2>2. dexpect' \in [Daemons -> SUBSET Nat] /\ daemonReady' \in BOOLEAN
      BY <1>4 DEF ProxyGetsReply, TypeOK
    <2>3. listener' \in BOOLEAN /\ mail' \in [Clients -> Seq(Statuses)]
      BY <1>4, <2>2, StartBinaryListenerType DEF ProxyGetsReply
    <2>4. toDaemon' \in [Daemons -> Seq(Messages)]
      BY <1>4, QueueAppend, MessageTypes DEF ProxyGetsReply, TypeOK
    <2>5. QED
      BY <1>4, <2>1, <2>2, <2>3, <2>4 DEF ProxyGetsReply, TypeOK, Statuses, proxyVars, listenVars,
                                          daemonVars, clientVars, linkVars
  <1>5. CASE ProxySavesList(d)
    <2>1. Head(fromDaemon[d]) \in Messages /\ fromDaemon' \in [Daemons -> Seq(Messages)]
      BY <1>5, QueueTail DEF ProxySavesList, TypeOK
    <2>2. proxyList' \in Nat
      BY <1>5, <2>1 DEF ProxySavesList, Messages
    <2>3. toClient' \in [Clients -> Seq(Messages)]
      BY <1>5, <2>1, SendToAllType DEF ProxySavesList, TypeOK
    <2>4. QED
      BY <1>5, <2>1, <2>2, <2>3 DEF ProxySavesList, TypeOK, proxyVars, listenVars, daemonVars,
                                    clientVars, linkVars
  <1>6. CASE DaemonDisconnected(d)
    <2>1. dconn' \in [Daemons -> {"none", "timer", "up"}]
      BY <1>6 DEF DaemonDisconnected, TypeOK
    <2>2. toDaemon' \in [Daemons -> Seq(Messages)] /\ fromDaemon' \in [Daemons -> Seq(Messages)]
      BY <1>6, EmptySeq DEF DaemonDisconnected, TypeOK
    <2>3. faults' \in 0..MaxFaults
      BY <1>0, <1>6 DEF DaemonDisconnected, OneFault
    <2>4. QED
      BY <1>6, <2>1, <2>2, <2>3 DEF DaemonDisconnected, TypeOK, proxyVars, listenVars, daemonVars,
                                    clientVars, linkVars
  <1>7. CASE DaemonListChanges(d)
    <2>1. daemonList' \in [Daemons -> 1..MaxList]
      BY <1>0, <1>7 DEF DaemonListChanges
    <2>2. QED
      BY <1>7, <2>1 DEF DaemonListChanges, TypeOK, proxyVars, listenVars, daemonVars, clientVars,
                        linkVars
  <1>8. QED
    BY <1>1, <1>2, <1>3, <1>4, <1>5, <1>6, <1>7 DEF DaemonStep

\* The steps of a client keep the types.
LEMMA ClientTypes ==
    ASSUME TypeOK, NEW c \in Clients,
           \/ ClientReady(c) \/ ClientFluid(c) \/ ClientGetsStatus(c) \/ ClientConnects(c)
           \/ ProcessDisconnected(c) \/ ClientAcknowledged(c) \/ ClientSavesList(c)
    PROVE  TypeOK'
  <1>1. CASE ClientReady(c)
    <2>1. ready' \in [Clients -> BOOLEAN] /\ queries' \subseteq Clients
      BY <1>1 DEF ClientReady, TypeOK
    <2>2. QED
      BY <1>1, <2>1 DEF ClientReady, TypeOK, proxyVars, listenVars, daemonVars, clientVars, linkVars
  <1>2. CASE ClientFluid(c)
    <2>1. fluid' \in [Clients -> BOOLEAN]
      BY <1>2 DEF ClientFluid, TypeOK
    <2>2. StartBinaryConnection(c)
      BY <1>2 DEF ClientFluid
    <2>3. QED
      BY <1>2, <2>1, <2>2, StartBinaryConnectionType
         DEF ClientFluid, TypeOK, proxyVars, listenVars, daemonVars
  <1>3. CASE ClientGetsStatus(c)
    <2> DEFINE m == Head(mail[c])
    <2> DEFINE s == IF m = "up" THEN "up" ELSE "down"
    <2> DEFINE a == IF m = "service_down" THEN address[c] ELSE m = "up"
    <2>1. mail' \in [Clients -> Seq(Statuses)]
      <3>1. mail \in [Clients -> Seq(Statuses)]
        BY DEF TypeOK, Statuses
      <3>2. QED
        BY <1>3, <3>1, QueueTail DEF ClientGetsStatus
    <2>2. SetProxyStatusAndAddress(c, s, a)
      BY <1>3 DEF ClientGetsStatus
    <2>3. s \in {"", "up", "down"} /\ a \in BOOLEAN
      BY DEF TypeOK
    <2> HIDE DEF m, s, a
    <2>4. status' \in [Clients -> {"", "up", "down"}] /\ address' \in [Clients -> BOOLEAN]
      BY <2>2, <2>3 DEF SetProxyStatusAndAddress, TypeOK
    <2>5. \/ UNCHANGED <<conn, registered, expect, clientList, linkVars>>
          \/ StartBinaryConnection(c)
      BY <2>2 DEF SetProxyStatusAndAddress
    <2>6. /\ conn' \in [Clients -> {"none", "timer", "up"}]
          /\ registered' \in [Clients -> BOOLEAN]
          /\ expect' \in [Clients -> SUBSET Nat]
          /\ clientList' \in [Clients -> Nat]
          /\ broken' \subseteq Clients \X Nat
          /\ toProxy' \in [Clients -> Seq(Messages)] /\ toClient' \in [Clients -> Seq(Messages)]
          /\ count' = count
      BY <2>5, StartBinaryConnectionType DEF TypeOK, linkVars
    <2>7. ready' = ready /\ fluid' = fluid
      BY <2>2 DEF SetProxyStatusAndAddress
    <2>8. QED
      BY <1>3, <2>1, <2>4, <2>6, <2>7
         DEF ClientGetsStatus, TypeOK, Statuses, proxyVars, listenVars, daemonVars
  <1>4. CASE ClientConnects(c)
    <2>1. conn' \in [Clients -> {"none", "timer", "up"}]
      BY <1>4 DEF ClientConnects, TypeOK
    <2>2. count' \in [Clients -> Nat] /\ count'[c] \in Nat
      <3>1. count \in [Clients -> Nat]
        BY DEF TypeOK
      <3>2. QED
        BY <1>4, <3>1 DEF ClientConnects
    <2>3. backlog' \subseteq Clients \X Nat
      <3>1. <<c, count'[c]>> \in Clients \X Nat
        BY <2>2
      <3>2. QED
        BY <1>4, <3>1 DEF ClientConnects, TypeOK
    <2>4. toProxy' \in [Clients -> Seq(Messages)]
      <3>1. <<Msg("REG", count'[c])>> \in Seq(Messages)
        BY <2>2, MessageTypes
      <3>2. QED
        BY <1>4, <3>1 DEF ClientConnects, TypeOK
    <2>5. expect' \in [Clients -> SUBSET Nat]
      BY <1>4, <2>2 DEF ClientConnects, TypeOK
    <2>6. QED
      BY <1>4, <2>1, <2>2, <2>3, <2>4, <2>5
         DEF ClientConnects, TypeOK, proxyVars, listenVars, daemonVars, clientVars, linkVars
  <1>5. CASE ProcessDisconnected(c)
    <2>1. conn' \in [Clients -> {"none", "timer", "up"}]
      BY <1>5 DEF ProcessDisconnected, TypeOK
    <2>2. QED
      BY <1>5, <2>1
         DEF ProcessDisconnected, TypeOK, proxyVars, listenVars, daemonVars, clientVars, linkVars
  <1>6. CASE ClientAcknowledged(c)
    <2>1. toClient' \in [Clients -> Seq(Messages)]
      BY <1>6, QueueTail DEF ClientAcknowledged, TypeOK
    <2>2. registered' \in [Clients -> BOOLEAN]
      BY <1>6 DEF ClientAcknowledged, TypeOK
    <2>3. toProxy' \in [Clients -> Seq(Messages)]
      <3>1. toProxy \in [Clients -> Seq(Messages)] /\ Msg("LCTX", 0) \in Messages
        BY MessageTypes DEF TypeOK
      <3>2. QED
        BY <1>6, <3>1, QueueAppend DEF ClientAcknowledged
    <2>4. QED
      BY <1>6, <2>1, <2>2, <2>3
         DEF ClientAcknowledged, TypeOK, proxyVars, listenVars, daemonVars, clientVars, linkVars
  <1>7. CASE ClientSavesList(c)
    <2>1. Head(toClient[c]) \in Messages /\ toClient' \in [Clients -> Seq(Messages)]
      BY <1>7, QueueTail DEF ClientSavesList, TypeOK
    <2>2. Head(toClient[c]).n \in Nat
      BY <2>1 DEF Messages
    <2>3. clientList' \in [Clients -> Nat]
      BY <1>7, <2>2 DEF ClientSavesList, TypeOK
    <2>4. QED
      BY <1>7, <2>1, <2>3
         DEF ClientSavesList, TypeOK, proxyVars, listenVars, daemonVars, clientVars, linkVars
  <1>8. QED
    BY <1>1, <1>2, <1>3, <1>4, <1>5, <1>6, <1>7

\* A connection which is cut and a proxy which restarts keep the types.
LEMMA FaultTypes ==
    ASSUME TypeOK, ProxyRestart \/ \E c \in Clients : LinkBreaks(c)
    PROVE  TypeOK'
  <1>1. ASSUME OneFault
        PROVE  faults' \in 0..MaxFaults
    <2>1. faults \in 0..MaxFaults /\ MaxFaults \in Nat
      BY RegistrationAssumption DEF TypeOK
    <2>2. QED
      BY <1>1, <2>1 DEF OneFault
  <1>2. CASE ProxyRestart
    <2>1. \A c \in Clients : Current(c) \in Clients \X Nat
      BY CurrentType
    <2>2. broken' \subseteq Clients \X Nat
      <3>1. broken \subseteq Clients \X Nat
        BY DEF TypeOK
      <3>2. broken' = broken \union {Current(c) : c \in {x \in Clients : conn[x] = "up"}}
        BY <1>2 DEF ProxyRestart
      <3>3. QED
        BY Zenon, <2>1, <3>1, <3>2
    <2>3. mail' \in [Clients -> Seq(Statuses)]
      <3>1. mail \in [Clients -> Seq(Statuses)] /\ "service_down" \in Statuses
        BY DEF TypeOK, Statuses
      <3>2. QED
        BY <1>2, <3>1, BroadcastType DEF ProxyRestart
    <2>4. /\ toDaemon' \in [Daemons -> Seq(Messages)] /\ fromDaemon' \in [Daemons -> Seq(Messages)]
          /\ toProxy' \in [Clients -> Seq(Messages)] /\ toClient' \in [Clients -> Seq(Messages)]
      BY <1>2, EmptySeq DEF ProxyRestart
    <2>5. dconn' \in [Daemons -> {"none", "timer", "up"}] /\ dexpect' \in [Daemons -> SUBSET Nat]
      BY <1>2 DEF ProxyRestart
    <2>6. QED
      BY <1>1, <1>2, <2>2, <2>3, <2>4, <2>5
         DEF ProxyRestart, TypeOK, Statuses, clientVars
  <1>3. ASSUME NEW c \in Clients, LinkBreaks(c)
        PROVE  TypeOK'
    <2>1. broken' \subseteq Clients \X Nat
      <3>1. Current(c) \in Clients \X Nat /\ broken \subseteq Clients \X Nat
        BY CurrentType DEF TypeOK
      <3>2. broken' = broken \union {Current(c)}
        BY <1>3 DEF LinkBreaks
      <3>3. QED
        BY <3>1, <3>2
    <2>2. toProxy' \in [Clients -> Seq(Messages)] /\ toClient' \in [Clients -> Seq(Messages)]
      BY <1>3, EmptySeq DEF LinkBreaks, TypeOK
    <2>3. QED
      BY <1>1, <1>3, <2>1, <2>2
         DEF LinkBreaks, TypeOK, proxyVars, listenVars, daemonVars, clientVars
  <1>4. QED
    BY <1>2, <1>3

\* Every step keeps the types.
LEMMA TypeStep == TypeOK /\ [Next]_vars => TypeOK'
  <1>1. SUFFICES ASSUME TypeOK, [Next]_vars
                 PROVE  TypeOK'
    OBVIOUS
  <1>2. CASE UNCHANGED vars
    BY <1>1, <1>2 DEF vars, TypeOK, proxyVars, listenVars, daemonVars, clientVars, linkVars
  <1>3. CASE Next
    BY <1>1, <1>3, ProxyTypes, DaemonTypes, ClientTypes, FaultTypes DEF Next, ClientStep, Fault
  <1>4. QED
    BY <1>1, <1>2, <1>3

\* The processes start with the types.
LEMMA TypeInit == Init => TypeOK
  <1>1. SUFFICES ASSUME Init
                 PROVE  TypeOK
    OBVIOUS
  <1>2. /\ toDaemon \in [Daemons -> Seq(Messages)] /\ fromDaemon \in [Daemons -> Seq(Messages)]
        /\ toProxy \in [Clients -> Seq(Messages)] /\ toClient \in [Clients -> Seq(Messages)]
        /\ mail \in [Clients -> Seq({"up", "down", "service_down"})]
    BY <1>1, EmptySeq DEF Init
  <1>3. /\ faults \in 0..MaxFaults /\ daemonList \in [Daemons -> 1..MaxList]
        /\ dcount \in [Daemons -> Nat] /\ count \in [Clients -> Nat]
    BY <1>1, RegistrationAssumption DEF Init
  <1>4. /\ ready \in [Clients -> BOOLEAN] /\ fluid \in [Clients -> BOOLEAN]
        /\ status \in [Clients -> {"", "up", "down"}] /\ address \in [Clients -> BOOLEAN]
        /\ conn \in [Clients -> {"none", "timer", "up"}] /\ registered \in [Clients -> BOOLEAN]
        /\ expect \in [Clients -> SUBSET Nat] /\ clientList \in [Clients -> Nat]
    BY <1>1 DEF Init, ClientInit
  <1>5. /\ dconn \in [Daemons -> {"none", "timer", "up"}] /\ dexpect \in [Daemons -> SUBSET Nat]
        /\ flags \subseteq Gates /\ daemonReady \in BOOLEAN /\ listener \in BOOLEAN /\ proxyList \in Nat
    BY <1>1 DEF Init, ProxyInit
  <1>6. refs = {} /\ backlog = {} /\ queries = {} /\ accepted = {} /\ broken = {}
    BY <1>1 DEF Init
  <1>7. QED
    BY <1>2, <1>3, <1>4, <1>5, <1>6 DEF TypeOK

\* The queues, the flags and the lists of proxy, daemons and clients always have
\* their types.
THEOREM TypeCorrect == Spec => []TypeOK
  <1>1. QED
    BY TypeInit, TypeStep, PTL DEF Spec

-----------------------------------------------------------------------------
(* The listener.                                                           *)

\* The proxy listens exactly when all its conditions hold, for every order in
\* which messages, daemons and restarts make them true: each of the callers of
\* start_binary_listener() calls it after the condition it changed.
THEOREM ListenerFollowsGatesHolds == Spec => []ListenerFollowsGates
  <1>1. Init => ListenerFollowsGates
    BY DEF Init, ProxyInit, ListenerFollowsGates, Gates
  <1>2. TypeOK /\ ListenerFollowsGates /\ [Next]_vars => ListenerFollowsGates'
    <2>1. SUFFICES ASSUME TypeOK, ListenerFollowsGates, [Next]_vars
                   PROVE  ListenerFollowsGates'
      OBVIOUS
    <2>2. listener \in BOOLEAN /\ daemonReady \in BOOLEAN
      BY <2>1 DEF TypeOK
    <2>3. ASSUME NEW g \in Gates, SetGate(g)
          PROVE  ListenerFollowsGates'
      <3>1. flags # Gates
        BY <2>3 DEF SetGate
      <3>2. QED
        BY <2>1, <2>2, <2>3, <3>1 DEF SetGate, StartBinaryListener, ListenerFollowsGates
    <2>4. ASSUME NEW d \in Daemons, ProxyGetsReply(d)
          PROVE  ListenerFollowsGates'
      <3>1. /\ daemonReady => daemonReady'
            /\ listener' = (listener \/ (flags = Gates /\ daemonReady'))
            /\ flags' = flags
        BY <2>2, <2>4 DEF ProxyGetsReply, StartBinaryListener
      <3>2. QED
        BY <2>1, <2>2, <3>1 DEF ListenerFollowsGates
    <2>5. CASE ProxyRestart
      BY <2>5 DEF ProxyRestart, ListenerFollowsGates, Gates
    <2>6. ASSUME UNCHANGED <<flags, daemonReady, listener>>
          PROVE  ListenerFollowsGates'
      BY <2>1, <2>6 DEF ListenerFollowsGates
    <2>7. ASSUME NEW d \in Daemons,
                 \/ ConnectToDaemon(d) \/ DaemonConnected(d) \/ DaemonAnswers(d)
                 \/ ProxySavesList(d) \/ DaemonDisconnected(d) \/ DaemonListChanges(d)
          PROVE  ListenerFollowsGates'
      BY <2>6, <2>7 DEF ConnectToDaemon, DaemonConnected, DaemonAnswers, ProxySavesList,
                        DaemonDisconnected, DaemonListChanges, proxyVars
    <2>8. ASSUME NEW c \in Clients, ClientStep(c) \/ LinkBreaks(c)
          PROVE  ListenerFollowsGates'
      BY <2>6, <2>8 DEF ClientStep, ClientReady, ClientFluid, ClientGetsStatus, ClientConnects,
                        ProcessDisconnected, ClientAcknowledged, ClientSavesList, ProxyRegisters,
                        ProxyForwards, ProxyGetsQuery, LinkBreaks, proxyVars
    <2>9. CASE ListenerStep
      BY <2>6, <2>9 DEF ListenerStep, ProxyAccepts, ClientDisconnected, proxyVars
    <2>10. CASE UNCHANGED vars
      BY <2>6, <2>10 DEF vars, proxyVars
    <2>11. QED
      BY <2>1, <2>3, <2>4, <2>5, <2>7, <2>8, <2>9, <2>10 DEF Next, ProxyStep, DaemonStep, Fault
  <1>3. QED
    BY <1>1, <1>2, TypeCorrect, PTL DEF Spec

-----------------------------------------------------------------------------
(* Queues of messages, and the lists of contexts in them.                  *)

NoList(s) == \A k \in DOMAIN s : s[k].kind # "LIST"

\* the last list in the queue, if there is one, is version v
LastIs(s, v) ==
    \A k \in DOMAIN s :
        s[k].kind = "LIST" /\ (\A j \in DOMAIN s : j > k => s[j].kind # "LIST") => s[k].n = v

\* Where the messages of a queue are once its first one is gone.
LEMMA TailIndices ==
    ASSUME NEW s \in Seq(Messages), s # <<>>
    PROVE  /\ Len(s) \in Nat /\ Len(s) >= 1 /\ DOMAIN s = 1 .. Len(s) /\ Head(s) = s[1]
           /\ DOMAIN Tail(s) = 1 .. (Len(s) - 1)
           /\ \A k \in DOMAIN Tail(s) : k + 1 \in DOMAIN s /\ Tail(s)[k] = s[k + 1]
  <1>1. Len(s) \in Nat /\ Len(s) >= 1 /\ DOMAIN s = 1 .. Len(s)
    BY EmptySeq, LenProperties
  <1>2. /\ Tail(s) \in Seq(Messages) /\ Len(Tail(s)) = Len(s) - 1
        /\ \A k \in 1 .. (Len(s) - 1) : Tail(s)[k] = s[k + 1]
    BY HeadTailProperties
  <1>3. DOMAIN Tail(s) = 1 .. (Len(s) - 1)
    BY <1>2, LenProperties
  <1>4. QED
    BY <1>1, <1>2, <1>3

\* Where the messages of a queue are once there is one more.
LEMMA AppendIndices ==
    ASSUME NEW s \in Seq(Messages), NEW m \in Messages
    PROVE  /\ Len(s) \in Nat /\ DOMAIN s = 1 .. Len(s)
           /\ DOMAIN Append(s, m) = 1 .. (Len(s) + 1)
           /\ \A k \in DOMAIN s : Append(s, m)[k] = s[k]
           /\ Append(s, m)[Len(s) + 1] = m
  <1>1. /\ Append(s, m) \in Seq(Messages) /\ Len(Append(s, m)) = Len(s) + 1
        /\ \A k \in 1 .. Len(s) : Append(s, m)[k] = s[k]
        /\ Append(s, m)[Len(s) + 1] = m
    BY AppendProperties
  <1>2. QED
    BY <1>1, LenProperties

\* An answer at the end of the queue does not change its lists.
LEMMA AppendOther ==
    ASSUME NEW s \in Seq(Messages), NEW m \in Messages, m.kind # "LIST", NEW v
    PROVE  /\ NoList(Append(s, m)) => NoList(s)
           /\ LastIs(s, v) => LastIs(Append(s, m), v)
  <1> DEFINE t == Append(s, m)
  <1>1. /\ Len(s) \in Nat /\ DOMAIN s = 1 .. Len(s) /\ DOMAIN t = 1 .. (Len(s) + 1)
        /\ \A k \in DOMAIN s : t[k] = s[k]
        /\ t[Len(s) + 1] = m
    BY AppendIndices
  <1> HIDE DEF t
  <1>2. \A k \in DOMAIN s : k \in DOMAIN t
    BY <1>1
  <1>3. \A k \in DOMAIN t : k \in DOMAIN s \/ k = Len(s) + 1
    BY <1>1
  <1>4. NoList(t) => NoList(s)
    BY <1>1, <1>2 DEF NoList
  <1>5. ASSUME LastIs(s, v)
        PROVE  LastIs(t, v)
    <2>1. SUFFICES ASSUME NEW k \in DOMAIN t, t[k].kind = "LIST",
                          \A j \in DOMAIN t : j > k => t[j].kind # "LIST"
                   PROVE  t[k].n = v
      BY DEF LastIs
    <2>2. k \in DOMAIN s
      BY <1>1, <1>3, <2>1
    <2>3. \A j \in DOMAIN s : j > k => s[j].kind # "LIST"
      BY <1>1, <1>2, <2>1
    <2>4. QED
      BY <1>1, <1>5, <2>1, <2>2, <2>3 DEF LastIs
  <1>6. QED
    BY <1>4, <1>5 DEF t

\* A list at the end of the queue is its last one.
LEMMA AppendList ==
    ASSUME NEW s \in Seq(Messages), NEW m \in Messages, m.kind = "LIST"
    PROVE  ~NoList(Append(s, m)) /\ LastIs(Append(s, m), m.n)
  <1> DEFINE t == Append(s, m)
  <1>1. /\ Len(s) \in Nat /\ DOMAIN t = 1 .. (Len(s) + 1) /\ t[Len(s) + 1] = m
    BY AppendIndices
  <1> HIDE DEF t
  <1>2. Len(s) + 1 \in DOMAIN t /\ \A k \in DOMAIN t : k = Len(s) + 1 \/ Len(s) + 1 > k
    BY <1>1
  <1>3. ~NoList(t)
    BY <1>1, <1>2 DEF NoList
  <1>4. LastIs(t, m.n)
    BY <1>1, <1>2 DEF LastIs
  <1>5. QED
    BY <1>3, <1>4 DEF t

\* The lists of a queue without its first message.
LEMMA TailLists ==
    ASSUME NEW s \in Seq(Messages), s # <<>>, NEW v, LastIs(s, v)
    PROVE  /\ LastIs(Tail(s), v)
           /\ Head(s).kind # "LIST" /\ NoList(Tail(s)) => NoList(s)
           /\ Head(s).kind = "LIST" /\ NoList(Tail(s)) => Head(s).n = v
  <1> DEFINE t == Tail(s)
  <1>1. /\ Len(s) \in Nat /\ Len(s) >= 1 /\ DOMAIN s = 1 .. Len(s) /\ Head(s) = s[1]
        /\ DOMAIN t = 1 .. (Len(s) - 1)
        /\ \A k \in DOMAIN t : k + 1 \in DOMAIN s /\ t[k] = s[k + 1]
    BY TailIndices
  <1> HIDE DEF t
  <1>2. \A k \in DOMAIN s : k = 1 \/ (k - 1 \in DOMAIN t /\ t[k - 1] = s[k])
    BY <1>1
  <1>3. LastIs(t, v)
    <2>1. SUFFICES ASSUME NEW k \in DOMAIN t, t[k].kind = "LIST",
                          \A j \in DOMAIN t : j > k => t[j].kind # "LIST"
                   PROVE  t[k].n = v
      BY DEF LastIs
    <2>2. \A j \in DOMAIN s : j > k + 1 => s[j].kind # "LIST"
      <3>1. SUFFICES ASSUME NEW j \in DOMAIN s, j > k + 1
                     PROVE  s[j].kind # "LIST"
        OBVIOUS
      <3>2. j - 1 \in DOMAIN t /\ t[j - 1] = s[j] /\ j - 1 > k
        BY <1>1, <1>2, <3>1
      <3>3. QED
        BY <2>1, <3>2
    <2>3. k + 1 \in DOMAIN s /\ s[k + 1] = t[k]
      BY <1>1
    <2>4. QED
      BY <2>1, <2>2, <2>3 DEF LastIs
  <1>4. Head(s).kind # "LIST" /\ NoList(t) => NoList(s)
    BY <1>1, <1>2 DEF NoList
  <1>5. ASSUME Head(s).kind = "LIST", NoList(t)
        PROVE  Head(s).n = v
    <2>1. \A j \in DOMAIN s : j > 1 => s[j].kind # "LIST"
      BY <1>1, <1>2, <1>5 DEF NoList
    <2>2. 1 \in DOMAIN s
      BY <1>1
    <2>3. QED
      BY <1>1, <1>5, <2>1, <2>2 DEF LastIs
  <1>6. QED
    BY <1>3, <1>4, <1>5 DEF t

-----------------------------------------------------------------------------
(* The connections of the clients.                                         *)

\* What the proxy and a client agree on: messages travel on live connections the
\* proxy knows; on the first connection the list which comes last, on its way or
\* in the client, is the one of the proxy.
Connection(c) ==
    /\ toClient[c] # <<>> => Live(c) /\ Current(c) \in refs
    /\ Live(c) /\ Current(c) \in accepted => Current(c) \in refs
    /\ \A n \in expect[c] : n <= count[c]
    /\ conn[c] = "up" => count[c] \in expect[c]
    /\ expect[c] = {} => clientList[c] = 0
    /\ Live(c) /\ expect[c] = {count[c]} =>
          /\ LastIs(toClient[c], proxyList)
          /\ clientList[c] # 0 => Current(c) \in refs
          /\ NoList(toClient[c]) /\ clientList[c] # 0 => clientList[c] = proxyList

AcceptedWasMade == \A k \in accepted : k[2] <= count[k[1]]

LinkInv == AcceptedWasMade /\ \A c \in Clients : Connection(c)

\* A step which leaves the connection of a client alone.
LEMMA ConnectionKept ==
    ASSUME NEW c \in Clients, Connection(c),
           conn'[c] = conn[c], count'[c] = count[c], expect'[c] = expect[c],
           clientList'[c] = clientList[c], toClient'[c] = toClient[c], proxyList' = proxyList,
           Current(c) \in broken' <=> Current(c) \in broken,
           Live(c) /\ Current(c) \in refs => Current(c) \in refs',
           Current(c) \in accepted' => Current(c) \in accepted
    PROVE  Connection(c)'
  <1>1. Current(c)' = Current(c) /\ Live(c)' = Live(c)
    BY DEF Current, Live
  <1>2. /\ LastIs(toClient[c], proxyList)' = LastIs(toClient[c], proxyList)
        /\ NoList(toClient[c])' = NoList(toClient[c])
    BY DEF LastIs, NoList
  <1>3. QED
    BY <1>1, <1>2 DEF Connection

\* A step on the last connection of one client leaves the other clients alone.
LEMMA OthersKept ==
    ASSUME TypeOK, NEW c \in Clients, NEW e \in Clients, e # c, Connection(e),
           conn'[e] = conn[e], count'[e] = count[e], expect'[e] = expect[e],
           clientList'[e] = clientList[e], toClient'[e] = toClient[e], proxyList' = proxyList,
           broken' = broken \/ broken' = broken \union {Current(c)},
           refs' = refs,
           accepted' = accepted \/ accepted' = accepted \union {Current(c)}
    PROVE  Connection(e)'
  <1>1. Current(e) # Current(c)
    BY CurrentType
  <1>2. QED
    BY <1>1, ConnectionKept

\* The types of one client.
LEMMA ClientType ==
    ASSUME TypeOK, NEW c \in Clients
    PROVE  /\ conn[c] \in {"none", "timer", "up"} /\ count[c] \in Nat /\ expect[c] \subseteq Nat
           /\ clientList[c] \in Nat /\ proxyList \in Nat
           /\ toClient[c] \in Seq(Messages) /\ toProxy[c] \in Seq(Messages)
  BY DEF TypeOK

\* The queue of a connection without messages has no list.
LEMMA EmptyLists ==
    \A v : NoList(<<>>) /\ LastIs(<<>>, v)
  BY DEF NoList, LastIs

\* No connection is made or accepted.
LEMMA AcceptedKept ==
    ASSUME AcceptedWasMade, count' = count, accepted' = accepted
    PROVE  AcceptedWasMade'
  BY DEF AcceptedWasMade

\* start_binary_connection() keeps it.
LEMMA StartBinaryConnectionLink ==
    ASSUME TypeOK, LinkInv, NEW c \in Clients, StartBinaryConnection(c),
           refs' = refs, accepted' = accepted, proxyList' = proxyList
    PROVE  LinkInv'
  <1> DEFINE drop == ~IsProxyReady(c)
  <1> DEFINE create == ~drop /\ conn[c] = "none"
  <1>1. /\ conn' = [conn EXCEPT ![c] = IF drop THEN "none" ELSE IF create THEN "timer" ELSE @]
        /\ expect' = [expect EXCEPT ![c] = IF drop \/ create THEN {} ELSE @]
        /\ clientList' = [clientList EXCEPT ![c] = IF drop \/ create THEN 0 ELSE @]
        /\ broken' = IF drop /\ conn[c] = "up" THEN broken \union {Current(c)} ELSE broken
        /\ toClient' = [toClient EXCEPT ![c] = IF drop THEN <<>> ELSE @]
        /\ count' = count
    BY DEF StartBinaryConnection
  <1>2. create => conn[c] = "none" /\ ~drop
    OBVIOUS
  <1> HIDE DEF drop, create
  <1>3. /\ conn \in [Clients -> {"none", "timer", "up"}] /\ expect \in [Clients -> SUBSET Nat]
        /\ clientList \in [Clients -> Nat] /\ toClient \in [Clients -> Seq(Messages)]
    BY DEF TypeOK
  <1>4. \A e \in Clients : Connection(e)
    BY DEF LinkInv
  <1>5. ASSUME NEW e \in Clients, e # c
        PROVE  Connection(e)'
    <2>1. /\ conn'[e] = conn[e] /\ count'[e] = count[e] /\ expect'[e] = expect[e]
          /\ clientList'[e] = clientList[e] /\ toClient'[e] = toClient[e]
      BY <1>1, <1>3, <1>5
    <2>2. broken' = broken \/ broken' = broken \union {Current(c)}
      BY <1>1
    <2>3. QED
      BY <1>4, <1>5, <2>1, <2>2, OthersKept
  <1>6. Connection(c)'
    <2>1. CASE drop
      <3>1. /\ conn'[c] = "none" /\ toClient'[c] = <<>> /\ expect'[c] = {} /\ clientList'[c] = 0
        BY <1>1, <1>3, <2>1
      <3>2. QED
        BY <3>1 DEF Connection, Live
    <2>2. CASE create
      <3>1. conn[c] = "none" /\ ~drop
        BY <1>2, <2>2
      <3>2. toClient[c] = <<>>
        BY <1>4, <3>1 DEF Connection, Live
      <3>3. /\ conn'[c] = "timer" /\ toClient'[c] = <<>> /\ expect'[c] = {} /\ clientList'[c] = 0
        BY <1>1, <1>3, <2>2, <3>1, <3>2
      <3>4. QED
        BY <3>3 DEF Connection, Live
    <2>3. CASE ~drop /\ ~create
      <3>1. /\ conn'[c] = conn[c] /\ count'[c] = count[c] /\ expect'[c] = expect[c]
            /\ clientList'[c] = clientList[c] /\ toClient'[c] = toClient[c] /\ broken' = broken
        BY <1>1, <1>3, <2>3
      <3>2. QED
        BY <1>4, <3>1, ConnectionKept
    <2>4. QED
      BY <2>1, <2>2, <2>3
  <1>7. AcceptedWasMade'
    BY <1>1, AcceptedKept DEF LinkInv
  <1>8. QED
    BY <1>5, <1>6, <1>7 DEF LinkInv

\* A connection which is made: it has no message, and its REG is the only one
\* which is expected unless an earlier connection registered.
LEMMA ClientConnectsLink ==
    ASSUME TypeOK, LinkInv, NEW c \in Clients, ClientConnects(c)
    PROVE  LinkInv'
  <1>1. /\ conn[c] = "timer" /\ conn' = [conn EXCEPT ![c] = "up"]
        /\ count' = [count EXCEPT ![c] = @ + 1]
        /\ expect' = [expect EXCEPT ![c] = @ \union {count'[c]}]
        /\ refs' = refs /\ accepted' = accepted /\ clientList' = clientList
        /\ toClient' = toClient /\ broken' = broken /\ proxyList' = proxyList
    BY DEF ClientConnects, proxyVars
  <1>2. /\ conn \in [Clients -> {"none", "timer", "up"}] /\ expect \in [Clients -> SUBSET Nat]
        /\ count \in [Clients -> Nat] /\ accepted \subseteq Clients \X Nat
    BY DEF TypeOK
  <1>3. \A e \in Clients : Connection(e)
    BY DEF LinkInv
  <1>4. ASSUME NEW e \in Clients, e # c
        PROVE  Connection(e)'
    <2>1. conn'[e] = conn[e] /\ count'[e] = count[e] /\ expect'[e] = expect[e]
      BY <1>1, <1>2, <1>4
    <2>2. QED
      BY <1>1, <1>3, <1>4, <2>1, OthersKept
  <1>5. /\ count[c] \in Nat /\ count'[c] = count[c] + 1 /\ expect'[c] = expect[c] \union {count'[c]}
        /\ conn'[c] = "up" /\ expect[c] \subseteq Nat
    BY <1>1, <1>2
  <1>6. toClient[c] = <<>> /\ \A n \in expect[c] : n <= count[c]
    BY <1>1, <1>3 DEF Connection, Live
  <1>7. Current(c)' \notin accepted'
    <2>1. Current(c)' = <<c, count[c] + 1>>
      BY <1>5 DEF Current
    <2>2. <<c, count[c] + 1>> \notin accepted
      <3>1. \A k \in accepted : k[2] <= count[k[1]]
        BY DEF LinkInv, AcceptedWasMade
      <3>2. QED
        BY <1>5, <3>1
    <2>3. QED
      BY <1>1, <2>1, <2>2
  <1>8. \A n \in expect'[c] : n <= count'[c]
    BY <1>5, <1>6
  <1>9. expect'[c] = {count'[c]} => clientList'[c] = 0
    <2>1. SUFFICES ASSUME expect'[c] = {count'[c]}
                   PROVE  clientList[c] = 0
      BY <1>1
    <2>2. expect[c] = {}
      <3>1. \A n \in expect[c] : n = count[c] + 1 /\ n <= count[c]
        BY <1>5, <1>6, <2>1
      <3>2. QED
        BY <1>5, <3>1
    <2>3. QED
      BY <1>3, <2>2 DEF Connection
  <1>10. Connection(c)'
    <2>1. LastIs(toClient[c], proxyList)'
      BY <1>1, <1>6 DEF LastIs
    <2>2. QED
      BY <1>1, <1>5, <1>6, <1>7, <1>8, <1>9, <2>1 DEF Connection
  <1>11. AcceptedWasMade'
    <2>1. SUFFICES ASSUME NEW k \in accepted
                   PROVE  k[2] <= count'[k[1]]
      BY <1>1 DEF AcceptedWasMade
    <2>2. k[2] <= count[k[1]] /\ k[1] \in Clients /\ k[2] \in Nat
      BY <1>2 DEF LinkInv, AcceptedWasMade
    <2>3. count[k[1]] \in Nat /\ count'[k[1]] \in {count[k[1]], count[k[1]] + 1}
      BY <1>1, <1>2, <2>2
    <2>4. QED
      BY <2>2, <2>3
  <1>12. QED
    BY <1>4, <1>10, <1>11 DEF LinkInv

\* The end of a connection, on either side: nothing is on its way any more.
LEMMA ClientLosesLink ==
    ASSUME TypeOK, LinkInv, NEW c \in Clients, LinkBreaks(c) \/ ProcessDisconnected(c)
    PROVE  LinkInv'
  <1>1. /\ refs' = refs /\ accepted' = accepted /\ clientList' = clientList /\ expect' = expect
        /\ proxyList' = proxyList /\ count' = count
        /\ \/ /\ conn' = conn /\ broken' = broken \union {Current(c)}
              /\ toClient' = [toClient EXCEPT ![c] = <<>>]
           \/ /\ conn[c] = "up" /\ Current(c) \in broken
              /\ conn' = [conn EXCEPT ![c] = "timer"]
              /\ toClient' = toClient /\ broken' = broken
    BY DEF LinkBreaks, ProcessDisconnected, proxyVars, listenVars, clientVars, linkVars
  <1>2. conn \in [Clients -> {"none", "timer", "up"}] /\ toClient \in [Clients -> Seq(Messages)]
    BY DEF TypeOK
  <1>3. \A e \in Clients : Connection(e)
    BY DEF LinkInv
  <1>4. ASSUME NEW e \in Clients, e # c
        PROVE  Connection(e)'
    <2>1. conn'[e] = conn[e] /\ toClient'[e] = toClient[e]
      BY <1>1, <1>2, <1>4
    <2>2. QED
      BY <1>1, <1>3, <1>4, <2>1, OthersKept
  <1>5. Connection(c)'
    <2>1. toClient'[c] = <<>>
      BY <1>1, <1>2, <1>3 DEF Connection, Live
    <2>2. ~Live(c)' /\ (conn'[c] = "up" => conn[c] = "up")
      BY <1>1, <1>2 DEF Live, Current
    <2>3. QED
      BY <1>1, <1>3, <2>1, <2>2 DEF Connection
  <1>6. QED
    BY <1>1, <1>4, <1>5, AcceptedKept DEF LinkInv

\* A client reads a message: what it has then is what the queue said.
LEMMA ClientReadsLink ==
    ASSUME TypeOK, LinkInv, NEW c \in Clients, ClientAcknowledged(c) \/ ClientSavesList(c)
    PROVE  LinkInv'
  <1> DEFINE m == Head(toClient[c])
  <1>1. /\ refs' = refs /\ accepted' = accepted /\ expect' = expect /\ conn' = conn
        /\ proxyList' = proxyList /\ count' = count /\ broken' = broken
        /\ toClient[c] # <<>> /\ Live(c)
        /\ toClient' = [toClient EXCEPT ![c] = Tail(@)]
        /\ \/ m.kind # "LIST" /\ clientList' = clientList
           \/ m.kind = "LIST" /\ clientList' = [clientList EXCEPT ![c] = m.n]
    BY DEF ClientAcknowledged, ClientSavesList, proxyVars, listenVars
  <1>2. clientList \in [Clients -> Nat] /\ toClient \in [Clients -> Seq(Messages)]
    BY DEF TypeOK
  <1>3. \A e \in Clients : Connection(e)
    BY DEF LinkInv
  <1> HIDE DEF m
  <1>4. ASSUME NEW e \in Clients, e # c
        PROVE  Connection(e)'
    <2>1. clientList'[e] = clientList[e] /\ toClient'[e] = toClient[e]
      BY <1>1, <1>2, <1>4
    <2>2. QED
      BY <1>1, <1>3, <1>4, <2>1, OthersKept
  <1>5. Connection(c)'
    <2>1. /\ toClient[c] \in Seq(Messages) /\ toClient[c] # <<>> /\ toClient'[c] = Tail(toClient[c])
          /\ m.kind # "LIST" => clientList'[c] = clientList[c]
          /\ m.kind = "LIST" => clientList'[c] = m.n
      BY <1>1, <1>2
    <2>2. Current(c)' = Current(c) /\ Live(c)' = Live(c) /\ Current(c) \in refs'
      BY <1>1, <1>3 DEF Current, Live, Connection
    <2>3. expect[c] # {}
      BY <1>1, <1>3 DEF Connection, Live
    <2>4. ASSUME expect[c] = {count[c]}
          PROVE  /\ LastIs(toClient'[c], proxyList)
                 /\ NoList(toClient'[c]) /\ clientList'[c] # 0 => clientList'[c] = proxyList
      <3>1. /\ LastIs(toClient[c], proxyList)
            /\ NoList(toClient[c]) /\ clientList[c] # 0 => clientList[c] = proxyList
        BY <1>1, <1>3, <2>4 DEF Connection
      <3>2. /\ LastIs(Tail(toClient[c]), proxyList)
            /\ m.kind # "LIST" /\ NoList(Tail(toClient[c])) => NoList(toClient[c])
            /\ m.kind = "LIST" /\ NoList(Tail(toClient[c])) => m.n = proxyList
        BY <2>1, <3>1, TailLists DEF m
      <3>3. QED
        BY <2>1, <3>1, <3>2
    <2>5. LastIs(toClient[c], proxyList)' = LastIs(toClient'[c], proxyList)
      BY <1>1 DEF LastIs
    <2>6. NoList(toClient[c])' = NoList(toClient'[c])
      BY DEF NoList
    <2>7. QED
      BY <1>1, <1>3, <2>2, <2>3, <2>4, <2>5, <2>6 DEF Connection
  <1>6. QED
    BY <1>1, <1>4, <1>5, AcceptedKept DEF LinkInv

\* The proxy answers a REG.
LEMMA ProxyRegistersLink ==
    ASSUME TypeOK, LinkInv, NEW c \in Clients, ProxyRegisters(c)
    PROVE  LinkInv'
  <1>1. /\ refs' = refs /\ expect' = expect /\ conn' = conn /\ clientList' = clientList
        /\ proxyList' = proxyList /\ count' = count /\ broken' = broken
        /\ toProxy[c] # <<>> /\ Current(c) \in refs /\ Live(c)
    BY DEF ProxyRegisters, proxyVars, clientVars
  <1>2. Head(toProxy[c]) \in Messages
    BY <1>1, QueueTail DEF TypeOK
  <1>3. PICK m \in Messages :
            /\ m.kind # "LIST" /\ toClient' = [toClient EXCEPT ![c] = Append(@, m)]
            /\ accepted' = accepted \/ accepted' = accepted \union {Current(c)}
    <2>1. /\ Acknowledge(Head(toProxy[c])) \in Messages /\ ErrorMessage(Head(toProxy[c])) \in Messages
          /\ Acknowledge(Head(toProxy[c])).kind # "LIST" /\ ErrorMessage(Head(toProxy[c])).kind # "LIST"
      BY <1>2, MessageTypes, MessageContents
    <2>2. QED
      BY <2>1 DEF ProxyRegisters
  <1>4. toClient \in [Clients -> Seq(Messages)] /\ accepted \subseteq Clients \X Nat
    BY DEF TypeOK
  <1>5. \A e \in Clients : Connection(e)
    BY DEF LinkInv
  <1>6. ASSUME NEW e \in Clients, e # c
        PROVE  Connection(e)'
    <2>1. toClient'[e] = toClient[e]
      BY <1>3, <1>4, <1>6
    <2>2. QED
      BY <1>1, <1>3, <1>5, <1>6, <2>1, OthersKept
  <1>7. Connection(c)'
    <2>1. toClient[c] \in Seq(Messages) /\ toClient'[c] = Append(toClient[c], m)
      BY <1>3, <1>4
    <2>2. Current(c)' = Current(c) /\ Live(c)' = Live(c)
      BY <1>1 DEF Current, Live
    <2>3. ASSUME expect[c] = {count[c]}
          PROVE  /\ LastIs(toClient'[c], proxyList)
                 /\ NoList(toClient'[c]) /\ clientList[c] # 0 => clientList[c] = proxyList
      <3>1. /\ LastIs(toClient[c], proxyList)
            /\ NoList(toClient[c]) /\ clientList[c] # 0 => clientList[c] = proxyList
        BY <1>1, <1>5, <2>3 DEF Connection
      <3>2. QED
        BY <1>3, <2>1, <3>1, AppendOther
    <2>4. LastIs(toClient[c], proxyList)' = LastIs(toClient'[c], proxyList)
      BY <1>1 DEF LastIs
    <2>5. NoList(toClient[c])' = NoList(toClient'[c])
      BY DEF NoList
    <2>6. QED
      BY <1>1, <1>5, <2>2, <2>3, <2>4, <2>5 DEF Connection
  <1>8. AcceptedWasMade'
    <2>1. Current(c)[1] = c /\ Current(c)[2] = count[c] /\ count[c] \in Nat
      BY CurrentType, ClientType
    <2>2. QED
      BY <1>1, <1>3, <2>1 DEF LinkInv, AcceptedWasMade
  <1>9. QED
    BY <1>6, <1>7, <1>8 DEF LinkInv

\* The proxy accepts a connection, or forgets one which is cut.
LEMMA ListenerLink ==
    ASSUME TypeOK, LinkInv, NEW k, ProxyAccepts(k) \/ ClientDisconnected(k)
    PROVE  LinkInv'
  <1>1. /\ accepted' = accepted /\ expect' = expect /\ conn' = conn /\ clientList' = clientList
        /\ proxyList' = proxyList /\ count' = count /\ broken' = broken /\ toClient' = toClient
        /\ refs' = refs \union {k} \/ (k \in broken /\ refs' = refs \ {k})
    BY DEF ProxyAccepts, ClientDisconnected, proxyVars, clientVars, linkVars
  <1>2. ASSUME NEW c \in Clients
        PROVE  Connection(c)'
    <2>1. Connection(c)
      BY DEF LinkInv
    <2>2. Live(c) /\ Current(c) \in refs => Current(c) \in refs'
      BY <1>1 DEF Live
    <2>3. QED
      BY <1>1, <2>1, <2>2, ConnectionKept
  <1>3. QED
    BY <1>1, <1>2, AcceptedKept DEF LinkInv

\* The proxy has a list which differs from the one it had, or the same one.
LEMMA ProxySavesListLink ==
    ASSUME TypeOK, LinkInv, NEW d \in Daemons, ProxySavesList(d)
    PROVE  LinkInv'
  <1> DEFINE m == Head(fromDaemon[d])
  <1>1. /\ accepted' = accepted /\ expect' = expect /\ conn' = conn /\ clientList' = clientList
        /\ count' = count /\ broken' = broken /\ refs' = refs
        /\ fromDaemon[d] # <<>> /\ m.kind = "LIST" /\ proxyList' = m.n
        /\ \/ proxyList = m.n /\ toClient' = toClient
           \/ toClient' = [c \in Clients |-> IF Live(c) /\ Current(c) \in refs
                                             THEN Append(toClient[c], m) ELSE toClient[c]]
    BY DEF ProxySavesList, SendToAllClients, listenVars, clientVars
  <1>2. m \in Messages
    BY <1>1, QueueTail DEF TypeOK
  <1> HIDE DEF m
  <1>3. \A c \in Clients : Connection(c)
    BY DEF LinkInv
  <1>4. ASSUME NEW c \in Clients
        PROVE  Connection(c)'
    <2>1. CASE proxyList = m.n /\ toClient' = toClient
      BY <1>1, <1>3, <2>1, ConnectionKept
    <2>2. CASE toClient' = [e \in Clients |-> IF Live(e) /\ Current(e) \in refs
                                             THEN Append(toClient[e], m) ELSE toClient[e]]
      <3>1. Current(c)' = Current(c) /\ Live(c)' = Live(c)
        BY <1>1 DEF Current, Live
      <3>2. toClient[c] \in Seq(Messages)
        BY ClientType
      <3>3. LastIs(toClient[c], proxyList)' = LastIs(toClient'[c], m.n)
        BY <1>1 DEF LastIs
      <3>4. NoList(toClient[c])' = NoList(toClient'[c])
        BY DEF NoList
      <3>5. CASE Live(c) /\ Current(c) \in refs
        <4>1. toClient'[c] = Append(toClient[c], m)
          BY <2>2, <3>5
        <4>2. LastIs(toClient'[c], m.n) /\ ~NoList(toClient'[c])
          BY <1>1, <1>2, <3>2, <4>1, AppendList
        <4>3. QED
          BY <1>1, <1>3, <3>1, <3>3, <3>4, <3>5, <4>2 DEF Connection
      <3>6. CASE ~(Live(c) /\ Current(c) \in refs)
        <4>1. toClient'[c] = <<>> /\ toClient[c] = <<>>
          BY <1>3, <2>2, <3>6 DEF Connection
        <4>2. LastIs(toClient'[c], m.n)
          BY <4>1, EmptyLists
        <4>3. QED
          BY <1>1, <1>3, <3>1, <3>3, <3>6, <4>1, <4>2 DEF Connection
      <3>7. QED
        BY <3>5, <3>6
    <2>3. QED
      BY <1>1, <2>1, <2>2
  <1>5. QED
    BY <1>1, <1>4, AcceptedKept DEF LinkInv

\* The proxy restarts: every connection which was up is cut.
LEMMA ProxyRestartLink ==
    ASSUME TypeOK, LinkInv, ProxyRestart
    PROVE  LinkInv'
  <1>1. /\ accepted' = accepted /\ expect' = expect /\ conn' = conn /\ clientList' = clientList
        /\ count' = count /\ toClient' = [c \in Clients |-> <<>>]
        /\ broken' = broken \union {Current(c) : c \in {x \in Clients : conn[x] = "up"}}
    BY DEF ProxyRestart, clientVars
  <1>2. ASSUME NEW c \in Clients
        PROVE  Connection(c)'
    <2>1. Connection(c)
      BY DEF LinkInv
    <2>2. conn[c] = "up" => Current(c) \in broken'
      BY Zenon, <1>1
    <2>3. ~Live(c)'
      BY <1>1, <2>2 DEF Live, Current
    <2>4. toClient'[c] = <<>>
      BY <1>1
    <2>5. QED
      BY <1>1, <2>1, <2>3, <2>4 DEF Connection
  <1>3. QED
    BY <1>1, <1>2, AcceptedKept DEF LinkInv

\* The steps which leave every connection and every list of clients alone.
LEMMA ElsewhereLink ==
    ASSUME LinkInv, UNCHANGED <<refs, accepted, conn, count, expect, broken, toClient, proxyList,
                                clientList>>
    PROVE  LinkInv'
  <1>1. \A c \in Clients : Connection(c)'
    BY ConnectionKept DEF LinkInv
  <1>2. QED
    BY <1>1, AcceptedKept DEF LinkInv

\* Every step keeps the agreement.
LEMMA LinkStep == TypeOK /\ LinkInv /\ [Next]_vars => LinkInv'
  <1>1. SUFFICES ASSUME TypeOK, LinkInv, [Next]_vars
                 PROVE  LinkInv'
    OBVIOUS
  <1>2. ASSUME NEW g \in Gates, SetGate(g)
        PROVE  LinkInv'
    BY <1>1, <1>2, ElsewhereLink DEF SetGate, listenVars, clientVars, linkVars
  <1>3. ASSUME NEW d \in Daemons, DaemonStep(d) \/ DaemonDisconnected(d) \/ DaemonListChanges(d)
        PROVE  LinkInv'
    <2>1. CASE ProxySavesList(d)
      BY <1>1, <2>1, ProxySavesListLink
    <2>2. CASE ~ProxySavesList(d)
      BY <1>1, <1>3, <2>2, ElsewhereLink
         DEF DaemonStep, ConnectToDaemon, DaemonConnected, DaemonAnswers, ProxyGetsReply,
             DaemonDisconnected, DaemonListChanges, proxyVars, listenVars, clientVars, linkVars
    <2>3. QED
      BY <2>1, <2>2
  <1>4. ASSUME NEW c \in Clients, ClientFluid(c) \/ ClientGetsStatus(c)
        PROVE  LinkInv'
    <2>1. /\ refs' = refs /\ accepted' = accepted /\ proxyList' = proxyList
          /\ \/ StartBinaryConnection(c)
             \/ UNCHANGED <<conn, registered, expect, clientList, linkVars>>
      BY <1>4 DEF ClientFluid, ClientGetsStatus, SetProxyStatusAndAddress, proxyVars, listenVars
    <2>2. QED
      BY <1>1, <2>1, StartBinaryConnectionLink, ElsewhereLink DEF linkVars
  <1>5. ASSUME NEW c \in Clients, ClientReady(c) \/ ProxyForwards(c) \/ ProxyGetsQuery(c)
        PROVE  LinkInv'
    BY <1>1, <1>5, ElsewhereLink
       DEF ClientReady, ProxyForwards, ProxyGetsQuery, proxyVars, listenVars, clientVars, linkVars
  <1>6. CASE UNCHANGED vars
    BY <1>1, <1>6, ElsewhereLink DEF vars, proxyVars, listenVars, clientVars, linkVars
  <1>7. CASE Next
    BY <1>1, <1>2, <1>3, <1>4, <1>5, <1>7, ClientConnectsLink, ClientLosesLink, ClientReadsLink,
       ProxyRegistersLink, ListenerLink, ProxyRestartLink
       DEF Next, ProxyStep, ClientStep, ListenerStep, Fault
  <1>8. QED
    BY <1>1, <1>6, <1>7

\* The agreement holds in every state.
LEMMA LinkHolds == Spec => []LinkInv
  <1>1. Init => LinkInv
    <2>1. SUFFICES ASSUME Init
                   PROVE  LinkInv
      OBVIOUS
    <2>2. accepted = {}
      BY <2>1 DEF Init
    <2>3. ASSUME NEW c \in Clients
          PROVE  Connection(c)
      <3>1. conn[c] = "none" /\ expect[c] = {} /\ clientList[c] = 0 /\ toClient[c] = <<>>
        BY <2>1 DEF Init, ClientInit
      <3>2. QED
        BY <3>1 DEF Connection, Live
    <2>4. QED
      BY <2>2, <2>3 DEF LinkInv, AcceptedWasMade
  <1>2. QED
    BY <1>1, LinkStep, TypeCorrect, PTL DEF Spec

\* A client whose REG was acknowledged on its live connection stays in
\* f_client_connections: client_disconnected() of an older connection, however
\* late, and the accept of any other connection do not take it out.
THEOREM LiveIsReferencedHolds == Spec => []LiveIsReferenced
  <1>1. LinkInv => LiveIsReferenced
    BY DEF LinkInv, Connection, LiveIsReferenced
  <1>2. QED
    BY <1>1, LinkHolds, PTL

\* A client on its first connection, with a list and with nothing on its way, has
\* the list of the proxy: between its request and the broadcasts of
\* save_context_list() no change is lost, whatever the daemons, the other clients
\* and the faults do.
THEOREM BroadcastReachesHolds == Spec => []BroadcastReaches
  <1>1. TypeOK /\ LinkInv => BroadcastReaches
    <2>1. SUFFICES ASSUME TypeOK, LinkInv, NEW c \in Clients, Live(c), Cardinality(expect[c]) = 1,
                          clientList[c] # 0, toClient[c] = <<>>
                   PROVE  clientList[c] = proxyList
      BY DEF BroadcastReaches
    <2>2. Connection(c)
      BY <2>1 DEF LinkInv
    <2>3. expect[c] = {count[c]}
      <3>1. count[c] \in Nat /\ expect[c] \subseteq Nat
        BY <2>1, ClientType
      <3>2. \A n \in expect[c] : n <= count[c]
        BY <2>2 DEF Connection
      <3>3. expect[c] \subseteq 0 .. count[c]
        BY <3>1, <3>2
      <3>4. IsFiniteSet(expect[c])
        <4>1. IsFiniteSet(0 .. count[c])
          BY <3>1, FS_Interval
        <4>2. QED
          BY <3>3, <4>1, FS_Subset
      <3>5. count[c] \in expect[c]
        BY <2>1, <2>2 DEF Connection, Live
      <3>6. PICK x : expect[c] = {x}
        BY <2>1, <3>4, FS_Singleton
      <3>7. QED
        BY <3>5, <3>6
    <2>4. NoList(toClient[c])
      BY <2>1, EmptyLists
    <2>5. QED
      BY <2>1, <2>2, <2>3, <2>4 DEF Connection
  <1>2. QED
    BY <1>1, LinkHolds, TypeCorrect, PTL

-----------------------------------------------------------------------------
(* The order of the lists, with one daemon.                                *)

\* The versions of the list of contexts which are in a queue.
Lists(s) == {k \in DOMAIN s : s[k].kind = "LIST"}
Ordered(s) == \A j, k \in Lists(s) : j < k => s[j].n <= s[k].n
AtLeast(s, v) == \A k \in Lists(s) : v <= s[k].n
AtMost(s, v) == \A k \in Lists(s) : s[k].n <= v
Before(s, t) == \A j \in Lists(s) : \A k \in Lists(t) : s[j].n <= t[k].n

\* On the way from the daemon to a client the lists are older the further they
\* are: in its list, in the queue to the proxy, in the queue to the client, and
\* the one which the client has.
Chain(latest, f, q, v) ==
    /\ Ordered(f) /\ AtMost(f, latest)
    /\ Ordered(q) /\ AtMost(q, latest) /\ Before(q, f)
    /\ AtLeast(q, v) /\ AtLeast(f, v) /\ v <= latest

OrderInv ==
    \A d \in Daemons, c \in Clients :
        Chain(daemonList[d], fromDaemon[d], toClient[c], clientList[c])

\* the proxy has one daemon
OneDaemon == \E d : Daemons = {d}

\* The types of one daemon.
LEMMA DaemonType ==
    ASSUME TypeOK, NEW d \in Daemons
    PROVE  /\ daemonList[d] \in Nat /\ fromDaemon[d] \in Seq(Messages)
           /\ toDaemon[d] \in Seq(Messages)
  <1>1. daemonList \in [Daemons -> 1..MaxList] /\ MaxList \in Nat
    BY RegistrationAssumption DEF TypeOK
  <1>2. daemonList[d] \in Nat
    BY <1>1
  <1>3. QED
    BY <1>2 DEF TypeOK

\* The versions in a queue.
LEMMA ListNumbers ==
    ASSUME NEW s \in Seq(Messages), NEW k \in Lists(s)
    PROVE  s[k].n \in Nat /\ k \in Nat /\ k \in DOMAIN s /\ s[k].kind = "LIST"
  <1>1. DOMAIN s = 1 .. Len(s) /\ Len(s) \in Nat
    BY LenProperties
  <1>2. k \in DOMAIN s /\ s[k].kind = "LIST"
    BY DEF Lists
  <1>3. s[k] \in Messages
    BY <1>1, <1>2, ElementOfSeq
  <1>4. QED
    BY <1>1, <1>2, <1>3 DEF Messages

\* Each version of a queue without its first message was in it, later.
LEMMA TailList ==
    ASSUME NEW s \in Seq(Messages), s # <<>>, NEW k \in Lists(Tail(s))
    PROVE  k + 1 \in Lists(s) /\ Tail(s)[k] = s[k + 1] /\ k \in Nat /\ k >= 1
  BY TailIndices DEF Lists

\* The first message was the first.
LEMMA HeadList ==
    ASSUME NEW s \in Seq(Messages), s # <<>>, Head(s).kind = "LIST"
    PROVE  1 \in Lists(s) /\ Head(s) = s[1] /\ Head(s).n \in Nat
  <1>1. 1 \in Lists(s) /\ Head(s) = s[1]
    BY TailIndices DEF Lists
  <1>2. QED
    BY <1>1, ListNumbers

\* Each version of a queue with one more message was in it, or is the new one.
LEMMA AppendVersion ==
    ASSUME NEW s \in Seq(Messages), NEW m \in Messages, NEW k \in Lists(Append(s, m))
    PROVE  /\ Len(s) \in Nat /\ DOMAIN s = 1 .. Len(s)
           /\ \/ k \in Lists(s) /\ Append(s, m)[k] = s[k]
              \/ k = Len(s) + 1 /\ m.kind = "LIST" /\ Append(s, m)[k] = m
  BY AppendIndices DEF Lists

\* A queue without its first message is as ordered.
LEMMA OrderedTail ==
    ASSUME NEW s \in Seq(Messages), s # <<>>, Ordered(s)
    PROVE  /\ Ordered(Tail(s))
           /\ Head(s).kind = "LIST" => AtLeast(Tail(s), Head(s).n)
  <1>1. Ordered(Tail(s))
    <2>1. SUFFICES ASSUME NEW j \in Lists(Tail(s)), NEW k \in Lists(Tail(s)), j < k
                   PROVE  Tail(s)[j].n <= Tail(s)[k].n
      BY DEF Ordered
    <2>2. /\ j + 1 \in Lists(s) /\ Tail(s)[j] = s[j + 1] /\ j \in Nat
          /\ k + 1 \in Lists(s) /\ Tail(s)[k] = s[k + 1] /\ k \in Nat
      BY TailList
    <2>3. j + 1 < k + 1
      BY <2>1, <2>2
    <2>4. QED
      BY <2>2, <2>3 DEF Ordered
  <1>2. ASSUME Head(s).kind = "LIST", NEW k \in Lists(Tail(s))
        PROVE  Head(s).n <= Tail(s)[k].n
    <2>1. k + 1 \in Lists(s) /\ Tail(s)[k] = s[k + 1] /\ k \in Nat /\ k >= 1
      BY TailList
    <2>2. 1 \in Lists(s) /\ Head(s) = s[1] /\ 1 < k + 1
      BY <1>2, <2>1, HeadList
    <2>3. QED
      BY <2>1, <2>2 DEF Ordered
  <1>3. QED
    BY <1>1, <1>2 DEF AtLeast

\* What holds of the versions of a queue holds without the first of them.
LEMMA BoundsTail ==
    ASSUME NEW s \in Seq(Messages), s # <<>>
    PROVE  /\ \A v : AtLeast(s, v) => AtLeast(Tail(s), v)
           /\ \A v : AtMost(s, v) => AtMost(Tail(s), v)
           /\ \A t : Before(s, t) => Before(Tail(s), t)
           /\ \A t : Before(t, s) => Before(t, Tail(s))
  <1>1. \A k \in Lists(Tail(s)) : k + 1 \in Lists(s) /\ Tail(s)[k] = s[k + 1]
    BY TailList
  <1>2. QED
    BY <1>1 DEF AtLeast, AtMost, Before

\* An answer at the end of a queue changes nothing of it.
LEMMA AppendNoVersion ==
    ASSUME NEW s \in Seq(Messages), NEW m \in Messages, m.kind # "LIST"
    PROVE  /\ Ordered(s) => Ordered(Append(s, m))
           /\ \A v : AtLeast(s, v) => AtLeast(Append(s, m), v)
           /\ \A v : AtMost(s, v) => AtMost(Append(s, m), v)
           /\ \A t : Before(s, t) => Before(Append(s, m), t)
           /\ \A t : Before(t, s) => Before(t, Append(s, m))
  <1>1. \A k \in Lists(Append(s, m)) : k \in Lists(s) /\ Append(s, m)[k] = s[k]
    BY AppendVersion
  <1>2. QED
    BY <1>1 DEF Ordered, AtLeast, AtMost, Before

\* A version which is not older than the others at the end of a queue.
LEMMA AppendNewest ==
    ASSUME NEW s \in Seq(Messages), NEW m \in Messages, m.kind = "LIST", AtMost(s, m.n)
    PROVE  /\ Ordered(s) => Ordered(Append(s, m))
           /\ \A v : AtLeast(s, v) /\ v <= m.n => AtLeast(Append(s, m), v)
           /\ \A v : AtMost(s, v) /\ m.n <= v => AtMost(Append(s, m), v)
           /\ \A t : Before(s, t) /\ AtLeast(t, m.n) => Before(Append(s, m), t)
           /\ \A t : Before(t, s) /\ AtMost(t, m.n) => Before(t, Append(s, m))
  <1> DEFINE a == Append(s, m)
  <1>1. \A k \in Lists(a) : \/ k \in Lists(s) /\ a[k] = s[k]
                            \/ k = Len(s) + 1 /\ a[k] = m
    BY AppendVersion
  <1>2. ASSUME Ordered(s), NEW j \in Lists(a), NEW k \in Lists(a), j < k
        PROVE  a[j].n <= a[k].n
    <2>1. /\ Len(s) \in Nat /\ DOMAIN s = 1 .. Len(s)
          /\ \/ j \in Lists(s) /\ a[j] = s[j]
             \/ j = Len(s) + 1 /\ a[j] = m
          /\ \/ k \in Lists(s) /\ a[k] = s[k]
             \/ k = Len(s) + 1 /\ a[k] = m
      BY AppendVersion
    <2>2. j \in Lists(s) /\ a[j] = s[j]
      <3>1. k \in Nat /\ k <= Len(s) + 1
        BY <2>1 DEF Lists
      <3>2. j # Len(s) + 1
        BY <1>2, <2>1, <3>1
      <3>3. QED
        BY <2>1, <3>2
    <2>3. QED
      BY <1>2, <2>1, <2>2 DEF Ordered, AtMost
  <1> HIDE DEF a
  <1>3. Ordered(s) => Ordered(a)
    BY <1>2 DEF Ordered
  <1>4. /\ \A v : AtLeast(s, v) /\ v <= m.n => AtLeast(a, v)
        /\ \A v : AtMost(s, v) /\ m.n <= v => AtMost(a, v)
    BY <1>1 DEF AtLeast, AtMost
  <1>5. /\ \A t : Before(s, t) /\ AtLeast(t, m.n) => Before(a, t)
        /\ \A t : Before(t, s) /\ AtMost(t, m.n) => Before(t, a)
    BY <1>1 DEF AtLeast, AtMost, Before
  <1>6. QED
    BY <1>3, <1>4, <1>5 DEF a

\* Nothing is in an empty queue.
LEMMA OrderedEmpty ==
    /\ Ordered(<<>>)
    /\ \A v : AtLeast(<<>>, v) /\ AtMost(<<>>, v)
    /\ \A t : Before(<<>>, t) /\ Before(t, <<>>)
  <1>1. Lists(<<>>) = {}
    BY DEF Lists
  <1>2. QED
    BY <1>1 DEF Ordered, AtLeast, AtMost, Before

\* A list of the daemon which is newer, and a connection which is lost.
LEMMA ChainEnds ==
    ASSUME NEW latest \in Nat, NEW f \in Seq(Messages), NEW q \in Seq(Messages), NEW v \in Nat,
           Chain(latest, f, q, v)
    PROVE  /\ Chain(latest + 1, f, q, v)
           /\ Chain(latest, <<>>, q, v) /\ Chain(latest, f, <<>>, v)
           /\ Chain(latest, f, <<>>, 0) /\ Chain(latest, f, q, 0)
           /\ Chain(latest, <<>>, <<>>, v)
  <1>1. /\ \A k \in Lists(f) : f[k].n \in Nat
        /\ \A k \in Lists(q) : q[k].n \in Nat
    BY ListNumbers
  <1>2. AtMost(f, latest + 1) /\ AtMost(q, latest + 1) /\ v <= latest + 1
    BY <1>1 DEF Chain, AtMost
  <1>3. AtLeast(f, 0) /\ AtLeast(q, 0) /\ 0 <= latest
    BY <1>1 DEF AtLeast
  <1>4. QED
    BY <1>2, <1>3, OrderedEmpty DEF Chain

\* The daemon answers, and the proxy answers a client: no list, or the latest.
LEMMA ChainAnswer ==
    ASSUME NEW latest \in Nat, NEW f \in Seq(Messages), NEW q \in Seq(Messages), NEW v \in Nat,
           Chain(latest, f, q, v), NEW m \in Messages
    PROVE  /\ m.kind # "LIST" => Chain(latest, Append(f, m), q, v) /\ Chain(latest, f, Append(q, m), v)
           /\ m.kind = "LIST" /\ m.n = latest => Chain(latest, Append(f, m), q, v)
  <1>1. m.kind # "LIST" => Chain(latest, Append(f, m), q, v)
    BY AppendNoVersion DEF Chain
  <1>2. m.kind # "LIST" => Chain(latest, f, Append(q, m), v)
    BY AppendNoVersion DEF Chain
  <1>3. ASSUME m.kind = "LIST", m.n = latest
        PROVE  Chain(latest, Append(f, m), q, v)
    <2>1. AtMost(f, m.n) /\ AtMost(q, m.n) /\ v <= m.n /\ m.n <= latest
      BY <1>3 DEF Chain
    <2>2. QED
      BY <1>3, <2>1, AppendNewest DEF Chain
  <1>4. QED
    BY <1>1, <1>2, <1>3

\* The proxy takes a message of the daemon, and sends it to the client if it is a
\* list.
LEMMA ChainForward ==
    ASSUME NEW latest \in Nat, NEW f \in Seq(Messages), NEW q \in Seq(Messages), NEW v \in Nat,
           Chain(latest, f, q, v), f # <<>>
    PROVE  /\ Chain(latest, Tail(f), q, v)
           /\ Head(f).kind = "LIST" => Chain(latest, Tail(f), Append(q, Head(f)), v)
  <1>1. Chain(latest, Tail(f), q, v)
    BY BoundsTail, OrderedTail DEF Chain
  <1>2. ASSUME Head(f).kind = "LIST"
        PROVE  Chain(latest, Tail(f), Append(q, Head(f)), v)
    <2>1. 1 \in Lists(f) /\ Head(f) = f[1]
      BY <1>2, HeadList
    <2>2. AtMost(q, Head(f).n) /\ v <= Head(f).n /\ Head(f).n <= latest
      BY <2>1 DEF Chain, Before, AtMost, AtLeast
    <2>3. AtLeast(Tail(f), Head(f).n)
      BY <1>2, OrderedTail DEF Chain
    <2>4. Head(f) \in Messages
      BY HeadTailProperties
    <2>5. QED
      BY <1>1, <1>2, <2>2, <2>3, <2>4, AppendNewest DEF Chain
  <1>3. QED
    BY <1>1, <1>2

\* The client takes a message of the proxy, and keeps it if it is a list.
LEMMA ChainRead ==
    ASSUME NEW latest \in Nat, NEW f \in Seq(Messages), NEW q \in Seq(Messages), NEW v \in Nat,
           Chain(latest, f, q, v), q # <<>>
    PROVE  /\ Chain(latest, f, Tail(q), v)
           /\ Head(q).kind = "LIST" => v <= Head(q).n /\ Chain(latest, f, Tail(q), Head(q).n)
  <1>1. Chain(latest, f, Tail(q), v)
    BY BoundsTail, OrderedTail DEF Chain
  <1>2. ASSUME Head(q).kind = "LIST"
        PROVE  v <= Head(q).n /\ Chain(latest, f, Tail(q), Head(q).n)
    <2>1. 1 \in Lists(q) /\ Head(q) = q[1]
      BY <1>2, HeadList
    <2>2. AtLeast(f, Head(q).n) /\ v <= Head(q).n /\ Head(q).n <= latest
      BY <2>1 DEF Chain, Before, AtMost, AtLeast
    <2>3. AtLeast(Tail(q), Head(q).n)
      BY <1>2, OrderedTail DEF Chain
    <2>4. QED
      BY <1>1, <2>2, <2>3 DEF Chain
  <1>3. QED
    BY <1>1, <1>2

\* The steps of the daemon keep the order.
LEMMA DaemonOrder ==
    ASSUME TypeOK, OrderInv, NEW d \in Daemons,
           DaemonAnswers(d) \/ DaemonListChanges(d) \/ DaemonDisconnected(d)
    PROVE  OrderInv'
  <1>1. toClient' = toClient /\ clientList' = clientList
    BY DEF DaemonAnswers, DaemonListChanges, DaemonDisconnected, clientVars, linkVars
  <1>2. /\ fromDaemon \in [Daemons -> Seq(Messages)] /\ daemonList \in [Daemons -> 1..MaxList]
    BY DEF TypeOK
  <1>3. SUFFICES ASSUME NEW e \in Daemons, NEW c \in Clients
                 PROVE  Chain(daemonList'[e], fromDaemon'[e], toClient[c], clientList[c])
    BY <1>1 DEF OrderInv
  <1>4. Chain(daemonList[e], fromDaemon[e], toClient[c], clientList[c])
    BY DEF OrderInv
  <1>5. /\ daemonList[e] \in Nat /\ fromDaemon[e] \in Seq(Messages)
        /\ toClient[c] \in Seq(Messages) /\ clientList[c] \in Nat
    BY DaemonType, ClientType
  <1>6. CASE e # d
    <2>1. daemonList'[e] = daemonList[e] /\ fromDaemon'[e] = fromDaemon[e]
      BY <1>2, <1>6 DEF DaemonAnswers, DaemonListChanges, DaemonDisconnected
    <2>2. QED
      BY <1>4, <2>1
  <1>7. CASE e = d /\ DaemonAnswers(d)
    <2>1. PICK m : /\ \/ m = ListMessage(daemonList[d])
                      \/ m = Acknowledge(Head(toDaemon[d])) \/ m = ErrorMessage(Head(toDaemon[d]))
                   /\ fromDaemon' = [fromDaemon EXCEPT ![d] = Append(@, m)]
      BY <1>7 DEF DaemonAnswers
    <2>2. Head(toDaemon[d]) \in Messages
      BY <1>7, QueueTail DEF DaemonAnswers, TypeOK
    <2>3. m \in Messages /\ (m.kind = "LIST" => m.n = daemonList[d])
      BY <1>5, <1>7, <2>1, <2>2, MessageTypes, MessageContents
    <2>4. daemonList'[e] = daemonList[e] /\ fromDaemon'[e] = Append(fromDaemon[e], m)
      BY <1>2, <1>7, <2>1 DEF DaemonAnswers
    <2>5. QED
      BY <1>4, <1>5, <1>7, <2>3, <2>4, ChainAnswer
  <1>8. CASE e = d /\ DaemonListChanges(d)
    <2>1. daemonList'[e] = daemonList[e] + 1 /\ fromDaemon'[e] = fromDaemon[e]
      BY <1>2, <1>8 DEF DaemonListChanges
    <2>2. QED
      BY <1>4, <1>5, <2>1, ChainEnds
  <1>9. CASE e = d /\ DaemonDisconnected(d)
    <2>1. daemonList'[e] = daemonList[e] /\ fromDaemon'[e] = <<>>
      BY <1>2, <1>9 DEF DaemonDisconnected
    <2>2. QED
      BY <1>4, <1>5, <2>1, ChainEnds
  <1>10. QED
    BY <1>6, <1>7, <1>8, <1>9

\* The steps of the proxy keep the order, if its lists come from one daemon.
LEMMA ProxyOrder ==
    ASSUME TypeOK, OrderInv, OneDaemon,
           \/ \E d \in Daemons : ProxyGetsReply(d) \/ ProxySavesList(d)
           \/ \E c \in Clients : ProxyRegisters(c)
           \/ ProxyRestart
    PROVE  OrderInv'
  <1>1. daemonList' = daemonList /\ clientList' = clientList
    BY DEF ProxyGetsReply, ProxySavesList, ProxyRegisters, ProxyRestart, clientVars, daemonVars
  <1>2. /\ fromDaemon \in [Daemons -> Seq(Messages)] /\ toClient \in [Clients -> Seq(Messages)]
    BY DEF TypeOK
  <1>3. SUFFICES ASSUME NEW e \in Daemons, NEW c \in Clients
                 PROVE  Chain(daemonList[e], fromDaemon'[e], toClient'[c], clientList[c])
    BY <1>1 DEF OrderInv
  <1>4. Chain(daemonList[e], fromDaemon[e], toClient[c], clientList[c])
    BY DEF OrderInv
  <1>5. /\ daemonList[e] \in Nat /\ fromDaemon[e] \in Seq(Messages)
        /\ toClient[c] \in Seq(Messages) /\ clientList[c] \in Nat
    BY DaemonType, ClientType
  <1>6. ASSUME NEW d \in Daemons, ProxyGetsReply(d) \/ ProxySavesList(d)
        PROVE  Chain(daemonList[e], fromDaemon'[e], toClient'[c], clientList[c])
    <2>1. d = e
      BY DEF OneDaemon
    <2>2. fromDaemon[e] # <<>> /\ fromDaemon'[e] = Tail(fromDaemon[e])
      BY <1>2, <1>6, <2>1 DEF ProxyGetsReply, ProxySavesList
    <2>3. \/ toClient'[c] = toClient[c]
          \/ Head(fromDaemon[e]).kind = "LIST" /\ toClient'[c] = Append(toClient[c], Head(fromDaemon[e]))
      BY <1>6, <2>1 DEF ProxyGetsReply, ProxySavesList, SendToAllClients, linkVars
    <2>4. QED
      BY <1>4, <1>5, <2>2, <2>3, ChainForward
  <1>7. ASSUME NEW b \in Clients, ProxyRegisters(b)
        PROVE  Chain(daemonList[e], fromDaemon'[e], toClient'[c], clientList[c])
    <2>1. PICK m : /\ \/ m = Acknowledge(Head(toProxy[b])) \/ m = ErrorMessage(Head(toProxy[b]))
                   /\ toClient' = [toClient EXCEPT ![b] = Append(@, m)]
      BY <1>7 DEF ProxyRegisters
    <2>2. Head(toProxy[b]) \in Messages
      BY <1>7, QueueTail DEF ProxyRegisters, TypeOK
    <2>3. m \in Messages /\ m.kind # "LIST"
      BY <2>1, <2>2, MessageTypes, MessageContents
    <2>4. fromDaemon'[e] = fromDaemon[e] /\ toClient'[c] \in {toClient[c], Append(toClient[c], m)}
      BY <1>2, <1>7, <2>1 DEF ProxyRegisters, daemonVars
    <2>5. QED
      BY <1>4, <1>5, <2>3, <2>4, ChainAnswer
  <1>8. CASE ProxyRestart
    <2>1. fromDaemon'[e] = <<>> /\ toClient'[c] = <<>>
      BY <1>8 DEF ProxyRestart
    <2>2. QED
      BY <1>4, <1>5, <2>1, ChainEnds
  <1>9. QED
    BY <1>6, <1>7, <1>8

\* What a step of a client can do to the list and the queue of client c.
ClientChain(c) ==
    \/ clientList'[c] = clientList[c] /\ toClient'[c] \in {toClient[c], <<>>}
    \/ clientList'[c] = 0 /\ toClient'[c] \in {toClient[c], <<>>}
    \/ /\ toClient[c] # <<>> /\ toClient'[c] = Tail(toClient[c])
       /\ \/ clientList'[c] = clientList[c]
          \/ Head(toClient[c]).kind = "LIST" /\ clientList'[c] = Head(toClient[c]).n

\* A client keeps its list, drops it with the connection, or reads the next one.
LEMMA ClientLists ==
    ASSUME TypeOK, NEW b \in Clients,
           \/ ClientReady(b) \/ ClientFluid(b) \/ ClientGetsStatus(b) \/ ClientConnects(b)
           \/ ProcessDisconnected(b) \/ ClientAcknowledged(b) \/ ClientSavesList(b)
           \/ ProxyForwards(b) \/ ProxyGetsQuery(b) \/ LinkBreaks(b)
    PROVE  /\ daemonList' = daemonList /\ fromDaemon' = fromDaemon
           /\ \A c \in Clients : ClientChain(c)
  <1>1. daemonList' = daemonList /\ fromDaemon' = fromDaemon
    BY DEF ClientReady, ClientFluid, ClientGetsStatus, ClientConnects, ProcessDisconnected,
           ClientAcknowledged, ClientSavesList, ProxyForwards, ProxyGetsQuery, LinkBreaks, daemonVars
  <1>2. clientList \in [Clients -> Nat] /\ toClient \in [Clients -> Seq(Messages)]
    BY DEF TypeOK
  <1>3. SUFFICES ASSUME NEW c \in Clients
                 PROVE  ClientChain(c)
    BY <1>1
  <1>4. ASSUME clientList' = clientList, toClient' = toClient
        PROVE  ClientChain(c)
    BY <1>4 DEF ClientChain
  <1>5. CASE ClientFluid(b) \/ ClientGetsStatus(b)
    <2>1. \/ clientList' = clientList /\ toClient' = toClient
          \/ /\ clientList'[b] \in {clientList[b], 0} /\ toClient'[b] \in {toClient[b], <<>>}
             /\ c # b => clientList'[c] = clientList[c] /\ toClient'[c] = toClient[c]
      <3>1. StartBinaryConnection(b) \/ UNCHANGED <<clientList, toClient>>
        BY <1>5 DEF ClientFluid, ClientGetsStatus, SetProxyStatusAndAddress, linkVars
      <3>2. QED
        BY <1>2, <3>1 DEF StartBinaryConnection
    <2>2. QED
      BY <1>4, <2>1 DEF ClientChain
  <1>6. CASE ClientAcknowledged(b) \/ ClientSavesList(b)
    <2>1. c # b => clientList'[c] = clientList[c] /\ toClient'[c] = toClient[c]
      BY <1>2, <1>6 DEF ClientAcknowledged, ClientSavesList
    <2>2. /\ toClient[b] # <<>> /\ toClient'[b] = Tail(toClient[b])
          /\ \/ clientList'[b] = clientList[b]
             \/ Head(toClient[b]).kind = "LIST" /\ clientList'[b] = Head(toClient[b]).n
      BY <1>2, <1>6 DEF ClientAcknowledged, ClientSavesList
    <2>3. QED
      BY <2>1, <2>2 DEF ClientChain
  <1>7. CASE LinkBreaks(b)
    BY <1>2, <1>7 DEF LinkBreaks, clientVars, ClientChain
  <1>8. CASE ClientReady(b) \/ ClientConnects(b) \/ ProcessDisconnected(b) \/ ProxyForwards(b)
             \/ ProxyGetsQuery(b)
    BY <1>4, <1>8 DEF ClientReady, ClientConnects, ProcessDisconnected, ProxyForwards,
                      ProxyGetsQuery, clientVars, linkVars
  <1>9. QED
    BY <1>5, <1>6, <1>7, <1>8

\* The steps of a client keep the order, and its list gets no older.
LEMMA ClientOrder ==
    ASSUME TypeOK, OrderInv, \A c \in Clients : ClientChain(c),
           daemonList' = daemonList, fromDaemon' = fromDaemon
    PROVE  OrderInv'
  <1>1. SUFFICES ASSUME NEW e \in Daemons, NEW c \in Clients
                 PROVE  Chain(daemonList[e], fromDaemon[e], toClient'[c], clientList'[c])
    BY DEF OrderInv
  <1>2. Chain(daemonList[e], fromDaemon[e], toClient[c], clientList[c])
    BY DEF OrderInv
  <1>3. /\ daemonList[e] \in Nat /\ fromDaemon[e] \in Seq(Messages)
        /\ toClient[c] \in Seq(Messages) /\ clientList[c] \in Nat
    BY DaemonType, ClientType
  <1>4. ClientChain(c)
    OBVIOUS
  <1>5. QED
    BY <1>2, <1>3, <1>4, ChainEnds, ChainRead DEF ClientChain

\* Every step keeps the order.
LEMMA OrderStep == TypeOK /\ OrderInv /\ OneDaemon /\ [Next]_vars => OrderInv'
  <1>1. SUFFICES ASSUME TypeOK, OrderInv, OneDaemon, [Next]_vars
                 PROVE  OrderInv'
    OBVIOUS
  <1>2. ASSUME UNCHANGED <<daemonList, fromDaemon, toClient, clientList>>
        PROVE  OrderInv'
    BY <1>1, <1>2 DEF OrderInv
  <1>3. ASSUME NEW g \in Gates, SetGate(g)
        PROVE  OrderInv'
    BY <1>2, <1>3 DEF SetGate, daemonVars, clientVars, linkVars
  <1>4. ASSUME NEW d \in Daemons, ConnectToDaemon(d) \/ DaemonConnected(d)
        PROVE  OrderInv'
    BY <1>2, <1>4 DEF ConnectToDaemon, DaemonConnected, daemonVars, clientVars, linkVars
  <1>5. CASE ListenerStep
    BY <1>2, <1>5 DEF ListenerStep, ProxyAccepts, ClientDisconnected, daemonVars, clientVars, linkVars
  <1>6. CASE UNCHANGED vars
    BY <1>2, <1>6 DEF vars, daemonVars, clientVars, linkVars
  <1>7. ASSUME NEW d \in Daemons, DaemonStep(d) \/ DaemonDisconnected(d) \/ DaemonListChanges(d)
        PROVE  OrderInv'
    BY <1>1, <1>4, <1>7, DaemonOrder, ProxyOrder DEF DaemonStep
  <1>8. ASSUME NEW c \in Clients, ClientStep(c) \/ LinkBreaks(c)
        PROVE  OrderInv'
    BY <1>1, <1>8, ClientLists, ClientOrder, ProxyOrder DEF ClientStep
  <1>9. QED
    BY <1>1, <1>3, <1>5, <1>6, <1>7, <1>8, ProxyOrder DEF Next, ProxyStep, Fault

\* A step does not give a client an older list.
LEMMA NotOlder ==
    ASSUME TypeOK, OrderInv, NEW c \in Clients, ClientChain(c), OneDaemon
    PROVE  clientList'[c] >= clientList[c] \/ clientList'[c] = 0
  <1>1. PICK d \in Daemons : TRUE
    BY DEF OneDaemon
  <1>2. Chain(daemonList[d], fromDaemon[d], toClient[c], clientList[c])
    BY DEF OrderInv
  <1>3. /\ daemonList[d] \in Nat /\ fromDaemon[d] \in Seq(Messages)
        /\ toClient[c] \in Seq(Messages) /\ clientList[c] \in Nat
    BY DaemonType, ClientType
  <1>4. ASSUME toClient[c] # <<>>, Head(toClient[c]).kind = "LIST"
        PROVE  Head(toClient[c]).n \in Nat /\ clientList[c] <= Head(toClient[c]).n
    BY <1>2, <1>3, <1>4, ChainRead, HeadList
  <1>5. QED
    BY <1>3, <1>4 DEF ClientChain

\* A client of a proxy with one daemon never gets a list of contexts which is
\* older than the one it has: the answers to LCTX which msg_forward() asks for and
\* the broadcasts of save_context_list() come in the order of the changes, over
\* any number of faults.  (With two daemons the lists have no common order.)
THEOREM ListNeverOlderHolds == ASSUME OneDaemon PROVE Spec => ListNeverOlder
  <1>1. Init => OrderInv
    <2>1. SUFFICES ASSUME Init, NEW d \in Daemons, NEW c \in Clients
                   PROVE  Chain(daemonList[d], fromDaemon[d], toClient[c], clientList[c])
      BY DEF OrderInv
    <2>2. /\ daemonList[d] = 1 /\ fromDaemon[d] = <<>> /\ toClient[c] = <<>> /\ clientList[c] = 0
      BY <2>1 DEF Init, ClientInit
    <2>3. QED
      BY <2>2, OrderedEmpty DEF Chain
  <1>2. TypeOK /\ OrderInv /\ [Next]_vars => OrderInv'
    BY OrderStep
  <1>3. TypeOK /\ OrderInv /\ [Next]_vars
            => [\A c \in Clients : clientList'[c] >= clientList[c] \/ clientList'[c] = 0]_vars
    <2>1. SUFFICES ASSUME TypeOK, OrderInv, Next, NEW c \in Clients
                   PROVE  clientList'[c] >= clientList[c] \/ clientList'[c] = 0
      OBVIOUS
    <2>2. ASSUME clientList' = clientList
          PROVE  clientList'[c] >= clientList[c] \/ clientList'[c] = 0
      BY <2>1, <2>2, ClientType
    <2>3. ASSUME NEW b \in Clients, ClientStep(b) \/ LinkBreaks(b)
          PROVE  clientList'[c] >= clientList[c] \/ clientList'[c] = 0
      <3>1. CASE ProxyRegisters(b)
        BY <2>2, <3>1 DEF ProxyRegisters, clientVars
      <3>2. CASE ~ProxyRegisters(b)
        <4>1. ClientChain(c)
          BY <2>1, <2>3, <3>2, ClientLists DEF ClientStep
        <4>2. QED
          BY <2>1, <4>1, NotOlder
      <3>3. QED
        BY <3>1, <3>2
    <2>4. ASSUME NEW g \in Gates, SetGate(g)
          PROVE  clientList' = clientList
      BY <2>4 DEF SetGate, clientVars
    <2>5. ASSUME NEW d \in Daemons, DaemonStep(d) \/ DaemonDisconnected(d) \/ DaemonListChanges(d)
          PROVE  clientList' = clientList
      BY <2>5 DEF DaemonStep, ConnectToDaemon, DaemonConnected, DaemonAnswers, ProxyGetsReply,
                  ProxySavesList, DaemonDisconnected, DaemonListChanges, clientVars
    <2>6. CASE ListenerStep
      BY <2>2, <2>6 DEF ListenerStep, ProxyAccepts, ClientDisconnected, clientVars
    <2>7. CASE ProxyRestart
      BY <2>2, <2>7 DEF ProxyRestart, clientVars
    <2>8. QED
      BY <2>1, <2>2, <2>3, <2>4, <2>5, <2>6, <2>7 DEF Next, ProxyStep, Fault
  <1>4. QED
    BY <1>1, <1>2, <1>3, TypeCorrect, PTL DEF Spec, ListNeverOlder
=============================================================================
