---------------------------- MODULE Registration ----------------------------
(***************************************************************************)
(* How clients reach the database: the proxy opens its listener once it is *)
(* connected to a daemon, tells the clients its address, and the clients   *)
(* connect, register and ask for the list of contexts.                     *)
(*                                                                         *)
(* Modelled: proxy/proxy.cpp, proxy/daemon.cpp, proxy/listener.cpp,        *)
(* proxy/messenger.cpp, prinbee/network/prinbee_connection.cpp and         *)
(* prinbee/network/proxy_connection.cpp.  Each process is one event loop,  *)
(* so that one callback is one action.  A TCP connection is a FIFO in each *)
(* direction; communicatord delivers messages in order to the services     *)
(* which are connected to it and drops the others ("cache=no").            *)
(*                                                                         *)
(* A connection of client c is the pair <<c, n>>: the n-th one it made.    *)
(* The serial number of its REG message is n as well.                      *)
(***************************************************************************)
EXTENDS Integers, Sequences, FiniteSets

CONSTANTS
    Clients,        \* client processes
    Daemons,        \* a set of numbers, in the order of the daemons' names
    MaxList,        \* bound: versions of the list of contexts
    MaxFaults,      \* bound: connections cut and restarts of the proxy
    ClockDrift      \* whether clocks may differ by 10 ms or more

ASSUME RegistrationAssumption ==
    /\ Daemons \subseteq Nat
    /\ MaxList \in Nat \ {0} /\ MaxFaults \in Nat
    /\ ClockDrift \in BOOLEAN

VARIABLES
    \* the proxy
    flags,          \* conditions of the listener which are met
    daemonReady,    \* f_daemon_ready
    listener,       \* f_listener, and f_address with it
    dconn,          \* f_daemon_connections: "none", "timer" or "up"
    dexpect,        \* f_expected_acknowledgment of each daemon object
    proxyList,      \* f_context_list, 0 when it is not available
    refs,           \* f_client_connections
    backlog,        \* connections the kernel accepted, not the listener
    queries,        \* status queries of the clients
    faults,         \* faults so far
    \* the daemons
    dcount,         \* connections made to a daemon
    toDaemon, fromDaemon,
    daemonList,     \* version of a daemon's list of contexts
    \* the clients
    ready, fluid,   \* messenger ready, fluid settings ready
    status, address,\* f_proxy_status, f_address
    mail,           \* messages of communicatord to the client
    conn,           \* f_proxy_connection: "none", "timer" or "up"
    count,          \* connections made so far
    registered,     \* f_registered
    expect,         \* f_expected_acknowledgment
    clientList,     \* f_context_list, 0 when it is not available
    toProxy, toClient,
    broken,         \* connections which are cut
    accepted        \* history: connections whose REG the proxy acknowledged

proxyVars  == <<flags, daemonReady, listener, dconn, dexpect, proxyList>>
listenVars == <<refs, backlog, queries, accepted>>
daemonVars == <<dcount, toDaemon, fromDaemon, daemonList>>
clientVars == <<ready, fluid, status, address, conn, registered, expect, clientList>>
linkVars   == <<count, toProxy, toClient, broken>>
vars == <<proxyVars, listenVars, faults, daemonVars, clientVars, mail, linkVars>>

Gates == {"ready", "fluid", "ipwall", "clock"}

OneFault == faults < MaxFaults /\ faults' = faults + 1

Msg(kind, n) == [kind |-> kind, n |-> n]

\* an answer carries the serial number of the message it answers
Acknowledge(m) == Msg("ACK", m.n)
ErrorMessage(m) == Msg("ERR", m.n)
ListMessage(list) == Msg("LIST", list)

\* The version which a REG is written with and the one which is read from it: the
\* reader looks for "protocol", and clears it when it could read it.
OurVersion == "0.1"
RegisterFields == [name |-> "client", protocol_version |-> OurVersion]
TheirVersion(fields) ==
    LET found == "protocol" \in DOMAIN fields
        cleared == found
    IN IF found /\ ~cleared THEN fields["protocol"] ELSE ""

\* versiontheca: the major version of "" is 0, as the one of "0.1"
Major == [v \in {"", OurVersion} |-> 0]
SameProtocol == Major[TheirVersion(RegisterFields)] = Major[OurVersion]

MessageKinds == {"REG", "ACK", "ERR", "LCTX", "LIST"}
Messages == [kind : MessageKinds, n : Nat]

Current(c) == <<c, count[c]>>           \* the last connection of a client
Live(c) == conn[c] = "up" /\ Current(c) \notin broken

TypeOK ==
    /\ flags \subseteq Gates
    /\ daemonReady \in BOOLEAN /\ listener \in BOOLEAN
    /\ dconn \in [Daemons -> {"none", "timer", "up"}]
    /\ dexpect \in [Daemons -> SUBSET Nat]
    /\ proxyList \in Nat
    /\ refs \subseteq Clients \X Nat
    /\ backlog \subseteq Clients \X Nat
    /\ queries \subseteq Clients /\ faults \in 0..MaxFaults
    /\ dcount \in [Daemons -> Nat]
    /\ toDaemon \in [Daemons -> Seq(Messages)] /\ fromDaemon \in [Daemons -> Seq(Messages)]
    /\ daemonList \in [Daemons -> 1..MaxList]
    /\ ready \in [Clients -> BOOLEAN] /\ fluid \in [Clients -> BOOLEAN]
    /\ status \in [Clients -> {"", "up", "down"}]
    /\ address \in [Clients -> BOOLEAN]
    /\ mail \in [Clients -> Seq({"up", "down", "service_down"})]
    /\ conn \in [Clients -> {"none", "timer", "up"}]
    /\ count \in [Clients -> Nat]
    /\ registered \in [Clients -> BOOLEAN]
    /\ expect \in [Clients -> SUBSET Nat]
    /\ clientList \in [Clients -> Nat]
    /\ toProxy \in [Clients -> Seq(Messages)] /\ toClient \in [Clients -> Seq(Messages)]
    /\ broken \subseteq Clients \X Nat
    /\ accepted \subseteq Clients \X Nat

ProxyInit ==
    /\ flags = {} /\ daemonReady = FALSE /\ listener = FALSE
    /\ dconn = [d \in Daemons |-> "none"]
    /\ dexpect = [d \in Daemons |-> {}]
    /\ proxyList = 0

ClientInit ==
    /\ ready = [c \in Clients |-> FALSE]
    /\ fluid = [c \in Clients |-> FALSE]
    /\ status = [c \in Clients |-> ""]
    /\ address = [c \in Clients |-> FALSE]
    /\ conn = [c \in Clients |-> "none"]
    /\ registered = [c \in Clients |-> FALSE]
    /\ expect = [c \in Clients |-> {}]
    /\ clientList = [c \in Clients |-> 0]

Init ==
    /\ ProxyInit
    /\ ClientInit
    /\ refs = {} /\ backlog = {} /\ queries = {} /\ accepted = {}
    /\ faults = 0
    /\ dcount = [d \in Daemons |-> 0]
    /\ daemonList = [d \in Daemons |-> 1]
    /\ toDaemon = [d \in Daemons |-> <<>>]
    /\ fromDaemon = [d \in Daemons |-> <<>>]
    /\ mail = [c \in Clients |-> <<>>]
    /\ count = [c \in Clients |-> 0]
    /\ toProxy = [c \in Clients |-> <<>>]
    /\ toClient = [c \in Clients |-> <<>>]
    /\ broken = {}

-----------------------------------------------------------------------------
(* The proxy and its messenger                                             *)

Broadcast(m) == mail' = [c \in Clients |-> IF ready[c] THEN Append(mail[c], m) ELSE mail[c]]

\* send_our_status(): "up" with the address once the listener exists
OurStatus(up) == IF up THEN "up" ELSE "down"

StartBinaryListener_NotForDaemon(met, dready) ==
    /\ listener' = (listener \/ (met = Gates /\ met # flags /\ dready))
    /\ IF listener' /\ ~listener THEN Broadcast(OurStatus(TRUE)) ELSE UNCHANGED mail

\* start_binary_listener(), called whenever one of its conditions becomes true
StartBinaryListener(met, dready) ==
    /\ listener' = (listener \/ (met = Gates /\ dready))
    /\ IF listener' /\ ~listener THEN Broadcast(OurStatus(TRUE)) ELSE UNCHANGED mail

\* ready(), fluid_settings_changed(), set_ipwall_status(), set_clock_status();
\* communicatord only talks to the proxy after READY
SetGate(g) ==
    /\ g \notin flags
    /\ g = "ready" \/ "ready" \in flags
    /\ flags' = flags \union {g}
    /\ StartBinaryListener(flags', daemonReady)
    /\ UNCHANGED <<daemonReady, dconn, dexpect, proxyList, listenVars, faults,
                   daemonVars, clientVars, linkVars>>

\* msg_prinbee_current_status(): a daemon of the cluster is up
ConnectToDaemon(d) ==
    /\ "ready" \in flags
    /\ dconn[d] = "none"
    /\ dconn' = [dconn EXCEPT ![d] = "timer"]
    /\ UNCHANGED <<flags, daemonReady, listener, dexpect, proxyList, listenVars,
                   faults, daemonVars, clientVars, mail, linkVars>>

\* daemon::process_connected(): the timer of the connection succeeded
DaemonConnected(d) ==
    /\ dconn[d] = "timer"
    /\ dconn' = [dconn EXCEPT ![d] = "up"]
    /\ dcount' = [dcount EXCEPT ![d] = @ + 1]
    /\ toDaemon' = [toDaemon EXCEPT ![d] = <<Msg("REG", dcount'[d])>>]
    /\ dexpect' = [dexpect EXCEPT ![d] = @ \union {dcount'[d]}]
    /\ UNCHANGED <<flags, daemonReady, listener, proxyList, listenVars, faults,
                   fromDaemon, daemonList, clientVars, mail, linkVars>>

DaemonDisconnected(d) ==
    /\ dconn[d] = "up"
    /\ OneFault
    /\ dconn' = [dconn EXCEPT ![d] = "timer"]
    /\ toDaemon' = [toDaemon EXCEPT ![d] = <<>>]
    /\ fromDaemon' = [fromDaemon EXCEPT ![d] = <<>>]
    /\ UNCHANGED <<flags, daemonReady, listener, dexpect, proxyList, listenVars,
                   dcount, daemonList, clientVars, mail, linkVars>>

\* the daemon's worker: register_client() and list_contexts()
DaemonAnswers(d) ==
    /\ toDaemon[d] # <<>>
    /\ LET m == Head(toDaemon[d])
           answers == IF m.kind = "LCTX" THEN {ListMessage(daemonList[d])}
                      ELSE {a \in {Acknowledge(m)} : SameProtocol}
                           \union {e \in {ErrorMessage(m)} : ClockDrift \/ ~SameProtocol}
       IN \E r \in answers : fromDaemon' = [fromDaemon EXCEPT ![d] = Append(@, r)]
    /\ toDaemon' = [toDaemon EXCEPT ![d] = Tail(@)]
    /\ UNCHANGED <<proxyVars, listenVars, faults, dcount, daemonList, clientVars,
                   mail, linkVars>>

\* a context is created on a daemon
DaemonListChanges(d) ==
    /\ daemonList[d] < MaxList
    /\ daemonList' = [daemonList EXCEPT ![d] = @ + 1]
    /\ UNCHANGED <<proxyVars, listenVars, faults, dcount, toDaemon, fromDaemon,
                   clientVars, mail, linkVars>>

\* daemon::process_acknowledgment() and msg_process_reply() for REG
ProxyGetsReply(d) ==
    /\ fromDaemon[d] # <<>>
    /\ LET m == Head(fromDaemon[d])
           first == m.kind = "ACK" /\ m.n \in dexpect[d] /\ ~daemonReady
       IN /\ m.kind \in {"ACK", "ERR"}
          /\ dexpect' = [dexpect EXCEPT ![d] = @ \ {m.n}]
          /\ daemonReady' = (daemonReady \/ first)
          /\ StartBinaryListener(flags, daemonReady')
          /\ toDaemon' = IF first THEN [toDaemon EXCEPT ![d] = Append(@, Msg("LCTX", 0))]
                         ELSE toDaemon
    /\ fromDaemon' = [fromDaemon EXCEPT ![d] = Tail(@)]
    /\ UNCHANGED <<flags, dconn, proxyList, listenVars, faults, dcount, daemonList,
                   clientVars, linkVars>>

SendToAllClients_NewestFirst(m) ==
    toClient' = [c \in Clients |-> IF Live(c) /\ Current(c) \in refs
                                   THEN <<m>> \o toClient[c] ELSE toClient[c]]

\* send_message_to_all_clients(); a broken connection swallows the message
SendToAllClients(m) ==
    toClient' = [c \in Clients |-> IF Live(c) /\ Current(c) \in refs
                                   THEN Append(toClient[c], m) ELSE toClient[c]]

ProxySavesList_FirstOnly(d) ==
    /\ fromDaemon[d] # <<>>
    /\ LET m == Head(fromDaemon[d])
       IN /\ m.kind = "LIST"
          /\ proxyList' = m.n
          /\ IF proxyList # 0 THEN UNCHANGED toClient ELSE SendToAllClients(m)
    /\ fromDaemon' = [fromDaemon EXCEPT ![d] = Tail(@)]
    /\ UNCHANGED <<flags, daemonReady, listener, dconn, dexpect, listenVars, faults,
                   dcount, toDaemon, daemonList, clientVars, mail, count, toProxy, broken>>

\* save_context_list()
ProxySavesList(d) ==
    /\ fromDaemon[d] # <<>>
    /\ LET m == Head(fromDaemon[d])
       IN /\ m.kind = "LIST"
          /\ proxyList' = m.n
          /\ IF proxyList = m.n THEN UNCHANGED toClient ELSE SendToAllClients(m)
    /\ fromDaemon' = [fromDaemon EXCEPT ![d] = Tail(@)]
    /\ UNCHANGED <<flags, daemonReady, listener, dconn, dexpect, listenVars, faults,
                   dcount, toDaemon, daemonList, clientVars, mail, count, toProxy, broken>>

\* listener::process_new_connection()
ProxyAccepts(k) ==
    /\ k \in backlog
    /\ backlog' = backlog \ {k}
    /\ refs' = refs \union {k}
    /\ UNCHANGED <<proxyVars, queries, accepted, faults, daemonVars, clientVars,
                   mail, linkVars>>

ClientDisconnected_AllOfClient(k) ==
    /\ k \in refs \intersect broken
    /\ refs' = {r \in refs : r[1] # k[1]}
    /\ UNCHANGED <<proxyVars, backlog, queries, accepted, faults, daemonVars,
                   clientVars, mail, linkVars>>

\* client_disconnected()
ClientDisconnected(k) ==
    /\ k \in refs \intersect broken
    /\ refs' = refs \ {k}
    /\ UNCHANGED <<proxyVars, backlog, queries, accepted, faults, daemonVars,
                   clientVars, mail, linkVars>>

\* msg_register(): the major protocol versions must be equal, and the times close
ProxyRegisters(c) ==
    /\ toProxy[c] # <<>> /\ Current(c) \in refs /\ Live(c)
    /\ LET m == Head(toProxy[c])
       IN /\ m.kind = "REG"
          /\ \/ /\ SameProtocol
                /\ toClient' = [toClient EXCEPT ![c] = Append(@, Acknowledge(m))]
                /\ accepted' = accepted \union {Current(c)}
             \/ /\ ClockDrift \/ ~SameProtocol
                /\ toClient' = [toClient EXCEPT ![c] = Append(@, ErrorMessage(m))]
                /\ UNCHANGED accepted
    /\ toProxy' = [toProxy EXCEPT ![c] = Tail(@)]
    /\ UNCHANGED <<proxyVars, refs, backlog, queries, faults, daemonVars, clientVars,
                   mail, count, broken>>

\* the daemons in f_daemon_connections; begin() is the one with the first name
Connections == {d \in Daemons : dconn[d] # "none"}
FirstDaemon == CHOOSE d \in Connections : \A e \in Connections : d <= e

\* msg_forward(): to the first daemon of the map; dropped when not connected
ProxyForwards(c) ==
    /\ toProxy[c] # <<>> /\ Current(c) \in refs /\ Live(c)
    /\ LET m == Head(toProxy[c])
       IN /\ m.kind = "LCTX"
          /\ IF Connections # {} /\ dconn[FirstDaemon] = "up"
             THEN toDaemon' = [toDaemon EXCEPT ![FirstDaemon] = Append(@, m)]
             ELSE UNCHANGED toDaemon
    /\ toProxy' = [toProxy EXCEPT ![c] = Tail(@)]
    /\ UNCHANGED <<proxyVars, listenVars, faults, dcount, fromDaemon, daemonList,
                   clientVars, mail, count, toClient, broken>>

\* the commands which the dispatcher of the proxy's messenger matches
ProxyMatches == {"CLOCK_STABLE", "IPLOCK_CURRENT_STATUS", "PRINBEE_CURRENT_STATUS",
                 "PRINBEE_GET_STATUS"}
ClientQuery == "PRINBEE_PROXY_GET_STATUS"

\* the query of a client reaches the messenger
ProxyGetsQuery(c) ==
    /\ c \in queries /\ "ready" \in flags
    /\ queries' = queries \ {c}
    /\ mail' = IF ClientQuery \in ProxyMatches
               THEN [mail EXCEPT ![c] = Append(@, OurStatus(listener))] ELSE mail
    /\ UNCHANGED <<proxyVars, refs, backlog, accepted, faults, daemonVars,
                   clientVars, linkVars>>

\* stop() and a new process: communicatord tells the clients that the service
\* is down and the kernel closes every connection
ProxyRestart ==
    /\ OneFault
    /\ flags' = {} /\ daemonReady' = FALSE /\ listener' = FALSE
    /\ dconn' = [d \in Daemons |-> "none"]
    /\ dexpect' = [d \in Daemons |-> {}]
    /\ proxyList' = 0
    /\ refs' = {} /\ backlog' = {} /\ queries' = {}
    /\ toDaemon' = [d \in Daemons |-> <<>>]
    /\ fromDaemon' = [d \in Daemons |-> <<>>]
    /\ toProxy' = [c \in Clients |-> <<>>]
    /\ toClient' = [c \in Clients |-> <<>>]
    /\ broken' = broken \union {Current(c) : c \in {x \in Clients : conn[x] = "up"}}
    /\ Broadcast("service_down")
    /\ UNCHANGED <<accepted, dcount, daemonList, clientVars, count>>

-----------------------------------------------------------------------------
(* The client library                                                      *)

IsProxyReady(c) == address'[c] /\ status'[c] = "up" /\ fluid'[c] /\ ready'[c]

\* start_binary_connection(); a connection which is dropped is cut
StartBinaryConnection(c) ==
    LET drop == ~IsProxyReady(c)
        create == ~drop /\ conn[c] = "none"
    IN /\ conn' = [conn EXCEPT ![c] = IF drop THEN "none" ELSE IF create THEN "timer" ELSE @]
       /\ registered' = [registered EXCEPT ![c] = @ /\ ~drop /\ ~create]
       /\ expect' = [expect EXCEPT ![c] = IF drop \/ create THEN {} ELSE @]
       /\ clientList' = [clientList EXCEPT ![c] = IF drop \/ create THEN 0 ELSE @]
       /\ broken' = IF drop /\ conn[c] = "up" THEN broken \union {Current(c)} ELSE broken
       /\ toProxy' = [toProxy EXCEPT ![c] = IF drop THEN <<>> ELSE @]
       /\ toClient' = [toClient EXCEPT ![c] = IF drop THEN <<>> ELSE @]
       /\ UNCHANGED count

\* prinbee_connection::ready()
ClientReady(c) ==
    /\ ~ready[c]
    /\ ready' = [ready EXCEPT ![c] = TRUE]
    /\ queries' = queries \union {c}
    /\ UNCHANGED <<proxyVars, refs, backlog, accepted, faults, daemonVars, fluid,
                   status, address, conn, registered, expect, clientList, mail, linkVars>>

\* fluid_settings_changed(READY)
ClientFluid(c) ==
    /\ ready[c] /\ ~fluid[c]
    /\ fluid' = [fluid EXCEPT ![c] = TRUE]
    /\ UNCHANGED <<ready, status, address>>
    /\ StartBinaryConnection(c)
    /\ UNCHANGED <<proxyVars, listenVars, faults, daemonVars, mail>>

\* set_proxy_status_and_address()
SetProxyStatusAndAddress(c, s, a) ==
    /\ status' = [status EXCEPT ![c] = s]
    /\ address' = [address EXCEPT ![c] = a]
    /\ UNCHANGED <<ready, fluid>>
    /\ IF status[c] = s /\ address[c] = a
       THEN UNCHANGED <<conn, registered, expect, clientList, linkVars>>
       ELSE StartBinaryConnection(c)

\* msg_prinbee_proxy_current_status() and service_status(): the address comes
\* with "up" only; a service which is down keeps the address it had
ClientGetsStatus(c) ==
    /\ mail[c] # <<>>
    /\ mail' = [mail EXCEPT ![c] = Tail(@)]
    /\ LET m == Head(mail[c])
       IN SetProxyStatusAndAddress(c, IF m = "up" THEN "up" ELSE "down",
                                   IF m = "service_down" THEN address[c] ELSE m = "up")
    /\ UNCHANGED <<proxyVars, listenVars, faults, daemonVars>>

ClientConnects_Again(c) ==
    /\ conn[c] # "none" /\ listener
    /\ conn' = [conn EXCEPT ![c] = "up"]
    /\ count' = [count EXCEPT ![c] = @ + 1]
    /\ backlog' = backlog \union {<<c, count'[c]>>}
    /\ toProxy' = [toProxy EXCEPT ![c] = <<Msg("REG", count'[c])>>]
    /\ expect' = [expect EXCEPT ![c] = @ \union {count'[c]}]
    /\ UNCHANGED <<proxyVars, refs, queries, accepted, faults, daemonVars, ready, fluid,
                   status, address, registered, clientList, mail, toClient, broken>>

\* binary_client::process_timeout() and process_connected()
ClientConnects(c) ==
    /\ conn[c] = "timer" /\ listener
    /\ conn' = [conn EXCEPT ![c] = "up"]
    /\ count' = [count EXCEPT ![c] = @ + 1]
    /\ backlog' = backlog \union {<<c, count'[c]>>}
    /\ toProxy' = [toProxy EXCEPT ![c] = <<Msg("REG", count'[c])>>]
    /\ expect' = [expect EXCEPT ![c] = @ \union {count'[c]}]
    /\ UNCHANGED <<proxyVars, refs, queries, accepted, faults, daemonVars, ready, fluid,
                   status, address, registered, clientList, mail, toClient, broken>>

\* the network cuts a connection; what was on its way is lost
LinkBreaks(c) ==
    /\ Live(c) /\ OneFault
    /\ broken' = broken \union {Current(c)}
    /\ toProxy' = [toProxy EXCEPT ![c] = <<>>]
    /\ toClient' = [toClient EXCEPT ![c] = <<>>]
    /\ UNCHANGED <<proxyVars, listenVars, daemonVars, clientVars, mail, count>>

ProcessDisconnected_NoTimer(c) ==
    /\ conn[c] = "up" /\ Current(c) \in broken
    /\ conn' = [conn EXCEPT ![c] = "none"]
    /\ UNCHANGED <<proxyVars, listenVars, faults, daemonVars, ready, fluid, status,
                   address, registered, expect, clientList, mail, linkVars>>

\* binary_client::process_disconnected()
ProcessDisconnected(c) ==
    /\ conn[c] = "up" /\ Current(c) \in broken
    /\ conn' = [conn EXCEPT ![c] = "timer"]
    /\ UNCHANGED <<proxyVars, listenVars, faults, daemonVars, ready, fluid, status,
                   address, registered, expect, clientList, mail, linkVars>>

\* process_acknowledgment(): the entry stays in f_expected_acknowledgment;
\* a registration is followed by the request for the list, unless it is there
ClientAcknowledged(c) ==
    /\ toClient[c] # <<>> /\ Live(c)
    /\ LET m == Head(toClient[c])
           known == m.n \in expect[c]
       IN /\ m.kind \in {"ACK", "ERR"}
          /\ registered' = [registered EXCEPT ![c] = IF known THEN m.kind = "ACK" ELSE @]
          /\ toProxy' = IF known /\ m.kind = "ACK" /\ clientList[c] = 0
                        THEN [toProxy EXCEPT ![c] = Append(@, Msg("LCTX", 0))] ELSE toProxy
    /\ toClient' = [toClient EXCEPT ![c] = Tail(@)]
    /\ UNCHANGED <<proxyVars, listenVars, faults, daemonVars, ready, fluid, status,
                   address, conn, expect, clientList, mail, count, broken>>

\* proxy_connection::save_context_list()
ClientSavesList(c) ==
    /\ toClient[c] # <<>> /\ Live(c)
    /\ Head(toClient[c]).kind = "LIST"
    /\ clientList' = [clientList EXCEPT ![c] = Head(toClient[c]).n]
    /\ toClient' = [toClient EXCEPT ![c] = Tail(@)]
    /\ UNCHANGED <<proxyVars, listenVars, faults, daemonVars, ready, fluid, status,
                   address, conn, registered, expect, mail, count, toProxy, broken>>

\* get_proxy_status(): what the library tells its user
GetProxyStatus(c) ==
    CASE conn[c] = "none" /\ status[c] = "" -> "--"
      [] conn[c] = "none" /\ status[c] # "" -> "not available"
      [] conn[c] = "timer" -> "connecting"
      [] conn[c] = "up" /\ ~registered[c] -> "connected"
      [] OTHER -> "registered"

-----------------------------------------------------------------------------

ProxyStep(g) == SetGate(g)
DaemonStep(d) ==
    \/ ConnectToDaemon(d) \/ DaemonConnected(d) \/ DaemonAnswers(d)
    \/ ProxyGetsReply(d) \/ ProxySavesList(d)
ClientStep(c) ==
    \/ ClientReady(c) \/ ClientFluid(c) \/ ClientGetsStatus(c) \/ ClientConnects(c)
    \/ ProcessDisconnected(c) \/ ClientAcknowledged(c) \/ ClientSavesList(c)
    \/ ProxyRegisters(c) \/ ProxyForwards(c) \/ ProxyGetsQuery(c)
ListenerStep == \E k \in refs \union backlog : ProxyAccepts(k) \/ ClientDisconnected(k)
Fault ==
    \/ ProxyRestart
    \/ \E d \in Daemons : DaemonDisconnected(d) \/ DaemonListChanges(d)
    \/ \E c \in Clients : LinkBreaks(c)

Next ==
    \/ \E g \in Gates : ProxyStep(g)
    \/ \E d \in Daemons : DaemonStep(d)
    \/ \E c \in Clients : ClientStep(c)
    \/ ListenerStep
    \/ Fault

\* every event loop runs, the services the proxy waits for come up, and a
\* connection which is tried again and again is made; faults need not happen
Fairness ==
    /\ \A g \in Gates : WF_vars(ProxyStep(g))
    /\ \A d \in Daemons : WF_vars(DaemonStep(d))
    /\ \A c \in Clients : WF_vars(ClientStep(c))
    /\ WF_vars(ListenerStep)

Spec == Init /\ [][Next]_vars /\ Fairness

-----------------------------------------------------------------------------
(* Properties                                                              *)

\* The listener is open exactly when all its conditions hold, in whatever
\* order they became true: no call of start_binary_listener() is missing and
\* none opens it too early.
ListenerFollowsGates == listener <=> (flags = Gates /\ daemonReady)

\* A client whose registration was acknowledged on the connection it still has
\* is in f_client_connections, so that broadcasts reach it: the late end of an
\* older connection of the same client does not remove the new one.
LiveIsReferenced ==
    \A c \in Clients : Live(c) /\ Current(c) \in accepted => Current(c) \in refs

\* A client which has a list on its first connection and no message on its way
\* has the list of the proxy: no change is lost between the request for the
\* list and the broadcasts.
BroadcastReaches ==
    \A c \in Clients :
        Live(c) /\ Cardinality(expect[c]) = 1 /\ clientList[c] # 0 /\ toClient[c] = <<>>
            => clientList[c] = proxyList

\* The list of a client never goes back to an older one (with one daemon): the
\* answer to its own request and the broadcasts come in order.
ListNeverOlder ==
    [][\A c \in Clients : clientList'[c] >= clientList[c] \/ clientList'[c] = 0]_vars

\* "the major version must be exactly equal": the version which is compared is
\* the one the other side sent.
VersionIsCompared == TheirVersion(RegisterFields) = RegisterFields["protocol_version"]

\* the proxy answered the REG of the connection with an error
Refused(c) ==
    /\ Live(c) /\ Current(c) \in refs
    /\ toProxy[c] = <<>> /\ toClient[c] = <<>> /\ Current(c) \notin accepted

\* A client which learns that the proxy is up is connected and registered in
\* the end, on the connection it has then, unless the proxy refuses its clock
\* or goes down again.
LearnsThenRegisters ==
    \A c \in Clients :
        status[c] = "up" ~> \/ status[c] # "up" \/ Refused(c)
                            \/ Live(c) /\ registered[c] /\ Current(c) \in accepted

\* proxy_connection.h says f_registered "becomes true once we get the ACK reply
\* from our REG message": a client which reports "registered" had the REG of
\* its connection acknowledged.
RegisteredIsAcknowledged ==
    \A c \in Clients : GetProxyStatus(c) = "registered" => Current(c) \in accepted

\* The proxy answers PRINBEE_PROXY_GET_STATUS with "a direct reply to that
\* client" (proxy/messenger.cpp): a client which is ready connects in the end.
LateClientConnects ==
    \A c \in Clients : ready[c] ~> conn[c] # "none"

\* "once registered, the client immediately requests the list of contexts ...
\* we need the identifiers" (proxy_connection.cpp): a client which stays
\* registered gets the list in the end.
RegisteredGetsList ==
    \A c \in Clients : registered[c] ~> (~registered[c] \/ clientList[c] # 0)

\* "once we are connected changes are reported automatically and on a
\* reconnection we do not need to get another copy" (proxy_connection.cpp): a
\* client with a list and no message on its way has the list of the proxy.
ListAfterReconnect ==
    \A c \in Clients :
        Live(c) /\ Current(c) \in accepted /\ registered[c] /\ clientList[c] # 0
        /\ toClient[c] = <<>> => clientList[c] = proxyList

\* "on an error the connection is dropped" (binary_message.h, REG): a refused
\* client does not stay connected.
RefusedIsDropped == \A c \in Clients : ~Refused(c)
=============================================================================
