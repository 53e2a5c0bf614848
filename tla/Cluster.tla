------------------------------ MODULE Cluster ------------------------------
(***************************************************************************)
(* How the daemons of a cluster start and find each other: each opens its  *)
(* three listeners once five conditions hold, asks the others for their    *)
(* status, tells them its own, and makes a node_client for every daemon    *)
(* whose node address is smaller than its own messenger address.           *)
(*                                                                         *)
(* Modelled: the startup half of daemon/prinbeed.cpp and                   *)
(* daemon/messenger.cpp.  Addresses are numbers in the order of addr::addr. *)
(***************************************************************************)
EXTENDS Integers, Sequences, FiniteSets

CONSTANTS
    Daemons,        \* names
    NodeAddress,    \* the address each daemon listens on for nodes (node_listen)
    MyAddress,      \* the address communicatord tells each daemon in READY
    MaxRestarts     \* bound: restarts of daemons

ASSUME ClusterAssumption ==
    /\ Daemons \subseteq Nat
    /\ NodeAddress \in [Daemons -> Nat] /\ MyAddress \in [Daemons -> Nat]
    /\ MaxRestarts \in Nat

VARIABLES
    gates,          \* conditions which hold, by daemon
    listening,      \* the three listeners exist, and the addresses with them
    mail,           \* messages of communicatord to each daemon
    nodes,          \* node_client references of each daemon, by the daemon they are for
    polled,         \* connections the communicator of each daemon looks after
    restarts

vars == <<gates, listening, mail, nodes, polled, restarts>>

Gates == {"ready", "fluid", "ipwall", "clock", "lock"}
Messages == [kind : {"status", "query"}, from : Daemons, up : BOOLEAN]
Message(kind, d, u) == [kind |-> kind, from |-> d, up |-> u]

TypeOK ==
    /\ gates \in [Daemons -> SUBSET Gates]
    /\ listening \in [Daemons -> BOOLEAN]
    /\ mail \in [Daemons -> Seq(Messages)]
    /\ nodes \in [Daemons -> [Daemons -> Nat]]
    /\ polled \in [Daemons -> SUBSET ({"messenger", "listeners", "node"} \X (Daemons \union {0}))]
    /\ restarts \in 0..MaxRestarts

Init ==
    /\ gates = [d \in Daemons |-> {}]
    /\ listening = [d \in Daemons |-> FALSE]
    /\ mail = [d \in Daemons |-> <<>>]
    /\ nodes = [d \in Daemons |-> [e \in Daemons |-> 0]]
    /\ polled = [d \in Daemons |-> {<<"messenger", 0>>}]
    /\ restarts = 0

\* communicatord forwards a broadcast to the services which are ready
Broadcast(box, from, ms) ==
    [d \in Daemons |-> IF d # from /\ "ready" \in gates[d] THEN box[d] \o ms ELSE box[d]]

StartBinaryConnection_NoQuery(d, met) ==
    IF ~listening[d] /\ met = Gates
    THEN /\ listening' = [listening EXCEPT ![d] = TRUE]
         /\ polled' = [polled EXCEPT ![d] = @ \union {<<"listeners", 0>>}]
         /\ mail' = Broadcast(mail, d, <<Message("status", d, TRUE)>>)
    ELSE UNCHANGED <<listening, polled, mail>>

StartBinaryConnection_NoStatus(d, met) ==
    IF ~listening[d] /\ met = Gates
    THEN /\ listening' = [listening EXCEPT ![d] = TRUE]
         /\ polled' = [polled EXCEPT ![d] = @ \union {<<"listeners", 0>>}]
         /\ mail' = Broadcast(mail, d, <<Message("query", d, FALSE)>>)
    ELSE UNCHANGED <<listening, polled, mail>>

\* start_binary_connection(): the listeners, the query, then the status
StartBinaryConnection(d, met) ==
    IF ~listening[d] /\ met = Gates
    THEN /\ listening' = [listening EXCEPT ![d] = TRUE]
         /\ polled' = [polled EXCEPT ![d] = @ \union {<<"listeners", 0>>}]
         /\ mail' = Broadcast(mail, d, <<Message("query", d, FALSE), Message("status", d, TRUE)>>)
    ELSE UNCHANGED <<listening, polled, mail>>

\* ready(), fluid_settings_changed(), set_ipwall_status(), set_clock_status()
\* and lock_status_changed(); nothing comes before READY
SetGate(d, g) ==
    /\ g \notin gates[d] /\ (g = "ready" \/ "ready" \in gates[d])
    /\ gates' = [gates EXCEPT ![d] = @ \union {g}]
    /\ StartBinaryConnection(d, gates'[d])
    /\ UNCHANGED <<nodes, restarts>>

\* connect_to_node(), called when the other daemon's node address is smaller
\* than the own messenger address: a new node_client every time
ConnectToNode(d, a) ==
    IF NodeAddress[a] < MyAddress[d] THEN [nodes EXCEPT ![d][a] = @ + 1] ELSE nodes

\* register_prinbee_daemon(): the status of another daemon
RegisterPrinbeeDaemon(d) ==
    /\ mail[d] # <<>>
    /\ LET m == Head(mail[d])
       IN /\ m.kind = "status"
          /\ nodes' = IF m.up THEN ConnectToNode(d, m.from) ELSE nodes
    /\ mail' = [mail EXCEPT ![d] = Tail(@)]
    /\ UNCHANGED <<gates, listening, polled, restarts>>

\* msg_prinbee_get_status(): send_our_status() to the one who asked, which is
\* "down" while the addresses are not known; communicatord has nobody to give
\* it to when that daemon stopped meanwhile
SendOurStatus(d) ==
    /\ mail[d] # <<>>
    /\ LET m == Head(mail[d])
           rest == [mail EXCEPT ![d] = Tail(@)]
       IN /\ m.kind = "query"
          /\ mail' = IF "ready" \in gates[m.from]
                     THEN [rest EXCEPT ![m.from] = Append(@, Message("status", d, listening[d]))]
                     ELSE rest
    /\ UNCHANGED <<gates, listening, nodes, polled, restarts>>

\* stop() and a new process
Restart(d) ==
    /\ restarts < MaxRestarts /\ "ready" \in gates[d]
    /\ restarts' = restarts + 1
    /\ gates' = [gates EXCEPT ![d] = {}]
    /\ listening' = [listening EXCEPT ![d] = FALSE]
    /\ mail' = [mail EXCEPT ![d] = <<>>]
    /\ nodes' = [nodes EXCEPT ![d] = [e \in Daemons |-> 0]]
    /\ polled' = [polled EXCEPT ![d] = {<<"messenger", 0>>}]

Starts(d) == \E g \in Gates : SetGate(d, g)
Handles(d) == RegisterPrinbeeDaemon(d) \/ SendOurStatus(d)

Next == \E d \in Daemons : Starts(d) \/ Handles(d) \/ Restart(d)

\* the services a daemon waits for come up and every event loop runs
Fairness == \A d \in Daemons : WF_vars(Starts(d)) /\ WF_vars(Handles(d))

Spec == Init /\ [][Next]_vars /\ Fairness

-----------------------------------------------------------------------------
(* Properties                                                              *)

\* d is one of those e connects to
ConnectsTo(e, d) == d # e /\ NodeAddress[d] < MyAddress[e]

\* both listen and neither has messages of communicatord to handle
Settled(d, e) ==
    listening[d] /\ listening[e] /\ mail[d] = <<>> /\ mail[e] = <<>>

\* Two daemons which are up and have handled their mail did not miss each
\* other: in whatever order their conditions came true, whoever was not ready
\* for the broadcast of the other and whoever restarted, the one which is to
\* connect to the other did.
MetWhenSettled ==
    \A d, e \in Daemons : ConnectsTo(e, d) /\ Settled(d, e) => nodes[e][d] > 0

\* Of any two daemons the one which is to connect learns of the other in the
\* end and for good, whichever started first and whoever restarted.
AllMeet ==
    \A d, e \in Daemons : ConnectsTo(e, d) => <>[](nodes[e][d] > 0)

\* "connect from one prinbee daemon to another only if the one has a smaller
\* IP address. Otherwise, do nothing (i.e. the other daemon will connect to
\* us": of two daemons exactly one connects to the other.
OneSide ==
    \A d, e \in Daemons :
        d # e /\ Settled(d, e) => (nodes[d][e] > 0 <=> nodes[e][d] = 0)

\* register_prinbee_daemon() creates a connection "if not yet connected with
\* it": there is at most one node_client for another daemon.
OneConnection == \A d, e \in Daemons : nodes[d][e] <= 1

\* "all the nodes within a cluster connect to all the other nodes": the
\* communicator looks after every node_client in the end.
CompleteNetwork ==
    \A d, e \in Daemons : nodes[d][e] > 0 ~> <<"node", e>> \in polled[d]
=============================================================================
