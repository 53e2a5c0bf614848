------------------------------ MODULE MCNetwork ------------------------------
(***************************************************************************)
(* The network of a cluster in the order in which it comes up: the daemons *)
(* start and learn of each other (Cluster); then one connection carries    *)
(* messages (Wire), or the PINGs of a process watch its connections        *)
(* (PingPong).  The last two share no state and are not interleaved.       *)
(***************************************************************************)
EXTENDS Cluster, Wire, PingPong

\* both daemons are told addresses above the ones the other listens on, as with
\* node_listen set to another interface: each connects to the other
MCNodeAddress == <<1, 2>>
MCMyAddress == <<3, 4>>

\* messages of three sizes: one cell of data, none, two
MCDataCells == <<1, 0, 2>>

\* every condition holds, every message of communicatord was handled
Started ==
    /\ restarts = MaxRestarts
    /\ \A d \in Daemons : gates[d] = Gates /\ mail[d] = <<>>

NetworkInit == Init /\ WireInit /\ PingInit

NetworkNext ==
    \/ Next /\ WireInit /\ PingInit /\ UNCHANGED <<wire, pingpong>>
    \/ Started /\ PingInit /\ WireNext /\ UNCHANGED <<vars, pingpong>>
    \/ Started /\ WireInit /\ PingNext /\ UNCHANGED <<vars, wire>>

NetworkSpec ==
    NetworkInit /\ [][NetworkNext]_<<vars, wire, pingpong>> /\ Fairness /\ WireFairness
=============================================================================
