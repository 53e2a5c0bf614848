------------------------------ MODULE PingPong ------------------------------
(***************************************************************************)
(* The PING and PONG messages of one process: a daemon sends PINGs to the  *)
(* nodes with a smaller address, a proxy to its daemons, a client to its   *)
(* proxy, all from a timer and with the same rules.                        *)
(*                                                                         *)
(* Modelled: daemon/prinbeed_ping_pong.cpp, send_pings() of                *)
(* proxy/proxy.cpp, the expected pings of proxy/daemon.cpp,                *)
(* daemon/connection_reference.cpp and prinbee/network/                    *)
(* proxy_connection.cpp, the timers and the serial numbers of messages.    *)
(***************************************************************************)
EXTENDS Integers, FiniteSets

CONSTANTS
    Links,          \* connections, numbered in the order of their container
    Pinged,         \* those to which this side sends the PINGs
    MaxFailures,    \* MAX_PING_PONG_FAILURES
    SerialModulus,  \* serial numbers are modulo 2^32
    MaxTicks,       \* bound: calls of the timer
    MaxOthers       \* bound: messages other than PINGs

\* the connections are in a map or a vector, which has an order
ASSUME PingPongAssumption ==
    /\ Links \subseteq Nat /\ Pinged \subseteq Links /\ IsFiniteSet(Pinged)
    /\ MaxFailures \in Nat /\ MaxTicks \in Nat /\ MaxOthers \in Nat
    /\ SerialModulus \in Nat /\ SerialModulus > 2

VARIABLES
    linkUp,         \* the connection is established
    expected,       \* f_ping_serial_number, 0 when no PONG is expected
    noAnswer,       \* f_no_pong_answer
    serial,         \* g_serial_number
    pings, pongs,   \* <<link, serial>> on their way
    stopped,        \* the exception left the event loop
    silence,        \* by link: calls of the timer in a row without its PONG
    ticks, others   \* calls of the timer, messages other than PINGs

pingpong == <<linkUp, expected, noAnswer, serial, pings, pongs, stopped, silence, ticks, others>>

PingInit ==
    /\ linkUp = [l \in Links |-> TRUE]
    /\ expected = [l \in Links |-> 0]
    /\ noAnswer = [l \in Links |-> 0]
    /\ serial = SerialModulus - 2
    /\ pings = {} /\ pongs = {}
    /\ stopped = FALSE
    /\ silence = [l \in Links |-> 0]
    /\ ticks = 0 /\ others = 0

NextSerial_MayBeZero(s, n) == (s + n) % SerialModulus

\* get_next_serial_number(), n times: zero is skipped
NextSerial(s, n) ==
    IF s + n < SerialModulus THEN s + n ELSE (s + n + 1) % SerialModulus

\* send_pings(), send_ping(): the first connection which failed too often
\* throws out of the loop
Tick ==
    LET fails == {l \in Pinged : expected[l] # 0 /\ noAnswer[l] + 1 >= MaxFailures}
        done  == {l \in Pinged : \A f \in fails : l < f}
        turn(l) == Cardinality({k \in done : k <= l})
        late  == {l \in Pinged : expected[l] # 0 /\ \A f \in fails : l <= f}
    IN
    /\ ~stopped
    /\ ticks < MaxTicks
    /\ ticks' = ticks + 1
    /\ noAnswer' = [l \in Links |-> IF l \in late THEN noAnswer[l] + 1 ELSE noAnswer[l]]
    /\ silence' = [l \in Links |-> IF l \in late THEN silence[l] + 1 ELSE silence[l]]
    /\ expected' = [l \in Links |-> IF l \in done THEN NextSerial(serial, turn(l)) ELSE expected[l]]
    /\ serial' = NextSerial(serial, Cardinality(done))
    /\ pings' = pings \union {<<l, NextSerial(serial, turn(l))>> : l \in {k \in done : linkUp[k]}}
    /\ stopped' = (fails # {})
    /\ UNCHANGED <<linkUp, pongs, others>>

\* the process makes another message, or one to read into: the constructor of
\* binary_message takes a serial number
OtherMessage ==
    /\ ~stopped
    /\ others < MaxOthers
    /\ others' = others + 1
    /\ serial' = NextSerial(serial, 1)
    /\ UNCHANGED <<linkUp, expected, noAnswer, pings, pongs, stopped, silence, ticks>>

\* a PONG carries the serial number of the PING it answers
Pong(ping) == ping
PingSerial(pong) == pong[2]

\* msg_ping() of the other side
MsgPing ==
    /\ \E p \in pings :
        /\ pings' = pings \ {p}
        /\ pongs' = pongs \union {Pong(p)}
    /\ UNCHANGED <<linkUp, expected, noAnswer, serial, stopped, silence, ticks, others>>

HasExpectedPing_KeepsCount(match) ==
    /\ expected' = [l \in Links |-> IF l \in match THEN 0 ELSE expected[l]]
    /\ UNCHANGED noAnswer

\* has_expected_ping()
HasExpectedPing(match) ==
    /\ expected' = [l \in Links |-> IF l \in match THEN 0 ELSE expected[l]]
    /\ noAnswer' = [l \in Links |-> IF l \in match THEN 0 ELSE noAnswer[l]]

\* msg_pong(): the connection is found by the serial number; a PONG which is
\* not expected any more changes nothing
MsgPong ==
    /\ ~stopped
    /\ \E p \in pongs :
        LET match == {l \in Links : expected[l] = PingSerial(p)} IN
        /\ pongs' = pongs \ {p}
        /\ HasExpectedPing(match)
        /\ silence' = [silence EXCEPT ![p[1]] = IF p[1] \in match THEN 0 ELSE @]
    /\ UNCHANGED <<linkUp, pings, serial, stopped, ticks, others>>

\* the connection is lost, with what is on it, and made again
LinkGoesDown(l) ==
    /\ linkUp[l]
    /\ linkUp' = [linkUp EXCEPT ![l] = FALSE]
    /\ pings' = {p \in pings : p[1] # l}
    /\ pongs' = {p \in pongs : p[1] # l}
    /\ UNCHANGED <<expected, noAnswer, serial, stopped, silence, ticks, others>>

LinkComesUp(l) ==
    /\ ~linkUp[l]
    /\ linkUp' = [linkUp EXCEPT ![l] = TRUE]
    /\ UNCHANGED <<expected, noAnswer, serial, pings, pongs, stopped, silence, ticks, others>>

PingNext ==
    \/ Tick
    \/ OtherMessage
    \/ MsgPing
    \/ MsgPong
    \/ \E l \in Links : LinkGoesDown(l) \/ LinkComesUp(l)

PingSpec == PingInit /\ [][PingNext]_pingpong

-----------------------------------------------------------------------------
(* Properties.                                                             *)

(* A PONG which comes late, after the numbers wrapped or after other PINGs *)
(* were sent, is never taken for the answer of another connection, and no  *)
(* PING has the number which stands for "no PONG is expected".             *)
SerialsIdentify ==
    \A p \in pings \union pongs :
        p[2] # 0 /\ \A l \in Links : expected[l] = p[2] => l = p[1]

(* The process gives up only when a connection did not answer in           *)
(* MaxFailures calls of the timer in a row: an answer in time clears all   *)
(* earlier failures (f_no_pong_answer), also those before a reconnection.  *)
GivesUpOnlyOnSilence ==
    stopped => \E l \in Pinged : silence[l] >= MaxFailures

(* Too many failures turn off one connection, the others are still used.   *)
FailureTurnsOffOneConnection == ~stopped

=============================================================================
