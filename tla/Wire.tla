-------------------------------- MODULE Wire --------------------------------
(***************************************************************************)
(* One direction of a binary connection: the threads which send messages,  *)
(* the output buffer of the sender, the socket, and the reader which cuts  *)
(* the stream of bytes in messages again.                                  *)
(*                                                                         *)
(* Modelled: prinbee/network/binary_client.cpp and the same code in        *)
(* binary_server_client.cpp, the header of binary_message.cpp and accept   *)
(* of binary_server.cpp.  A header is HeaderCells cells, the bytes of the  *)
(* data one cell each; a cell knows the message it belongs to, its place   *)
(* in it, and whether it was damaged.  The headers' CRC finds any damage.  *)
(***************************************************************************)
EXTENDS Integers, Sequences, FiniteSets

CONSTANTS
    Threads,        \* threads which call send_message() on the connection
    MessageIds,     \* messages, in the order they are sent
    DataCells,      \* the data size of each message
    HeaderCells,    \* the size of a header
    Capacity,       \* bytes which the socket holds
    MaxDamages,     \* bound: damaged bytes
    MaxCuts         \* bound: ends of the connection

ASSUME WireAssumption ==
    /\ MessageIds \subseteq Nat
    /\ DataCells \in [MessageIds -> Nat]
    /\ HeaderCells \in Nat \ {0}
    /\ Capacity \in Nat

VARIABLES
    connected,      \* binary_client::f_impl is set
    pending,        \* by thread: the data still to write after its header
    output,         \* f_output from f_position on
    socket,         \* bytes written and not read yet
    readState,      \* f_read_state
    readData,       \* the first f_data_size bytes of f_data
    header,         \* the header of f_binary_message
    delivered,      \* messages given to process_message()
    sent,           \* messages which were written, by this connection
    spoiled,        \* messages with a damaged byte in their header
    nextId,
    damages, cuts

wire == <<connected, pending, output, socket, readState, readData, header,
          delivered, sent, spoiled, nextId, damages, cuts>>

Cell(part, m, k) == [part |-> part, id |-> m, at |-> k, good |-> TRUE]
HeaderOf(m) == [k \in 1..HeaderCells |-> Cell("header", m, k)]
DataOf(m) == [k \in 1..DataCells[m] |-> Cell("data", m, k)]

Drop(s, n) == SubSeq(s, n + 1, Len(s))
Least(a, b) == IF a < b THEN a ELSE b

WireInit ==
    /\ connected = FALSE
    /\ pending = [t \in Threads |-> <<>>]
    /\ output = <<>> /\ socket = <<>>
    /\ readState = "HEADER" /\ readData = <<>> /\ header = <<>>
    /\ delivered = <<>> /\ sent = <<>> /\ spoiled = {}
    /\ nextId = 1 /\ damages = 0 /\ cuts = 0

-----------------------------------------------------------------------------
(* The sender.                                                             *)

\* process_timeout(): the two sides start with new, empty buffers
Connect ==
    /\ ~connected
    /\ connected' = TRUE
    /\ UNCHANGED <<pending, output, socket, readState, readData, header,
                   delivered, sent, spoiled, nextId, damages, cuts>>

\* write(): as many bytes as the socket takes when nothing is waiting, the
\* rest is added to f_output
Write_Direct(bytes) ==
    \E n \in 0..Least(Capacity - Len(socket), Len(bytes)) :
        /\ socket' = socket \o SubSeq(bytes, 1, n)
        /\ output' = output \o Drop(bytes, n)

Write(bytes) ==
    \E n \in IF output = <<>> THEN 0..Least(Capacity - Len(socket), Len(bytes)) ELSE {0} :
        /\ socket' = socket \o SubSeq(bytes, 1, n)
        /\ output' = output \o Drop(bytes, n)

\* the first write() of send_message()
SendHeader(t) ==
    /\ nextId \in MessageIds
    /\ pending[t] = <<>>
    /\ nextId' = nextId + 1
    /\ IF connected
       THEN /\ Write(HeaderOf(nextId))
            /\ pending' = [pending EXCEPT ![t] = DataOf(nextId)]
            /\ sent' = Append(sent, nextId)
       ELSE UNCHANGED <<socket, output, pending, sent>>
    /\ UNCHANGED <<connected, readState, readData, header, delivered, spoiled, damages, cuts>>

\* the second write() of send_message(), when has_data()
SendData(t) ==
    /\ pending[t] # <<>>
    /\ Write(pending[t])
    /\ pending' = [pending EXCEPT ![t] = <<>>]
    /\ UNCHANGED <<connected, readState, readData, header, delivered, sent, spoiled, nextId,
                   damages, cuts>>

\* process_write(), called while is_writer()
ProcessWrite ==
    /\ connected /\ output # <<>>
    /\ \E n \in 1..Least(Capacity - Len(socket), Len(output)) :
        /\ socket' = socket \o SubSeq(output, 1, n)
        /\ output' = Drop(output, n)
    /\ UNCHANGED <<connected, pending, readState, readData, header, delivered, sent,
                   spoiled, nextId, damages, cuts>>

-----------------------------------------------------------------------------
(* The reader: one iteration of the loop of process_read().                *)

\* is_message_header_valid(): the CRC covers every byte of the header
IsHeaderValid(h) ==
    \A k \in 1..HeaderCells : h[k] = Cell("header", h[1].id, k)

DataSize(h) == DataCells[h[1].id]

Deliver(h, data) ==
    /\ delivered' = Append(delivered, [id |-> h[1].id, data |-> data])
    /\ readState' = "HEADER" /\ readData' = <<>> /\ header' = <<>>

\* the header is complete: deliver a message without data, read the data, or
\* look for the next header byte by byte
HeaderRead_StartsOver(h, rest) ==
    CASE IsHeaderValid(h) /\ DataSize(h) = 0 -> Deliver(h, <<>>)
      [] IsHeaderValid(h) /\ DataSize(h) > 0 ->
            readState' = "DATA" /\ readData' = <<>> /\ header' = h /\ UNCHANGED delivered
      [] OTHER ->
            readState' = "HEADER" /\ readData' = <<>> /\ header' = <<>> /\ UNCHANGED delivered

HeaderRead(h, rest) ==
    CASE IsHeaderValid(h) /\ DataSize(h) = 0 -> Deliver(h, <<>>)
      [] IsHeaderValid(h) /\ DataSize(h) > 0 ->
            readState' = "DATA" /\ readData' = <<>> /\ header' = h /\ UNCHANGED delivered
      [] OTHER ->
            readState' = "ADJUST" /\ readData' = rest /\ header' = h /\ UNCHANGED delivered

ReadHeader ==
    /\ readState = "HEADER"
    /\ \E n \in 1..Least(HeaderCells - Len(readData), Len(socket)) :
        LET got == readData \o SubSeq(socket, 1, n) IN
        /\ socket' = Drop(socket, n)
        /\ IF Len(got) = HeaderCells
           THEN HeaderRead(got, got)
           ELSE readData' = got /\ UNCHANGED <<readState, header, delivered>>
    /\ UNCHANGED <<connected, pending, output, sent, spoiled, nextId, damages, cuts>>

\* add_message_header_byte()
ReadAdjust ==
    /\ readState = "ADJUST"
    /\ socket # <<>>
    /\ socket' = Tail(socket)
    /\ HeaderRead(Append(Tail(header), Head(socket)), readData)
    /\ UNCHANGED <<connected, pending, output, sent, spoiled, nextId, damages, cuts>>

ReadData ==
    /\ readState = "DATA"
    /\ \E n \in 1..Least(DataSize(header) - Len(readData), Len(socket)) :
        LET got == readData \o SubSeq(socket, 1, n) IN
        /\ socket' = Drop(socket, n)
        /\ IF Len(got) >= DataSize(header)
           THEN Deliver(header, got)
           ELSE readData' = got /\ UNCHANGED <<readState, header, delivered>>
    /\ UNCHANGED <<connected, pending, output, sent, spoiled, nextId, damages, cuts>>

-----------------------------------------------------------------------------
(* Faults.                                                                 *)

\* a byte is not sent properly
Damage ==
    /\ damages < MaxDamages
    /\ \E k \in DOMAIN socket :
        /\ socket[k].good
        /\ socket' = [socket EXCEPT ![k].good = FALSE]
        /\ spoiled' = spoiled \union (IF socket[k].part = "header" THEN {socket[k].id} ELSE {})
    /\ damages' = damages + 1
    /\ UNCHANGED <<connected, pending, output, readState, readData, header, delivered,
                   sent, nextId, cuts>>

\* the buffers of the connection go with it
Disconnect_KeepsRead ==
    /\ connected' = FALSE
    /\ output' = <<>> /\ socket' = <<>>
    /\ UNCHANGED <<readState, readData, header>>

Disconnect ==
    /\ connected' = FALSE
    /\ output' = <<>> /\ socket' = <<>>
    /\ readState' = "HEADER" /\ readData' = <<>> /\ header' = <<>>

\* process_error(), process_hup() and process_invalid() of the two sides
ConnectionEnds ==
    /\ connected
    /\ cuts < MaxCuts
    /\ \A t \in Threads : pending[t] = <<>>
    /\ Disconnect
    /\ cuts' = cuts + 1
    /\ sent' = <<>>
    /\ UNCHANGED <<pending, delivered, spoiled, nextId, damages>>

WireNext ==
    \/ Connect
    \/ \E t \in Threads : SendHeader(t) \/ SendData(t)
    \/ ProcessWrite
    \/ ReadHeader \/ ReadAdjust \/ ReadData
    \/ Damage
    \/ ConnectionEnds

(* The event loop serves a socket which is ready, and a call which started *)
(* ends.                                                                   *)
WireFairness ==
    /\ \A t \in Threads : WF_wire(SendData(t))
    /\ WF_wire(ProcessWrite)
    /\ WF_wire(ReadHeader \/ ReadAdjust \/ ReadData)

WireSpec == WireInit /\ [][WireNext]_wire /\ WireFairness

-----------------------------------------------------------------------------
(* Properties.                                                             *)

Arrived == [k \in DOMAIN delivered |-> delivered[k].id]
ArrivedIds == {delivered[k].id : k \in DOMAIN delivered}

(* Every message which arrives is one message: the data which follows its  *)
(* header in process_read() is its own, whatever the sizes of the reads    *)
(* and writes, a new connection and the search for the next header.        *)
MessagesAreWhole ==
    \A k \in DOMAIN delivered :
        [j \in DOMAIN delivered[k].data |-> [delivered[k].data[j] EXCEPT !.good = TRUE]]
            = DataOf(delivered[k].id)

(* Once all was read, the only messages of this connection which did not   *)
(* arrive are those with a damaged header: the search for the next header  *)
(* (READ_STATE_HEADER_ADJUST) skips nothing else and repeats nothing.      *)
ResyncLosesOnlyDamaged ==
    /\ \A j, k \in DOMAIN delivered : j < k => delivered[j].id < delivered[k].id
    /\ (connected /\ output = <<>> /\ socket = <<>> /\ \A t \in Threads : pending[t] = <<>>)
        => {sent[k] : k \in DOMAIN sent} \ ArrivedIds = spoiled \intersect {sent[k] : k \in DOMAIN sent}

(* The data given to process_message() is the data which was sent.         *)
DataIsChecked == \A k \in DOMAIN delivered : delivered[k].data = DataOf(delivered[k].id)

(* With one sending thread the connection is a queue of messages which     *)
(* loses the messages with a damaged header, and those on their way when   *)
(* it ends: the two write() of send_message(), the partial writes of       *)
(* process_write() and the partial reads of process_read() cannot be seen, *)
(* and every other message arrives.                                        *)
Waiting ==
    IF connected THEN {sent[k] : k \in DOMAIN sent} \ (ArrivedIds \union spoiled) ELSE {}
\* the messages are numbered in the order they are sent
InOrder(ids) ==
    [k \in 1..Cardinality(ids) |-> CHOOSE m \in ids : Cardinality({x \in ids : x <= m}) = k]
OnTheWay == InOrder(Waiting)
Fifo == INSTANCE MessageFifo WITH queue <- OnTheWay, arrived <- Arrived
ImplementsFifo == Fifo!FifoSpec

=============================================================================
