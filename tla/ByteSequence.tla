---------------------------- MODULE ByteSequence -----------------------------
(***************************************************************************)
(* What a virtual buffer promises: it is one sequence of bytes, of which   *)
(* parts are replaced, inserted, erased and shifted by offset, and which   *)
(* can be saved in a file and loaded.                                      *)
(***************************************************************************)
EXTENDS Integers, Sequences

CONSTANTS Bytes, MaxLength

VARIABLES
    bytes,              \* the sequence
    file,               \* what the file holds
    called              \* the last operation and its parameters

Data == UNION {[1..n -> Bytes] : n \in 0..MaxLength}
Call(op, data, size, offset) == [op |-> op, data |-> data, size |-> size, offset |-> offset]
NoCall == Call("new", <<>>, 0, 0)

BytesInit == bytes \in Data /\ file \in Data /\ called = NoCall

Before(offset) == SubSeq(bytes, 1, offset)
From(offset) == SubSeq(bytes, offset + 1, Len(bytes))

\* Replace the bytes from offset on, past the end if the data is longer.
Write(data, offset) ==
    /\ bytes' = Before(offset) \o data \o From(offset + Len(data))
    /\ called' = Call("write", data, Len(data), offset) /\ UNCHANGED file
Insert(data, offset) ==
    /\ bytes' = Before(offset) \o data \o From(offset)
    /\ called' = Call("insert", data, Len(data), offset) /\ UNCHANGED file
Erase(size, offset) ==
    /\ bytes' = Before(offset) \o From(offset + size)
    /\ called' = Call("erase", <<>>, size, offset) /\ UNCHANGED file
\* Move the end of the sequence to the left and fill what is freed.
Shift(size, offset, fill) ==
    /\ bytes' = Before(offset) \o From(offset + size) \o [k \in 1..size |-> fill]
    /\ called' = Call("shift", <<fill>>, size, offset) /\ UNCHANGED file
\* A call which throws changes nothing.
Refuse(size, offset) == called' = Call("refused", <<>>, size, offset) /\ UNCHANGED <<bytes, file>>
Save == file' = bytes /\ called' = Call("save", <<>>, 0, 0) /\ UNCHANGED bytes
\* A new buffer with what the file holds.
Load == bytes' = file /\ called' = Call("load", <<>>, 0, 0) /\ UNCHANGED file

BytesNext ==
    \/ \E offset \in 0..Len(bytes), data \in Data : Write(data, offset) \/ Insert(data, offset)
    \/ \E offset, size \in 0..Len(bytes) : Erase(size, offset)
    \/ \E offset, size \in 0..Len(bytes), fill \in Bytes : offset + size <= Len(bytes) /\ Shift(size, offset, fill)
    \/ \E offset \in 0..Len(bytes) : Refuse(Len(bytes) - offset + 1, offset)
    \/ Save \/ Load
BytesSpec == BytesInit /\ [][BytesNext]_<<bytes, file, called>>
=============================================================================
