---------------------------- MODULE VirtualBuffer ----------------------------
(***************************************************************************)
(* Virtual buffers (prinbee/data/virtual_buffer.cpp): a list of pieces,    *)
(* each in memory or a part of a block of a file, seen as one sequence.    *)
(*                                                                         *)
(* The vector of a piece in memory may hold more bytes than the piece      *)
(* uses, and has a capacity.                                               *)
(***************************************************************************)
EXTENDS Integers, Sequences, SequencesExt

CONSTANTS
    Bytes,              \* values of a byte
    MaxLength,          \* bytes given to one call
    MaxSize,            \* bytes in the buffer
    MaxCalls,           \* calls after the file is loaded
    Block               \* the block the buffer is set on, <<>> for none

VARIABLES
    buffers,            \* f_buffers
    total,              \* f_total_size
    block,              \* the bytes of the block
    modified,           \* f_modified
    saved,              \* the contents of the file
    call,               \* the last call
    calls,              \* calls so far
    undefined           \* memory was written outside of its vector

buffer == <<buffers, total, block, modified, saved, call, calls, undefined>>

\* reserve() is called on a local piece: its copy in the list has no more
\* capacity than bytes
InMemory(data) == [inBlock |-> FALSE, offset |-> 0, data |-> data, size |-> Len(data), capacity |-> Len(data)]
InBlock(offset, size) == [inBlock |-> TRUE, offset |-> offset, data |-> <<>>, size |-> size, capacity |-> 0]
\* the capacity of a vector of len bytes which grows by n (libstdc++ doubles it)
Grown(capacity, len, n) ==
    IF len + n <= capacity THEN capacity ELSE IF n > len THEN len + n ELSE 2 * len

Piece(b) == IF b.inBlock THEN SubSeq(block, b.offset + 1, b.offset + b.size) ELSE SubSeq(b.data, 1, b.size)
Contents == FlattenSeq([k \in DOMAIN buffers |-> Piece(buffers[k])])
TotalSize(bs) == FoldLeft(LAMBDA sum, b : sum + b.size, 0, bs)

\* Where a piece starts, and the piece which holds an offset (0: past the end).
StartOf(bs, k) == TotalSize(SubSeq(bs, 1, k - 1))
At(bs, offset) ==
    LET in == {k \in DOMAIN bs : offset >= StartOf(bs, k) /\ offset < StartOf(bs, k) + bs[k].size}
    IN  IF in = {} THEN 0 ELSE CHOOSE k \in in : TRUE

Overwritten(s, offset, data) ==
    [k \in 1..(IF offset + Len(data) > Len(s) THEN offset + Len(data) ELSE Len(s)) |->
        IF k > offset /\ k <= offset + Len(data) THEN data[k - offset] ELSE s[k]]

\* The part of data which is written in piece k when it starts at offset.
PartIn(bs, k, data, offset) ==
    LET first == offset - StartOf(bs, k)
        from == IF first < 0 THEN -first ELSE 0
    IN  [at |-> IF first < 0 THEN 0 ELSE first,
         data |-> SubSeq(data, from + 1, (IF bs[k].size - first < Len(data) THEN bs[k].size - first ELSE Len(data)))]

\* What does not fit is added to the vector of the last piece while it has
\* room, the rest becomes a piece of its own.
Appended(bs, data) ==
    LET last == bs[Len(bs)]
        inLast == Len(bs) > 0 /\ ~last.inBlock
        room == IF inLast /\ last.capacity > last.size THEN last.capacity - last.size ELSE 0
        part == IF room < Len(data) THEN room ELSE Len(data)
        kept == IF part = 0 THEN bs
                ELSE [bs EXCEPT ![Len(bs)] = [@ EXCEPT !.data = SubSeq(@, 1, last.size) \o SubSeq(data, 1, part),
                                                       !.size = @ + part]]
    IN  IF part = Len(data) THEN kept
        ELSE Append(kept, InMemory(SubSeq(data, part + 1, Len(data))))

\* virtual_buffer::pwrite().  In a block the offset of the piece is not added.
PWrite(bs, data, offset) ==
    LET written == [k \in DOMAIN bs |->
            LET part == PartIn(bs, k, data, offset)
            IN  IF bs[k].inBlock \/ part.data = <<>> THEN bs[k]
                ELSE [bs[k] EXCEPT !.data = Overwritten(@, part.at, part.data)]]
        fits == IF offset > TotalSize(bs) THEN 0 ELSE TotalSize(bs) - offset
    IN  IF fits >= Len(data) THEN written ELSE Appended(written, SubSeq(data, fits + 1, Len(data)))
BlockAfter(bs, data, offset) ==
    FoldLeft(LAMBDA s, k : LET part == PartIn(bs, k, data, offset)
                           IN  IF bs[k].inBlock THEN Overwritten(s, part.at, part.data) ELSE s,
             block, [k \in DOMAIN bs |-> k])

\* virtual_buffer::pinsert() before the end: the vector of the piece grows
PInsert(bs, data, offset) ==
    LET k == At(bs, offset)
        at == offset - StartOf(bs, k)
        b == bs[k]
    IN  IF b.inBlock
        THEN SubSeq(bs, 1, k - 1) \o <<InBlock(b.offset, at), InMemory(data), InBlock(b.offset + at, b.size - at)>>
             \o SubSeq(bs, k + 1, Len(bs))
        ELSE [bs EXCEPT ![k] = [b EXCEPT !.data = SubSeq(b.data, 1, at) \o data \o SubSeq(b.data, at + 1, Len(b.data)),
                                         !.size = b.size + Len(data),
                                         !.capacity = Grown(b.capacity, Len(b.data), Len(data))]]

\* Mutant: the piece is not cut when the erased bytes start in its middle.
EraseInPiece_KeepsEnd(b, at, size) ==
    CASE at = 0 /\ size >= b.size -> <<>>
      [] at > 0 /\ at + size >= b.size -> <<b>>
      [] OTHER -> <<[b EXCEPT !.data = SubSeq(@, 1, at) \o SubSeq(@, at + size + 1, b.size), !.size = @ - size]>>

\* What is left of a piece when size bytes from at on are erased.  The vector
\* keeps its length: bytes past the end of the piece stay in it.
EraseInPiece(b, at, size) ==
    CASE at = 0 /\ size >= b.size -> <<>>
      [] at > 0 /\ at + size >= b.size -> <<[b EXCEPT !.size = at]>>
      [] at = 0 /\ size < b.size /\ b.inBlock -> <<[b EXCEPT !.offset = @ + size, !.size = @ - size]>>
      [] b.inBlock /\ at > 0 /\ at + size < b.size -> <<InBlock(b.offset + at + size, b.size - at - size), InBlock(b.offset, at)>>
      [] OTHER -> <<[b EXCEPT !.data = Overwritten(@, at, SubSeq(@, at + size + 1, b.size)), !.size = @ - size]>>

\* virtual_buffer::perase(), the size is already limited to what there is
PErase(bs, size, offset) ==
    FlattenSeq([k \in DOMAIN bs |->
        LET from == offset - StartOf(bs, k)
            at == IF from < 0 THEN 0 ELSE from
            n == IF from < 0 THEN size + from ELSE size
        IN  IF at >= bs[k].size \/ n <= 0 THEN <<bs[k]>> ELSE EraseInPiece(bs[k], at, n)])

-----------------------------------------------------------------------------
View == INSTANCE ByteSequence WITH bytes <- Contents, file <- saved, called <- call

\* what load_file() makes of a file
Loaded(contents) == <<InMemory(contents)>>

BufferInit ==
    /\ saved \in View!Data
    /\ buffers = IF Block = <<>> THEN Loaded(saved) ELSE <<InBlock(1, Len(Block) - 1)>>  \* set_block()
    /\ total = TotalSize(buffers) /\ block = Block /\ modified = FALSE
    /\ call = View!NoCall /\ calls = 0 /\ undefined = FALSE

DoWrite ==
    \E data \in View!Data \ {<<>>}, offset \in 0..total :
        /\ offset + Len(data) <= MaxSize
        /\ buffers' = PWrite(buffers, data, offset)
        /\ total' = IF offset + Len(data) > total THEN offset + Len(data) ELSE total
        /\ block' = BlockAfter(buffers, data, offset)
        /\ modified' = TRUE
        /\ call' = View!Call("write", data, Len(data), offset)
        /\ UNCHANGED <<saved, undefined>>

DoInsert ==
    \E data \in View!Data \ {<<>>}, offset \in 0..total :
        /\ total + Len(data) <= MaxSize
        /\ buffers' = IF At(buffers, offset) = 0 THEN Appended(buffers, data) ELSE PInsert(buffers, data, offset)
        /\ total' = total + Len(data)
        \* the new vector is empty when the data is copied in it
        /\ undefined' = (undefined \/ (At(buffers, offset) # 0 /\ buffers[At(buffers, offset)].inBlock))
        /\ modified' = TRUE
        /\ call' = View!Call("insert", data, Len(data), offset)
        /\ UNCHANGED <<block, saved>>

\* Bytes in the middle of a block: the piece is cut in two, and neither
\* f_total_size nor f_modified is changed (a debug build throws).
InMiddleOfBlock(bs, size, offset) ==
    \E k \in DOMAIN bs : /\ bs[k].inBlock /\ offset > StartOf(bs, k)
                         /\ offset + size < StartOf(bs, k) + bs[k].size
DoErase ==
    \E offset \in 0..(total - 1) : \E size \in 1..(total - offset) :
        /\ buffers' = PErase(buffers, size, offset)
        /\ IF InMiddleOfBlock(buffers, size, offset) THEN UNCHANGED <<total, modified>>
           ELSE total' = total - size /\ modified' = TRUE
        /\ call' = View!Call("erase", <<>>, size, offset)
        /\ UNCHANGED <<block, saved, undefined>>

\* pshift() to the left: the end is read and written again at offset, then
\* the rest is filled
DoShift ==
    \E offset \in 0..(total - 1), fill \in Bytes : \E size \in 1..(total - offset) :
        LET moved == SubSeq(Contents, offset + size + 1, Len(Contents)) \o [k \in 1..size |-> fill]
        IN  /\ buffers' = PWrite(buffers, moved, offset)
            /\ block' = BlockAfter(buffers, moved, offset)
            /\ modified' = TRUE
            /\ call' = View!Call("shift", <<fill>>, size, offset)
            /\ UNCHANGED <<total, saved, undefined>>
\* By more bytes than there are the size which is left to move wraps around,
\* and the read past the end throws before a byte is written.
DoShiftTooFar ==
    \E offset \in 0..total :
        /\ call' = View!Call("refused", <<>>, total - offset + 1, offset)
        /\ UNCHANGED <<buffers, total, block, modified, saved, undefined>>

\* save_file() and load_file() in a new buffer; only for buffers in memory
SaveFile ==
    /\ Block = <<>>
    /\ saved' = IF modified THEN Contents ELSE saved
    /\ modified' = FALSE
    /\ call' = View!Call("save", <<>>, 0, 0)
    /\ UNCHANGED <<buffers, total, block, undefined>>
LoadFile ==
    /\ Block = <<>>
    /\ buffers' = Loaded(saved) /\ total' = Len(saved)
    /\ modified' = FALSE
    /\ call' = View!Call("load", <<>>, 0, 0)
    /\ UNCHANGED <<block, saved, undefined>>

BufferNext ==
    /\ calls < MaxCalls /\ calls' = calls + 1
    /\ DoWrite \/ DoInsert \/ DoErase \/ DoShift \/ DoShiftTooFar \/ SaveFile \/ LoadFile
BufferSpec == BufferInit /\ [][BufferNext]_buffer

\* The pieces are one sequence of bytes: each call changes the bytes it names,
\* whatever the pieces were before, and the file holds the buffer which is not
\* modified.  With a block it is violated: pwrite() forgets the offset of the
\* piece in its block.
ImplementsBytes == View!BytesSpec
=============================================================================
