----------------------------- MODULE WireProofs -----------------------------
(***************************************************************************)
(* Proofs about Wire with one sending thread, for any messages, any sizes  *)
(* of headers, data and socket, any number of damaged bytes and of ends of *)
(* the connection.                                                         *)
(*                                                                         *)
(* The bytes which the reader holds, those in the socket, those in the     *)
(* output buffer and those the thread has still to write are one stream.   *)
(* The invariant says, without looking at how the stream is cut in these   *)
(* four parts, that it is made of whole messages but for its beginning.    *)
(***************************************************************************)
EXTENDS Wire, SequenceTheorems, FiniteSetTheorems, TLAPS

\* send_message() is called by one thread only
OneThread == \E t : Threads = {t}
TheThread == CHOOSE t \in Threads : TRUE

Cells ==
    {c \in [part : {"header", "data"}, id : MessageIds, at : Nat, good : BOOLEAN] :
        c.at \in 1 .. (IF c.part = "header" THEN HeaderCells ELSE DataCells[c.id])}

\* the place of a cell in its message, and the size of a message
Rank(c) == IF c.part = "header" THEN c.at ELSE HeaderCells + c.at
Size(m) == HeaderCells + DataCells[m]
Message(m) == HeaderOf(m) \o DataOf(m)

\* a cell d found n cells behind a cell c belongs to the same message, or to
\* a later one and all the rest of the message of c is between them
Follows(c, d, n) ==
    \/ d.id = c.id /\ Rank(d) = Rank(c) + n
    \/ c.id < d.id /\ n >= (Size(c.id) - Rank(c)) + Rank(d)

Ordered(s) == \A i, j \in 1 .. Len(s) : i < j => Follows(s[i], s[j], j - i)
Complete(s) == \A i \in 1 .. Len(s) : Rank(s[i]) + (Len(s) - i) >= Size(s[i].id)

IsBegin(c, m) == c.id = m /\ Rank(c) = 1
IsBad(c, m) == c.id = m /\ c.part = "header" /\ ~c.good

\* the cells which the reader has and which were not delivered or dropped
Held ==
    CASE readState = "HEADER" -> readData
      [] readState = "ADJUST" -> header
      [] readState = "DATA" -> header \o readData

Stream == Held \o ((socket \o output) \o pending[TheThread])

-----------------------------------------------------------------------------
(* The inductive invariant.                                                *)

WireTypes ==
    /\ connected \in BOOLEAN
    /\ pending \in [Threads -> Seq(Cells)]
    /\ output \in Seq(Cells) /\ socket \in Seq(Cells)
    /\ readState \in {"HEADER", "ADJUST", "DATA"}
    /\ readData \in Seq(Cells) /\ header \in Seq(Cells)
    /\ delivered \in Seq([id : MessageIds, data : Seq(Cells)])
    /\ sent \in Seq(MessageIds)
    /\ spoiled \subseteq MessageIds
    /\ nextId \in Nat

\* the stream is a sequence of whole messages, the first cut from the left
Framed(s) == s \in Seq(Cells) /\ Ordered(s) /\ Complete(s)

\* messages arrive in the order of the stream: d are those which did, n is
\* the next one which is sent
Later(s, n, d) ==
    \A i \in 1 .. Len(s) :
        /\ s[i].id < n
        /\ \A k \in DOMAIN d : d[k].id < s[i].id

\* a message is among the bad ones when and only when it has a damaged byte
\* in its header, as long as the header is in the stream
Marked(s, bad) ==
    \A i \in 1 .. Len(s) :
        /\ \A m \in MessageIds : IsBad(s[i], m) => m \in bad
        /\ \A m \in bad : IsBegin(s[i], m) => \E j \in 1 .. Len(s) : IsBad(s[j], m)

\* a message of q which is not gone is ahead, from the first place of the
\* stream on where the reader looks for one
Ahead(s, first, q, gone) ==
    \A k \in DOMAIN q : q[k] \notin gone => \E i \in first .. Len(s) : IsBegin(s[i], q[k])

FirstPlace == IF readState = "ADJUST" THEN 2 ELSE 1

Reading ==
    CASE readState = "HEADER" ->
            Len(readData) < HeaderCells /\ (Stream # <<>> => Rank(Stream[1]) = 1)
      [] readState = "ADJUST" -> Len(header) = HeaderCells /\ ~IsHeaderValid(header)
      [] readState = "DATA" ->
            Len(header) = HeaderCells /\ IsHeaderValid(header) /\ Len(readData) < DataSize(header)

Received ==
    /\ MessagesAreWhole
    /\ \A j, k \in DOMAIN delivered : j < k => delivered[j].id < delivered[k].id
    /\ \A k \in DOMAIN delivered : delivered[k].id < nextId /\ delivered[k].id \notin spoiled
    /\ \A m \in spoiled : m < nextId

WireInv ==
    /\ WireTypes
    /\ Framed(Stream)
    /\ Later(Stream, nextId, delivered)
    /\ Marked(Stream, spoiled)
    /\ Ahead(Stream, FirstPlace, sent, ArrivedIds \union spoiled)
    /\ Reading
    /\ Received
    /\ ~connected => Stream = <<>> /\ sent = <<>>

-----------------------------------------------------------------------------
(* Cells and messages.                                                     *)

\* What is known of a cell.
LEMMA CellFacts ==
    ASSUME NEW c \in Cells
    PROVE  /\ c.id \in MessageIds /\ c.id \in Nat
           /\ Rank(c) \in Nat /\ Size(c.id) \in Nat
           /\ 1 <= Rank(c) /\ Rank(c) <= Size(c.id) /\ HeaderCells <= Size(c.id)
           /\ HeaderCells \in Nat /\ 1 <= HeaderCells /\ DataCells[c.id] \in Nat
           /\ Rank(c) <= HeaderCells <=> c.part = "header"
           /\ c.good \in BOOLEAN
  <1>1. /\ c.id \in MessageIds /\ c.at \in Nat /\ c.good \in BOOLEAN
        /\ c.part \in {"header", "data"}
        /\ c.at \in 1 .. (IF c.part = "header" THEN HeaderCells ELSE DataCells[c.id])
    BY DEF Cells
  <1>2. HeaderCells \in Nat \ {0} /\ DataCells[c.id] \in Nat /\ c.id \in Nat
    BY <1>1, WireAssumption
  <1>3. CASE c.part = "header"
    BY <1>1, <1>2, <1>3 DEF Rank, Size
  <1>4. CASE c.part # "header"
    BY <1>1, <1>2, <1>4 DEF Rank, Size
  <1>5. QED
    BY <1>3, <1>4

\* A cell which is not damaged is known by its message and its place.
LEMMA HeaderCellIs ==
    ASSUME NEW c \in Cells, Rank(c) <= HeaderCells
    PROVE  /\ c.part = "header" /\ c.at = Rank(c)
           /\ c.good => c = Cell("header", c.id, Rank(c))
  BY WireAssumption DEF Cells, Rank, Cell

LEMMA DataCellIs ==
    ASSUME NEW c \in Cells, NEW k \in Nat, Rank(c) = HeaderCells + k, k # 0
    PROVE  [c EXCEPT !.good = TRUE] = Cell("data", c.id, k)
  <1>1. /\ c \in [part : {"header", "data"}, id : MessageIds, at : Nat, good : BOOLEAN]
        /\ c.at \in 1 .. (IF c.part = "header" THEN HeaderCells ELSE DataCells[c.id])
    BY DEF Cells
  <1>2. HeaderCells \in Nat /\ c.at \in Nat
    BY <1>1, WireAssumption
  <1>3. c.part = "data" /\ c.at = k
    BY <1>1, <1>2 DEF Rank
  <1> DEFINE d == [c EXCEPT !.good = TRUE]
  <1>4. /\ d \in [part : {"header", "data"}, id : MessageIds, at : Nat, good : BOOLEAN]
        /\ d.part = c.part /\ d.id = c.id /\ d.at = c.at /\ d.good = TRUE
    BY <1>1
  <1>5. d = [part |-> d.part, id |-> d.id, at |-> d.at, good |-> d.good]
    <2> HIDE DEF d
    <2>1. QED
      BY <1>4
  <1>6. QED
    BY <1>3, <1>4, <1>5 DEF Cell

\* send_message() writes the cells of a message in their order.
LEMMA MessageCells ==
    ASSUME NEW m \in MessageIds
    PROVE  /\ HeaderOf(m) \in Seq(Cells) /\ DataOf(m) \in Seq(Cells) /\ Message(m) \in Seq(Cells)
           /\ Len(HeaderOf(m)) = HeaderCells /\ Len(DataOf(m)) = DataCells[m]
           /\ Len(Message(m)) = Size(m) /\ Size(m) \in Nat
           /\ \A k \in 1 .. Size(m) : /\ Message(m)[k].id = m
                                      /\ Rank(Message(m)[k]) = k
                                      /\ Message(m)[k].good
  <1>1. HeaderCells \in Nat /\ DataCells[m] \in Nat
    BY WireAssumption
  <1>2. \A k \in 1 .. HeaderCells : Cell("header", m, k) \in Cells
    BY WireAssumption DEF Cells, Cell
  <1>3. \A k \in 1 .. DataCells[m] : Cell("data", m, k) \in Cells
    BY WireAssumption DEF Cells, Cell
  <1>4. HeaderOf(m) \in Seq(Cells) /\ Len(HeaderOf(m)) = HeaderCells
    BY <1>1, <1>2 DEF HeaderOf
  <1>5. DataOf(m) \in Seq(Cells) /\ Len(DataOf(m)) = DataCells[m]
    BY <1>1, <1>3 DEF DataOf
  <1> DEFINE h == HeaderOf(m)
             d == DataOf(m)
  <1> HIDE DEF h, d
  <1>6. /\ h \o d \in Seq(Cells) /\ Len(h \o d) = HeaderCells + DataCells[m]
        /\ \A i \in 1 .. HeaderCells + DataCells[m] :
              (h \o d)[i] = IF i <= HeaderCells THEN h[i] ELSE d[i - HeaderCells]
    <2>1. h \in Seq(Cells) /\ d \in Seq(Cells) /\ Len(h) = HeaderCells /\ Len(d) = DataCells[m]
      BY <1>4, <1>5 DEF h, d
    <2>2. /\ h \o d \in Seq(Cells) /\ Len(h \o d) = Len(h) + Len(d)
          /\ \A i \in 1 .. Len(h) + Len(d) : (h \o d)[i] = IF i <= Len(h) THEN h[i] ELSE d[i - Len(h)]
      BY <2>1, ConcatProperties
    <2>3. QED
      BY <2>1, <2>2
  <1>7. Message(m) \in Seq(Cells) /\ Len(Message(m)) = HeaderCells + DataCells[m]
    BY <1>6 DEF Message, h, d
  <1>8. \A i \in 1 .. HeaderCells + DataCells[m] :
            Message(m)[i] = IF i <= HeaderCells THEN HeaderOf(m)[i] ELSE DataOf(m)[i - HeaderCells]
    BY <1>6 DEF Message, h, d
  <1>9. ASSUME NEW k \in 1 .. Size(m)
        PROVE  Message(m)[k].id = m /\ Rank(Message(m)[k]) = k /\ Message(m)[k].good
    <2>1. k \in 1 .. HeaderCells + DataCells[m]
      BY DEF Size
    <2>2. CASE k <= HeaderCells
      <3>1. Message(m)[k] = Cell("header", m, k)
        BY <1>1, <1>8, <2>1, <2>2 DEF HeaderOf
      <3>2. QED
        BY <3>1 DEF Cell, Rank
    <2>3. CASE ~(k <= HeaderCells)
      <3>1. k - HeaderCells \in 1 .. DataCells[m]
        BY <1>1, <2>1, <2>3
      <3>2. Message(m)[k] = Cell("data", m, k - HeaderCells)
        BY <1>8, <2>1, <2>3, <3>1 DEF DataOf
      <3>3. QED
        BY <1>1, <2>1, <3>2 DEF Cell, Rank
    <2>4. QED
      BY <2>2, <2>3
  <1>10. QED
    BY <1>1, <1>4, <1>5, <1>7, <1>9 DEF Size

-----------------------------------------------------------------------------
(* Streams.                                                                *)

\* The cells of a sequence put together of two.
LEMMA JoinedCells ==
    ASSUME NEW s \in Seq(Cells), NEW t \in Seq(Cells)
    PROVE  /\ s \o t \in Seq(Cells) /\ Len(s) \in Nat /\ Len(t) \in Nat
           /\ Len(s \o t) = Len(s) + Len(t)
           /\ \A i \in 1 .. Len(s) : (s \o t)[i] = s[i]
           /\ \A i \in 1 .. Len(t) : (s \o t)[Len(s) + i] = t[i]
  <1>1. Len(s) \in Nat /\ Len(t) \in Nat
    BY LenProperties
  <1>2. QED
    BY <1>1, ConcatProperties

LEMMA Regrouped ==
    ASSUME NEW a \in Seq(Cells), NEW b \in Seq(Cells), NEW c \in Seq(Cells)
    PROVE  (a \o b) \o c = a \o (b \o c)
  BY ConcatAssociative

\* What is read, written or dropped of a sequence, and the rest of it.
LEMMA CutCells ==
    ASSUME NEW s \in Seq(Cells), NEW n \in 0 .. Len(s)
    PROVE  /\ SubSeq(s, 1, n) \in Seq(Cells) /\ Len(SubSeq(s, 1, n)) = n
           /\ Drop(s, n) \in Seq(Cells) /\ Len(Drop(s, n)) = Len(s) - n
           /\ SubSeq(s, 1, n) \o Drop(s, n) = s
  <1>1. Len(s) \in Nat /\ \A i \in 1 .. Len(s) : s[i] \in Cells
    BY LenProperties, ElementOfSeq
  <1>2. SubSeq(s, 1, n) \in Seq(Cells) /\ Len(SubSeq(s, 1, n)) = n
    BY <1>1, SubSeqProperties
  <1>3. Drop(s, n) \in Seq(Cells) /\ Len(Drop(s, n)) = Len(s) - n
    BY <1>1, SubSeqProperties DEF Drop
  <1>4. SubSeq(s, 1, n) \o SubSeq(s, n + 1, Len(s)) = SubSeq(s, 1, Len(s))
    <2>1. 1 \in 1 .. Len(s) + 1 /\ n \in 1 - 1 .. Len(s) /\ Len(s) \in n .. Len(s)
      BY <1>1
    <2>2. QED
      BY <2>1, ConcatAdjacentSubSeq, Zenon
  <1>5. QED
    BY <1>2, <1>3, <1>4, SubSeqFull DEF Drop

\* Cutting a sequence in the middle of another one changes nothing.
LEMMA CutAnywhere ==
    ASSUME NEW a \in Seq(Cells), NEW s \in Seq(Cells), NEW n \in 0 .. Len(s)
    PROVE  (a \o SubSeq(s, 1, n)) \o Drop(s, n) = a \o s
  <1> DEFINE x == SubSeq(s, 1, n)
             y == Drop(s, n)
  <1>1. x \in Seq(Cells) /\ y \in Seq(Cells)
    BY CutCells
  <1>2. x \o y = s
    BY CutCells
  <1> HIDE DEF x, y
  <1>3. (a \o x) \o y = a \o (x \o y)
    BY <1>1, ConcatAssociative
  <1>4. QED
    BY <1>2, <1>3 DEF x, y

\* Joining sequences, for the steps which only regroup.
Join(s, t) == s \o t

LEMMA JoinIsAssociative ==
    /\ \A s, t \in Seq(Cells) : Join(s, t) \in Seq(Cells)
    /\ \A s, t, u \in Seq(Cells) : Join(Join(s, t), u) = Join(s, Join(t, u))
  <1>1. \A s, t \in Seq(Cells) : Join(s, t) \in Seq(Cells)
    BY JoinedCells DEF Join
  <1>2. ASSUME NEW s \in Seq(Cells), NEW t \in Seq(Cells), NEW u \in Seq(Cells)
        PROVE  Join(Join(s, t), u) = Join(s, Join(t, u))
    BY Regrouped DEF Join
  <1>3. QED
    BY <1>1, <1>2

LEMMA RegroupedStream ==
    ASSUME NEW a \in Seq(Cells), NEW x \in Seq(Cells), NEW y \in Seq(Cells),
           NEW o \in Seq(Cells), NEW p \in Seq(Cells)
    PROVE  /\ Join(Join(y, o), p) \in Seq(Cells)
           /\ Join(Join(a, x), Join(Join(y, o), p)) = Join(a, Join(Join(Join(x, y), o), p))
  <1>1. Join(y, o) \in Seq(Cells) /\ Join(Join(y, o), p) \in Seq(Cells)
    BY JoinIsAssociative
  <1>2. Join(Join(x, y), o) = Join(x, Join(y, o))
    BY JoinIsAssociative
  <1>3. Join(Join(x, Join(y, o)), p) = Join(x, Join(Join(y, o), p))
    BY <1>1, JoinIsAssociative
  <1>4. Join(Join(a, x), Join(Join(y, o), p)) = Join(a, Join(x, Join(Join(y, o), p)))
    BY <1>1, JoinIsAssociative
  <1>5. QED
    BY <1>1, <1>2, <1>3, <1>4

\* Bytes read from the socket stay where they are in the stream.
LEMMA MovedInStream ==
    ASSUME NEW a \in Seq(Cells), NEW s \in Seq(Cells), NEW o \in Seq(Cells), NEW p \in Seq(Cells),
           NEW n \in 0 .. Len(s)
    PROVE  /\ Join(a, SubSeq(s, 1, n)) \in Seq(Cells) /\ Drop(s, n) \in Seq(Cells)
           /\ Join(Join(Drop(s, n), o), p) \in Seq(Cells)
           /\ Join(Join(a, SubSeq(s, 1, n)), Join(Join(Drop(s, n), o), p))
                = Join(a, Join(Join(s, o), p))
  <1> DEFINE x == SubSeq(s, 1, n)
             y == Drop(s, n)
  <1>1. x \in Seq(Cells) /\ y \in Seq(Cells)
    BY CutCells
  <1>2. Join(x, y) = s
    BY CutCells DEF Join
  <1> HIDE DEF x, y
  <1>3. Join(a, x) \in Seq(Cells)
    BY <1>1, JoinIsAssociative
  <1>4. /\ Join(Join(y, o), p) \in Seq(Cells)
        /\ Join(Join(a, x), Join(Join(y, o), p)) = Join(a, Join(Join(Join(x, y), o), p))
    BY <1>1, RegroupedStream
  <1>5. Join(Join(a, x), Join(Join(y, o), p)) = Join(a, Join(Join(s, o), p))
    BY <1>2, <1>4
  <1>6. QED
    BY <1>1, <1>3, <1>4, <1>5 DEF x, y

\* add_message_header_byte() moves the header by one place in the stream.
LEMMA ShiftedInStream ==
    ASSUME NEW h \in Seq(Cells), h # <<>>, NEW s \in Seq(Cells), s # <<>>,
           NEW o \in Seq(Cells), NEW p \in Seq(Cells)
    PROVE  LET h2 == Append(Tail(h), Head(s)) IN
           /\ h2 \in Seq(Cells) /\ Len(h2) = Len(h)
           /\ Tail(s) \in Seq(Cells) /\ Join(Join(Tail(s), o), p) \in Seq(Cells)
           /\ \E a \in Seq(Cells) :
                /\ Len(a) = 1
                /\ Join(a, Join(h2, Join(Join(Tail(s), o), p))) = Join(h, Join(Join(s, o), p))
  <1> DEFINE h2 == Append(Tail(h), Head(s))
             a == SubSeq(h, 1, 1)
             b == Drop(h, 1)
             e == SubSeq(s, 1, 1)
             y == Join(Join(Drop(s, 1), o), p)
             w == Join(Join(s, o), p)
  <1>1. Len(h) \in Nat \ {0} /\ Len(s) \in Nat \ {0} /\ 1 \in 0 .. Len(h) /\ 1 \in 0 .. Len(s)
    BY EmptySeq
  <1>2. Tail(h) = Drop(h, 1) /\ Tail(s) = Drop(s, 1)
    BY TailIsSubSeq DEF Drop
  <1>3. a \in Seq(Cells) /\ Len(a) = 1 /\ b \in Seq(Cells) /\ Len(b) = Len(h) - 1
    BY <1>1, CutCells
  <1>4. Join(a, b) = h
    BY <1>1, CutCells DEF Join
  <1>5. Head(s) = s[1] /\ s[1] \in Cells
    BY <1>1, ElementOfSeq
  <1>6. e = <<Head(s)>>
    <2>1. e \in Seq(Cells) /\ Len(e) = 1
      BY <1>1, CutCells
    <2>2. e[1] = s[1]
      <3>1. \A i \in 1 .. 1 : s[i] \in Cells
        BY <1>5
      <3>2. \A i \in 1 .. 1 - 1 + 1 : e[i] = s[1 + i - 1]
        BY <3>1, SubSeqProperties
      <3>3. QED
        BY <3>2
    <2> DEFINE f == <<Head(s)>>
    <2>3. f \in Seq(Cells) /\ Len(f) = 1 /\ f[1] = s[1]
      BY <1>5
    <2> HIDE DEF e, f
    <2>4. \A i \in 1 .. Len(e) : e[i] = f[i]
      BY <2>1, <2>2, <2>3
    <2>5. e = f
      BY <2>1, <2>3, <2>4, SeqEqual
    <2>6. QED
      BY <2>5 DEF f
  <1>7. h2 = Join(b, e) /\ h2 \in Seq(Cells) /\ Len(h2) = Len(h)
    <2>1. h2 = b \o <<Head(s)>>
      BY <1>2, <1>3, <1>5, AppendIsConcat
    <2>2. h2 \in Seq(Cells) /\ Len(h2) = Len(b) + 1
      BY <1>2, <1>3, <1>5, AppendProperties
    <2>3. QED
      BY <1>1, <1>3, <1>6, <2>1, <2>2 DEF Join
  <1>8. Drop(s, 1) \in Seq(Cells) /\ y \in Seq(Cells) /\ Join(Join(b, e), y) = Join(b, w)
    <2> HIDE DEF b
    <2>1. QED
      BY <1>1, <1>3, MovedInStream
  <1>9. w \in Seq(Cells)
    BY JoinIsAssociative
  <1>10. Join(Join(a, b), w) = Join(a, Join(b, w))
    <2> HIDE DEF a, b, w
    <2>1. QED
      BY <1>3, <1>9, JoinIsAssociative
  <1>11. Join(a, Join(h2, y)) = Join(h, w)
    <2> HIDE DEF a, b, w, y, e, h2
    <2>1. QED
      BY <1>4, <1>7, <1>8, <1>10
  <1>12. QED
    BY <1>2, <1>3, <1>7, <1>8, <1>11

\* The rest of a framed stream is framed: the reader may drop any cells.
LEMMA RestIsFramed ==
    ASSUME NEW a \in Seq(Cells), NEW s \in Seq(Cells), Framed(a \o s)
    PROVE  Framed(s)
  <1>1. /\ Len(a) \in Nat /\ Len(s) \in Nat /\ Len(a \o s) = Len(a) + Len(s)
        /\ \A i \in 1 .. Len(s) : (a \o s)[Len(a) + i] = s[i]
    BY JoinedCells
  <1>2. ASSUME NEW i \in 1 .. Len(s), NEW j \in 1 .. Len(s), i < j
        PROVE  Follows(s[i], s[j], j - i)
    <2>1. /\ Len(a) + i \in 1 .. Len(a \o s) /\ Len(a) + j \in 1 .. Len(a \o s)
          /\ Len(a) + i < Len(a) + j /\ (Len(a) + j) - (Len(a) + i) = j - i
      BY <1>1, <1>2
    <2>2. Follows((a \o s)[Len(a) + i], (a \o s)[Len(a) + j], (Len(a) + j) - (Len(a) + i))
      BY <2>1 DEF Framed, Ordered
    <2>3. QED
      BY <1>1, <2>1, <2>2
  <1>3. ASSUME NEW i \in 1 .. Len(s)
        PROVE  Rank(s[i]) + (Len(s) - i) >= Size(s[i].id)
    <2>1. /\ Len(a) + i \in 1 .. Len(a \o s)
          /\ Len(a \o s) - (Len(a) + i) = Len(s) - i
      BY <1>1
    <2>2. Rank((a \o s)[Len(a) + i]) + (Len(a \o s) - (Len(a) + i)) >= Size((a \o s)[Len(a) + i].id)
      BY <2>1 DEF Framed, Complete
    <2>3. QED
      BY <1>1, <2>1, <2>2
  <1>4. QED
    BY <1>2, <1>3 DEF Framed, Ordered, Complete

\* A new message behind a framed stream of earlier ones.
LEMMA MessageAdded ==
    ASSUME NEW s \in Seq(Cells), Framed(s), NEW m \in MessageIds,
           \A i \in 1 .. Len(s) : s[i].id < m
    PROVE  Framed(s \o Message(m))
  <1> DEFINE w == s \o Message(m)
  <1>1. /\ Message(m) \in Seq(Cells) /\ Len(Message(m)) = Size(m) /\ Size(m) \in Nat /\ m \in Nat
        /\ \A k \in 1 .. Size(m) : Message(m)[k].id = m /\ Rank(Message(m)[k]) = k
    BY MessageCells, WireAssumption
  <1>2. /\ w \in Seq(Cells) /\ Len(s) \in Nat /\ Len(w) = Len(s) + Size(m)
        /\ \A i \in 1 .. Len(s) : w[i] = s[i]
        /\ \A i \in 1 .. Size(m) : w[Len(s) + i] = Message(m)[i]
    <2> DEFINE t == Message(m)
    <2>1. t \in Seq(Cells) /\ Len(t) = Size(m)
      BY <1>1
    <2> HIDE DEF t
    <2>2. /\ s \o t \in Seq(Cells) /\ Len(s) \in Nat /\ Len(s \o t) = Len(s) + Len(t)
          /\ \A i \in 1 .. Len(s) : (s \o t)[i] = s[i]
          /\ \A i \in 1 .. Len(t) : (s \o t)[Len(s) + i] = t[i]
      BY <2>1, JoinedCells
    <2>3. QED
      BY <2>1, <2>2 DEF t
  <1> HIDE DEF w
  <1>3. \A i \in 1 .. Len(s) : w[i] \in Cells /\ w[i].id < m
    BY <1>2, ElementOfSeq
  <1>4. ASSUME NEW j \in Len(s) + 1 .. Len(w)
        PROVE  w[j].id = m /\ Rank(w[j]) = j - Len(s)
    <2>1. j - Len(s) \in 1 .. Size(m) /\ Len(s) + (j - Len(s)) = j
      BY <1>1, <1>2
    <2>2. w[Len(s) + (j - Len(s))] = Message(m)[j - Len(s)]
      BY <1>2, <2>1
    <2>3. QED
      BY <1>1, <2>1, <2>2
  <1>5. ASSUME NEW i \in 1 .. Len(s)
        PROVE  /\ Rank(w[i]) \in Nat /\ Size(w[i].id) \in Nat
               /\ Rank(w[i]) + (Len(s) - i) >= Size(w[i].id)
    BY <1>2, <1>3, CellFacts DEF Framed, Complete
  <1>6. ASSUME NEW i \in 1 .. Len(w), NEW j \in 1 .. Len(w), i < j
        PROVE  Follows(w[i], w[j], j - i)
    <2>1. CASE j <= Len(s)
      <3>1. i \in 1 .. Len(s) /\ j \in 1 .. Len(s)
        BY <1>2, <1>6, <2>1
      <3>2. Follows(s[i], s[j], j - i)
        BY <1>6, <3>1 DEF Framed, Ordered
      <3>3. QED
        BY <1>2, <3>1, <3>2
    <2>2. CASE i <= Len(s) /\ j > Len(s)
      <3>1. i \in 1 .. Len(s) /\ j \in Len(s) + 1 .. Len(w)
        BY <1>2, <2>2
      <3>2. /\ w[i].id < w[j].id /\ Rank(w[j]) = j - Len(s)
            /\ Rank(w[i]) \in Nat /\ Size(w[i].id) \in Nat
            /\ Rank(w[i]) + (Len(s) - i) >= Size(w[i].id)
        BY <1>3, <1>4, <1>5, <3>1
      <3>3. j - i >= (Size(w[i].id) - Rank(w[i])) + Rank(w[j])
        BY <1>2, <3>1, <3>2
      <3>4. QED
        BY <3>2, <3>3 DEF Follows
    <2>3. CASE i > Len(s)
      <3>1. i \in Len(s) + 1 .. Len(w) /\ j \in Len(s) + 1 .. Len(w)
        BY <1>1, <1>2, <1>6, <2>3
      <3>2. w[i].id = m /\ w[j].id = m /\ Rank(w[i]) = i - Len(s) /\ Rank(w[j]) = j - Len(s)
        BY <1>4, <3>1
      <3>3. w[j].id = w[i].id /\ Rank(w[j]) = Rank(w[i]) + (j - i)
        BY <1>2, <3>1, <3>2
      <3>4. QED
        BY <3>3 DEF Follows
    <2>4. QED
      BY <1>2, <2>1, <2>2, <2>3
  <1>7. ASSUME NEW i \in 1 .. Len(w)
        PROVE  Rank(w[i]) + (Len(w) - i) >= Size(w[i].id)
    <2>1. CASE i <= Len(s)
      BY <1>1, <1>2, <1>5, <2>1
    <2>2. CASE i > Len(s)
      <3>1. i \in Len(s) + 1 .. Len(w)
        BY <1>1, <1>2, <2>2
      <3>2. w[i].id = m /\ Rank(w[i]) = i - Len(s)
        BY <1>4, <3>1
      <3>3. QED
        BY <1>1, <1>2, <3>1, <3>2
    <2>3. QED
      BY <1>2, <2>1, <2>2
  <1>8. Framed(w)
    BY <1>2, <1>6, <1>7 DEF Framed, Ordered, Complete
  <1>9. QED
    BY <1>8 DEF w

\* A framed stream which begins with the first cell of a message begins with
\* the whole message.
LEMMA FrontMessage ==
    ASSUME NEW s \in Seq(Cells), Framed(s), Len(s) # 0, Rank(s[1]) = 1
    PROVE  LET m == s[1].id IN
           /\ m \in MessageIds /\ Size(m) \in Nat /\ Len(s) \in Nat /\ Size(m) <= Len(s)
           /\ \A i \in 1 .. Size(m) : s[i].id = m /\ Rank(s[i]) = i
           /\ \A i \in Size(m) + 1 .. Len(s) : m < s[i].id
           /\ Len(s) > Size(m) => Rank(s[Size(m) + 1]) = 1
  <1> DEFINE m == s[1].id
  <1>1. Len(s) \in Nat /\ 1 \in 1 .. Len(s) /\ \A i \in 1 .. Len(s) : s[i] \in Cells
    BY LenProperties, ElementOfSeq
  <1>2. m \in MessageIds /\ m \in Nat /\ Size(m) \in Nat /\ 1 <= Size(m)
    BY <1>1, CellFacts
  <1>3. Size(m) <= Len(s)
    <2>1. Rank(s[1]) + (Len(s) - 1) >= Size(s[1].id)
      BY <1>1 DEF Framed, Complete
    <2>2. QED
      BY <1>1, <1>2, <2>1
  <1>4. ASSUME NEW i \in 2 .. Len(s)
        PROVE  /\ Rank(s[i]) \in Nat /\ 1 <= Rank(s[i]) /\ Rank(s[i]) <= Size(s[i].id)
               /\ \/ s[i].id = m /\ Rank(s[i]) = i
                  \/ m < s[i].id /\ i - 1 >= (Size(m) - 1) + Rank(s[i])
    <2>1. i \in 1 .. Len(s) /\ 1 < i
      BY <1>1
    <2>2. Follows(s[1], s[i], i - 1)
      BY <1>1, <2>1 DEF Framed, Ordered
    <2>3. Rank(s[i]) \in Nat /\ 1 <= Rank(s[i]) /\ Rank(s[i]) <= Size(s[i].id)
      BY <1>1, <2>1, CellFacts
    <2>4. \/ s[i].id = m /\ Rank(s[i]) = Rank(s[1]) + (i - 1)
          \/ m < s[i].id /\ i - 1 >= (Size(m) - Rank(s[1])) + Rank(s[i])
      BY <2>2 DEF Follows
    <2>5. QED
      BY <2>3, <2>4
  <1> HIDE DEF m
  <1>5. ASSUME NEW i \in 1 .. Size(m)
        PROVE  s[i].id = m /\ Rank(s[i]) = i
    <2>1. CASE i = 1
      BY <2>1 DEF m
    <2>2. CASE i # 1
      <3>1. i \in 2 .. Len(s)
        BY <1>1, <1>2, <1>3, <2>2
      <3>2. QED
        BY <1>2, <1>4, <3>1
    <2>3. QED
      BY <2>1, <2>2
  <1>6. ASSUME NEW i \in Size(m) + 1 .. Len(s)
        PROVE  m < s[i].id
    <2>1. i \in 2 .. Len(s)
      BY <1>1, <1>2
    <2>2. CASE s[i].id = m /\ Rank(s[i]) = i
      <3>1. i <= Size(m)
        BY <1>4, <2>1, <2>2
      <3>2. QED
        BY <1>1, <1>2, <3>1
    <2>3. QED
      BY <1>4, <2>1, <2>2
  <1>7. ASSUME Len(s) > Size(m)
        PROVE  Rank(s[Size(m) + 1]) = 1
    <2>1. Size(m) + 1 \in 2 .. Len(s) /\ Size(m) + 1 \in Size(m) + 1 .. Len(s)
      BY <1>1, <1>2, <1>7
    <2>2. m < s[Size(m) + 1].id /\ s[Size(m) + 1].id \in Nat
      <3>1. Size(m) + 1 \in 1 .. Len(s)
        BY <1>1, <1>2, <2>1
      <3>2. QED
        BY <1>1, <1>6, <2>1, <3>1, CellFacts
    <2>3. /\ Rank(s[Size(m) + 1]) \in Nat /\ 1 <= Rank(s[Size(m) + 1])
          /\ (Size(m) + 1) - 1 >= (Size(m) - 1) + Rank(s[Size(m) + 1])
      BY <1>2, <1>4, <2>1, <2>2
    <2>4. QED
      BY <1>2, <2>3
  <1>8. QED
    BY <1>1, <1>2, <1>3, <1>5, <1>6, <1>7 DEF m

\* The order of arrival holds for the rest of a stream.
LEMMA RestIsLater ==
    ASSUME NEW a \in Seq(Cells), NEW s \in Seq(Cells), NEW n, NEW d, Later(a \o s, n, d)
    PROVE  Later(s, n, d)
  <1>1. /\ Len(a) \in Nat /\ Len(s) \in Nat /\ Len(a \o s) = Len(a) + Len(s)
        /\ \A i \in 1 .. Len(s) : (a \o s)[Len(a) + i] = s[i]
    BY JoinedCells
  <1>2. \A i \in 1 .. Len(s) : Len(a) + i \in 1 .. Len(a \o s)
    BY <1>1
  <1>3. QED
    BY <1>1, <1>2 DEF Later

\* The damaged cells of a message are behind its beginning.
LEMMA RestIsMarked ==
    ASSUME NEW a \in Seq(Cells), NEW s \in Seq(Cells), NEW bad,
           Framed(a \o s), Marked(a \o s, bad)
    PROVE  Marked(s, bad)
  <1> DEFINE w == a \o s
  <1>1. /\ w \in Seq(Cells)
        /\ Len(a) \in Nat /\ Len(s) \in Nat /\ Len(w) = Len(a) + Len(s)
        /\ \A i \in 1 .. Len(s) : w[Len(a) + i] = s[i]
    BY JoinedCells
  <1>2. Ordered(w) /\ Marked(w, bad)
    BY DEF Framed
  <1> HIDE DEF w
  <1>3. \A i \in 1 .. Len(s) : Len(a) + i \in 1 .. Len(w)
    BY <1>1
  <1>4. ASSUME NEW i \in 1 .. Len(s), NEW m \in MessageIds, IsBad(s[i], m)
        PROVE  m \in bad
    BY <1>1, <1>2, <1>3, <1>4 DEF Marked
  <1>5. ASSUME NEW i \in 1 .. Len(s), NEW m \in bad, IsBegin(s[i], m)
        PROVE  \E j \in 1 .. Len(s) : IsBad(s[j], m)
    <2>1. IsBegin(w[Len(a) + i], m)
      BY <1>1, <1>5
    <2>2. PICK j \in 1 .. Len(w) : IsBad(w[j], m)
      BY <1>2, <1>3, <2>1 DEF Marked
    <2>3. ~(j < Len(a) + i)
      <3>1. SUFFICES ASSUME j < Len(a) + i PROVE FALSE
        OBVIOUS
      <3>2. Follows(w[j], w[Len(a) + i], (Len(a) + i) - j)
        BY <1>2, <1>3, <3>1 DEF Ordered
      <3>3. w[j].id = w[Len(a) + i].id /\ Rank(w[Len(a) + i]) = 1
        BY <2>1, <2>2 DEF IsBegin, IsBad
      <3>4. Rank(w[j]) \in Nat /\ 1 <= Rank(w[j]) /\ w[j].id \in Nat
        BY <1>1, ElementOfSeq, CellFacts
      <3>5. 1 = Rank(w[j]) + ((Len(a) + i) - j)
        BY <3>2, <3>3, <3>4 DEF Follows
      <3>6. QED
        BY <1>1, <3>1, <3>4, <3>5
    <2>4. j - Len(a) \in 1 .. Len(s) /\ Len(a) + (j - Len(a)) = j
      BY <1>1, <2>3
    <2>5. IsBad(s[j - Len(a)], m)
      BY <1>1, <2>2, <2>4
    <2>6. QED
      BY <2>4, <2>5
  <1>6. QED
    BY <1>4, <1>5 DEF Marked

-----------------------------------------------------------------------------
(* What is_message_header_valid() tells of the stream.                     *)

\* A valid header is the beginning of a message which is not spoiled.
LEMMA ValidFront ==
    ASSUME NEW h \in Seq(Cells), NEW r \in Seq(Cells), NEW bad,
           Len(h) = HeaderCells, IsHeaderValid(h), Framed(h \o r), Marked(h \o r, bad)
    PROVE  /\ (h \o r)[1] = h[1] /\ Rank(h[1]) = 1
           /\ h[1].id \in MessageIds /\ h[1].id \notin bad
  <1> DEFINE s == h \o r
             m == h[1].id
  <1>1. HeaderCells \in Nat /\ 1 <= HeaderCells
    BY WireAssumption
  <1>2. /\ s \in Seq(Cells) /\ Len(s) = Len(h) + Len(r) /\ Len(r) \in Nat
        /\ \A i \in 1 .. HeaderCells : s[i] = h[i]
    BY JoinedCells
  <1>3. \A k \in 1 .. HeaderCells : h[k] = Cell("header", m, k)
    BY DEF IsHeaderValid
  <1>4. s[1] = h[1] /\ Rank(h[1]) = 1 /\ \A k \in 1 .. HeaderCells : h[k].good
    <2>1. 1 \in 1 .. HeaderCells
      BY <1>1
    <2>2. \A k \in 1 .. HeaderCells : h[k].good /\ h[k].part = "header" /\ h[k].at = k
      BY <1>3 DEF Cell
    <2>3. QED
      BY <1>2, <2>1, <2>2 DEF Rank
  <1>5. Framed(s) /\ Marked(s, bad)
    OBVIOUS
  <1> HIDE DEF s, m
  <1>6. /\ m \in MessageIds /\ Size(m) \in Nat /\ Size(m) <= Len(s) /\ Len(s) \in Nat
        /\ \A i \in 1 .. Size(m) : s[i].id = m /\ Rank(s[i]) = i
        /\ \A i \in Size(m) + 1 .. Len(s) : m < s[i].id
    <2>1. Len(s) # 0 /\ Rank(s[1]) = 1 /\ s[1].id = m
      BY <1>1, <1>2, <1>4 DEF m
    <2>2. QED
      BY <1>2, <1>5, <2>1, FrontMessage
  <1>7. ASSUME m \in bad
        PROVE  FALSE
    <2>1. IsBegin(s[1], m) /\ 1 \in 1 .. Len(s)
      BY <1>1, <1>2, <1>4 DEF IsBegin, m
    <2>2. PICK j \in 1 .. Len(s) : IsBad(s[j], m)
      BY <1>5, <1>7, <2>1 DEF Marked
    <2>3. j \in 1 .. Size(m)
      <3>1. SUFFICES ASSUME j \notin 1 .. Size(m) PROVE FALSE
        OBVIOUS
      <3>2. j \in Size(m) + 1 .. Len(s)
        BY <1>6, <3>1
      <3>3. m < m /\ m \in Nat
        BY <1>6, <2>2, <3>2, WireAssumption DEF IsBad
      <3>4. QED
        BY <3>3
    <2>4. Rank(s[j]) = j /\ s[j].part = "header" /\ ~s[j].good
      BY <1>6, <2>2, <2>3 DEF IsBad
    <2>5. j \in 1 .. HeaderCells
      <3>1. s[j] \in Cells
        BY <1>2, ElementOfSeq
      <3>2. Rank(s[j]) <= HeaderCells
        BY <2>4, <3>1, CellFacts
      <3>3. QED
        BY <1>1, <2>4, <3>2
    <2>6. QED
      BY <1>2, <1>4, <2>4, <2>5
  <1>8. QED
    BY <1>4, <1>6, <1>7 DEF s, m

\* A header which is not valid although it begins a message has a damaged
\* byte, so that the search for the next one may go past it.
LEMMA InvalidFront ==
    ASSUME NEW h \in Seq(Cells), NEW r \in Seq(Cells), NEW bad,
           Len(h) = HeaderCells, ~IsHeaderValid(h), Framed(h \o r), Marked(h \o r, bad),
           Rank((h \o r)[1]) = 1
    PROVE  (h \o r)[1].id \in bad
  <1> DEFINE s == h \o r
             m == s[1].id
  <1>1. HeaderCells \in Nat /\ 1 <= HeaderCells
    BY WireAssumption
  <1>2. /\ s \in Seq(Cells) /\ Len(s) = Len(h) + Len(r) /\ Len(r) \in Nat
        /\ \A i \in 1 .. HeaderCells : s[i] = h[i]
    BY JoinedCells
  <1>3. Framed(s) /\ Marked(s, bad) /\ Rank(s[1]) = 1
    OBVIOUS
  <1> HIDE DEF s
  <1>4. /\ m \in MessageIds /\ Size(m) \in Nat /\ Size(m) <= Len(s) /\ Len(s) \in Nat
        /\ \A i \in 1 .. Size(m) : s[i].id = m /\ Rank(s[i]) = i
    <2>1. Len(s) # 0
      BY <1>1, <1>2
    <2>2. QED
      BY <1>2, <1>3, <2>1, FrontMessage
  <1>5. HeaderCells <= Size(m) /\ h[1].id = m
    <2>1. DataCells[m] \in Nat
      BY <1>4, WireAssumption
    <2>2. QED
      BY <1>1, <1>2, <2>1 DEF Size
  <1>6. PICK k \in 1 .. HeaderCells : h[k] # Cell("header", m, k)
    BY <1>5 DEF IsHeaderValid
  <1>7. s[k] \in Cells /\ s[k] # Cell("header", m, k) /\ s[k].id = m /\ Rank(s[k]) = k
    <2>1. k \in 1 .. Len(s) /\ k \in 1 .. Size(m)
      BY <1>1, <1>2, <1>4, <1>5
    <2>2. QED
      BY <1>2, <1>4, <1>6, <2>1, ElementOfSeq
  <1>8. IsBad(s[k], m)
    <2>1. Rank(s[k]) <= HeaderCells
      BY <1>1, <1>7
    <2>2. s[k].part = "header" /\ ~s[k].good
      BY <1>7, <2>1, HeaderCellIs
    <2>3. QED
      BY <1>7, <2>2 DEF IsBad
  <1>9. m \in bad
    <2>1. k \in 1 .. Len(s)
      BY <1>1, <1>2
    <2>2. QED
      BY <1>3, <1>4, <1>8, <2>1 DEF Marked
  <1>10. QED
    BY <1>9 DEF s

\* The reader goes past the first cell of the stream.
LEMMA AheadOfFirst ==
    ASSUME NEW s \in Seq(Cells), NEW q, NEW gone, Ahead(s, 1, q, gone),
           Len(s) # 0 /\ Rank(s[1]) = 1 => s[1].id \in gone
    PROVE  Ahead(s, 2, q, gone)
  <1>1. SUFFICES ASSUME NEW k \in DOMAIN q, q[k] \notin gone
                 PROVE  \E i \in 2 .. Len(s) : IsBegin(s[i], q[k])
    BY DEF Ahead
  <1>2. PICK i \in 1 .. Len(s) : IsBegin(s[i], q[k])
    BY <1>1 DEF Ahead
  <1>3. Len(s) \in Nat
    BY LenProperties
  <1>4. i # 1
    BY <1>1, <1>2, <1>3 DEF IsBegin
  <1>5. i \in 2 .. Len(s)
    BY <1>3, <1>4
  <1>6. QED
    BY <1>2, <1>5

LEMMA AheadOfRest ==
    ASSUME NEW a \in Seq(Cells), Len(a) = 1, NEW s \in Seq(Cells), NEW q, NEW gone,
           Ahead(a \o s, 2, q, gone)
    PROVE  Ahead(s, 1, q, gone)
  <1>1. SUFFICES ASSUME NEW k \in DOMAIN q, q[k] \notin gone
                 PROVE  \E i \in 1 .. Len(s) : IsBegin(s[i], q[k])
    BY DEF Ahead
  <1>2. PICK i \in 2 .. Len(a \o s) : IsBegin((a \o s)[i], q[k])
    BY <1>1 DEF Ahead
  <1>3. /\ Len(s) \in Nat /\ Len(a \o s) = 1 + Len(s)
        /\ \A j \in 1 .. Len(s) : (a \o s)[1 + j] = s[j]
    <2>1. /\ Len(s) \in Nat /\ Len(a \o s) = Len(a) + Len(s)
          /\ \A j \in 1 .. Len(s) : (a \o s)[Len(a) + j] = s[j]
      BY JoinedCells
    <2>2. QED
      BY <2>1
  <1>4. i - 1 \in 1 .. Len(s) /\ 1 + (i - 1) = i
    BY <1>3
  <1>5. IsBegin(s[i - 1], q[k])
    BY <1>2, <1>3, <1>4
  <1>6. QED
    BY <1>4, <1>5

\* The data of a message is written after its header and arrives behind it.
LEMMA MessageTaken ==
    ASSUME NEW h \in Seq(Cells), NEW data \in Seq(Cells), NEW r \in Seq(Cells),
           Len(h) = HeaderCells, IsHeaderValid(h), Len(data) = DataSize(h),
           NEW n, NEW d, NEW bad, NEW q, NEW gone,
           Framed((h \o data) \o r), Later((h \o data) \o r, n, d),
           Marked((h \o data) \o r, bad), Ahead((h \o data) \o r, 1, q, gone)
    PROVE  /\ [j \in DOMAIN data |-> [data[j] EXCEPT !.good = TRUE]] = DataOf(h[1].id)
           /\ h[1].id \in MessageIds /\ h[1].id \notin bad /\ h[1].id < n
           /\ \A k \in DOMAIN d : d[k].id < h[1].id
           /\ \A i \in 1 .. Len(r) : h[1].id < r[i].id
           /\ Framed(r) /\ Later(r, n, d) /\ Marked(r, bad)
           /\ Ahead(r, 1, q, gone \union {h[1].id})
           /\ Len(r) # 0 => Rank(r[1]) = 1
  <1> DEFINE s == (h \o data) \o r
             m == h[1].id
  <1>1. HeaderCells \in Nat /\ 1 <= HeaderCells
    BY WireAssumption
  <1>2. /\ h \o data \in Seq(Cells) /\ Len(data) \in Nat
        /\ Len(h \o data) = HeaderCells + Len(data)
        /\ \A i \in 1 .. HeaderCells : (h \o data)[i] = h[i]
        /\ \A i \in 1 .. Len(data) : (h \o data)[HeaderCells + i] = data[i]
    BY JoinedCells
  <1>3. /\ s \in Seq(Cells) /\ Len(r) \in Nat /\ Len(s) = Len(h \o data) + Len(r)
        /\ \A i \in 1 .. Len(h \o data) : s[i] = (h \o data)[i]
        /\ \A i \in 1 .. Len(r) : s[Len(h \o data) + i] = r[i]
    BY <1>2, JoinedCells
  <1>4. s = h \o (data \o r) /\ data \o r \in Seq(Cells)
    BY ConcatAssociative, JoinedCells
  <1>5. Framed(s) /\ Later(s, n, d) /\ Marked(s, bad) /\ Ahead(s, 1, q, gone)
    OBVIOUS
  <1>6. Framed(r) /\ Later(r, n, d) /\ Marked(r, bad)
    BY <1>2, RestIsFramed, RestIsLater, RestIsMarked
  <1> HIDE DEF s
  <1>7. s[1] = h[1] /\ Rank(h[1]) = 1 /\ m \in MessageIds /\ m \notin bad
    BY <1>4, <1>5, ValidFront
  <1>8. Size(m) = HeaderCells + Len(data) /\ Len(data) = DataCells[m]
    BY DEF Size, DataSize
  <1>9. /\ \A i \in 1 .. Size(m) : s[i].id = m /\ Rank(s[i]) = i
        /\ \A i \in Size(m) + 1 .. Len(s) : m < s[i].id
        /\ Len(s) > Size(m) => Rank(s[Size(m) + 1]) = 1
    <2>1. Len(s) # 0 /\ Rank(s[1]) = 1 /\ s[1].id = m
      BY <1>1, <1>2, <1>3, <1>7
    <2> HIDE DEF m
    <2>2. QED
      BY <1>3, <1>5, <2>1, FrontMessage
  <1>10. m < n /\ \A k \in DOMAIN d : d[k].id < m
    <2>1. 1 \in 1 .. Len(s)
      BY <1>1, <1>2, <1>3
    <2>2. QED
      BY <1>5, <1>7, <2>1 DEF Later
  <1>11. [j \in DOMAIN data |-> [data[j] EXCEPT !.good = TRUE]] = DataOf(m)
    <2>1. ASSUME NEW j \in 1 .. Len(data)
          PROVE  [data[j] EXCEPT !.good = TRUE] = Cell("data", m, j)
      <3>1. HeaderCells + j \in 1 .. Size(m) /\ HeaderCells + j \in 1 .. Len(h \o data)
        BY <1>1, <1>2, <1>8
      <3>2. data[j] = s[HeaderCells + j] /\ data[j] \in Cells
        BY <1>2, <1>3, <3>1, ElementOfSeq
      <3>3. data[j].id = m /\ Rank(data[j]) = HeaderCells + j
        BY <1>9, <3>1, <3>2
      <3>4. j \in Nat /\ j # 0
        BY <1>2
      <3>5. QED
        BY <3>2, <3>3, <3>4, DataCellIs
    <2>2. DOMAIN data = 1 .. Len(data)
      BY LenProperties
    <2>3. QED
      BY <1>8, <2>1, <2>2 DEF DataOf
  <1>12. \A i \in 1 .. Len(r) : m < r[i].id
    <2>1. \A i \in 1 .. Len(r) : Len(h \o data) + i \in Size(m) + 1 .. Len(s)
      BY <1>1, <1>2, <1>3, <1>8
    <2>2. QED
      BY <1>3, <1>9, <2>1
  <1>13. Len(r) # 0 => Rank(r[1]) = 1
    <2>1. SUFFICES ASSUME Len(r) # 0 PROVE Rank(r[1]) = 1
      OBVIOUS
    <2>2. Len(s) > Size(m) /\ 1 \in 1 .. Len(r) /\ Len(h \o data) + 1 = Size(m) + 1
      BY <1>1, <1>2, <1>3, <1>8, <2>1
    <2>3. QED
      BY <1>3, <1>9, <2>2
  <1>14. Ahead(r, 1, q, gone \union {m})
    <2>1. SUFFICES ASSUME NEW k \in DOMAIN q, q[k] \notin gone, q[k] # m
                   PROVE  \E i \in 1 .. Len(r) : IsBegin(r[i], q[k])
      BY DEF Ahead
    <2>2. PICK i \in 1 .. Len(s) : IsBegin(s[i], q[k])
      BY <1>5, <2>1 DEF Ahead
    <2>3. i \notin 1 .. Size(m)
      BY <1>9, <2>1, <2>2 DEF IsBegin
    <2>4. i - Size(m) \in 1 .. Len(r) /\ Len(h \o data) + (i - Size(m)) = i
      <3>1. Len(s) = Size(m) + Len(r) /\ Size(m) \in Nat /\ Len(h \o data) = Size(m)
        BY <1>1, <1>2, <1>3, <1>8
      <3> DEFINE z == Size(m)
      <3> HIDE DEF z
      <3>2. Len(s) = z + Len(r) /\ z \in Nat /\ Len(h \o data) = z /\ i \notin 1 .. z
        BY <2>3, <3>1 DEF z
      <3>3. i - z \in 1 .. Len(r) /\ z + (i - z) = i
        BY <1>3, <3>2
      <3>4. QED
        BY <3>2, <3>3 DEF z
    <2>5. IsBegin(r[i - Size(m)], q[k])
      BY <1>3, <2>2, <2>4
    <2>6. QED
      BY <2>4, <2>5
  <1>15. QED
    BY <1>6, <1>7, <1>10, <1>11, <1>12, <1>13, <1>14 DEF s

-----------------------------------------------------------------------------
(* The steps.  Each lemma shows what becomes of the stream.                *)

\* The parts of the stream have the type of a sequence of cells.
LEMMA StreamParts ==
    ASSUME OneThread, WireTypes
    PROVE  /\ TheThread \in Threads /\ Threads = {TheThread}
           /\ pending[TheThread] \in Seq(Cells) /\ Held \in Seq(Cells)
           /\ socket \o output \in Seq(Cells)
           /\ (socket \o output) \o pending[TheThread] \in Seq(Cells)
           /\ Stream \in Seq(Cells)
  <1>1. TheThread \in Threads /\ Threads = {TheThread}
    BY DEF OneThread, TheThread
  <1>2. pending[TheThread] \in Seq(Cells)
    BY <1>1 DEF WireTypes
  <1>3. Held \in Seq(Cells)
    BY JoinedCells DEF WireTypes, Held
  <1>4. socket \o output \in Seq(Cells)
    BY JoinedCells DEF WireTypes
  <1>5. (socket \o output) \o pending[TheThread] \in Seq(Cells)
    BY <1>2, <1>4, JoinedCells
  <1>6. QED
    BY <1>1, <1>2, <1>3, <1>4, <1>5, JoinedCells DEF Stream

\* What write() adds is behind all the bytes on their way.
LEMMA WriteAppends ==
    ASSUME WireTypes, NEW bytes \in Seq(Cells), Write(bytes)
    PROVE  /\ socket' \in Seq(Cells) /\ output' \in Seq(Cells)
           /\ socket' \o output' = (socket \o output) \o bytes
  <1>1. PICK n \in IF output = <<>> THEN 0..Least(Capacity - Len(socket), Len(bytes)) ELSE {0} :
            socket' = socket \o SubSeq(bytes, 1, n) /\ output' = output \o Drop(bytes, n)
    BY DEF Write
  <1>2. /\ socket \in Seq(Cells) /\ output \in Seq(Cells)
        /\ Len(socket) \in Nat /\ Len(bytes) \in Nat /\ Capacity \in Nat
    BY LenProperties, WireAssumption DEF WireTypes
  <1>3. n \in 0 .. Len(bytes)
    BY <1>1, <1>2 DEF Least
  <1>4. /\ SubSeq(bytes, 1, n) \in Seq(Cells) /\ Drop(bytes, n) \in Seq(Cells)
        /\ SubSeq(bytes, 1, n) \o Drop(bytes, n) = bytes
        /\ Len(SubSeq(bytes, 1, n)) = n
    BY <1>3, CutCells
  <1>5. socket' \in Seq(Cells) /\ output' \in Seq(Cells)
    BY <1>1, <1>2, <1>4, JoinedCells
  <1>6. CASE output = <<>>
    <2>1. output' = Drop(bytes, n) /\ socket \o output = socket
      BY <1>1, <1>2, <1>4, <1>6, ConcatEmptySeq
    <2>2. (socket \o SubSeq(bytes, 1, n)) \o Drop(bytes, n) = socket \o bytes
      BY <1>2, <1>3, CutAnywhere
    <2>3. QED
      BY <1>1, <1>4, <1>5, <2>1, <2>2
  <1>7. CASE output # <<>>
    <2>1. n = 0
      BY <1>1, <1>7
    <2>2. SubSeq(bytes, 1, n) = <<>>
      BY <1>4, <2>1, EmptySeq
    <2>3. Drop(bytes, n) = bytes /\ socket' = socket
      BY <1>1, <1>2, <1>4, <2>2, ConcatEmptySeq
    <2>4. (socket \o output) \o bytes = socket \o (output \o bytes)
      BY <1>2, ConcatAssociative
    <2>5. QED
      BY <1>1, <1>5, <2>3, <2>4
  <1>8. QED
    BY <1>6, <1>7

LEMMA DeliveredTypes ==
    ASSUME WireTypes
    PROVE  /\ Len(delivered) \in Nat /\ DOMAIN delivered = 1 .. Len(delivered)
           /\ \A k \in DOMAIN delivered : delivered[k].id \in MessageIds /\ delivered[k].id \in Nat
  <1> DEFINE R == [id : MessageIds, data : Seq(Cells)]
  <1>1. delivered \in Seq(R)
    BY DEF WireTypes
  <1>2. Len(delivered) \in Nat /\ DOMAIN delivered = 1 .. Len(delivered)
    BY <1>1, LenProperties
  <1>3. \A k \in DOMAIN delivered : delivered[k] \in R
    BY <1>1, <1>2, ElementOfSeq
  <1>4. \A k \in DOMAIN delivered : delivered[k].id \in MessageIds
    BY <1>3
  <1>5. QED
    BY <1>2, <1>4, WireAssumption

\* A step which only moves bytes along the stream.
LEMMA BytesMoved ==
    ASSUME WireInv, WireTypes', Reading', Stream' = Stream,
           UNCHANGED <<readState, delivered, sent, spoiled, nextId>>,
           connected' \in {connected, TRUE}
    PROVE  WireInv'
  <1>1. FirstPlace' = FirstPlace /\ ArrivedIds' = ArrivedIds
    BY DEF FirstPlace, ArrivedIds
  <1>2. Framed(Stream)'
    BY DEF WireInv, Framed, Ordered, Complete
  <1>3. Later(Stream, nextId, delivered)'
    BY DEF WireInv, Later
  <1>4. Marked(Stream, spoiled)'
    BY DEF WireInv, Marked
  <1>5. Ahead(Stream, FirstPlace, sent, ArrivedIds \union spoiled)'
    BY <1>1 DEF WireInv, Ahead
  <1>6. Received'
    BY DEF WireInv, Received, MessagesAreWhole
  <1>7. (~connected => Stream = <<>> /\ sent = <<>>)'
    BY DEF WireInv
  <1>8. QED
    BY <1>2, <1>3, <1>4, <1>5, <1>6, <1>7 DEF WireInv

LEMMA StreamKept ==
    ASSUME WireInv, WireTypes', Stream' = Stream,
           UNCHANGED <<readState, readData, header, delivered, sent, spoiled, nextId>>,
           connected' \in {connected, TRUE}
    PROVE  WireInv'
  <1>1. Reading'
    BY DEF WireInv, Reading, IsHeaderValid, DataSize
  <1>2. QED
    BY <1>1, BytesMoved

\* process_write() moves bytes from the output buffer to the socket.
LEMMA ProcessWriteStep ==
    ASSUME OneThread, WireInv, ProcessWrite
    PROVE  WireInv'
  <1>1. WireTypes
    BY DEF WireInv
  <1>2. PICK n \in 1 .. Least(Capacity - Len(socket), Len(output)) :
            socket' = socket \o SubSeq(output, 1, n) /\ output' = Drop(output, n)
    BY DEF ProcessWrite
  <1>3. /\ socket \in Seq(Cells) /\ output \in Seq(Cells)
        /\ Len(socket) \in Nat /\ Len(output) \in Nat /\ Capacity \in Nat
    BY <1>1, LenProperties, WireAssumption DEF WireTypes
  <1>4. n \in 0 .. Len(output)
    BY <1>2, <1>3 DEF Least
  <1>5. SubSeq(output, 1, n) \in Seq(Cells) /\ Drop(output, n) \in Seq(Cells)
    BY <1>3, <1>4, CutCells
  <1>6. socket' \in Seq(Cells) /\ output' \in Seq(Cells)
    BY <1>2, <1>3, <1>5, JoinedCells
  <1>7. (socket \o SubSeq(output, 1, n)) \o Drop(output, n) = socket \o output
    BY <1>3, <1>4, CutAnywhere
  <1>8. socket' \o output' = socket \o output
    BY <1>2, <1>7
  <1>9. /\ UNCHANGED <<pending, readState, readData, header, delivered, sent, spoiled, nextId>>
        /\ connected' = connected
    BY DEF ProcessWrite
  <1>10. WireTypes'
    BY <1>1, <1>6, <1>9 DEF WireTypes
  <1>11. Stream' = Stream
    BY <1>8, <1>9 DEF Stream, Held
  <1>12. QED
    BY <1>9, <1>10, <1>11, StreamKept

\* The second write() of send_message() adds what the thread has to write.
LEMMA SendDataStep ==
    ASSUME OneThread, WireInv, NEW t \in Threads, SendData(t)
    PROVE  WireInv'
  <1>1. WireTypes
    BY DEF WireInv
  <1>2. t = TheThread /\ pending[TheThread] \in Seq(Cells) /\ socket \o output \in Seq(Cells)
    BY <1>1, StreamParts
  <1>3. /\ Write(pending[t])
        /\ pending' = [pending EXCEPT ![t] = <<>>]
        /\ UNCHANGED <<readState, readData, header, delivered, sent, spoiled, nextId>>
        /\ connected' = connected
    BY DEF SendData
  <1>4. /\ socket' \in Seq(Cells) /\ output' \in Seq(Cells)
        /\ socket' \o output' = (socket \o output) \o pending[TheThread]
    BY <1>1, <1>2, <1>3, WriteAppends
  <1>5. <<>> \in Seq(Cells)
    BY EmptySeq
  <1>6. pending' \in [Threads -> Seq(Cells)] /\ pending'[TheThread] = <<>>
    BY <1>1, <1>2, <1>3, <1>5 DEF WireTypes
  <1>7. WireTypes'
    BY <1>1, <1>3, <1>4, <1>6 DEF WireTypes
  <1>8. socket' \o output' \in Seq(Cells)
    BY <1>4, JoinedCells
  <1>9. (socket' \o output') \o <<>> = socket' \o output'
    BY <1>8, ConcatEmptySeq
  <1>10. Stream' = Stream
    BY <1>3, <1>4, <1>6, <1>9 DEF Stream, Held
  <1>11. QED
    BY <1>3, <1>7, <1>10, StreamKept

\* The predicates on the stream when a message is added at its end.
LEMMA MessageAddedFacts ==
    ASSUME NEW s \in Seq(Cells), NEW n \in MessageIds, NEW d, NEW bad, NEW q \in Seq(MessageIds),
           NEW gone, NEW first \in Nat \ {0}, first <= Len(s) + 1,
           Later(s, n, d), \A k \in DOMAIN d : d[k].id < n,
           Marked(s, bad), n \notin bad, Ahead(s, first, q, gone),
           \A i \in 1 .. Len(s) : s[i].id < n,
           \A k \in DOMAIN d : d[k].id \in Nat
    PROVE  /\ Later(s \o Message(n), n + 1, d)
           /\ Marked(s \o Message(n), bad)
           /\ Ahead(s \o Message(n), first, Append(q, n), gone)
  <1> DEFINE w == s \o Message(n)
  <1>1. /\ Message(n) \in Seq(Cells) /\ Len(Message(n)) = Size(n) /\ Size(n) \in Nat /\ n \in Nat
        /\ \A k \in 1 .. Size(n) : Message(n)[k].id = n /\ Rank(Message(n)[k]) = k /\ Message(n)[k].good
    BY MessageCells, WireAssumption
  <1>2. /\ w \in Seq(Cells) /\ Len(s) \in Nat /\ Len(w) = Len(s) + Size(n)
        /\ \A i \in 1 .. Len(s) : w[i] = s[i]
        /\ \A i \in 1 .. Size(n) : w[Len(s) + i] = Message(n)[i]
    <2> DEFINE t == Message(n)
    <2>1. t \in Seq(Cells) /\ Len(t) = Size(n)
      BY <1>1
    <2> HIDE DEF t
    <2>2. /\ s \o t \in Seq(Cells) /\ Len(s) \in Nat /\ Len(s \o t) = Len(s) + Len(t)
          /\ \A i \in 1 .. Len(s) : (s \o t)[i] = s[i]
          /\ \A i \in 1 .. Len(t) : (s \o t)[Len(s) + i] = t[i]
      BY <2>1, JoinedCells
    <2>3. QED
      BY <2>1, <2>2 DEF t
  <1> HIDE DEF w
  <1>3. ASSUME NEW j \in Len(s) + 1 .. Len(w)
        PROVE  w[j].id = n /\ Rank(w[j]) = j - Len(s) /\ w[j].good
    <2>1. j - Len(s) \in 1 .. Size(n) /\ Len(s) + (j - Len(s)) = j
      BY <1>1, <1>2
    <2>2. w[Len(s) + (j - Len(s))] = Message(n)[j - Len(s)]
      BY <1>2, <2>1
    <2>3. QED
      BY <1>1, <2>1, <2>2
  <1>4. ASSUME NEW i \in 1 .. Len(w)
        PROVE  i \in 1 .. Len(s) \/ i \in Len(s) + 1 .. Len(w)
    BY <1>2
  <1>5. \A i \in 1 .. Len(s) : s[i].id \in Nat
    BY ElementOfSeq, CellFacts
  <1>6. Later(w, n + 1, d)
    <2>1. ASSUME NEW i \in 1 .. Len(s)
          PROVE  w[i].id < n + 1 /\ \A k \in DOMAIN d : d[k].id < w[i].id
      <3>1. s[i].id < n + 1
        BY <1>1, <1>5
      <3>2. QED
        BY <1>2, <3>1 DEF Later
    <2>2. ASSUME NEW i \in Len(s) + 1 .. Len(w)
          PROVE  w[i].id < n + 1 /\ \A k \in DOMAIN d : d[k].id < w[i].id
      BY <1>1, <1>3
    <2>3. QED
      BY <1>4, <2>1, <2>2 DEF Later
  <1>7. Marked(w, bad)
    <2>1. ASSUME NEW i \in 1 .. Len(w), NEW m \in MessageIds, IsBad(w[i], m)
          PROVE  m \in bad
      <3>1. i \in 1 .. Len(s)
        BY <1>3, <1>4, <2>1 DEF IsBad
      <3>2. QED
        BY <1>2, <2>1, <3>1 DEF Marked
    <2>2. ASSUME NEW i \in 1 .. Len(w), NEW m \in bad, IsBegin(w[i], m)
          PROVE  \E j \in 1 .. Len(w) : IsBad(w[j], m)
      <3>1. i \in 1 .. Len(s)
        BY <1>3, <1>4, <2>2 DEF IsBegin
      <3>2. PICK j \in 1 .. Len(s) : IsBad(s[j], m)
        BY <1>2, <2>2, <3>1 DEF Marked
      <3>3. j \in 1 .. Len(w) /\ w[j] = s[j]
        BY <1>1, <1>2
      <3>4. QED
        BY <3>2, <3>3
    <2>3. QED
      BY <2>1, <2>2 DEF Marked
  <1>8. Ahead(w, first, Append(q, n), gone)
    <2>1. /\ DOMAIN Append(q, n) = 1 .. Len(q) + 1 /\ DOMAIN q = 1 .. Len(q) /\ Len(q) \in Nat
          /\ \A k \in 1 .. Len(q) : Append(q, n)[k] = q[k]
          /\ Append(q, n)[Len(q) + 1] = n
      BY AppendProperties, LenProperties
    <2>2. SUFFICES ASSUME NEW k \in 1 .. Len(q) + 1, Append(q, n)[k] \notin gone
                   PROVE  \E i \in first .. Len(w) : IsBegin(w[i], Append(q, n)[k])
      BY <2>1 DEF Ahead
    <2>3. CASE k = Len(q) + 1
      <3>1. 1 <= Size(n)
        <4>1. DataCells[n] \in Nat /\ HeaderCells \in Nat \ {0}
          BY WireAssumption
        <4>2. QED
          BY <4>1 DEF Size
      <3>2. Len(s) + 1 \in Len(s) + 1 .. Len(w) /\ Len(s) + 1 \in first .. Len(w)
        BY <1>1, <1>2, <3>1
      <3>3. IsBegin(w[Len(s) + 1], n)
        BY <1>2, <1>3, <3>2 DEF IsBegin
      <3>4. QED
        BY <2>1, <2>3, <3>2, <3>3
    <2>4. CASE k # Len(q) + 1
      <3>1. k \in DOMAIN q /\ Append(q, n)[k] = q[k]
        BY <2>1, <2>4
      <3>2. PICK i \in first .. Len(s) : IsBegin(s[i], q[k])
        BY <2>2, <3>1 DEF Ahead
      <3>3. i \in first .. Len(w) /\ i \in 1 .. Len(s)
        BY <1>1, <1>2
      <3>4. QED
        BY <1>2, <3>1, <3>2, <3>3
    <2>5. QED
      BY <2>3, <2>4
  <1>9. QED
    BY <1>6, <1>7, <1>8 DEF w

\* The first write() of send_message(): a whole message joins the stream.
LEMMA SendHeaderStep ==
    ASSUME OneThread, WireInv, NEW t \in Threads, SendHeader(t)
    PROVE  WireInv'
  <1>1. WireTypes
    BY DEF WireInv
  <1>2. /\ t = TheThread /\ pending[TheThread] \in Seq(Cells) /\ Held \in Seq(Cells)
        /\ socket \o output \in Seq(Cells) /\ Stream \in Seq(Cells)
    BY <1>1, StreamParts
  <1>3. /\ nextId \in MessageIds /\ nextId \in Nat /\ nextId' = nextId + 1
        /\ pending[TheThread] = <<>>
        /\ UNCHANGED <<connected, readState, readData, header, delivered, spoiled>>
    BY <1>1, <1>2 DEF SendHeader, WireTypes
  <1>4. ArrivedIds' = ArrivedIds /\ FirstPlace' = FirstPlace /\ Held' = Held
    BY <1>3 DEF ArrivedIds, FirstPlace, Held
  <1>5. \A k \in DOMAIN delivered : delivered[k].id \in Nat /\ delivered[k].id < nextId
    <2>1. \A k \in DOMAIN delivered : delivered[k].id \in MessageIds
      BY <1>1, DeliveredTypes
    <2>2. QED
      BY <2>1, WireAssumption DEF WireInv, Received
  <1>6. \A m \in spoiled : m \in Nat /\ m < nextId
    BY <1>1, WireAssumption DEF WireInv, Received, WireTypes
  <1>7. Received'
    <2>1. \A k \in DOMAIN delivered : delivered[k].id < nextId + 1
      BY <1>3, <1>5
    <2>2. \A m \in spoiled : m < nextId + 1
      BY <1>3, <1>6
    <2>3. MessagesAreWhole'
      BY <1>3 DEF WireInv, Received, MessagesAreWhole
    <2>4. QED
      BY <1>3, <2>1, <2>2, <2>3 DEF WireInv, Received
  <1>8. CASE ~connected
    <2>1. UNCHANGED <<socket, output, pending, sent>>
      BY <1>8 DEF SendHeader
    <2>2. WireTypes'
      BY <1>1, <1>3, <2>1 DEF WireTypes
    <2>3. Stream' = Stream /\ Stream = <<>> /\ sent = <<>>
      BY <1>3, <1>8, <2>1 DEF WireInv, Stream, Held
    <2>4. Len(Stream) = 0
      BY <2>3
    <2>5. Framed(Stream)' /\ Later(Stream, nextId, delivered)' /\ Marked(Stream, spoiled)'
      BY <1>2, <2>3, <2>4 DEF Framed, Ordered, Complete, Later, Marked
    <2>6. Ahead(Stream, FirstPlace, sent, ArrivedIds \union spoiled)'
      BY <1>4, <1>3, <2>1, <2>3 DEF WireInv, Ahead
    <2>7. Reading'
      BY <1>3, <2>3 DEF WireInv, Reading, IsHeaderValid, DataSize
    <2>8. (~connected => Stream = <<>> /\ sent = <<>>)'
      BY <1>3, <2>1, <2>3
    <2>9. QED
      BY <1>7, <2>2, <2>5, <2>6, <2>7, <2>8 DEF WireInv
  <1>9. CASE connected
    <2>1. /\ Write(HeaderOf(nextId))
          /\ pending' = [pending EXCEPT ![t] = DataOf(nextId)]
          /\ sent' = Append(sent, nextId)
      BY <1>9 DEF SendHeader
    <2>2. HeaderOf(nextId) \in Seq(Cells) /\ DataOf(nextId) \in Seq(Cells) /\ Message(nextId) \in Seq(Cells)
      BY <1>3, MessageCells
    <2>3. /\ socket' \in Seq(Cells) /\ output' \in Seq(Cells)
          /\ socket' \o output' = (socket \o output) \o HeaderOf(nextId)
      BY <1>1, <2>1, <2>2, WriteAppends
    <2>4. pending' \in [Threads -> Seq(Cells)] /\ pending'[TheThread] = DataOf(nextId)
      BY <1>1, <1>2, <2>1, <2>2 DEF WireTypes
    <2>5. sent' \in Seq(MessageIds)
      BY <1>1, <1>3, <2>1, AppendProperties DEF WireTypes
    <2>6. WireTypes'
      BY <1>1, <1>3, <2>3, <2>4, <2>5 DEF WireTypes
    <2>7. Stream' = Stream \o Message(nextId)
      <3> DEFINE x == socket \o output
                 hd == HeaderOf(nextId)
                 dt == DataOf(nextId)
      <3>1. Stream = Held \o x
        BY <1>2, <1>3, ConcatEmptySeq DEF Stream
      <3>2. Stream' = Held \o ((x \o hd) \o dt)
        BY <1>4, <2>3, <2>4 DEF Stream
      <3>3. x \in Seq(Cells) /\ hd \in Seq(Cells) /\ dt \in Seq(Cells) /\ hd \o dt \in Seq(Cells)
        BY <1>2, <2>2, JoinedCells
      <3>4. Message(nextId) = hd \o dt
        BY DEF Message
      <3> HIDE DEF x, hd, dt
      <3>5. (x \o hd) \o dt = x \o (hd \o dt)
        BY <3>3, ConcatAssociative
      <3>6. (Held \o x) \o (hd \o dt) = Held \o (x \o (hd \o dt))
        <4> DEFINE y == hd \o dt
        <4>1. Held \in Seq(Cells) /\ x \in Seq(Cells) /\ y \in Seq(Cells)
          BY <1>2, <3>3
        <4> HIDE DEF y
        <4>2. (Held \o x) \o y = Held \o (x \o y)
          BY <4>1, ConcatAssociative
        <4>3. QED
          BY <4>2 DEF y
      <3>7. QED
        BY <3>1, <3>2, <3>4, <3>5, <3>6
    <2>8. \A i \in 1 .. Len(Stream) : Stream[i].id < nextId
      BY DEF WireInv, Later
    <2>9. FirstPlace \in Nat \ {0} /\ FirstPlace <= Len(Stream) + 1 /\ Len(Stream) \in Nat
      <3>1. Len(Stream) \in Nat
        BY <1>2, LenProperties
      <3>2. CASE readState # "ADJUST"
        BY <3>1, <3>2 DEF FirstPlace
      <3>3. CASE readState = "ADJUST"
        <4>1. Held = header /\ Len(header) = HeaderCells /\ header \in Seq(Cells)
          BY <1>1, <3>3 DEF Held, WireInv, Reading, WireTypes
        <4>2. (socket \o output) \o pending[TheThread] \in Seq(Cells)
          BY <1>1, StreamParts
        <4>3. Len(Stream) >= HeaderCells /\ HeaderCells \in Nat \ {0}
          <5> DEFINE y == (socket \o output) \o pending[TheThread]
          <5>1. Stream = header \o y /\ y \in Seq(Cells)
            BY <4>1, <4>2 DEF Stream
          <5> HIDE DEF y
          <5>2. Len(header \o y) = Len(header) + Len(y) /\ Len(y) \in Nat
            BY <4>1, <5>1, JoinedCells
          <5>3. QED
            BY <4>1, <5>1, <5>2, WireAssumption
        <4>4. QED
          BY <3>1, <3>3, <4>3 DEF FirstPlace
      <3>4. QED
        BY <3>2, <3>3
    <2>10. /\ Later(Stream, nextId, delivered) /\ Marked(Stream, spoiled) /\ Framed(Stream)
           /\ Ahead(Stream, FirstPlace, sent, ArrivedIds \union spoiled)
           /\ sent \in Seq(MessageIds) /\ nextId \notin spoiled
      BY <1>1, <1>6 DEF WireInv, WireTypes
    <2>11. Framed(Stream \o Message(nextId))
      BY <1>2, <1>3, <2>8, <2>10, MessageAdded
    <2>12. /\ Later(Stream \o Message(nextId), nextId + 1, delivered)
           /\ Marked(Stream \o Message(nextId), spoiled)
           /\ Ahead(Stream \o Message(nextId), FirstPlace, Append(sent, nextId), ArrivedIds \union spoiled)
      BY <1>2, <1>3, <1>5, <2>8, <2>9, <2>10, MessageAddedFacts
    <2>13. /\ Framed(Stream)' /\ Later(Stream, nextId, delivered)' /\ Marked(Stream, spoiled)'
           /\ Ahead(Stream, FirstPlace, sent, ArrivedIds \union spoiled)'
      BY <1>3, <1>4, <2>1, <2>7, <2>11, <2>12
    <2>14. Reading'
      <3>1. CASE readState = "HEADER"
        <4>1. Rank(Stream'[1]) = 1
          <5>1. CASE Stream = <<>>
            <6>1. Stream' = Message(nextId)
              BY <2>2, <2>7, <5>1, ConcatEmptySeq
            <6>2. 1 \in 1 .. Size(nextId)
              <7>1. DataCells[nextId] \in Nat /\ HeaderCells \in Nat \ {0}
                BY <1>3, WireAssumption
              <7>2. QED
                BY <7>1 DEF Size
            <6>3. QED
              BY <1>3, <6>1, <6>2, MessageCells
          <5>2. CASE Stream # <<>>
            <6>1. Rank(Stream[1]) = 1
              BY <3>1, <5>2 DEF WireInv, Reading
            <6>2. 1 \in 1 .. Len(Stream)
              BY <1>2, <5>2, EmptySeq
            <6>3. Stream'[1] = Stream[1]
              BY <1>2, <2>2, <2>7, <6>2, JoinedCells
            <6>4. QED
              BY <6>1, <6>3
          <5>3. QED
            BY <5>1, <5>2
        <4>2. QED
          BY <1>3, <3>1, <4>1 DEF WireInv, Reading
      <3>2. CASE readState # "HEADER"
        BY <1>1, <1>3, <3>2 DEF WireInv, Reading, IsHeaderValid, DataSize, WireTypes
      <3>3. QED
        BY <3>1, <3>2
    <2>15. QED
      BY <1>3, <1>7, <1>9, <2>6, <2>13, <2>14 DEF WireInv
  <1>10. QED
    BY <1>1, <1>8, <1>9 DEF WireTypes

\* The bytes behind those which the reader holds.
Behind == (socket \o output) \o pending[TheThread]

\* A message is given to process_message(): it leaves the stream.
LEMMA DeliverStep ==
    ASSUME OneThread, WireTypes, Received, connected, NEW h \in Seq(Cells), NEW data \in Seq(Cells),
           Len(h) = HeaderCells, IsHeaderValid(h), Len(data) = DataSize(h),
           socket' \in Seq(Cells), Behind' \in Seq(Cells),
           UNCHANGED <<connected, pending, output, sent, spoiled, nextId>>,
           Framed((h \o data) \o Behind'), Later((h \o data) \o Behind', nextId, delivered),
           Marked((h \o data) \o Behind', spoiled),
           Ahead((h \o data) \o Behind', 1, sent, ArrivedIds \union spoiled),
           Deliver(h, data)
    PROVE  WireInv'
  <1> DEFINE m == h[1].id
             r == Behind'
             new == [id |-> m, data |-> data]
  <1>1. /\ delivered' = Append(delivered, new)
        /\ readState' = "HEADER" /\ readData' = <<>> /\ header' = <<>>
    BY DEF Deliver
  <1>2. /\ [j \in DOMAIN data |-> [data[j] EXCEPT !.good = TRUE]] = DataOf(m)
        /\ m \in MessageIds /\ m \notin spoiled /\ m < nextId
        /\ \A k \in DOMAIN delivered : delivered[k].id < m
        /\ \A i \in 1 .. Len(r) : m < r[i].id
        /\ Framed(r) /\ Later(r, nextId, delivered) /\ Marked(r, spoiled)
        /\ Ahead(r, 1, sent, (ArrivedIds \union spoiled) \union {m})
        /\ Len(r) # 0 => Rank(r[1]) = 1
    BY MessageTaken
  <1>3. Stream' = r
    <2>1. Held' = <<>>
      BY <1>1 DEF Held
    <2>2. Stream' = <<>> \o r
      BY <2>1 DEF Stream, Behind
    <2>3. QED
      BY <2>2, ConcatEmptySeq
  <1> HIDE DEF r, m
  <1>4. new \in [id : MessageIds, data : Seq(Cells)] /\ new.id = m /\ new.data = data
    BY <1>2
  <1> HIDE DEF new
  <1>5. /\ Len(delivered) \in Nat /\ DOMAIN delivered = 1 .. Len(delivered)
        /\ DOMAIN delivered' = 1 .. Len(delivered) + 1
        /\ delivered' \in Seq([id : MessageIds, data : Seq(Cells)])
        /\ \A k \in 1 .. Len(delivered) : delivered'[k] = delivered[k]
        /\ delivered'[Len(delivered) + 1] = new
    <2>1. delivered \in Seq([id : MessageIds, data : Seq(Cells)])
      BY DEF WireTypes
    <2>2. QED
      BY <1>1, <1>4, <2>1, AppendProperties, LenProperties
  <1>6. ASSUME NEW k \in DOMAIN delivered'
        PROVE  \/ k \in DOMAIN delivered /\ delivered'[k] = delivered[k]
               \/ k = Len(delivered) + 1 /\ delivered'[k] = new
    BY <1>5
  <1>7. ArrivedIds' = ArrivedIds \union {m}
    <2>1. ArrivedIds' = {delivered'[k].id : k \in DOMAIN delivered'}
      BY DEF ArrivedIds
    <2>2. ASSUME NEW k \in DOMAIN delivered'
          PROVE  delivered'[k].id \in ArrivedIds \union {m}
      BY <1>4, <1>6 DEF ArrivedIds
    <2>3. m \in ArrivedIds'
      <3>1. Len(delivered) + 1 \in DOMAIN delivered'
        BY <1>5
      <3>2. QED
        BY <1>4, <1>5, <2>1, <3>1
    <2>4. ASSUME NEW k \in DOMAIN delivered
          PROVE  delivered[k].id \in ArrivedIds'
      <3>1. k \in DOMAIN delivered' /\ delivered'[k] = delivered[k]
        BY <1>5
      <3>2. QED
        BY <2>1, <3>1
    <2>5. ArrivedIds \subseteq ArrivedIds'
      BY <2>4 DEF ArrivedIds
    <2>6. ArrivedIds' \subseteq ArrivedIds \union {m}
      BY <2>1, <2>2
    <2>7. QED
      BY <2>3, <2>5, <2>6
  <1>8. WireTypes'
    <2>1. <<>> \in Seq(Cells)
      BY EmptySeq
    <2>2. QED
      BY <1>1, <1>5, <2>1 DEF WireTypes
  <1>9. Framed(Stream)' /\ Marked(Stream, spoiled)'
    BY <1>2, <1>3
  <1>10. Later(Stream, nextId, delivered)'
    <2>1. ASSUME NEW i \in 1 .. Len(r)
          PROVE  r[i].id < nextId /\ \A k \in DOMAIN delivered' : delivered'[k].id < r[i].id
      <3>1. r[i].id < nextId /\ \A k \in DOMAIN delivered : delivered[k].id < r[i].id
        BY <1>2 DEF Later
      <3>2. ASSUME NEW k \in DOMAIN delivered'
            PROVE  delivered'[k].id < r[i].id
        BY <1>2, <1>4, <1>6, <3>1
      <3>3. QED
        BY <3>1, <3>2
    <2>2. Later(r, nextId, delivered')
      BY <2>1 DEF Later
    <2>3. QED
      BY <1>3, <2>2
  <1>11. Ahead(Stream, FirstPlace, sent, ArrivedIds \union spoiled)'
    <2>1. FirstPlace' = 1
      BY <1>1 DEF FirstPlace
    <2>2. (ArrivedIds \union spoiled) \union {m} = ArrivedIds' \union spoiled'
      BY <1>7
    <2>3. QED
      BY <1>2, <1>3, <2>1, <2>2
  <1>12. Reading'
    <2>1. Len(readData') < HeaderCells
      BY <1>1, WireAssumption
    <2>2. Stream' # <<>> => Rank(Stream'[1]) = 1
      BY <1>2, <1>3, EmptySeq DEF r
    <2>3. QED
      BY <1>1, <2>1, <2>2 DEF Reading
  <1>13. Received'
    <2>1. ASSUME NEW k \in DOMAIN delivered'
          PROVE  /\ [j \in DOMAIN delivered'[k].data |-> [delivered'[k].data[j] EXCEPT !.good = TRUE]]
                        = DataOf(delivered'[k].id)
                 /\ delivered'[k].id < nextId' /\ delivered'[k].id \notin spoiled'
      <3>1. CASE k \in DOMAIN delivered /\ delivered'[k] = delivered[k]
        BY <3>1 DEF Received, MessagesAreWhole
      <3>2. CASE delivered'[k] = new
        BY <1>2, <1>4, <3>2
      <3>3. QED
        BY <1>6, <3>1, <3>2
    <2>2. ASSUME NEW j \in DOMAIN delivered', NEW k \in DOMAIN delivered', j < k
          PROVE  delivered'[j].id < delivered'[k].id
      <3>1. CASE k \in DOMAIN delivered
        <4>1. j \in DOMAIN delivered
          BY <1>5, <2>2, <3>1
        <4>2. delivered[j].id < delivered[k].id
          BY <2>2, <3>1, <4>1 DEF Received
        <4>3. QED
          BY <1>5, <3>1, <4>1, <4>2
      <3>2. CASE k \notin DOMAIN delivered
        <4>1. k = Len(delivered) + 1 /\ delivered'[k].id = m
          BY <1>4, <1>6, <3>2
        <4>2. j \in DOMAIN delivered /\ delivered'[j] = delivered[j]
          BY <1>5, <2>2, <4>1
        <4>3. QED
          BY <1>2, <4>1, <4>2
      <3>3. QED
        BY <3>1, <3>2
    <2>3. MessagesAreWhole'
      BY <2>1 DEF MessagesAreWhole, DataOf, Cell
    <2>4. (\A n \in spoiled : n < nextId)'
      BY DEF Received
    <2>5. QED
      BY <2>1, <2>2, <2>3, <2>4 DEF Received
  <1>14. QED
    BY <1>8, <1>9, <1>10, <1>11, <1>12, <1>13 DEF WireInv

\* The reader has a whole header, with all of its stream behind the header.
LEMMA HeaderReadStep ==
    ASSUME OneThread, WireTypes, Received, connected,
           NEW h \in Seq(Cells), NEW rest \in Seq(Cells), Len(h) = HeaderCells,
           socket' \in Seq(Cells), Behind' \in Seq(Cells),
           UNCHANGED <<connected, pending, output, sent, spoiled, nextId>>,
           Framed(h \o Behind'), Later(h \o Behind', nextId, delivered),
           Marked(h \o Behind', spoiled),
           Ahead(h \o Behind', 1, sent, ArrivedIds \union spoiled),
           HeaderRead(h, rest)
    PROVE  WireInv'
  <1>1. CASE IsHeaderValid(h) /\ DataSize(h) = 0
    <2>1. Deliver(h, <<>>)
      BY <1>1 DEF HeaderRead
    <2>2. <<>> \in Seq(Cells) /\ Len(<<>>) = DataSize(h) /\ h \o <<>> = h
      BY <1>1, EmptySeq, ConcatEmptySeq
    <2>3. /\ Framed((h \o <<>>) \o Behind') /\ Later((h \o <<>>) \o Behind', nextId, delivered)
          /\ Marked((h \o <<>>) \o Behind', spoiled)
          /\ Ahead((h \o <<>>) \o Behind', 1, sent, ArrivedIds \union spoiled)
      BY <2>2
    <2>4. QED
      BY <1>1, <2>1, <2>2, <2>3, DeliverStep
  <1>2. CASE ~(IsHeaderValid(h) /\ DataSize(h) = 0)
    <2> DEFINE s == h \o Behind'
    <2>1. header' = h /\ readData' \in Seq(Cells) /\ UNCHANGED delivered
          /\ \/ /\ IsHeaderValid(h) /\ DataSize(h) > 0
                /\ readState' = "DATA" /\ readData' = <<>>
             \/ ~IsHeaderValid(h) /\ readState' = "ADJUST"
      <3>1. CASE IsHeaderValid(h)
        <4>1. DataSize(h) \in Nat
          <5>1. h[1].id \in MessageIds
            BY <3>1, ValidFront
          <5>2. QED
            BY <5>1, WireAssumption DEF DataSize
        <4>2. DataSize(h) > 0
          BY <1>2, <3>1, <4>1
        <4>3. readState' = "DATA" /\ readData' = <<>> /\ header' = h /\ UNCHANGED delivered
          BY <3>1, <4>2 DEF HeaderRead
        <4>4. QED
          BY <3>1, <4>2, <4>3, EmptySeq
      <3>2. CASE ~IsHeaderValid(h)
        BY <3>2 DEF HeaderRead
      <3>3. QED
        BY <3>1, <3>2
    <2>2. WireTypes'
      BY <2>1 DEF WireTypes
    <2>3. Stream' = s
      <3>1. CASE readState' = "ADJUST"
        BY <2>1, <3>1 DEF Stream, Held, Behind
      <3>2. CASE readState' # "ADJUST"
        <4>1. readState' = "DATA" /\ readData' = <<>> /\ header' = h
          BY <2>1, <3>2
        <4>2. Held' = h \o <<>>
          BY <4>1 DEF Held
        <4>3. Held' = h
          BY <4>2, ConcatEmptySeq
        <4>4. QED
          BY <4>3 DEF Stream, Behind
      <3>3. QED
        BY <3>1, <3>2
    <2>4. Framed(s) /\ Later(s, nextId, delivered) /\ Marked(s, spoiled)
      OBVIOUS
    <2>5. ArrivedIds' = ArrivedIds
      BY <2>1 DEF ArrivedIds
    <2>6. Ahead(s, FirstPlace', sent, ArrivedIds \union spoiled)
      <3>1. CASE readState' # "ADJUST"
        <4>1. FirstPlace' = 1
          BY <3>1 DEF FirstPlace
        <4>2. QED
          BY <4>1
      <3>2. CASE readState' = "ADJUST"
        <4>1. FirstPlace' = 2 /\ ~IsHeaderValid(h)
          BY <2>1, <3>2 DEF FirstPlace
        <4>2. Rank(s[1]) = 1 => s[1].id \in spoiled
          BY <4>1, InvalidFront
        <4>3. s \in Seq(Cells)
          BY JoinedCells
        <4>4. Ahead(s, 1, sent, ArrivedIds \union spoiled)
          OBVIOUS
        <4> HIDE DEF s
        <4>5. Ahead(s, 2, sent, ArrivedIds \union spoiled)
          BY <4>2, <4>3, <4>4, AheadOfFirst
        <4>6. QED
          BY <4>1, <4>5
      <3>3. QED
        BY <3>1, <3>2
    <2> HIDE DEF s
    <2>7. /\ Framed(Stream)' /\ Later(Stream, nextId, delivered)' /\ Marked(Stream, spoiled)'
          /\ Ahead(Stream, FirstPlace, sent, ArrivedIds \union spoiled)'
      BY <2>1, <2>3, <2>4, <2>5, <2>6
    <2>8. Reading'
      <3>1. CASE readState' = "ADJUST"
        BY <2>1, <3>1 DEF Reading, IsHeaderValid
      <3>2. CASE readState' # "ADJUST"
        BY <2>1, <3>2, EmptySeq DEF Reading, IsHeaderValid, DataSize
      <3>3. QED
        BY <3>1, <3>2
    <2>9. Received'
      BY <2>1 DEF Received, MessagesAreWhole
    <2>10. QED
      BY <2>2, <2>7, <2>8, <2>9 DEF WireInv
  <1>3. QED
    BY <1>1, <1>2

\* Nothing is read while there is no connection.
LEMMA ReadsConnected ==
    ASSUME OneThread, WireInv, socket # <<>>
    PROVE  connected
  <1>1. SUFFICES ASSUME ~connected PROVE FALSE
    BY DEF WireInv, WireTypes
  <1>2. Stream = <<>>
    BY <1>1 DEF WireInv
  <1>3. /\ Held \in Seq(Cells) /\ socket \in Seq(Cells) /\ output \in Seq(Cells)
        /\ pending[TheThread] \in Seq(Cells) /\ socket \o output \in Seq(Cells)
        /\ (socket \o output) \o pending[TheThread] \in Seq(Cells)
    BY StreamParts DEF WireInv, WireTypes
  <1>4. (socket \o output) \o pending[TheThread] = <<>>
    BY <1>2, <1>3, ConcatEqualIffEmpty DEF Stream
  <1>5. socket \o output = <<>>
    BY <1>3, <1>4, ConcatEqualIffEmpty
  <1>6. QED
    BY <1>3, <1>5, ConcatEqualIffEmpty

\* Bytes taken from the socket behind what the reader has stay in the stream.
LEMMA TakenFromSocket ==
    ASSUME OneThread, WireTypes, NEW a \in Seq(Cells), NEW n \in 1 .. Len(socket),
           Stream = a \o Behind,
           socket' = Drop(socket, n), UNCHANGED <<pending, output>>
    PROVE  /\ a \o SubSeq(socket, 1, n) \in Seq(Cells)
           /\ Len(a \o SubSeq(socket, 1, n)) = Len(a) + n
           /\ socket' \in Seq(Cells) /\ Behind' \in Seq(Cells)
           /\ (a \o SubSeq(socket, 1, n)) \o Behind' = Stream
  <1>1. /\ socket \in Seq(Cells) /\ output \in Seq(Cells) /\ pending[TheThread] \in Seq(Cells)
        /\ Len(socket) \in Nat
    BY StreamParts, LenProperties DEF WireTypes
  <1>2. n \in 0 .. Len(socket)
    BY <1>1
  <1>3. /\ Join(a, SubSeq(socket, 1, n)) \in Seq(Cells) /\ Drop(socket, n) \in Seq(Cells)
        /\ Join(Join(Drop(socket, n), output), pending[TheThread]) \in Seq(Cells)
        /\ Join(Join(a, SubSeq(socket, 1, n)), Join(Join(Drop(socket, n), output), pending[TheThread]))
                = Join(a, Join(Join(socket, output), pending[TheThread]))
    <2> DEFINE p == pending[TheThread]
    <2>1. p \in Seq(Cells)
      BY <1>1
    <2> HIDE DEF p
    <2>2. /\ Join(a, SubSeq(socket, 1, n)) \in Seq(Cells) /\ Drop(socket, n) \in Seq(Cells)
          /\ Join(Join(Drop(socket, n), output), p) \in Seq(Cells)
          /\ Join(Join(a, SubSeq(socket, 1, n)), Join(Join(Drop(socket, n), output), p))
                  = Join(a, Join(Join(socket, output), p))
      BY <1>1, <1>2, <2>1, MovedInStream
    <2>3. QED
      BY <2>2 DEF p
  <1>4. Behind' = Join(Join(Drop(socket, n), output), pending[TheThread])
    BY DEF Behind, Join
  <1>5. Stream = Join(a, Join(Join(socket, output), pending[TheThread]))
    BY DEF Behind, Join
  <1>6. Join(Join(a, SubSeq(socket, 1, n)), Behind') = Stream
    BY <1>3, <1>4, <1>5
  <1>7. Len(a \o SubSeq(socket, 1, n)) = Len(a) + n
    <2>1. SubSeq(socket, 1, n) \in Seq(Cells) /\ Len(SubSeq(socket, 1, n)) = n
      BY <1>1, <1>2, CutCells
    <2>2. QED
      BY <2>1, JoinedCells
  <1>8. QED
    BY <1>3, <1>4, <1>6, <1>7 DEF Join

\* READ_STATE_HEADER.
LEMMA ReadHeaderStep ==
    ASSUME OneThread, WireInv, ReadHeader
    PROVE  WireInv'
  <1>1. WireTypes /\ Received /\ Reading /\ readState = "HEADER"
    BY DEF WireInv, ReadHeader
  <1>2. PICK n \in 1 .. Least(HeaderCells - Len(readData), Len(socket)) :
            /\ socket' = Drop(socket, n)
            /\ IF Len(readData \o SubSeq(socket, 1, n)) = HeaderCells
               THEN HeaderRead(readData \o SubSeq(socket, 1, n), readData \o SubSeq(socket, 1, n))
               ELSE /\ readData' = readData \o SubSeq(socket, 1, n)
                    /\ UNCHANGED <<readState, header, delivered>>
    BY DEF ReadHeader
  <1>3. UNCHANGED <<connected, pending, output, sent, spoiled, nextId>>
    BY DEF ReadHeader
  <1>4. /\ socket \in Seq(Cells) /\ readData \in Seq(Cells)
        /\ Len(socket) \in Nat /\ Len(readData) \in Nat /\ HeaderCells \in Nat
        /\ Len(readData) < HeaderCells
    BY <1>1, LenProperties, WireAssumption DEF WireTypes, Reading
  <1>5. n \in 1 .. Len(socket) /\ n <= HeaderCells - Len(readData)
    BY <1>2, <1>4 DEF Least
  <1>6. connected
    <2>1. socket # <<>>
      BY <1>4, <1>5, EmptySeq
    <2>2. QED
      BY <2>1, ReadsConnected
  <1>7. Stream = readData \o Behind
    BY <1>1 DEF Stream, Held, Behind
  <1> DEFINE got == readData \o SubSeq(socket, 1, n)
  <1>8. /\ got \in Seq(Cells) /\ Len(got) = Len(readData) + n
        /\ socket' \in Seq(Cells) /\ Behind' \in Seq(Cells)
        /\ got \o Behind' = Stream
    BY <1>1, <1>2, <1>3, <1>4, <1>5, <1>7, TakenFromSocket
  <1>9. /\ Len(got) = HeaderCells => HeaderRead(got, got)
        /\ Len(got) # HeaderCells => readData' = got /\ UNCHANGED <<readState, header, delivered>>
    BY <1>2
  <1> HIDE DEF got
  <1>10. CASE Len(got) = HeaderCells
    <2>1. HeaderRead(got, got)
      BY <1>9, <1>10
    <2>2. /\ Framed(got \o Behind') /\ Later(got \o Behind', nextId, delivered)
          /\ Marked(got \o Behind', spoiled)
          /\ Ahead(got \o Behind', 1, sent, ArrivedIds \union spoiled)
      <3>1. FirstPlace = 1
        BY <1>1 DEF FirstPlace
      <3>2. QED
        BY <1>8, <3>1 DEF WireInv
    <2>3. QED
      BY <1>1, <1>3, <1>6, <1>8, <1>10, <2>1, <2>2, HeaderReadStep
  <1>11. CASE Len(got) # HeaderCells
    <2>1. readData' = got /\ UNCHANGED <<readState, header, delivered>>
      BY <1>9, <1>11
    <2>2. WireTypes'
      BY <1>1, <1>3, <1>8, <2>1 DEF WireTypes
    <2>3. Stream' = Stream
      <3>1. Stream' = got \o Behind'
        BY <1>1, <2>1 DEF Stream, Held, Behind
      <3>2. QED
        BY <1>8, <3>1
    <2>4. Reading'
      <3>1. Len(got) < HeaderCells
        <4>1. Len(got) = Len(readData) + n /\ n \in Nat /\ n <= HeaderCells - Len(readData)
          BY <1>4, <1>5, <1>8
        <4>2. QED
          BY <1>4, <1>11, <4>1
      <3>2. QED
        BY <1>1, <2>1, <2>3, <3>1 DEF Reading
    <2>5. QED
      BY <1>3, <2>1, <2>2, <2>3, <2>4, BytesMoved
  <1>12. QED
    BY <1>10, <1>11

\* READ_STATE_HEADER_ADJUST.
LEMMA ReadAdjustStep ==
    ASSUME OneThread, WireInv, ReadAdjust
    PROVE  WireInv'
  <1>1. /\ WireTypes /\ Received /\ Reading /\ readState = "ADJUST" /\ socket # <<>>
        /\ socket' = Tail(socket)
        /\ HeaderRead(Append(Tail(header), Head(socket)), readData)
        /\ UNCHANGED <<connected, pending, output, sent, spoiled, nextId>>
    BY DEF WireInv, ReadAdjust
  <1>2. connected
    BY <1>1, ReadsConnected
  <1>3. /\ header \in Seq(Cells) /\ readData \in Seq(Cells) /\ socket \in Seq(Cells)
        /\ output \in Seq(Cells) /\ pending[TheThread] \in Seq(Cells)
        /\ Len(header) = HeaderCells /\ header # <<>>
    <2>1. Len(header) = HeaderCells /\ HeaderCells # 0
      BY <1>1, WireAssumption DEF Reading
    <2>2. header # <<>>
      BY <2>1
    <2>3. QED
      BY <1>1, <2>1, <2>2, StreamParts DEF WireTypes
  <1> DEFINE h2 == Append(Tail(header), Head(socket))
             p == pending[TheThread]
  <1>4. /\ h2 \in Seq(Cells) /\ Len(h2) = HeaderCells /\ Tail(socket) \in Seq(Cells)
        /\ Join(Join(Tail(socket), output), p) \in Seq(Cells)
        /\ \E a \in Seq(Cells) :
              /\ Len(a) = 1
              /\ Join(a, Join(h2, Join(Join(Tail(socket), output), p)))
                    = Join(header, Join(Join(socket, output), p))
    <2>1. p \in Seq(Cells) /\ socket # <<>>
      BY <1>1, <1>3
    <2> HIDE DEF p
    <2>2. QED
      BY <1>3, <2>1, ShiftedInStream
  <1>5. Behind' = Join(Join(Tail(socket), output), p) /\ Behind' \in Seq(Cells)
    BY <1>1, <1>4 DEF Behind, Join
  <1>6. Stream = Join(header, Join(Join(socket, output), p))
    BY <1>1 DEF Stream, Held, Join
  <1>7. PICK a \in Seq(Cells) : Len(a) = 1 /\ a \o (h2 \o Behind') = Stream
    BY <1>4, <1>5, <1>6 DEF Join
  <1>8. HeaderRead(h2, readData)
    BY <1>1
  <1> HIDE DEF h2
  <1> DEFINE s == h2 \o Behind'
  <1>9. s \in Seq(Cells)
    BY <1>4, <1>5, JoinedCells
  <1>10. /\ Framed(a \o s) /\ Later(a \o s, nextId, delivered) /\ Marked(a \o s, spoiled)
         /\ Ahead(a \o s, 2, sent, ArrivedIds \union spoiled)
    <2>1. FirstPlace = 2
      BY <1>1 DEF FirstPlace
    <2>2. QED
      BY <1>7, <2>1 DEF WireInv
  <1> HIDE DEF s
  <1>11. /\ Framed(s) /\ Later(s, nextId, delivered) /\ Marked(s, spoiled)
         /\ Ahead(s, 1, sent, ArrivedIds \union spoiled)
    BY <1>7, <1>9, <1>10, RestIsFramed, RestIsLater, RestIsMarked, AheadOfRest
  <1>12. QED
    <2>1. socket' \in Seq(Cells) /\ Len(h2) = HeaderCells
      BY <1>1, <1>4
    <2>2. QED
      BY <1>1, <1>2, <1>3, <1>4, <1>5, <1>8, <1>11, <2>1, HeaderReadStep DEF s

\* READ_STATE_DATA.
LEMMA ReadDataStep ==
    ASSUME OneThread, WireInv, ReadData
    PROVE  WireInv'
  <1>1. WireTypes /\ Received /\ Reading /\ readState = "DATA"
    BY DEF WireInv, ReadData
  <1>2. PICK n \in 1 .. Least(DataSize(header) - Len(readData), Len(socket)) :
            /\ socket' = Drop(socket, n)
            /\ IF Len(readData \o SubSeq(socket, 1, n)) >= DataSize(header)
               THEN Deliver(header, readData \o SubSeq(socket, 1, n))
               ELSE /\ readData' = readData \o SubSeq(socket, 1, n)
                    /\ UNCHANGED <<readState, header, delivered>>
    BY DEF ReadData
  <1>3. UNCHANGED <<connected, pending, output, sent, spoiled, nextId>>
    BY DEF ReadData
  <1>4. /\ socket \in Seq(Cells) /\ readData \in Seq(Cells) /\ header \in Seq(Cells)
        /\ Len(socket) \in Nat /\ Len(readData) \in Nat
        /\ Len(header) = HeaderCells /\ IsHeaderValid(header) /\ Len(readData) < DataSize(header)
    BY <1>1, LenProperties DEF WireTypes, Reading
  <1>5. Stream = (header \o readData) \o Behind /\ header \o readData \in Seq(Cells)
    BY <1>1, <1>4, JoinedCells DEF Stream, Held, Behind
  <1>6. DataSize(header) \in Nat
    <2>1. /\ Stream = header \o (readData \o Behind) /\ readData \o Behind \in Seq(Cells)
      <3>1. Behind \in Seq(Cells)
        BY <1>1, StreamParts DEF Behind
      <3>2. QED
        BY <1>4, <1>5, <3>1, JoinIsAssociative DEF Join
    <2>2. header[1].id \in MessageIds
      BY <1>4, <2>1, ValidFront DEF WireInv
    <2>3. QED
      BY <2>2, WireAssumption DEF DataSize
  <1>7. n \in 1 .. Len(socket) /\ n <= DataSize(header) - Len(readData)
    BY <1>2, <1>4, <1>6 DEF Least
  <1>8. connected
    <2>1. socket # <<>>
      BY <1>4, <1>7, EmptySeq
    <2>2. QED
      BY <2>1, ReadsConnected
  <1> DEFINE x == SubSeq(socket, 1, n)
             got == readData \o x
  <1>9. x \in Seq(Cells) /\ Len(x) = n
    <2>1. n \in 0 .. Len(socket)
      BY <1>4, <1>7
    <2>2. QED
      BY <1>4, <2>1, CutCells
  <1>10. /\ socket' \in Seq(Cells) /\ Behind' \in Seq(Cells)
         /\ ((header \o readData) \o x) \o Behind' = Stream
    BY <1>1, <1>2, <1>3, <1>5, <1>7, TakenFromSocket
  <1>11. got \in Seq(Cells) /\ Len(got) = Len(readData) + n
    BY <1>4, <1>9, JoinedCells
  <1>12. /\ Len(got) >= DataSize(header) => Deliver(header, got)
         /\ ~(Len(got) >= DataSize(header)) =>
                readData' = got /\ UNCHANGED <<readState, header, delivered>>
    BY <1>2
  <1>13. (header \o got) \o Behind' = Stream
    <2> HIDE DEF x
    <2>1. (header \o readData) \o x = header \o (readData \o x)
      BY <1>4, <1>9, JoinIsAssociative DEF Join
    <2>2. QED
      BY <1>10, <2>1
  <1> HIDE DEF got, x
  <1>14. CASE Len(got) >= DataSize(header)
    <2>1. Deliver(header, got) /\ Len(got) = DataSize(header)
      <3>1. Len(got) = Len(readData) + n /\ n \in Nat /\ n <= DataSize(header) - Len(readData)
        BY <1>4, <1>7, <1>11
      <3>2. Len(got) = DataSize(header)
        BY SMTT(30), <1>4, <1>6, <1>14, <3>1
      <3>3. QED
        BY <1>12, <1>14, <3>2
    <2>2. /\ Framed((header \o got) \o Behind') /\ Later((header \o got) \o Behind', nextId, delivered)
          /\ Marked((header \o got) \o Behind', spoiled)
          /\ Ahead((header \o got) \o Behind', 1, sent, ArrivedIds \union spoiled)
      <3>1. FirstPlace = 1
        BY <1>1 DEF FirstPlace
      <3>2. QED
        BY <1>13, <3>1 DEF WireInv
    <2>3. QED
      BY <1>1, <1>3, <1>4, <1>8, <1>10, <1>11, <2>1, <2>2, DeliverStep
  <1>15. CASE ~(Len(got) >= DataSize(header))
    <2>1. readData' = got /\ UNCHANGED <<readState, header, delivered>>
      BY <1>12, <1>15
    <2>2. WireTypes'
      BY <1>1, <1>3, <1>10, <1>11, <2>1 DEF WireTypes
    <2>3. Stream' = Stream
      <3>1. Stream' = (header \o got) \o Behind'
        BY <1>1, <2>1 DEF Stream, Held, Behind
      <3>2. QED
        BY <1>13, <3>1
    <2>4. Reading'
      <3>1. Len(got) < DataSize(header)
        BY <1>4, <1>6, <1>11, <1>15
      <3>2. QED
        BY <1>1, <1>4, <2>1, <3>1 DEF Reading, IsHeaderValid, DataSize
    <2>5. QED
      BY <1>3, <2>1, <2>2, <2>3, <2>4, BytesMoved
  <1>16. QED
    BY <1>14, <1>15

\* One byte of a sequence is damaged.
Damaged(s, w, k) ==
    /\ s \in Seq(Cells) /\ w \in Seq(Cells) /\ Len(w) = Len(s) /\ k \in 1 .. Len(s)
    /\ \A i \in 1 .. Len(s) : i # k => w[i] = s[i]
    /\ w[k].id = s[k].id /\ w[k].part = s[k].part /\ w[k].at = s[k].at
    /\ s[k].good /\ ~w[k].good

SpoiledBy(c) == IF c.part = "header" THEN {c.id} ELSE {}

SameRanks(s, w) == Len(w) = Len(s) /\ \A i \in 1 .. Len(s) : Rank(w[i]) = Rank(s[i])

LEMMA DamagedBefore ==
    ASSUME NEW o \in Seq(Cells), NEW s, NEW w, NEW k, Damaged(s, w, k)
    PROVE  Damaged(Join(s, o), Join(w, o), k) /\ Join(s, o)[k] = s[k]
  <1>1. /\ s \in Seq(Cells) /\ w \in Seq(Cells) /\ Len(w) = Len(s) /\ k \in 1 .. Len(s)
        /\ \A i \in 1 .. Len(s) : i # k => w[i] = s[i]
        /\ w[k].id = s[k].id /\ w[k].part = s[k].part /\ w[k].at = s[k].at
        /\ s[k].good /\ ~w[k].good
    BY DEF Damaged
  <1>2. /\ s \o o \in Seq(Cells) /\ Len(s) \in Nat /\ Len(o) \in Nat /\ Len(s \o o) = Len(s) + Len(o)
        /\ \A i \in 1 .. Len(s) : (s \o o)[i] = s[i]
        /\ \A i \in 1 .. Len(o) : (s \o o)[Len(s) + i] = o[i]
    BY <1>1, JoinedCells
  <1>3. /\ w \o o \in Seq(Cells) /\ Len(w \o o) = Len(s) + Len(o)
        /\ \A i \in 1 .. Len(s) : (w \o o)[i] = w[i]
        /\ \A i \in 1 .. Len(o) : (w \o o)[Len(s) + i] = o[i]
    <2>1. /\ w \o o \in Seq(Cells) /\ Len(w \o o) = Len(w) + Len(o)
          /\ \A i \in 1 .. Len(w) : (w \o o)[i] = w[i]
          /\ \A i \in 1 .. Len(o) : (w \o o)[Len(w) + i] = o[i]
      BY <1>1, JoinedCells
    <2>2. Len(w) = Len(s)
      BY <1>1
    <2>3. QED
      BY <2>1, <2>2
  <1>4. ASSUME NEW i \in 1 .. Len(s \o o), i # k
        PROVE  (w \o o)[i] = (s \o o)[i]
    <2>1. CASE i <= Len(s)
      <3>1. i \in 1 .. Len(s)
        BY <1>2, <2>1
      <3>2. QED
        BY <1>1, <1>2, <1>3, <1>4, <3>1
    <2>2. CASE ~(i <= Len(s))
      <3>1. i - Len(s) \in 1 .. Len(o) /\ Len(s) + (i - Len(s)) = i
        BY <1>2, <2>2
      <3>2. (w \o o)[Len(s) + (i - Len(s))] = (s \o o)[Len(s) + (i - Len(s))]
        BY <1>2, <1>3, <3>1
      <3>3. QED
        BY <3>1, <3>2
    <2>3. QED
      BY <2>1, <2>2
  <1>5. Damaged(s \o o, w \o o, k) /\ (s \o o)[k] = s[k]
    <2>1. k \in 1 .. Len(s \o o) /\ (s \o o)[k] = s[k] /\ (w \o o)[k] = w[k]
      BY <1>1, <1>2, <1>3
    <2>2. QED
      BY <1>2, <1>3, <1>4, <2>1 DEF Damaged
  <1>6. QED
    BY <1>5 DEF Join

LEMMA DamagedBehind ==
    ASSUME NEW a \in Seq(Cells), NEW s, NEW w, NEW k, Damaged(s, w, k)
    PROVE  Damaged(Join(a, s), Join(a, w), Len(a) + k) /\ Join(a, s)[Len(a) + k] = s[k]
  <1>1. /\ s \in Seq(Cells) /\ w \in Seq(Cells) /\ Len(w) = Len(s) /\ k \in 1 .. Len(s)
        /\ \A i \in 1 .. Len(s) : i # k => w[i] = s[i]
        /\ w[k].id = s[k].id /\ w[k].part = s[k].part /\ w[k].at = s[k].at
        /\ s[k].good /\ ~w[k].good
    BY DEF Damaged
  <1>2. /\ a \o s \in Seq(Cells) /\ Len(a) \in Nat /\ Len(s) \in Nat /\ Len(a \o s) = Len(a) + Len(s)
        /\ \A i \in 1 .. Len(a) : (a \o s)[i] = a[i]
        /\ \A i \in 1 .. Len(s) : (a \o s)[Len(a) + i] = s[i]
    BY <1>1, JoinedCells
  <1>3. /\ a \o w \in Seq(Cells) /\ Len(a \o w) = Len(a) + Len(s)
        /\ \A i \in 1 .. Len(a) : (a \o w)[i] = a[i]
        /\ \A i \in 1 .. Len(s) : (a \o w)[Len(a) + i] = w[i]
    <2>1. /\ a \o w \in Seq(Cells) /\ Len(a \o w) = Len(a) + Len(w)
          /\ \A i \in 1 .. Len(a) : (a \o w)[i] = a[i]
          /\ \A i \in 1 .. Len(w) : (a \o w)[Len(a) + i] = w[i]
      BY <1>1, JoinedCells
    <2>2. Len(w) = Len(s)
      BY <1>1
    <2>3. QED
      BY <2>1, <2>2
  <1>4. ASSUME NEW i \in 1 .. Len(a \o s), i # Len(a) + k
        PROVE  (a \o w)[i] = (a \o s)[i]
    <2>1. CASE i <= Len(a)
      <3>1. i \in 1 .. Len(a)
        BY <1>2, <2>1
      <3>2. QED
        BY <1>2, <1>3, <3>1
    <2>2. CASE ~(i <= Len(a))
      <3>1. i - Len(a) \in 1 .. Len(s) /\ Len(a) + (i - Len(a)) = i /\ i - Len(a) # k
        BY <1>1, <1>2, <1>4, <2>2
      <3>2. (a \o w)[Len(a) + (i - Len(a))] = (a \o s)[Len(a) + (i - Len(a))]
        BY <1>1, <1>2, <1>3, <3>1
      <3>3. QED
        BY <3>1, <3>2
    <2>3. QED
      BY <2>1, <2>2
  <1>5. Damaged(a \o s, a \o w, Len(a) + k) /\ (a \o s)[Len(a) + k] = s[k]
    <2>1. /\ Len(a) + k \in 1 .. Len(a \o s)
          /\ (a \o s)[Len(a) + k] = s[k] /\ (a \o w)[Len(a) + k] = w[k]
      BY <1>1, <1>2, <1>3
    <2>2. QED
      BY <1>2, <1>3, <1>4, <2>1 DEF Damaged
  <1>6. QED
    BY <1>5 DEF Join

\* The predicates on the stream when a byte of it is damaged.
LEMMA DamagedFacts ==
    ASSUME NEW s, NEW w, NEW k, Damaged(s, w, k), NEW n, NEW d, NEW bad, NEW first \in Nat \ {0},
           NEW q, NEW gone,
           Framed(s), Later(s, n, d), Marked(s, bad), Ahead(s, first, q, gone)
    PROVE  /\ Framed(w) /\ Later(w, n, d) /\ Marked(w, bad \union SpoiledBy(s[k]))
           /\ Ahead(w, first, q, gone \union SpoiledBy(s[k]))
           /\ SameRanks(s, w)
  <1> DEFINE new == SpoiledBy(s[k])
  <1>1. /\ s \in Seq(Cells) /\ w \in Seq(Cells) /\ Len(w) = Len(s) /\ k \in 1 .. Len(s)
        /\ \A i \in 1 .. Len(s) : i # k => w[i] = s[i]
        /\ w[k].id = s[k].id /\ w[k].part = s[k].part /\ w[k].at = s[k].at
        /\ s[k].good /\ ~w[k].good
    BY DEF Damaged
  <1>2. \A i \in 1 .. Len(s) : w[i].id = s[i].id /\ w[i].part = s[i].part /\ Rank(w[i]) = Rank(s[i])
    BY <1>1 DEF Rank
  <1>3. Framed(w)
    <2>1. Ordered(w)
      BY <1>1, <1>2 DEF Framed, Ordered, Follows
    <2>2. Complete(w)
      BY <1>1, <1>2 DEF Framed, Complete
    <2>3. QED
      BY <1>1, <2>1, <2>2 DEF Framed
  <1>4. Later(w, n, d)
    BY <1>1, <1>2 DEF Later
  <1>5. Marked(w, bad \union new)
    <2>1. ASSUME NEW i \in 1 .. Len(w), NEW m \in MessageIds, IsBad(w[i], m)
          PROVE  m \in bad \union new
      <3>1. CASE i = k
        BY <1>1, <2>1, <3>1 DEF IsBad, SpoiledBy
      <3>2. CASE i # k
        BY <1>1, <2>1, <3>2 DEF Marked
      <3>3. QED
        BY <3>1, <3>2
    <2>2. ASSUME NEW i \in 1 .. Len(w), NEW m \in bad \union new, IsBegin(w[i], m)
          PROVE  \E j \in 1 .. Len(w) : IsBad(w[j], m)
      <3>1. CASE m \in new
        <4>1. IsBad(w[k], m)
          BY <1>1, <3>1 DEF IsBad, SpoiledBy
        <4>2. QED
          BY <1>1, <4>1
      <3>2. CASE m \in bad
        <4>1. IsBegin(s[i], m)
          BY <1>1, <1>2, <2>2 DEF IsBegin
        <4>2. PICK j \in 1 .. Len(s) : IsBad(s[j], m)
          BY <1>1, <3>2, <4>1 DEF Marked
        <4>3. j # k
          BY <1>1, <4>2 DEF IsBad
        <4>4. QED
          BY <1>1, <4>2, <4>3
      <3>3. QED
        BY <3>1, <3>2
    <2>3. QED
      BY <2>1, <2>2 DEF Marked
  <1>6. Ahead(w, first, q, gone \union new)
    <2>1. \A i \in first .. Len(s) : i \in 1 .. Len(s)
      BY <1>1
    <2>2. \A i \in first .. Len(s) : \A m : IsBegin(s[i], m) => IsBegin(w[i], m)
      BY <1>2, <2>1 DEF IsBegin
    <2>3. QED
      BY <1>1, <2>2 DEF Ahead
  <1>7. QED
    BY <1>1, <1>2, <1>3, <1>4, <1>5, <1>6 DEF SameRanks

\* A byte of the socket is damaged.
LEMMA DamageStep ==
    ASSUME OneThread, WireInv, Damage
    PROVE  WireInv'
  <1>1. WireTypes /\ Received /\ Reading
    BY DEF WireInv
  <1>2. /\ Held \in Seq(Cells) /\ socket \in Seq(Cells) /\ output \in Seq(Cells)
        /\ pending[TheThread] \in Seq(Cells) /\ Len(socket) \in Nat
        /\ DOMAIN socket = 1 .. Len(socket)
    BY <1>1, StreamParts, LenProperties DEF WireTypes
  <1>3. PICK k \in DOMAIN socket :
            /\ socket[k].good
            /\ socket' = [socket EXCEPT ![k].good = FALSE]
            /\ spoiled' = spoiled \union (IF socket[k].part = "header" THEN {socket[k].id} ELSE {})
    BY DEF Damage
  <1>4. UNCHANGED <<connected, pending, output, readState, readData, header, delivered, sent, nextId>>
    BY DEF Damage
  <1>5. Damaged(socket, socket', k)
    <2> DEFINE c == [socket[k] EXCEPT !.good = FALSE]
    <2>1. k \in 1 .. Len(socket) /\ socket[k] \in Cells
      BY <1>2, ElementOfSeq
    <2>2. /\ c \in Cells /\ c.id = socket[k].id /\ c.part = socket[k].part /\ c.at = socket[k].at
          /\ c.good = FALSE
      BY <2>1 DEF Cells
    <2>3. socket' = [socket EXCEPT ![k] = c]
      BY <1>2, <1>3
    <2> HIDE DEF c
    <2>4. /\ socket' \in Seq(Cells) /\ Len(socket') = Len(socket)
          /\ \A j \in 1 .. Len(socket) : socket'[j] = IF j = k THEN c ELSE socket[j]
      BY <1>2, <2>1, <2>2, <2>3, ExceptSeq
    <2>5. QED
      BY <1>2, <1>3, <2>1, <2>2, <2>4 DEF Damaged
  <1> DEFINE p == Len(Held) + k
             new == SpoiledBy(socket[k])
  <1>6. Damaged(Stream, Stream', p) /\ Stream[p] = socket[k]
    <2> DEFINE pd == pending[TheThread]
               hd == Held
               x == Join(socket, output)
               xd == Join(socket', output)
               y == Join(x, pd)
               yd == Join(xd, pd)
    <2>1. pd \in Seq(Cells) /\ hd \in Seq(Cells) /\ p = Len(hd) + k
      BY <1>2
    <2>2. Stream = Join(hd, y)
      BY DEF Stream, Join
    <2>3. Stream' = Join(hd, yd)
      BY <1>4 DEF Stream, Held, Join
    <2> HIDE DEF pd, hd, p
    <2>4. Damaged(x, xd, k) /\ x[k] = socket[k]
      BY SMTT(30), <1>2, <1>5, DamagedBefore
    <2> HIDE DEF x, xd
    <2>5. Damaged(y, yd, k) /\ y[k] = x[k]
      <3>1. pd \in Seq(Cells) /\ Damaged(x, xd, k)
        BY <2>1, <2>4
      <3>2. QED
        BY <3>1, DamagedBefore
    <2> HIDE DEF y, yd
    <2>6. Damaged(Join(hd, y), Join(hd, yd), Len(hd) + k) /\ Join(hd, y)[Len(hd) + k] = y[k]
      BY <2>1, <2>5, DamagedBehind
    <2>7. QED
      BY <2>1, <2>2, <2>3, <2>4, <2>5, <2>6
  <1> HIDE DEF p
  <1>7. /\ Framed(Stream') /\ Later(Stream', nextId, delivered) /\ Marked(Stream', spoiled \union new)
        /\ Ahead(Stream', FirstPlace, sent, (ArrivedIds \union spoiled) \union new)
        /\ SameRanks(Stream, Stream')
    <2>1. new = SpoiledBy(Stream[p])
      BY <1>6
    <2>2. FirstPlace \in Nat \ {0}
      BY DEF FirstPlace
    <2>3. /\ Framed(Stream) /\ Later(Stream, nextId, delivered) /\ Marked(Stream, spoiled)
          /\ Ahead(Stream, FirstPlace, sent, ArrivedIds \union spoiled)
      BY DEF WireInv
    <2> DEFINE s == Stream
               w == Stream'
               first == FirstPlace
               gone == ArrivedIds \union spoiled
    <2>4. /\ Damaged(s, w, p) /\ new = SpoiledBy(s[p])
          /\ Framed(s) /\ Later(s, nextId, delivered) /\ Marked(s, spoiled)
          /\ Ahead(s, first, sent, gone) /\ first \in Nat \ {0}
      BY <1>6, <2>1, <2>2, <2>3
    <2> HIDE DEF new, s, w, first, gone
    <2>5. /\ Framed(w) /\ Later(w, nextId, delivered) /\ Marked(w, spoiled \union SpoiledBy(s[p]))
          /\ Ahead(w, first, sent, gone \union SpoiledBy(s[p])) /\ SameRanks(s, w)
      BY <2>4, DamagedFacts
    <2>6. QED
      BY <2>4, <2>5 DEF s, w, first, gone
  <1>8. spoiled' = spoiled \union new
    BY <1>3 DEF SpoiledBy
  <1>9. /\ p \in 1 .. Len(Stream) /\ Stream \in Seq(Cells)
        /\ \A m \in new : m = Stream[p].id /\ m \in MessageIds /\ m \in Nat
    <2>1. p \in 1 .. Len(Stream) /\ Stream \in Seq(Cells)
      BY <1>6 DEF Damaged
    <2>2. Stream[p].id \in MessageIds /\ Stream[p].id \in Nat
      BY <2>1, ElementOfSeq, CellFacts
    <2>3. QED
      BY <1>6, <2>1, <2>2 DEF SpoiledBy
  <1> HIDE DEF new
  <1>10. ArrivedIds' = ArrivedIds /\ FirstPlace' = FirstPlace
    BY <1>4 DEF ArrivedIds, FirstPlace
  <1>11. WireTypes'
    <2>1. socket' \in Seq(Cells)
      BY <1>5 DEF Damaged
    <2>2. spoiled' \subseteq MessageIds
      BY <1>1, <1>8, <1>9 DEF WireTypes
    <2>3. QED
      BY <1>1, <1>4, <2>1, <2>2 DEF WireTypes
  <1>12. /\ Framed(Stream)' /\ Later(Stream, nextId, delivered)' /\ Marked(Stream, spoiled)'
    BY <1>4, <1>7, <1>8
  <1>13. Ahead(Stream, FirstPlace, sent, ArrivedIds \union spoiled)'
    <2>1. (ArrivedIds \union spoiled) \union new = ArrivedIds' \union spoiled'
      BY <1>8, <1>10
    <2>2. QED
      BY <1>4, <1>7, <1>10, <2>1
  <1>14. Reading'
    <2>1. CASE readState = "HEADER"
      <3>1. 1 \in 1 .. Len(Stream)
        <4>1. Len(Stream) \in Nat
          BY <1>9, LenProperties
        <4>2. QED
          BY <1>9, <4>1
      <3>2. Rank(Stream'[1]) = 1
        <4>1. Stream # <<>>
          BY <3>1
        <4>2. Rank(Stream[1]) = 1
          BY <1>1, <2>1, <4>1 DEF Reading
        <4>3. QED
          BY <1>7, <3>1, <4>2 DEF SameRanks
      <3>3. QED
        BY <1>1, <1>4, <2>1, <3>2 DEF Reading
    <2>2. CASE readState # "HEADER"
      BY <1>1, <1>4, <2>2 DEF Reading, IsHeaderValid, DataSize, WireTypes
    <2>3. QED
      BY <2>1, <2>2
  <1>15. Received'
    <2>1. \A m \in new : m < nextId /\ \A j \in DOMAIN delivered : delivered[j].id < m
      BY <1>9 DEF WireInv, Later
    <2>2. \A j \in DOMAIN delivered : delivered[j].id \in Nat
      BY <1>1, DeliveredTypes
    <2>3. \A m \in new : \A j \in DOMAIN delivered : delivered[j].id # m
      BY <1>9, <2>1, <2>2
    <2>4. \A m \in spoiled' : m < nextId
      BY <1>1, <1>8, <2>1 DEF Received
    <2>5. \A j \in DOMAIN delivered : delivered[j].id \notin spoiled'
      BY <1>1, <1>8, <2>3 DEF Received
    <2>6. MessagesAreWhole'
      BY <1>1, <1>4 DEF Received, MessagesAreWhole
    <2>7. QED
      BY <1>1, <1>4, <2>4, <2>5, <2>6 DEF Received
  <1>16. connected
    <2>1. socket # <<>>
      BY <1>2, <1>3
    <2>2. QED
      BY <2>1, ReadsConnected
  <1>17. QED
    BY <1>4, <1>11, <1>12, <1>13, <1>14, <1>15, <1>16 DEF WireInv

\* The streams of a connection which does not exist are empty.
LEMMA EmptyStream ==
    ASSUME OneThread, WireTypes, readState = "HEADER", readData = <<>>,
           socket = <<>>, output = <<>>, pending[TheThread] = <<>>, sent = <<>>
    PROVE  /\ Stream = <<>> /\ Framed(Stream)
           /\ Later(Stream, nextId, delivered) /\ Marked(Stream, spoiled)
           /\ Ahead(Stream, FirstPlace, sent, ArrivedIds \union spoiled)
           /\ Reading
  <1>1. Stream = <<>>
    <2>1. <<>> \in Seq(Cells)
      BY EmptySeq
    <2>2. <<>> \o <<>> = <<>>
      BY <2>1, ConcatEmptySeq
    <2>3. QED
      BY <2>2 DEF Stream, Held
  <1>2. Len(Stream) = 0 /\ Stream \in Seq(Cells)
    BY <1>1, EmptySeq
  <1>3. Framed(Stream) /\ Later(Stream, nextId, delivered) /\ Marked(Stream, spoiled)
    BY <1>2 DEF Framed, Ordered, Complete, Later, Marked
  <1>4. Ahead(Stream, FirstPlace, sent, ArrivedIds \union spoiled)
    BY DEF Ahead
  <1>5. Reading
    BY <1>1, WireAssumption DEF Reading
  <1>6. QED
    BY <1>1, <1>3, <1>4, <1>5

LEMMA InitialStream ==
    ASSUME OneThread, WireInit
    PROVE  WireInv
  <1>1. <<>> \in Seq(Cells) /\ <<>> \in Seq(MessageIds) /\ <<>> \in Seq([id : MessageIds, data : Seq(Cells)])
    BY EmptySeq
  <1>2. WireTypes
    BY <1>1 DEF WireInit, WireTypes
  <1>3. pending[TheThread] = <<>>
    BY <1>2, StreamParts DEF WireInit
  <1>4. /\ Stream = <<>> /\ Framed(Stream)
        /\ Later(Stream, nextId, delivered) /\ Marked(Stream, spoiled)
        /\ Ahead(Stream, FirstPlace, sent, ArrivedIds \union spoiled)
        /\ Reading
    BY <1>2, <1>3, EmptyStream DEF WireInit
  <1>5. Received
    BY DEF WireInit, Received, MessagesAreWhole
  <1>6. QED
    BY <1>2, <1>4, <1>5 DEF WireInv, WireInit

\* The connection ends, and its buffers with it.
LEMMA ConnectionEndsStep ==
    ASSUME OneThread, WireInv, ConnectionEnds
    PROVE  WireInv'
  <1>1. /\ socket' = <<>> /\ output' = <<>> /\ sent' = <<>> /\ connected' = FALSE
        /\ readState' = "HEADER" /\ readData' = <<>> /\ header' = <<>>
        /\ UNCHANGED <<pending, delivered, spoiled, nextId>>
        /\ \A t \in Threads : pending[t] = <<>>
    BY DEF ConnectionEnds, Disconnect
  <1>2. WireTypes'
    <2>1. <<>> \in Seq(Cells) /\ <<>> \in Seq(MessageIds)
      BY EmptySeq
    <2>2. QED
      BY <1>1, <2>1 DEF WireInv, WireTypes
  <1>3. pending'[TheThread] = <<>>
    BY <1>1, StreamParts DEF WireInv
  <1>4. (/\ Stream = <<>> /\ Framed(Stream)
         /\ Later(Stream, nextId, delivered) /\ Marked(Stream, spoiled)
         /\ Ahead(Stream, FirstPlace, sent, ArrivedIds \union spoiled)
         /\ Reading)'
    <2>1. Stream' = <<>>
      <3>1. <<>> \in Seq(Cells)
        BY EmptySeq
      <3>2. <<>> \o <<>> = <<>>
        BY <3>1, ConcatEmptySeq
      <3>3. QED
        BY <1>1, <1>3, <3>2 DEF Stream, Held
    <2>2. Len(Stream') = 0 /\ Stream' \in Seq(Cells)
      BY <2>1, EmptySeq
    <2>3. (Framed(Stream) /\ Later(Stream, nextId, delivered) /\ Marked(Stream, spoiled))'
      BY <2>2 DEF Framed, Ordered, Complete, Later, Marked
    <2>4. Ahead(Stream, FirstPlace, sent, ArrivedIds \union spoiled)'
      BY <1>1 DEF Ahead
    <2>5. Reading'
      BY <1>1, <2>1, WireAssumption DEF Reading
    <2>6. QED
      BY <2>1, <2>3, <2>4, <2>5
  <1>5. Received'
    BY <1>1 DEF WireInv, Received, MessagesAreWhole
  <1>6. QED
    BY <1>1, <1>2, <1>4, <1>5 DEF WireInv

LEMMA WireStep ==
    ASSUME OneThread, WireInv, [WireNext]_wire
    PROVE  WireInv'
  <1>1. CASE Connect
    <2>1. /\ UNCHANGED <<pending, output, socket, readState, readData, header, delivered, sent, spoiled, nextId>>
          /\ connected' = TRUE
      BY <1>1 DEF Connect
    <2>2. WireTypes'
      BY <2>1 DEF WireInv, WireTypes
    <2>3. Stream' = Stream
      BY <2>1 DEF Stream, Held
    <2>4. QED
      BY <2>1, <2>2, <2>3, StreamKept
  <1>2. ASSUME NEW t \in Threads, SendHeader(t) \/ SendData(t)
        PROVE  WireInv'
    BY <1>2, SendHeaderStep, SendDataStep
  <1>3. CASE UNCHANGED wire
    <2>1. UNCHANGED <<connected, pending, output, socket, readState, readData, header, delivered, sent, spoiled, nextId>>
      BY <1>3 DEF wire
    <2>2. WireTypes'
      BY <2>1 DEF WireInv, WireTypes
    <2>3. Stream' = Stream
      BY <2>1 DEF Stream, Held
    <2>4. QED
      BY <2>1, <2>2, <2>3, StreamKept
  <1>4. QED
    BY <1>1, <1>2, <1>3, ProcessWriteStep, ReadHeaderStep, ReadAdjustStep, ReadDataStep,
       DamageStep, ConnectionEndsStep DEF WireNext

-----------------------------------------------------------------------------
(* Theorems.                                                               *)

\* When nothing is on its way, no message is ahead of the reader.
LEMMA NothingAhead ==
    ASSUME OneThread, WireInv, connected, output = <<>>, socket = <<>>, \A t \in Threads : pending[t] = <<>>
    PROVE  \A k \in DOMAIN sent : sent[k] \in ArrivedIds \union spoiled
  <1>1. SUFFICES ASSUME NEW k \in DOMAIN sent, sent[k] \notin ArrivedIds \union spoiled
                 PROVE  FALSE
    OBVIOUS
  <1>2. WireTypes /\ Reading /\ Framed(Stream) /\ Ahead(Stream, FirstPlace, sent, ArrivedIds \union spoiled)
    BY DEF WireInv
  <1>3. Stream = Held /\ Held \in Seq(Cells) /\ Len(Held) \in Nat
    <2>1. pending[TheThread] = <<>> /\ Held \in Seq(Cells)
      BY <1>2, StreamParts
    <2>2. <<>> \in Seq(Cells)
      BY EmptySeq
    <2>3. <<>> \o <<>> = <<>>
      BY <2>2, ConcatEmptySeq
    <2>4. Stream = Held \o <<>>
      BY <2>1, <2>3 DEF Stream
    <2>5. QED
      BY <2>1, <2>4, ConcatEmptySeq, LenProperties
  <1>4. PICK i \in FirstPlace .. Len(Held) : IsBegin(Held[i], sent[k])
    BY <1>1, <1>2, <1>3 DEF Ahead
  <1>5. FirstPlace \in Nat /\ 1 <= FirstPlace
    BY DEF FirstPlace
  <1>6. i \in 1 .. Len(Held) /\ FirstPlace <= i
    BY <1>3, <1>5
  <1>7. /\ Held[i].id \in MessageIds /\ Size(Held[i].id) \in Nat /\ HeaderCells <= Size(Held[i].id)
        /\ HeaderCells \in Nat /\ 1 <= HeaderCells
    BY <1>3, <1>6, ElementOfSeq, CellFacts
  <1>8. 1 + (Len(Held) - i) >= Size(Held[i].id)
    <2>1. Rank(Held[i]) + (Len(Held) - i) >= Size(Held[i].id)
      BY <1>2, <1>3, <1>6 DEF Framed, Complete
    <2>2. QED
      BY <1>4, <2>1 DEF IsBegin
  <1>9. CASE readState = "HEADER"
    <2>1. Len(Held) < HeaderCells
      BY <1>2, <1>9 DEF Reading, Held
    <2>2. QED
      BY <1>3, <1>6, <1>7, <1>8, <2>1
  <1>10. CASE readState = "ADJUST"
    <2>1. Len(Held) = HeaderCells /\ FirstPlace = 2
      BY <1>2, <1>10 DEF Reading, Held, FirstPlace
    <2>2. QED
      BY <1>3, <1>6, <1>7, <1>8, <2>1
  <1>11. CASE readState = "DATA"
    <2>1. /\ Held = header \o readData /\ Len(header) = HeaderCells /\ IsHeaderValid(header)
          /\ Len(readData) < DataSize(header)
          /\ header \in Seq(Cells) /\ readData \in Seq(Cells)
      BY <1>2, <1>11 DEF Reading, Held, WireTypes
    <2>2. Len(Held) = HeaderCells + Len(readData) /\ Len(readData) \in Nat
      BY <2>1, JoinedCells
    <2>3. /\ Held[1] = header[1] /\ Rank(header[1]) = 1 /\ header[1].id \in MessageIds
      BY <1>2, <1>3, <2>1, ValidFront DEF WireInv
    <2>4. Rank(Held[1]) + (Len(Held) - 1) >= Size(Held[1].id)
      <3>1. 1 \in 1 .. Len(Held)
        BY <1>7, <2>2
      <3>2. QED
        BY <1>2, <1>3, <3>1 DEF Framed, Complete
    <2>5. Size(header[1].id) = HeaderCells + DataSize(header) /\ DataSize(header) \in Nat
      BY <2>3, WireAssumption DEF Size, DataSize
    <2>6. QED
      BY <1>3, <1>7, <2>1, <2>2, <2>3, <2>4, <2>5
  <1>12. QED
    BY <1>2, <1>9, <1>10, <1>11 DEF WireTypes

\* With one sending thread, what the reader, the socket, the output buffer
\* and the thread hold is always one stream of whole messages in the order
\* they were sent (send_message(), process_write() and process_read() of
\* binary_client.cpp).
THEOREM StreamIsFramed ==
    ASSUME OneThread
    PROVE  WireSpec => []WireInv
  <1>1. WireInit => WireInv
    BY InitialStream
  <1>2. WireInv /\ [WireNext]_wire => WireInv'
    BY WireStep
  <1>3. QED
    BY <1>1, <1>2, PTL DEF WireSpec

\* Every message given to process_message() has its own data: neither partial
\* reads and writes, nor damaged bytes, nor a new connection make the reader
\* take the bytes of another message for it.
THEOREM MessagesStayWhole ==
    ASSUME OneThread
    PROVE  WireSpec => []MessagesAreWhole
  <1>1. WireInv => MessagesAreWhole
    BY DEF WireInv, Received
  <1>2. QED
    BY <1>1, StreamIsFramed, PTL

\* Messages arrive in order and once; when all the bytes were read, exactly
\* those of the connection with a damaged header are missing, so that the
\* search for a header in READ_STATE_HEADER_ADJUST drops no other message.
THEOREM ResyncLosesNoOther ==
    ASSUME OneThread
    PROVE  WireSpec => []ResyncLosesOnlyDamaged
  <1>1. WireInv => ResyncLosesOnlyDamaged
    <2>1. SUFFICES ASSUME WireInv PROVE ResyncLosesOnlyDamaged
      OBVIOUS
    <2>2. \A j, k \in DOMAIN delivered : j < k => delivered[j].id < delivered[k].id
      BY <2>1 DEF WireInv, Received
    <2>3. ASSUME connected, output = <<>>, socket = <<>>, \A t \in Threads : pending[t] = <<>>
          PROVE  {sent[k] : k \in DOMAIN sent} \ ArrivedIds = spoiled \intersect {sent[k] : k \in DOMAIN sent}
      <3>1. \A k \in DOMAIN sent : sent[k] \in ArrivedIds \union spoiled
        BY <2>1, <2>3, NothingAhead
      <3>2. \A m \in ArrivedIds : m \notin spoiled
        BY <2>1 DEF WireInv, Received, ArrivedIds
      <3>3. QED
        BY <3>1, <3>2
    <2>4. QED
      BY <2>2, <2>3 DEF ResyncLosesOnlyDamaged
  <1>2. QED
    BY <1>1, StreamIsFramed, PTL

-----------------------------------------------------------------------------
(* Messages in the order of their numbers.                                 *)

\* s is the set ids in increasing order
Sorts(s, ids) ==
    /\ s \in Seq(Nat)
    /\ \A i, j \in 1 .. Len(s) : i < j => s[i] < s[j]
    /\ ids = {s[i] : i \in 1 .. Len(s)}

\* InOrder() is the only sequence which has the set in order.
LEMMA InOrderSorts ==
    ASSUME NEW s, NEW ids, Sorts(s, ids)
    PROVE  InOrder(ids) = s
  <1>1. /\ s \in Seq(Nat) /\ Len(s) \in Nat /\ DOMAIN s = 1 .. Len(s)
        /\ s \in [1 .. Len(s) -> Nat]
        /\ \A i, j \in 1 .. Len(s) : i < j => s[i] < s[j]
        /\ ids = {s[i] : i \in 1 .. Len(s)}
    BY LenProperties DEF Sorts
  <1>2. ASSUME NEW k \in 0 .. Len(s)
        PROVE  Cardinality({s[i] : i \in 1 .. k}) = k
    <2> DEFINE T == {s[i] : i \in 1 .. k}
               f == [i \in 1 .. k |-> s[i]]
    <2>1. \A i, j \in 1 .. k : s[i] = s[j] => i = j
      BY <1>1
    <2>2. f \in Bijection(1 .. k, T)
      BY <2>1 DEF Bijection, Injection, Surjection, IsInjective
    <2>3. k \in Nat /\ IsFiniteSet(1 .. k) /\ Cardinality(1 .. k) = k
      <3>1. k \in Nat /\ k \in Int /\ 1 \in Int
        BY <1>1
      <3>2. IsFiniteSet(1 .. k) /\ Cardinality(1 .. k) = IF 1 > k THEN 0 ELSE k - 1 + 1
        BY <3>1, FS_Interval
      <3>3. QED
        BY <3>1, <3>2
    <2>4. ExistsBijection(1 .. k, T)
      BY <2>2 DEF ExistsBijection
    <2> HIDE DEF T
    <2>5. QED
      BY <2>3, <2>4, FS_Bijection DEF T
  <1>3. Cardinality(ids) = Len(s)
    BY SMTT(30), <1>1, <1>2
  <1>4. ASSUME NEW k \in 1 .. Len(s)
        PROVE  Cardinality({x \in ids : x <= s[k]}) = k
    <2>1. \A i \in 1 .. Len(s) : s[i] <= s[k] <=> i \in 1 .. k
      BY <1>1
    <2>2. {x \in ids : x <= s[k]} = {s[i] : i \in 1 .. k}
      BY <1>1, <2>1
    <2>3. k \in 0 .. Len(s)
      BY <1>1
    <2>4. QED
      BY <1>2, <2>2, <2>3
  <1>5. ASSUME NEW k \in 1 .. Len(s)
        PROVE  (CHOOSE m \in ids : Cardinality({x \in ids : x <= m}) = k) = s[k]
    <2>1. s[k] \in ids /\ Cardinality({x \in ids : x <= s[k]}) = k
      BY <1>1, <1>4
    <2>2. ASSUME NEW m \in ids, Cardinality({x \in ids : x <= m}) = k PROVE m = s[k]
      <3>1. PICK j \in 1 .. Len(s) : m = s[j]
        BY <1>1
      <3>2. QED
        BY <1>4, <2>2, <3>1
    <2>3. QED
      BY <2>1, <2>2
  <1>6. InOrder(ids) = [k \in 1 .. Len(s) |-> s[k]]
    BY <1>3, <1>5 DEF InOrder
  <1>7. QED
    BY <1>1, <1>6

\* One more message, behind the others.
LEMMA SortsMore ==
    ASSUME NEW s, NEW ids, Sorts(s, ids), NEW m \in Nat, \A x \in ids : x < m
    PROVE  Sorts(Append(s, m), ids \union {m})
  <1> DEFINE t == Append(s, m)
  <1>1. /\ s \in Seq(Nat) /\ Len(s) \in Nat
        /\ \A i, j \in 1 .. Len(s) : i < j => s[i] < s[j]
        /\ \A i \in 1 .. Len(s) : s[i] < m /\ s[i] \in ids
        /\ \A x \in ids : \E i \in 1 .. Len(s) : x = s[i]
    BY LenProperties DEF Sorts
  <1>2. /\ t \in Seq(Nat) /\ Len(t) = Len(s) + 1
        /\ \A i \in 1 .. Len(s) : t[i] = s[i]
        /\ t[Len(s) + 1] = m
    BY <1>1, AppendProperties
  <1> HIDE DEF t
  <1>3. \A i \in 1 .. Len(t) : i \in 1 .. Len(s) \/ i = Len(s) + 1
    BY <1>1, <1>2
  <1>4. \A i, j \in 1 .. Len(t) : i < j => t[i] < t[j]
    <2>1. ASSUME NEW i \in 1 .. Len(t), NEW j \in 1 .. Len(t), i < j PROVE t[i] < t[j]
      <3>1. i \in 1 .. Len(s)
        BY <1>1, <1>2, <2>1
      <3>2. QED
        BY <1>1, <1>2, <1>3, <2>1, <3>1
    <2>2. QED
      BY <2>1
  <1>5. \A x : x \in ids \union {m} <=> \E i \in 1 .. Len(t) : x = t[i]
    <2>1. Len(s) + 1 \in 1 .. Len(t) /\ \A i \in 1 .. Len(s) : i \in 1 .. Len(t)
      BY <1>1, <1>2
    <2>2. QED
      BY <1>1, <1>2, <1>3, <2>1
  <1>6. ids \union {m} = {t[i] : i \in 1 .. Len(t)}
    BY <1>5
  <1>7. QED
    BY <1>2, <1>4, <1>6 DEF Sorts, t


\* One message less.
LEMMA SortsWithout ==
    ASSUME NEW s, NEW ids, Sorts(s, ids), NEW k \in 1 .. Len(s)
    PROVE  Sorts(Fifo!Without(s, k), ids \ {s[k]})
  <1> DEFINE a == SubSeq(s, 1, k - 1)
             b == SubSeq(s, k + 1, Len(s))
             t == a \o b
  <1>1. /\ s \in Seq(Nat) /\ Len(s) \in Nat
        /\ \A i, j \in 1 .. Len(s) : i < j => s[i] < s[j]
        /\ \A i \in 1 .. Len(s) : s[i] \in Nat /\ s[i] \in ids
        /\ \A x \in ids : \E i \in 1 .. Len(s) : x = s[i]
    BY LenProperties, ElementOfSeq DEF Sorts
  <1>2. /\ a \in Seq(Nat) /\ Len(a) = k - 1 /\ \A i \in 1 .. (k - 1) : a[i] = s[i]
    BY <1>1, SubSeqProperties
  <1>3. /\ b \in Seq(Nat) /\ Len(b) = Len(s) - k /\ \A i \in 1 .. (Len(s) - k) : b[i] = s[i + k]
    BY <1>1, SubSeqProperties
  <1> HIDE DEF a, b
  <1>4. /\ t \in Seq(Nat) /\ Len(t) = Len(s) - 1
        /\ \A i \in 1 .. Len(t) : t[i] = IF i < k THEN s[i] ELSE s[i + 1]
    <2>1. /\ t \in Seq(Nat) /\ Len(t) = Len(a) + Len(b)
          /\ \A i \in 1 .. Len(t) : t[i] = IF i <= Len(a) THEN a[i] ELSE b[i - Len(a)]
      <3>1. /\ t \in Seq(Nat) /\ Len(t) = Len(a) + Len(b)
            /\ \A i \in 1 .. (Len(a) + Len(b)) : t[i] = IF i <= Len(a) THEN a[i] ELSE b[i - Len(a)]
        BY <1>2, <1>3, ConcatProperties
      <3> HIDE DEF t
      <3>2. QED
        BY <3>1
    <2> HIDE DEF t
    <2>2. Len(t) = Len(s) - 1
      BY <1>1, <1>2, <1>3, <2>1
    <2>3. ASSUME NEW i \in 1 .. Len(t) PROVE t[i] = IF i < k THEN s[i] ELSE s[i + 1]
      <3>1. CASE i < k
        <4>1. i \in 1 .. (k - 1)
          BY <1>1, <2>2, <3>1
        <4>2. QED
          BY <1>1, <1>2, <2>1, <3>1, <4>1
      <3>2. CASE ~(i < k)
        <4>1. i - (k - 1) \in 1 .. (Len(s) - k) /\ (i - (k - 1)) + k = i + 1 /\ ~(i <= k - 1)
          BY <1>1, <2>2, <3>2
        <4>2. t[i] = b[i - (k - 1)]
          BY <1>2, <2>1, <2>3, <4>1
        <4>3. b[i - (k - 1)] = s[(i - (k - 1)) + k]
          BY <1>3, <4>1
        <4>4. QED
          BY <3>2, <4>1, <4>2, <4>3
      <3>3. QED
        BY <3>1, <3>2
    <2>4. QED
      BY <2>1, <2>2, <2>3
  <1> HIDE DEF t
  <1>5. ASSUME NEW i \in 1 .. Len(t), NEW j \in 1 .. Len(t), i < j PROVE t[i] < t[j]
    <2> DEFINE p(n) == IF n < k THEN n ELSE n + 1
    <2>1. p(i) \in 1 .. Len(s) /\ p(j) \in 1 .. Len(s) /\ p(i) < p(j)
      <3>1. Len(s) \in Nat /\ Len(t) = Len(s) - 1
        BY <1>1, <1>4
      <3>2. i \in Nat /\ j \in Nat /\ k \in Nat /\ 1 <= i /\ j <= Len(s) - 1 /\ 1 <= j /\ i <= Len(s) - 1
        BY <3>1
      <3>3. QED
        BY <1>5, <3>1, <3>2
    <2>2. t[i] = s[p(i)] /\ t[j] = s[p(j)]
      BY <1>4
    <2> HIDE DEF p
    <2>3. QED
      BY <1>1, <2>1, <2>2
  <1>6. ASSUME NEW x PROVE x \in ids \ {s[k]} <=> \E i \in 1 .. Len(t) : x = t[i]
    <2>1. ASSUME NEW i \in 1 .. Len(t) PROVE t[i] \in ids \ {s[k]}
      <3>1. CASE i < k
        <4>1. i \in 1 .. Len(s) /\ t[i] = s[i]
          BY SMTT(30), <1>1, <1>4, <3>1
        <4>2. s[i] < s[k] /\ s[i] \in Nat /\ s[k] \in Nat
          BY <1>1, <3>1, <4>1
        <4>3. QED
          BY <1>1, <4>1, <4>2
      <3>2. CASE ~(i < k)
        <4>1. i + 1 \in 1 .. Len(s) /\ k < i + 1 /\ t[i] = s[i + 1]
          BY <1>1, <1>4, <3>2
        <4>2. s[k] < s[i + 1] /\ s[i + 1] \in Nat /\ s[k] \in Nat
          BY <1>1, <4>1
        <4>3. QED
          BY <1>1, <4>1, <4>2
      <3>3. QED
        BY <3>1, <3>2
    <2>2. ASSUME x \in ids \ {s[k]} PROVE \E i \in 1 .. Len(t) : x = t[i]
      <3>1. PICK i \in 1 .. Len(s) : x = s[i]
        BY <1>1, <2>2
      <3>2. CASE i < k
        <4>1. i \in 1 .. Len(t) /\ t[i] = s[i]
          BY SMTT(30), <1>1, <1>4, <3>2
        <4>2. QED
          BY <3>1, <4>1
      <3>3. CASE ~(i < k)
        <4>1. i # k
          BY <2>2, <3>1
        <4>2. i - 1 \in 1 .. Len(t) /\ ~(i - 1 < k) /\ (i - 1) + 1 = i
          BY <1>1, <1>4, <3>3, <4>1
        <4>3. t[i - 1] = s[i]
          BY <1>4, <4>2
        <4>4. QED
          BY <3>1, <4>2, <4>3
      <3>4. QED
        BY <3>2, <3>3
    <2>3. QED
      BY <2>1, <2>2
  <1>7. ids \ {s[k]} = {t[i] : i \in 1 .. Len(t)}
    BY <1>6
  <1>8. Sorts(t, ids \ {s[k]})
    BY <1>4, <1>5, <1>7 DEF Sorts
  <1>9. Fifo!Without(s, k) = t
    BY DEF Fifo!Without, t, a, b
  <1>10. QED
    BY <1>8, <1>9

\* The first message is the one with the smallest number.
LEMMA SortsTail ==
    ASSUME NEW s, NEW ids, Sorts(s, ids), NEW m \in ids, \A x \in ids \ {m} : m < x
    PROVE  s # <<>> /\ Head(s) = m /\ Sorts(Tail(s), ids \ {m})
  <1> DEFINE t == Tail(s)
  <1>1. /\ s \in Seq(Nat) /\ Len(s) \in Nat
        /\ \A i, j \in 1 .. Len(s) : i < j => s[i] < s[j]
        /\ \A i \in 1 .. Len(s) : s[i] \in Nat /\ s[i] \in ids
        /\ \A x \in ids : \E i \in 1 .. Len(s) : x = s[i]
    BY LenProperties, ElementOfSeq DEF Sorts
  <1>2. PICK k \in 1 .. Len(s) : m = s[k]
    BY <1>1
  <1>3. k = 1
    <2>1. SUFFICES ASSUME 1 < k PROVE FALSE
      BY <1>1
    <2>2. 1 \in 1 .. Len(s) /\ s[1] < s[k]
      BY <1>1, <2>1
    <2>3. s[1] \in ids \ {m} /\ m \in Nat
      BY <1>1, <1>2, <2>2
    <2>4. QED
      BY <1>1, <1>2, <2>2, <2>3
  <1>4. /\ s # <<>> /\ Head(s) = m /\ t \in Seq(Nat) /\ Len(t) = Len(s) - 1
        /\ \A i \in 1 .. Len(t) : t[i] = s[i + 1]
    <2>1. s # <<>>
      BY <1>1, <1>2, EmptySeq
    <2>2. QED
      BY <1>1, <1>2, <1>3, <2>1, HeadTailProperties
  <1> HIDE DEF t
  <1>5. ASSUME NEW i \in 1 .. Len(t), NEW j \in 1 .. Len(t), i < j PROVE t[i] < t[j]
    <2>1. i + 1 \in 1 .. Len(s) /\ j + 1 \in 1 .. Len(s) /\ i + 1 < j + 1
      BY <1>1, <1>4, <1>5
    <2>2. t[i] = s[i + 1] /\ t[j] = s[j + 1]
      BY <1>4
    <2>3. QED
      BY <1>1, <2>1, <2>2
  <1>6. ASSUME NEW x PROVE x \in ids \ {m} <=> \E i \in 1 .. Len(t) : x = t[i]
    <2>1. ASSUME NEW i \in 1 .. Len(t) PROVE t[i] \in ids \ {m}
      <3>1. i + 1 \in 1 .. Len(s) /\ 1 < i + 1 /\ t[i] = s[i + 1] /\ 1 \in 1 .. Len(s)
        BY <1>1, <1>4
      <3>2. s[1] < s[i + 1] /\ s[i + 1] \in Nat /\ s[1] \in Nat
        BY <1>1, <3>1
      <3>3. QED
        BY <1>1, <1>2, <1>3, <3>1, <3>2
    <2>2. ASSUME x \in ids \ {m} PROVE \E i \in 1 .. Len(t) : x = t[i]
      <3>1. PICK i \in 1 .. Len(s) : x = s[i]
        BY <1>1, <2>2
      <3>2. i # 1
        BY <1>2, <1>3, <2>2, <3>1
      <3>3. i - 1 \in 1 .. Len(t) /\ (i - 1) + 1 = i
        BY <1>1, <1>4, <3>2
      <3>4. QED
        BY <1>4, <3>1, <3>3
    <2>3. QED
      BY <2>1, <2>2
  <1>7. ids \ {m} = {t[i] : i \in 1 .. Len(t)}
    BY <1>6
  <1>8. QED
    BY <1>4, <1>5, <1>7 DEF Sorts, t


-----------------------------------------------------------------------------
(* The bytes of a connection are those of the messages sent on it.         *)

SentIds == {sent[k] : k \in DOMAIN sent}
Own == {c \in Cells : c.id \in SentIds}

OwnBytes ==
    /\ socket \in Seq(Own) /\ output \in Seq(Own)
    /\ readData \in Seq(Own) /\ header \in Seq(Own)
    /\ pending \in [Threads -> Seq(Own)]

\* A message of the connection arrives.
Receives(m) == \E d : delivered' = Append(delivered, [id |-> m, data |-> d])

LEMMA CutAny ==
    ASSUME NEW S, NEW s \in Seq(S), NEW n \in 0 .. Len(s)
    PROVE  SubSeq(s, 1, n) \in Seq(S) /\ Len(SubSeq(s, 1, n)) = n /\ Drop(s, n) \in Seq(S)
  <1>1. Len(s) \in Nat /\ \A i \in 1 .. Len(s) : s[i] \in S
    BY LenProperties, ElementOfSeq
  <1>2. QED
    BY <1>1, SubSeqProperties DEF Drop

LEMMA LargerSeq ==
    ASSUME NEW S, NEW T, S \subseteq T, NEW s \in Seq(S)
    PROVE  s \in Seq(T)
  <1>1. Len(s) \in Nat /\ s \in [1 .. Len(s) -> S]
    BY LenProperties
  <1>2. s \in [1 .. Len(s) -> T]
    BY <1>1
  <1>3. QED
    BY <1>1, <1>2, SeqDef

LEMMA OwnHeaderRead ==
    ASSUME NEW h \in Seq(Own), Len(h) = HeaderCells, NEW rest \in Seq(Own), HeaderRead(h, rest)
    PROVE  /\ readData' \in Seq(Own) /\ header' \in Seq(Own)
           /\ UNCHANGED delivered \/ \E m \in SentIds : Receives(m)
  <1>1. h[1].id \in SentIds
    <2>1. 1 \in 1 .. Len(h)
      BY WireAssumption
    <2>2. h[1] \in Own
      BY <2>1, ElementOfSeq
    <2>3. QED
      BY <2>2 DEF Own
  <1>2. <<>> \in Seq(Own)
    BY EmptySeq
  <1>3. CASE Deliver(h, <<>>)
    <2>1. delivered' = Append(delivered, [id |-> h[1].id, data |-> <<>>]) /\ readData' = <<>> /\ header' = <<>>
      BY <1>3 DEF Deliver
    <2>2. Receives(h[1].id)
      BY <2>1 DEF Receives
    <2>3. QED
      BY <1>1, <1>2, <2>1, <2>2
  <1>4. CASE readData' = <<>> /\ header' = h /\ UNCHANGED delivered
    BY <1>2, <1>4
  <1>5. CASE readData' = rest /\ header' = h /\ UNCHANGED delivered
    BY <1>5
  <1>6. QED
    BY <1>3, <1>4, <1>5 DEF HeaderRead

LEMMA OwnReads ==
    ASSUME WireInv, OwnBytes, ReadHeader \/ ReadAdjust \/ ReadData
    PROVE  /\ socket' \in Seq(Own) /\ readData' \in Seq(Own) /\ header' \in Seq(Own)
           /\ UNCHANGED <<pending, output, connected, sent, spoiled>> /\ socket # <<>>
           /\ UNCHANGED delivered \/ \E m \in SentIds : Receives(m)
  <1>1. /\ socket \in Seq(Own) /\ readData \in Seq(Own) /\ header \in Seq(Own)
        /\ Len(socket) \in Nat /\ Len(readData) \in Nat
        /\ HeaderCells \in Nat \ {0}
    BY LenProperties, WireAssumption DEF OwnBytes
  <1>2. ASSUME NEW n \in 1 .. Len(socket)
        PROVE  /\ readData \o SubSeq(socket, 1, n) \in Seq(Own) /\ Drop(socket, n) \in Seq(Own)
               /\ socket # <<>>
    <2>1. SubSeq(socket, 1, n) \in Seq(Own) /\ Drop(socket, n) \in Seq(Own)
      BY <1>1, CutAny
    <2>2. socket # <<>>
      BY <1>1, EmptySeq
    <2>3. QED
      BY <1>1, <2>1, <2>2, ConcatProperties
  <1>3. CASE ReadHeader
    <2>1. PICK n \in 1 .. Least(HeaderCells - Len(readData), Len(socket)) :
              LET got == readData \o SubSeq(socket, 1, n) IN
              /\ socket' = Drop(socket, n)
              /\ IF Len(got) = HeaderCells
                 THEN HeaderRead(got, got)
                 ELSE readData' = got /\ UNCHANGED <<readState, header, delivered>>
      BY <1>3 DEF ReadHeader
    <2> DEFINE got == readData \o SubSeq(socket, 1, n)
    <2>2. n \in 1 .. Len(socket)
      BY <1>1 DEF Least
    <2>3. got \in Seq(Own) /\ socket' \in Seq(Own) /\ socket # <<>>
      BY <1>2, <2>1, <2>2
    <2>4. UNCHANGED <<pending, output, connected, sent, spoiled>>
      BY <1>3 DEF ReadHeader
    <2>5. \/ Len(got) = HeaderCells /\ HeaderRead(got, got)
          \/ readData' = got /\ UNCHANGED <<header, delivered>>
      BY <2>1
    <2> HIDE DEF got
    <2>6. QED
      BY <1>1, <2>3, <2>4, <2>5, OwnHeaderRead
  <1>4. CASE ReadAdjust
    <2> DEFINE h == Append(Tail(header), Head(socket))
    <2>1. /\ socket # <<>> /\ socket' = Tail(socket) /\ HeaderRead(h, readData)
          /\ UNCHANGED <<pending, output, connected, sent, spoiled>>
      BY <1>4 DEF ReadAdjust
    <2>2. Len(header) = HeaderCells
      BY <1>4 DEF ReadAdjust, WireInv, Reading
    <2>3. header # <<>>
      BY <1>1, <2>2, EmptySeq
    <2>4. Head(socket) \in Own /\ Tail(socket) \in Seq(Own) /\ Tail(header) \in Seq(Own) /\ Len(Tail(header)) = HeaderCells - 1
      BY <1>1, <2>1, <2>2, <2>3, HeadTailProperties
    <2>5. h \in Seq(Own) /\ Len(h) = (HeaderCells - 1) + 1
      BY <2>4, AppendProperties
    <2> HIDE DEF h
    <2>6. QED
      BY <1>1, <2>1, <2>4, <2>5, OwnHeaderRead
  <1>5. CASE ReadData
    <2>1. PICK n \in 1 .. Least(DataSize(header) - Len(readData), Len(socket)) :
              LET got == readData \o SubSeq(socket, 1, n) IN
              /\ socket' = Drop(socket, n)
              /\ IF Len(got) >= DataSize(header)
                 THEN Deliver(header, got)
                 ELSE readData' = got /\ UNCHANGED <<readState, header, delivered>>
      BY <1>5 DEF ReadData
    <2> DEFINE got == readData \o SubSeq(socket, 1, n)
    <2>2. Len(header) = HeaderCells
      BY <1>5 DEF ReadData, WireInv, Reading
    <2>3. header[1] \in Own /\ header[1] \in Cells /\ header[1].id \in SentIds
      <3>1. 1 \in 1 .. Len(header)
        BY <1>1, <2>2
      <3>2. header[1] \in Own
        BY <1>1, <3>1, ElementOfSeq
      <3>3. QED
        BY <3>2 DEF Own
    <2>4. DataSize(header) \in Nat
      BY <2>3, CellFacts DEF DataSize
    <2>5. n \in 1 .. Len(socket)
      BY <1>1, <2>4 DEF Least
    <2>6. got \in Seq(Own) /\ socket' \in Seq(Own) /\ socket # <<>>
      BY <1>2, <2>1, <2>5
    <2>7. UNCHANGED <<pending, output, connected, sent, spoiled>>
      BY <1>5 DEF ReadData
    <2>8. \/ Deliver(header, got)
          \/ readData' = got /\ UNCHANGED <<header, delivered>>
      BY <2>1
    <2> HIDE DEF got
    <2>9. CASE Deliver(header, got)
      <3>1. /\ delivered' = Append(delivered, [id |-> header[1].id, data |-> got])
            /\ readData' = <<>> /\ header' = <<>> /\ <<>> \in Seq(Own)
        BY <2>9, EmptySeq DEF Deliver
      <3>2. Receives(header[1].id)
        BY <3>1 DEF Receives
      <3>3. QED
        BY <2>3, <2>6, <2>7, <3>1, <3>2
    <2>10. QED
      BY <1>1, <2>6, <2>7, <2>8, <2>9
  <1>6. QED
    BY <1>3, <1>4, <1>5


\* write() keeps all the bytes.
LEMMA OwnWrite ==
    ASSUME NEW S, socket \in Seq(S), output \in Seq(S), NEW bytes \in Seq(S), Write(bytes)
    PROVE  socket' \in Seq(S) /\ output' \in Seq(S)
  <1>1. PICK n \in IF output = <<>> THEN 0..Least(Capacity - Len(socket), Len(bytes)) ELSE {0} :
            socket' = socket \o SubSeq(bytes, 1, n) /\ output' = output \o Drop(bytes, n)
    BY DEF Write
  <1>2. Len(socket) \in Nat /\ Len(bytes) \in Nat /\ Capacity \in Nat
    BY LenProperties, WireAssumption
  <1>3. n \in 0 .. Len(bytes)
    BY <1>1, <1>2 DEF Least
  <1>4. SubSeq(bytes, 1, n) \in Seq(S) /\ Drop(bytes, n) \in Seq(S)
    BY <1>3, CutAny
  <1>5. QED
    BY <1>1, <1>4, ConcatProperties

LEMMA OwnSendHeader ==
    ASSUME WireInv, OwnBytes, NEW t \in Threads, SendHeader(t)
    PROVE  OwnBytes'
  <1>1. CASE connected
    <2>1. /\ nextId \in MessageIds /\ Write(HeaderOf(nextId)) /\ sent' = Append(sent, nextId)
          /\ pending' = [pending EXCEPT ![t] = DataOf(nextId)] /\ UNCHANGED <<readData, header>>
      BY <1>1 DEF SendHeader
    <2>2. sent \in Seq(MessageIds) /\ Len(sent) \in Nat /\ DOMAIN sent = 1 .. Len(sent)
      BY LenProperties DEF WireInv, WireTypes
    <2>3. SentIds \subseteq SentIds' /\ nextId \in SentIds'
      <3>1. /\ DOMAIN sent' = 1 .. (Len(sent) + 1) /\ sent'[Len(sent) + 1] = nextId
            /\ \A k \in 1 .. Len(sent) : sent'[k] = sent[k]
        BY <2>1, <2>2, AppendProperties, LenProperties
      <3>2. Len(sent) + 1 \in 1 .. (Len(sent) + 1) /\ \A k \in 1 .. Len(sent) : k \in 1 .. (Len(sent) + 1)
        BY <2>2
      <3>3. QED
        BY <2>2, <3>1, <3>2 DEF SentIds
    <2>4. Own \subseteq Own'
      BY <2>3 DEF Own
    <2>5. /\ HeaderOf(nextId) \in Seq(Own') /\ DataOf(nextId) \in Seq(Own')
      <3>1. /\ HeaderOf(nextId) \in Seq(Cells) /\ DataOf(nextId) \in Seq(Cells)
            /\ Len(HeaderOf(nextId)) = HeaderCells /\ Len(DataOf(nextId)) = DataCells[nextId]
            /\ HeaderCells \in Nat /\ DataCells[nextId] \in Nat
        BY <2>1, MessageCells, WireAssumption
      <3>2. \A k \in 1 .. HeaderCells : HeaderOf(nextId)[k] \in Own'
        <4>1. \A k \in 1 .. HeaderCells : HeaderOf(nextId)[k] \in Cells
          BY <3>1, ElementOfSeq
        <4>2. \A k \in 1 .. HeaderCells : HeaderOf(nextId)[k].id = nextId
          BY DEF HeaderOf, Cell
        <4>3. QED
          BY <2>3, <4>1, <4>2 DEF Own
      <3>3. \A k \in 1 .. DataCells[nextId] : DataOf(nextId)[k] \in Own'
        <4>1. \A k \in 1 .. DataCells[nextId] : DataOf(nextId)[k] \in Cells
          BY <3>1, ElementOfSeq
        <4>2. \A k \in 1 .. DataCells[nextId] : DataOf(nextId)[k].id = nextId
          BY DEF DataOf, Cell
        <4>3. QED
          BY <2>3, <4>1, <4>2 DEF Own
      <3>4. HeaderOf(nextId) \in [1 .. HeaderCells -> Own']
        BY <3>2 DEF HeaderOf
      <3>5. DataOf(nextId) \in [1 .. DataCells[nextId] -> Own']
        BY <3>3 DEF DataOf
      <3>6. QED
        BY <3>1, <3>4, <3>5, SeqDef
    <2>6. /\ socket \in Seq(Own') /\ output \in Seq(Own') /\ readData \in Seq(Own') /\ header \in Seq(Own')
          /\ \A u \in Threads : pending[u] \in Seq(Own')
      BY <2>4, LargerSeq DEF OwnBytes
    <2>7. socket' \in Seq(Own') /\ output' \in Seq(Own')
      BY <2>1, <2>5, <2>6, OwnWrite
    <2>8. pending' \in [Threads -> Seq(Own')]
      BY <2>1, <2>5, <2>6 DEF OwnBytes
    <2>9. QED
      BY <2>1, <2>6, <2>7, <2>8 DEF OwnBytes
  <1>2. CASE ~connected
    <2>1. UNCHANGED <<socket, output, pending, sent, readData, header>>
      BY <1>2 DEF SendHeader
    <2>2. QED
      BY <2>1 DEF OwnBytes, Own, SentIds
  <1>3. QED
    BY <1>1, <1>2

\* The bytes of a connection are those of its messages.
LEMMA OwnStep ==
    ASSUME WireInv, OwnBytes, [WireNext]_wire
    PROVE  OwnBytes'
  <1>1. ASSUME sent' = sent PROVE Own' = Own
    BY <1>1 DEF Own, SentIds
  <1>2. CASE UNCHANGED <<pending, output, socket, readData, header, sent>>
    BY <1>2 DEF OwnBytes, Own, SentIds
  <1>3. ASSUME NEW t \in Threads, SendData(t) PROVE OwnBytes'
    <2>1. /\ Write(pending[t]) /\ pending' = [pending EXCEPT ![t] = <<>>]
          /\ UNCHANGED <<readData, header, sent>>
      BY <1>3 DEF SendData
    <2>2. socket \in Seq(Own) /\ output \in Seq(Own) /\ pending[t] \in Seq(Own) /\ <<>> \in Seq(Own)
      BY EmptySeq DEF OwnBytes
    <2>3. socket' \in Seq(Own) /\ output' \in Seq(Own)
      BY <2>1, <2>2, OwnWrite
    <2>4. pending' \in [Threads -> Seq(Own)]
      BY <2>1, <2>2 DEF OwnBytes
    <2>5. QED
      BY <1>1, <2>1, <2>3, <2>4 DEF OwnBytes
  <1>4. CASE ProcessWrite
    <2>1. PICK n \in 1..Least(Capacity - Len(socket), Len(output)) :
              socket' = socket \o SubSeq(output, 1, n) /\ output' = Drop(output, n)
      BY <1>4 DEF ProcessWrite
    <2>2. UNCHANGED <<pending, readData, header, sent>>
      BY <1>4 DEF ProcessWrite
    <2>3. /\ socket \in Seq(Own) /\ output \in Seq(Own)
          /\ Len(socket) \in Nat /\ Len(output) \in Nat /\ Capacity \in Nat
      BY LenProperties, WireAssumption DEF OwnBytes
    <2>4. n \in 0 .. Len(output)
      BY <2>3 DEF Least
    <2>5. SubSeq(output, 1, n) \in Seq(Own) /\ Drop(output, n) \in Seq(Own)
      BY <2>3, <2>4, CutAny
    <2>6. socket' \in Seq(Own) /\ output' \in Seq(Own)
      BY <2>1, <2>3, <2>5, ConcatProperties
    <2>7. QED
      BY <1>1, <2>2, <2>6 DEF OwnBytes
  <1>5. CASE ReadHeader \/ ReadAdjust \/ ReadData
    <2>1. /\ socket' \in Seq(Own) /\ readData' \in Seq(Own) /\ header' \in Seq(Own)
          /\ UNCHANGED <<pending, output, sent>>
      BY <1>5, OwnReads
    <2>2. QED
      BY <1>1, <2>1 DEF OwnBytes
  <1>6. CASE Damage
    <2>1. PICK k \in DOMAIN socket : socket' = [socket EXCEPT ![k].good = FALSE]
      BY <1>6 DEF Damage
    <2>2. UNCHANGED <<pending, output, readData, header, sent>>
      BY <1>6 DEF Damage
    <2>3. /\ Len(socket) \in Nat /\ socket \in [1 .. Len(socket) -> Own] /\ k \in 1 .. Len(socket)
      BY LenProperties DEF OwnBytes
    <2>4. [socket[k] EXCEPT !.good = FALSE] \in Own
      <3>1. /\ socket[k] \in Cells /\ socket[k].id \in SentIds
        BY <2>3 DEF Own
      <3> DEFINE c == socket[k]
      <3> HIDE DEF c
      <3>2. [c EXCEPT !.good = FALSE] \in Cells /\ [c EXCEPT !.good = FALSE].id = c.id
        BY <3>1 DEF Cells, c
      <3>3. QED
        BY <3>1, <3>2 DEF Own, c
    <2>5. socket' = [socket EXCEPT ![k] = [socket[k] EXCEPT !.good = FALSE]]
      BY <2>1
    <2>6. socket' \in [1 .. Len(socket) -> Own]
      BY <2>3, <2>4, <2>5
    <2>7. socket' \in Seq(Own)
      BY <2>3, <2>6, SeqDef
    <2>8. QED
      BY <1>1, <2>2, <2>7 DEF OwnBytes
  <1>7. CASE ConnectionEnds
    <2>1. /\ output' = <<>> /\ socket' = <<>> /\ readData' = <<>> /\ header' = <<>>
          /\ pending' = pending /\ \A t \in Threads : pending[t] = <<>>
      BY <1>7 DEF ConnectionEnds, Disconnect
    <2>2. <<>> \in Seq(Own')
      BY EmptySeq
    <2>3. pending' \in [Threads -> Seq(Own')]
      BY <2>1, <2>2 DEF OwnBytes
    <2>4. QED
      BY <2>1, <2>2, <2>3 DEF OwnBytes
  <1>8. CASE UNCHANGED wire
    BY <1>2, <1>8 DEF wire
  <1>9. CASE Connect
    BY <1>2, <1>9 DEF Connect
  <1>10. QED
    BY <1>3, <1>4, <1>5, <1>6, <1>7, <1>8, <1>9, OwnSendHeader DEF WireNext


-----------------------------------------------------------------------------
(* The connection is a queue of messages.                                  *)

FifoInv == WireInv /\ OwnBytes /\ Sorts(OnTheWay, Waiting)

\* The messages on their way are numbers below the next one.
LEMMA WaitingTypes ==
    ASSUME WireInv
    PROVE  \A m \in Waiting : m \in Nat /\ m < nextId /\ connected
  <1>1. SUFFICES ASSUME NEW m \in Waiting PROVE m \in Nat /\ m < nextId /\ connected
    OBVIOUS
  <1>2. connected /\ \E k \in DOMAIN sent : m = sent[k] /\ sent[k] \notin ArrivedIds \union spoiled
    BY <1>1 DEF Waiting
  <1>3. PICK i \in FirstPlace .. Len(Stream) : IsBegin(Stream[i], m)
    BY <1>2 DEF WireInv, Ahead
  <1>4. Stream \in Seq(Cells) /\ Len(Stream) \in Nat
    BY LenProperties DEF WireInv, Framed
  <1>5. FirstPlace \in Nat /\ 1 <= FirstPlace
    BY DEF FirstPlace
  <1>6. i \in 1 .. Len(Stream)
    BY <1>4, <1>5
  <1>7. Stream[i].id < nextId /\ Stream[i] \in Cells
    BY <1>4, <1>6, ElementOfSeq DEF WireInv, Later
  <1>8. QED
    BY <1>2, <1>3, <1>7, CellFacts DEF IsBegin

\* Nothing a sender or a receiver of messages could see.
LEMMA FifoStutters ==
    ASSUME FifoInv, Waiting' = Waiting, UNCHANGED delivered
    PROVE  UNCHANGED Fifo!fifo /\ Sorts(OnTheWay, Waiting)'
  <1>1. OnTheWay' = OnTheWay
    BY DEF OnTheWay, InOrder
  <1>2. Arrived' = Arrived
    BY DEF Arrived
  <1>3. QED
    BY <1>1, <1>2 DEF FifoInv, Fifo!fifo, Sorts

\* A header is written: the message is the last on its way.
LEMMA FifoSend ==
    ASSUME FifoInv, connected, nextId \in MessageIds, sent' = Append(sent, nextId),
           UNCHANGED <<connected, delivered, spoiled>>
    PROVE  Fifo!Send /\ Sorts(OnTheWay, Waiting)'
  <1>1. sent \in Seq(MessageIds) /\ Len(sent) \in Nat /\ DOMAIN sent = 1 .. Len(sent)
    BY LenProperties DEF FifoInv, WireInv, WireTypes
  <1>2. {sent'[k] : k \in DOMAIN sent'} = {sent[k] : k \in DOMAIN sent} \union {nextId}
    <2>1. /\ DOMAIN sent' = 1 .. (Len(sent) + 1) /\ sent'[Len(sent) + 1] = nextId
          /\ \A k \in 1 .. Len(sent) : sent'[k] = sent[k]
      BY <1>1, AppendProperties, LenProperties
    <2>2. \A k : k \in 1 .. (Len(sent) + 1) <=> k \in 1 .. Len(sent) \/ k = Len(sent) + 1
      BY <1>1
    <2>3. \A x : (\E k \in DOMAIN sent' : x = sent'[k]) <=> (\E k \in DOMAIN sent : x = sent[k]) \/ x = nextId
      BY <1>1, <2>1, <2>2
    <2>4. QED
      BY <2>3
  <1>3. nextId \notin ArrivedIds \union spoiled
    <2>1. /\ \A k \in DOMAIN delivered : delivered[k].id < nextId
          /\ \A m \in spoiled : m < nextId
          /\ nextId \in Nat
      BY DEF FifoInv, WireInv, Received, WireTypes
    <2>2. QED
      BY <2>1 DEF ArrivedIds
  <1>4. Waiting' = Waiting \union {nextId}
    <2>1. ArrivedIds' = ArrivedIds
      BY DEF ArrivedIds
    <2>2. QED
      BY <1>2, <1>3, <2>1 DEF Waiting
  <1>5. Sorts(Append(OnTheWay, nextId), Waiting \union {nextId})
    <2>1. nextId \in Nat /\ \A x \in Waiting : x < nextId
      BY WaitingTypes DEF FifoInv, WireInv, WireTypes
    <2>2. QED
      BY <2>1, SortsMore DEF FifoInv
  <1>6. OnTheWay' = Append(OnTheWay, nextId)
    <2>1. InOrder(Waiting \union {nextId}) = Append(OnTheWay, nextId)
      BY <1>5, InOrderSorts
    <2>2. QED
      BY <1>4, <2>1 DEF OnTheWay, InOrder
  <1>7. Arrived' = Arrived
    BY DEF Arrived
  <1>8. QED
    BY <1>4, <1>5, <1>6, <1>7 DEF Fifo!Send, Sorts

\* A message is given to process_message(): it was the first on its way.
LEMMA FifoArrive ==
    ASSUME FifoInv, WireInv', connected, NEW m \in SentIds, Receives(m),
           UNCHANGED <<connected, sent, spoiled>>
    PROVE  Fifo!Arrive /\ Sorts(OnTheWay, Waiting)'
  <1>1. PICK d : delivered' = Append(delivered, [id |-> m, data |-> d])
    BY DEF Receives
  <1> DEFINE R == [id : MessageIds, data : Seq(Cells)]
             n == Len(delivered)
  <1>2. /\ delivered \in Seq(R) /\ n \in Nat /\ DOMAIN delivered = 1 .. n
    BY LenProperties DEF FifoInv, WireInv, WireTypes
  <1>3. /\ DOMAIN delivered' = 1 .. (n + 1)
        /\ delivered'[n + 1] = [id |-> m, data |-> d]
        /\ \A k \in 1 .. n : delivered'[k] = delivered[k]
    <2>1. Len(delivered') = n + 1 /\ DOMAIN delivered' = 1 .. Len(delivered')
      BY <1>1, <1>2, AppendProperties, LenProperties DEF WireInv, WireTypes
    <2>2. QED
      BY <1>1, <1>2, <2>1, AppendProperties
  <1>4. /\ n + 1 \in 1 .. (n + 1) /\ delivered'[n + 1].id = m
        /\ \A k : k \in 1 .. (n + 1) <=> k \in 1 .. n \/ k = n + 1
        /\ \A k \in 1 .. n : k < n + 1
    BY <1>2, <1>3
  <1> HIDE DEF n, R
  <1>5. m \notin ArrivedIds \union spoiled
    <2>1. ASSUME NEW k \in DOMAIN delivered PROVE delivered[k].id # m
      <3>1. k \in DOMAIN delivered' /\ n + 1 \in DOMAIN delivered' /\ k < n + 1
        BY <1>2, <1>3, <1>4, <2>1
      <3>2. delivered'[k].id < delivered'[n + 1].id
        BY <3>1 DEF WireInv, Received
      <3>3. delivered[k].id < m /\ delivered[k].id \in Nat
        BY <1>2, <1>3, <1>4, <2>1, <3>2, DeliveredTypes DEF FifoInv, WireInv
      <3>4. QED
        BY <3>3
    <2>2. m \notin spoiled
      BY <1>3, <1>4 DEF WireInv, Received
    <2>3. QED
      BY <2>1, <2>2 DEF ArrivedIds
  <1>6. ArrivedIds' = ArrivedIds \union {m}
    BY <1>2, <1>3, <1>4 DEF ArrivedIds
  <1>7. m \in Waiting /\ Waiting' = Waiting \ {m}
    BY <1>5, <1>6 DEF Waiting, SentIds
  <1>8. ASSUME NEW x \in Waiting \ {m} PROVE m < x
    <2>1. x \in Waiting'
      BY <1>7, <1>8
    <2>2. PICK k \in DOMAIN sent' : x = sent'[k] /\ sent'[k] \notin ArrivedIds' \union spoiled'
      BY <2>1 DEF Waiting
    <2>3. PICK i \in FirstPlace' .. Len(Stream') : IsBegin(Stream'[i], x)
      BY <2>2 DEF WireInv, Ahead
    <2>4. Stream' \in Seq(Cells) /\ Len(Stream') \in Nat
      BY LenProperties DEF WireInv, Framed
    <2>5. FirstPlace' \in Nat /\ 1 <= FirstPlace'
      BY DEF FirstPlace
    <2>6. i \in 1 .. Len(Stream')
      BY <2>4, <2>5
    <2>7. delivered'[n + 1].id < Stream'[i].id
      <3>1. n + 1 \in DOMAIN delivered'
        BY <1>3, <1>4
      <3>2. QED
        BY <2>6, <3>1 DEF WireInv, Later
    <2>8. QED
      BY <1>4, <2>3, <2>7 DEF IsBegin
  <1>9. OnTheWay # <<>> /\ Head(OnTheWay) = m /\ Sorts(Tail(OnTheWay), Waiting \ {m})
    BY <1>7, <1>8, SortsTail DEF FifoInv
  <1>10. OnTheWay' = Tail(OnTheWay)
    <2>1. InOrder(Waiting \ {m}) = Tail(OnTheWay)
      BY <1>9, InOrderSorts
    <2>2. QED
      BY <1>7, <2>1 DEF OnTheWay, InOrder
  <1>11. Arrived' = Append(Arrived, m)
    <2>1. /\ Arrived \in Seq(MessageIds) /\ Len(Arrived) = n
          /\ \A k \in 1 .. n : Arrived[k] = delivered[k].id
      <3>1. Arrived \in [1 .. n -> MessageIds]
        BY <1>2, DeliveredTypes DEF Arrived, FifoInv, WireInv
      <3>2. Arrived \in Seq(MessageIds)
        BY <1>2, <3>1, SeqDef
      <3>3. DOMAIN Arrived = 1 .. n
        BY <3>1
      <3>4. Len(Arrived) = n
        BY <1>2, <3>2, <3>3, LenProperties
      <3>5. QED
        BY <1>2, <3>2, <3>4 DEF Arrived
    <2>2. m \in MessageIds
      <3>1. sent \in Seq(MessageIds) /\ DOMAIN sent = 1 .. Len(sent)
        BY LenProperties DEF FifoInv, WireInv, WireTypes
      <3>2. QED
        BY <3>1, ElementOfSeq DEF SentIds
    <2>3. /\ Append(Arrived, m) \in Seq(MessageIds)
          /\ DOMAIN Append(Arrived, m) = 1 .. (n + 1)
          /\ \A k \in 1 .. n : Append(Arrived, m)[k] = delivered[k].id
          /\ Append(Arrived, m)[n + 1] = m
      <3>1. Append(Arrived, m) \in Seq(MessageIds) /\ Len(Append(Arrived, m)) = n + 1
        BY <2>1, <2>2, AppendProperties
      <3>2. DOMAIN Append(Arrived, m) = 1 .. (n + 1)
        BY <3>1, LenProperties
      <3>3. QED
        BY <2>1, <2>2, <3>1, <3>2, AppendProperties
    <2> DEFINE a == Append(Arrived, m)
    <2>4. Arrived' = [k \in 1 .. (n + 1) |-> a[k]]
      <3> HIDE DEF a
      <3>1. \A k \in 1 .. (n + 1) : delivered'[k].id = a[k]
        BY <1>3, <1>4, <2>3 DEF a
      <3>2. QED
        BY <1>3, <3>1 DEF Arrived
    <2>5. a = [k \in 1 .. (n + 1) |-> a[k]]
      <3>1. a \in [1 .. (n + 1) -> MessageIds]
        BY <2>3, LenProperties
      <3> HIDE DEF a
      <3>2. QED
        BY <3>1
    <2>6. QED
      BY <2>4, <2>5
  <1>12. Sorts(OnTheWay, Waiting)'
    BY <1>7, <1>9, <1>10 DEF Sorts
  <1>13. QED
    BY <1>9, <1>10, <1>11, <1>12 DEF Fifo!Arrive


\* A byte of a header is damaged: its message, if it is on its way, is lost.
LEMMA FifoDamage ==
    ASSUME FifoInv, NEW X, X = {} \/ \E m : X = {m}, spoiled' = spoiled \union X,
           UNCHANGED <<connected, sent, delivered>>
    PROVE  (Fifo!Lose \/ UNCHANGED Fifo!fifo) /\ Sorts(OnTheWay, Waiting)'
  <1>1. Waiting' = Waiting \ X
    <2>1. ArrivedIds' = ArrivedIds
      BY DEF ArrivedIds
    <2>2. QED
      BY <2>1 DEF Waiting
  <1>2. Arrived' = Arrived
    BY DEF Arrived
  <1>3. CASE Waiting' = Waiting
    BY <1>3, FifoStutters
  <1>4. CASE Waiting' # Waiting
    <2>1. PICK m \in Waiting : X = {m}
      BY <1>1, <1>4
    <2>2. PICK k \in 1 .. Len(OnTheWay) : m = OnTheWay[k]
      BY DEF FifoInv, Sorts
    <2>3. Sorts(Fifo!Without(OnTheWay, k), Waiting \ {m})
      BY <2>2, SortsWithout DEF FifoInv
    <2>4. OnTheWay' = Fifo!Without(OnTheWay, k)
      <3>1. InOrder(Waiting \ {m}) = Fifo!Without(OnTheWay, k)
        BY <2>3, InOrderSorts
      <3>2. QED
        BY <1>1, <2>1, <3>1 DEF OnTheWay, InOrder
    <2>5. Sorts(OnTheWay, Waiting)'
      <3>1. Sorts(OnTheWay', Waiting')
        BY <1>1, <2>1, <2>3, <2>4
      <3>2. QED
        BY <3>1 DEF Sorts
    <2>6. QED
      BY <1>2, <2>4, <2>5 DEF Fifo!Lose
  <1>5. QED
    BY <1>3, <1>4

\* Nothing is on its way: the queue is empty.
LEMMA FifoEmpty == Sorts(<<>>, {}) /\ InOrder({}) = <<>>
  <1>1. <<>> \in Seq(Nat) /\ Len(<<>>) = 0
    BY EmptySeq
  <1>2. 1 .. 0 = {}
    OBVIOUS
  <1>3. Sorts(<<>>, {})
    BY <1>1, <1>2 DEF Sorts
  <1>4. QED
    BY <1>3, InOrderSorts

\* A step of the connection is a step of the queue.
LEMMA FifoStep ==
    ASSUME OneThread, FifoInv, [WireNext]_wire
    PROVE  [Fifo!FifoNext]_(Fifo!fifo) /\ FifoInv'
  <1>1. WireInv' /\ OwnBytes'
    BY WireStep, OwnStep DEF FifoInv
  <1>2. CASE UNCHANGED <<connected, sent, delivered, spoiled>>
    <2>1. Waiting' = Waiting
      BY <1>2 DEF Waiting, ArrivedIds
    <2>2. QED
      BY <1>1, <1>2, <2>1, FifoStutters DEF FifoInv
  <1>3. CASE Connect
    <2>1. sent = <<>> /\ sent' = sent /\ UNCHANGED delivered
      BY <1>3 DEF Connect, FifoInv, WireInv
    <2>2. Waiting = {} /\ Waiting' = {}
      BY <2>1 DEF Waiting
    <2>3. QED
      BY <1>1, <2>1, <2>2, FifoStutters DEF FifoInv
  <1>4. ASSUME NEW t \in Threads, SendHeader(t) PROVE [Fifo!FifoNext]_(Fifo!fifo) /\ FifoInv'
    <2>1. CASE connected
      <3>1. nextId \in MessageIds /\ sent' = Append(sent, nextId) /\ UNCHANGED <<connected, delivered, spoiled>>
        BY <1>4, <2>1 DEF SendHeader
      <3>2. QED
        BY <1>1, <2>1, <3>1, FifoSend DEF FifoInv, Fifo!FifoNext
    <2>2. CASE ~connected
      BY <1>2, <1>4, <2>2 DEF SendHeader
    <2>3. QED
      BY <2>1, <2>2
  <1>5. CASE ReadHeader \/ ReadAdjust \/ ReadData
    <2>1. /\ UNCHANGED <<connected, sent, spoiled>> /\ socket # <<>>
          /\ UNCHANGED delivered \/ \E m \in SentIds : Receives(m)
      BY <1>5, OwnReads DEF FifoInv
    <2>2. CASE UNCHANGED delivered
      BY <1>2, <2>1, <2>2
    <2>3. CASE \E m \in SentIds : Receives(m)
      <3>1. connected
        BY <2>1, ReadsConnected DEF FifoInv
      <3>2. Fifo!Arrive /\ Sorts(OnTheWay, Waiting)'
        BY <1>1, <2>1, <2>3, <3>1, FifoArrive
      <3>3. QED
        BY <1>1, <3>2 DEF FifoInv, Fifo!FifoNext
    <2>4. QED
      BY <2>1, <2>2, <2>3
  <1>6. CASE Damage
    <2>1. PICK k \in DOMAIN socket :
              spoiled' = spoiled \union (IF socket[k].part = "header" THEN {socket[k].id} ELSE {})
      BY <1>6 DEF Damage
    <2>2. UNCHANGED <<connected, sent, delivered>>
      BY <1>6 DEF Damage
    <2>3. (Fifo!Lose \/ UNCHANGED Fifo!fifo) /\ Sorts(OnTheWay, Waiting)'
      BY <2>1, <2>2, FifoDamage
    <2>4. QED
      BY <1>1, <2>3 DEF FifoInv, Fifo!FifoNext
  <1>7. CASE ConnectionEnds
    <2>1. ~connected' /\ UNCHANGED delivered
      BY <1>7 DEF ConnectionEnds, Disconnect
    <2>2. Waiting' = {} /\ Arrived' = Arrived
      BY <2>1 DEF Waiting, Arrived
    <2>3. OnTheWay' = <<>>
      BY <2>2, FifoEmpty DEF OnTheWay, InOrder
    <2>4. Sorts(OnTheWay, Waiting)'
      <3>1. Sorts(OnTheWay', Waiting')
        BY <2>2, <2>3, FifoEmpty
      <3>2. QED
        BY <3>1 DEF Sorts
    <2>5. QED
      BY <1>1, <2>2, <2>3, <2>4 DEF FifoInv, Fifo!FifoNext, Fifo!Lose
  <1>8. CASE UNCHANGED wire
    BY <1>2, <1>8 DEF wire
  <1>9. ASSUME NEW t \in Threads, SendData(t) PROVE [Fifo!FifoNext]_(Fifo!fifo) /\ FifoInv'
    BY <1>2, <1>9 DEF SendData
  <1>10. CASE ProcessWrite
    BY <1>2, <1>10 DEF ProcessWrite
  <1>11. QED
    BY <1>3, <1>4, <1>5, <1>6, <1>7, <1>8, <1>9, <1>10 DEF WireNext

\* For the code which sends and receives messages, a connection with one
\* sending thread is a queue: what is sent arrives once and in order, but for
\* the messages with a damaged header and those on their way when it ends.
\* The two write() of send_message(), the partial writes and reads and the
\* search for a header are steps of the queue or cannot be seen.
THEOREM ConnectionIsFifo ==
    ASSUME OneThread
    PROVE  WireSpec => Fifo!FifoSafety
  <1>1. WireInit => FifoInv /\ Fifo!FifoInit
    <2>1. SUFFICES ASSUME WireInit PROVE FifoInv /\ Fifo!FifoInit
      OBVIOUS
    <2>2. WireInv
      BY <2>1, InitialStream
    <2>3. OwnBytes
      <3>1. <<>> \in Seq(Own)
        BY EmptySeq
      <3>2. QED
        BY <2>1, <3>1 DEF WireInit, OwnBytes
    <2>4. Waiting = {}
      BY <2>1 DEF WireInit, Waiting
    <2>5. OnTheWay = <<>> /\ Sorts(OnTheWay, Waiting)
      BY <2>4, FifoEmpty DEF OnTheWay
    <2>6. Arrived = <<>>
      <3>1. DOMAIN delivered = {}
        BY <2>1 DEF WireInit
      <3>2. QED
        BY <3>1 DEF Arrived
    <2>7. QED
      BY <2>2, <2>3, <2>5, <2>6 DEF FifoInv, Fifo!FifoInit
  <1>2. FifoInv /\ [WireNext]_wire => FifoInv' /\ [Fifo!FifoNext]_(Fifo!fifo)
    BY FifoStep
  <1>3. QED
    BY <1>1, <1>2, PTL DEF WireSpec, Fifo!FifoSafety
=============================================================================
