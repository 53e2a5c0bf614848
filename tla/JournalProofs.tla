--------------------------- MODULE JournalProofs ---------------------------
(***************************************************************************)
(* Proofs about module Journal, for every value of its constants: the      *)
(* variables keep their types, and the index in memory always agrees with  *)
(* the bytes of the files, whatever is added, updated, compressed, cut     *)
(* short, killed or reloaded.                                              *)
(***************************************************************************)
EXTENDS Journal, SequenceTheorems, TLAPS

(* A function on 1 .. n is a sequence of length n. *)
LEMMA FunctionIsSeq ==
    ASSUME NEW S, NEW n \in Nat, NEW f \in [1 .. n -> S]
    PROVE  f \in Seq(S) /\ Len(f) = n
<1>1. f \in Seq(S)
  BY SeqDef
<1>2. QED
  BY <1>1, LenProperties

LEMMA ZeroCellType == ZeroCell \in Cell /\ JournalHeader \in Cell
  BY DEF ZeroCell, JournalHeader, Plain, Cell, Ids, Active

LEMMA EventCellsType ==
    ASSUME NEW id \in Ids, NEW d \in Nat, NEW time \in Nat
    PROVE  /\ \A i \in 1 .. EventSize(d) : EventCells(id, d, time)[i] \in Cell
           /\ EventCells(id, d, time)[1].kind = "ev"
           /\ EventCells(id, d, time)[1].status = "READY"
           /\ EventCells(id, d, time)[1].size = EventSize(d)
           /\ EventCells(id, d, time)[1].time = time
           /\ EventCells(id, d, time)[2].kind = "id"
           /\ EventCells(id, d, time)[2].id = id
  BY DEF EventCells, EventSize, Plain, Cell, Ids, Active

(* What WriteCells does to a file. *)
LEMMA WriteCellsProperties ==
    ASSUME NEW s \in Seq(Cell), NEW o \in Nat, NEW n \in Nat, NEW cells,
           \A i \in 1 .. n : cells[i] \in Cell
    PROVE  /\ WriteCells(s, o, cells, n) \in Seq(Cell)
           /\ Len(WriteCells(s, o, cells, n)) = Larger(Len(s), o + n)
           /\ \A i \in 1 .. n : WriteCells(s, o, cells, n)[o + i] = cells[i]
           /\ \A i \in 1 .. Len(s) :
                i <= o \/ o + n < i => WriteCells(s, o, cells, n)[i] = s[i]
<1> DEFINE m == Larger(Len(s), o + n)
           w == WriteCells(s, o, cells, n)
<1>1. Len(s) \in Nat /\ m \in Nat
  BY LenProperties DEF Larger
<1>2. w = [i \in 1 .. m |->
             IF o < i /\ i <= o + n THEN cells[i - o]
             ELSE IF i <= Len(s) THEN s[i] ELSE ZeroCell]
  BY DEF WriteCells
<1>3. ASSUME NEW i \in 1 .. m
      PROVE  (IF o < i /\ i <= o + n THEN cells[i - o]
              ELSE IF i <= Len(s) THEN s[i] ELSE ZeroCell) \in Cell
  <2>1. CASE o < i /\ i <= o + n
    <3>1. i - o \in 1 .. n
      BY <1>1, <2>1
    <3>2. QED
      BY <2>1, <3>1
  <2>2. CASE ~(o < i /\ i <= o + n) /\ i <= Len(s)
    <3>1. s[i] \in Cell
      BY <1>1, <2>2, ElementOfSeq
    <3>2. QED
      BY <2>2, <3>1
  <2>3. CASE ~(o < i /\ i <= o + n) /\ ~(i <= Len(s))
    BY <2>3, ZeroCellType
  <2>4. QED
    BY <2>1, <2>2, <2>3
<1>4. w \in [1 .. m -> Cell]
  BY <1>2, <1>3
<1>5. w \in Seq(Cell) /\ Len(w) = m
  BY <1>1, <1>4, FunctionIsSeq
<1>6. ASSUME NEW i \in 1 .. n
      PROVE  w[o + i] = cells[i]
  <2>1. o + i \in 1 .. m /\ o < o + i /\ o + i <= o + n /\ o + i - o = i
    BY <1>1 DEF Larger
  <2>2. QED
    BY <1>2, <2>1
<1>7. ASSUME NEW i \in 1 .. Len(s), i <= o \/ o + n < i
      PROVE  w[i] = s[i]
  <2>1. i \in 1 .. m /\ ~(o < i /\ i <= o + n) /\ i <= Len(s)
    BY <1>1, <1>7 DEF Larger
  <2>2. QED
    BY <1>2, <2>1
<1>8. QED
  BY <1>5, <1>6, <1>7

LEMMA ResizeType ==
    ASSUME NEW s \in Seq(Cell), NEW n \in Nat
    PROVE  Resize(s, n) \in Seq(Cell)
<1>1. Len(s) \in Nat
  BY LenProperties
<1>2. \A i \in 1 .. n : i <= Len(s) => s[i] \in Cell
  BY <1>1, ElementOfSeq
<1>3. Resize(s, n) \in [1 .. n -> Cell]
  BY <1>1, <1>2, ZeroCellType DEF Resize
<1>4. QED
  BY <1>3, FunctionIsSeq

(* Destroying a file object leaves a file of cells. *)
LEMMA TruncateType ==
    ASSUME NEW s \in Seq(Cell), NEW n \in Nat
    PROVE  Truncate(s, n) \in Seq(Cell)
<1>1. Larger(HeaderSize, n) \in Nat
  BY DEF Larger, HeaderSize
<1>2. Resize(s, Larger(HeaderSize, n)) \in Seq(Cell)
  BY <1>1, ResizeType
<1>3. \A i \in 1 .. 1 : <<ZeroCell>>[i] \in Cell
  BY ZeroCellType
<1>4. WriteCells(s, n, <<ZeroCell>>, 1) \in Seq(Cell)
  BY <1>3, WriteCellsProperties
<1>5. << >> \in Seq(Cell)
  BY EmptySeq
<1>6. QED
  BY <1>2, <1>4, <1>5 DEF Truncate

FileTypes(c, d, o, n, k) ==
    /\ c \in [Files -> Seq(Cell)] /\ d \in [Files -> Seq(Cell)]
    /\ o \subseteq Files
    /\ n \in [Files -> Nat] /\ k \in [Files -> Int]

Referenced(held) == held \cup {l.file : l \in event_locations'}

(* Releasing file objects keeps the types, and does not touch a file that  *)
(* the index or the running function refers to.                            *)
LEMMA ReleaseFilesProperties ==
    ASSUME NEW c, NEW d, NEW o, NEW n, NEW k, NEW held,
           FileTypes(c, d, o, n, k),
           ReleaseFiles(c, d, o, n, k, held)
    PROVE  /\ FileTypes(content', durable', opened', next_append', event_count')
           /\ \A f \in Files :
                f \in Referenced(held) =>
                    /\ content'[f] = c[f]
                    /\ next_append'[f] = n[f]
                    /\ f \in o => f \in opened'
<1> DEFINE used == {l.file : l \in event_locations' \cup timebased_replay'}
           gone == o \ (used \cup held)
<1>1. \A f \in Files : Truncate(c[f], n[f]) \in Seq(Cell)
  BY TruncateType DEF FileTypes
<1>2. /\ opened' = o \ gone
      /\ content' = [f \in Files |->
             IF f \in gone THEN Truncate(c[f], n[f]) ELSE c[f]]
      /\ durable' = [f \in Files |->
             IF f \in gone THEN Truncate(c[f], n[f]) ELSE d[f]]
      /\ next_append' = [f \in Files |-> IF f \in gone THEN 0 ELSE n[f]]
      /\ event_count' = [f \in Files |-> IF f \in gone THEN 0 ELSE k[f]]
  BY DEF ReleaseFiles
<1>3. \A f \in Files : f \in Referenced(held) => f \notin gone
  BY DEF Referenced
<1> HIDE DEF gone
<1>4. content' \in [Files -> Seq(Cell)] /\ durable' \in [Files -> Seq(Cell)]
  BY <1>1, <1>2 DEF FileTypes
<1>5. /\ opened' \subseteq Files
      /\ next_append' \in [Files -> Nat]
      /\ event_count' \in [Files -> Int]
  BY <1>2 DEF FileTypes
<1>6. \A f \in Files : f \in Referenced(held) =>
         /\ content'[f] = c[f]
         /\ next_append'[f] = n[f]
         /\ f \in o => f \in opened'
  BY <1>2, <1>3 DEF FileTypes
<1>7. QED
  BY <1>4, <1>5, <1>6 DEF FileTypes

-----------------------------------------------------------------------------
(* The inductive invariant.  IndexMatchesFiles alone is not inductive: a   *)
(* write must be known to miss the other events of the file, which takes   *)
(* EventsDisjoint, AppendIsPastEvents and, during a load, ScanInBounds.    *)

IndexInvariant ==
    /\ TypeOK
    /\ IndexMatchesFiles
    /\ EventsDisjoint
    /\ AppendIsPastEvents
    /\ ScanInBounds

(* An event is still stored after a write which missed its first two cells. *)
LEMMA StoredInFrame ==
    ASSUME NEW s \in Seq(Cell), NEW t \in Seq(Cell), NEW l \in Location,
           StoredIn(s, l), Len(s) <= Len(t),
           t[l.offset + 1] = s[l.offset + 1], t[l.offset + 2] = s[l.offset + 2]
    PROVE  StoredIn(t, l)
<1>1. Len(s) \in Nat /\ Len(t) \in Nat
  BY LenProperties
<1>2. QED
  BY <1>1 DEF StoredIn, RequestIdAt, End, EventSize, HeaderSize, Location

(* The index after steps which add no location: every location left was    *)
(* there before and the files c keep its event.                            *)
LEMMA IndexKept ==
    ASSUME NEW c, NEW d, NEW o, NEW n, NEW k, NEW held,
           FileTypes(c, d, o, n, k),
           ReleaseFiles(c, d, o, n, k, held),
           event_locations \subseteq Location,
           event_locations' \subseteq event_locations, EventsDisjoint,
           \A m \in event_locations' :
               /\ StoredIn(c[m.file], m)
               /\ m.file \in o /\ End(m) <= n[m.file]
    PROVE  IndexMatchesFiles' /\ EventsDisjoint' /\ AppendIsPastEvents'
<1>1. \A m \in event_locations' :
         /\ content'[m.file] = c[m.file]
         /\ next_append'[m.file] = n[m.file]
         /\ m.file \in opened'
  <2>1. \A m \in event_locations' : m.file \in Files
    BY DEF Location
  <2>2. \A f \in Files :
           f \in Referenced(held) =>
               /\ content'[f] = c[f]
               /\ next_append'[f] = n[f]
               /\ f \in o => f \in opened'
    BY ReleaseFilesProperties
  <2>3. QED
    BY <2>1, <2>2 DEF Referenced
<1>2. IndexMatchesFiles' /\ AppendIsPastEvents'
  BY <1>1 DEF IndexMatchesFiles, AppendIsPastEvents, StoredIn, End, RequestIdAt
<1>3. EventsDisjoint'
  BY DEF EventsDisjoint, End
<1>4. QED
  BY <1>2, <1>3

(* The index after steps which add the location l past the other events.   *)
LEMMA IndexExtended ==
    ASSUME NEW c, NEW d, NEW o, NEW n, NEW k, NEW held,
           FileTypes(c, d, o, n, k), NEW l \in Location,
           ReleaseFiles(c, d, o, n, k, held), AddLocation(l),
           event_locations \subseteq Location, timebased_replay \subseteq Location,
           EventsDisjoint,
           \A m \in event_locations :
               /\ StoredIn(c[m.file], m)
               /\ m.file \in o /\ End(m) <= n[m.file]
               /\ m.file = l.file => End(m) <= l.offset,
           StoredIn(c[l.file], l), l.file \in o, End(l) <= n[l.file]
    PROVE  /\ IndexMatchesFiles' /\ EventsDisjoint' /\ AppendIsPastEvents'
           /\ event_locations' \subseteq Location
           /\ timebased_replay' \subseteq Location
           /\ \A m \in event_locations' : m \in event_locations \/ m = l
<1>1. /\ event_locations' \subseteq Location
      /\ timebased_replay' \subseteq Location
      /\ \A m \in event_locations' : m \in event_locations \/ m = l
  BY DEF AddLocation
<1>2. \A m \in event_locations' :
         /\ StoredIn(c[m.file], m)
         /\ m.file \in o /\ End(m) <= n[m.file]
         /\ m # l /\ m.file = l.file => End(m) <= l.offset
  BY <1>1
<1>3. \A m \in event_locations' :
         /\ content'[m.file] = c[m.file]
         /\ next_append'[m.file] = n[m.file]
         /\ m.file \in opened'
  <2>1. \A m \in event_locations' : m.file \in Files
    BY <1>1 DEF Location
  <2>2. \A f \in Files :
           f \in Referenced(held) =>
               /\ content'[f] = c[f]
               /\ next_append'[f] = n[f]
               /\ f \in o => f \in opened'
    BY ReleaseFilesProperties
  <2>3. QED
    BY <1>2, <2>1, <2>2 DEF Referenced
<1>4. IndexMatchesFiles' /\ AppendIsPastEvents'
  BY ZenonT(60), <1>2, <1>3 DEF IndexMatchesFiles, AppendIsPastEvents, StoredIn, End, RequestIdAt
<1>5. EventsDisjoint'
  BY <1>1, <1>2 DEF EventsDisjoint, End
<1>6. QED
  BY <1>1, <1>4, <1>5

-----------------------------------------------------------------------------
(* Saving an event at the end of a file.                                   *)

LEMMA WithHeaderProperties ==
    ASSUME TypeOK, NEW f \in Files
    PROVE  /\ WithHeader(f) \in Seq(Cell)
           /\ next_append[f] # 0 => WithHeader(f) = content[f]
<1>1. content[f] \in Seq(Cell) /\ next_append[f] \in Nat
  BY DEF TypeOK
<1>2. \A i \in 1 .. 1 : <<JournalHeader>>[i] \in Cell
  BY ZeroCellType
<1>3. WriteCells(content[f], 0, <<JournalHeader>>, 1) \in Seq(Cell)
  BY <1>1, <1>2, WriteCellsProperties
<1>4. QED
  BY <1>1, <1>3 DEF WithHeader

(* Writing any number of the cells of a new event keeps the pending events *)
(* of the file; writing all of them stores the new event.                  *)
LEMMA AppendedProperties ==
    ASSUME TypeOK, IndexMatchesFiles, AppendIsPastEvents,
           NEW f \in Files, NEW id \in Ids, NEW d \in Nat, NEW time \in Nat,
           NEW n \in 0 .. EventSize(d)
    PROVE  /\ AppendOffset(f) \in Nat /\ EventSize(d) \in Nat
           /\ Appended(f, id, d, time, n) \in Seq(Cell)
           /\ NewLocation(f, id, d, time) \in Location
           /\ \A m \in event_locations :
                m.file = f => /\ StoredIn(Appended(f, id, d, time, n), m)
                              /\ End(m) <= AppendOffset(f)
           /\ n = EventSize(d) =>
                StoredIn(Appended(f, id, d, time, n), NewLocation(f, id, d, time))
<1> DEFINE offset == AppendOffset(f)
           cells == EventCells(id, d, time)
           h == WithHeader(f)
           w == Appended(f, id, d, time, n)
           l == NewLocation(f, id, d, time)
<1>1. /\ next_append[f] \in Nat /\ offset \in Nat /\ HeaderSize <= offset
      /\ next_append[f] <= offset
      /\ EventSize(d) \in Nat /\ EventSize(d) >= 2 /\ n \in Nat /\ n <= EventSize(d)
  BY DEF TypeOK, AppendOffset, Larger, HeaderSize, EventSize
<1>2. h \in Seq(Cell) /\ Len(h) \in Nat
  BY WithHeaderProperties, LenProperties
<1>3. \A i \in 1 .. n : cells[i] \in Cell
  BY <1>1, EventCellsType
<1>4. l \in Location
  BY <1>1 DEF NewLocation, Location, Active
<1> HIDE DEF offset, cells, h, w
<1>5. /\ w \in Seq(Cell)
      /\ Len(w) = Larger(Len(h), offset + n)
      /\ \A i \in 1 .. n : w[offset + i] = cells[i]
      /\ \A i \in 1 .. Len(h) : i <= offset \/ offset + n < i => w[i] = h[i]
  <2>1. w = WriteCells(h, offset, cells, n)
    BY DEF Appended, w, h, offset, cells
  <2>2. QED
    BY <1>1, <1>2, <1>3, <2>1, WriteCellsProperties, SMTT(30)
<1>6. ASSUME NEW m \in event_locations, m.file = f
      PROVE  StoredIn(w, m) /\ End(m) <= offset
  <2>1. /\ m \in Location /\ m.offset \in Nat /\ m.size \in Nat
        /\ StoredIn(content[f], m) /\ End(m) <= next_append[f]
    BY <1>6 DEF TypeOK, IndexMatchesFiles, AppendIsPastEvents, Location
  <2>2. /\ EventSize(0) = 2 /\ HeaderSize <= m.offset /\ 2 <= m.size
        /\ End(m) = m.offset + m.size /\ End(m) <= Len(content[f])
    BY <2>1 DEF StoredIn, EventSize, End
  <2>3. next_append[f] # 0 /\ h = content[f] /\ StoredIn(h, m)
    BY <1>1, <2>1, <2>2, WithHeaderProperties DEF HeaderSize, h
  <2>4. End(m) <= offset /\ End(m) <= Len(h)
    BY <1>1, <2>1, <2>2, <2>3
  <2>5. /\ Len(h) <= Len(w)
        /\ w[m.offset + 1] = h[m.offset + 1]
        /\ w[m.offset + 2] = h[m.offset + 2]
    <3>1. /\ m.offset + 1 \in 1 .. Len(h) /\ m.offset + 1 <= offset
          /\ m.offset + 2 \in 1 .. Len(h) /\ m.offset + 2 <= offset
      BY <1>1, <1>2, <2>1, <2>2, <2>4, SMTT(30) DEF HeaderSize
    <3>2. Len(h) <= Larger(Len(h), offset + n)
      BY <1>1, <1>2 DEF Larger
    <3>3. QED
      BY <1>5, <3>1, <3>2
  <2>6. StoredIn(w, m)
    BY <1>2, <1>5, <2>1, <2>3, <2>5, StoredInFrame
  <2>7. QED
    BY <2>4, <2>6
<1>7. ASSUME n = EventSize(d)
      PROVE  StoredIn(w, l)
  <2>1. Len(w) \in Nat /\ Len(w) >= offset + EventSize(d)
    BY <1>1, <1>2, <1>5, <1>7 DEF Larger
  <2>2. w[offset + 1] = cells[1] /\ w[offset + 2] = cells[2]
    <3>1. 1 \in 1 .. n /\ 2 \in 1 .. n
      BY <1>1, <1>7
    <3>2. \A i \in 1 .. n : w[offset + i] = cells[i]
      BY <1>5
    <3>3. QED
      BY <3>1, <3>2, Zenon
  <2>3. /\ cells[1].kind = "ev" /\ cells[1].status = "READY"
        /\ cells[1].size = EventSize(d) /\ cells[1].time = time
        /\ cells[2].kind = "id" /\ cells[2].id = id
    BY EventCellsType DEF cells
  <2>4. QED
    BY <1>1, <2>1, <2>2, <2>3
       DEF NewLocation, offset, StoredIn, RequestIdAt, End, EventSize, HeaderSize
<1>8. QED
  BY <1>1, <1>4, <1>5, <1>6, <1>7 DEF offset, w

-----------------------------------------------------------------------------
(* The steps outside of a load.  RestOK holds the types of the variables   *)
(* that ReleaseFiles and AddLocation do not set.                           *)

RestOK ==
    /\ current_file_index \in Files
    /\ can_be_compressed \in BOOLEAN
    /\ conf \in Configurations
    /\ scan \in [on : BOOLEAN, compress : BOOLEAN, file : 0 .. FileLimit,
                read : Nat, write : Nat, found : BOOLEAN]
    /\ adding \in [id : Ids, data : Nat, time : Nat]
    /\ faults \in 0 .. MaxFaults

LEMMA TypeParts ==
    TypeOK <=> /\ FileTypes(content, durable, opened, next_append, event_count)
               /\ event_locations \subseteq Location
               /\ timebased_replay \subseteq Location
               /\ RestOK
  BY DEF TypeOK, FileTypes, RestOK

LEMMA TypePartsNext ==
    TypeOK' <=> /\ FileTypes(content', durable', opened', next_append', event_count')
                /\ event_locations' \subseteq Location
                /\ timebased_replay' \subseteq Location
                /\ RestOK'
  BY DEF TypeOK, FileTypes, RestOK

LEMMA WriteNewEventStep ==
    ASSUME IndexInvariant, ~scan.on, NEW f \in Files, NEW id \in Ids,
           NEW d \in Nat, NEW time \in Nat,
           WriteNewEvent(f, id, d, time), UNCHANGED faults
    PROVE  IndexInvariant'
<1> DEFINE size == EventSize(d)
           kept == IF conf.sync = "flush" THEN size ELSE size - 1
           l == NewLocation(f, id, d, time)
           c == [content EXCEPT ![f] = Appended(f, id, d, time, size)]
           e == [durable EXCEPT ![f] = Appended(f, id, d, time, kept)]
           o == opened \cup {f}
           n == [next_append EXCEPT ![f] = AppendOffset(f) + size]
           k == IncreaseEventCount(f)
<1>1. /\ TypeOK /\ IndexMatchesFiles /\ EventsDisjoint /\ AppendIsPastEvents
  BY DEF IndexInvariant
<1>2. /\ FileTypes(content, durable, opened, next_append, event_count)
      /\ event_locations \subseteq Location /\ timebased_replay \subseteq Location
      /\ RestOK
  BY <1>1, TypeParts
<1>3. size \in 0 .. size /\ kept \in 0 .. size /\ size \in Nat
  BY DEF EventSize
<1>4. /\ AppendOffset(f) \in Nat
      /\ Appended(f, id, d, time, size) \in Seq(Cell)
      /\ l \in Location
      /\ \A m \in event_locations :
           m.file = f => /\ StoredIn(Appended(f, id, d, time, size), m)
                         /\ End(m) <= AppendOffset(f)
      /\ StoredIn(Appended(f, id, d, time, size), l)
  BY <1>1, <1>3, AppendedProperties
<1>5. Appended(f, id, d, time, kept) \in Seq(Cell)
  BY <1>1, <1>3, AppendedProperties
<1>6. /\ AddLocation(l)
      /\ ReleaseFiles(c, e, o, n, k, {})
      /\ current_file_index' = f
      /\ adding' = NoRequest
      /\ UNCHANGED <<can_be_compressed, conf, scan, faults>>
  BY DEF WriteNewEvent
<1>7. FileTypes(c, e, o, n, k)
  BY <1>2, <1>3, <1>4, <1>5 DEF FileTypes, IncreaseEventCount
<1>8. l.file = f /\ l.offset = AppendOffset(f) /\ End(l) = AppendOffset(f) + size
  BY DEF NewLocation, End
<1>9. \A m \in event_locations :
        /\ StoredIn(c[m.file], m)
        /\ m.file \in o /\ End(m) <= n[m.file]
        /\ m.file = l.file => End(m) <= l.offset
  <2> SUFFICES ASSUME NEW m \in event_locations
               PROVE  /\ StoredIn(c[m.file], m)
                      /\ m.file \in o /\ End(m) <= n[m.file]
                      /\ m.file = l.file => End(m) <= l.offset
    OBVIOUS
  <2>1. /\ m.file \in Files /\ StoredIn(content[m.file], m)
        /\ m.file \in opened /\ End(m) <= next_append[m.file]
        /\ End(m) \in Nat
    BY <1>1, <1>2 DEF IndexMatchesFiles, AppendIsPastEvents, Location, End
  <2>2. CASE m.file = f
    BY <1>2, <1>3, <1>4, <1>8, <2>1, <2>2 DEF FileTypes
  <2>3. CASE m.file # f
    BY <1>2, <1>8, <2>1, <2>3 DEF FileTypes
  <2>4. QED
    BY <2>2, <2>3
<1>10. StoredIn(c[l.file], l) /\ l.file \in o /\ End(l) <= n[l.file]
  BY <1>2, <1>3, <1>4, <1>8 DEF FileTypes
<1> HIDE DEF c, e, o, n, k, l
<1>11. /\ IndexMatchesFiles' /\ EventsDisjoint' /\ AppendIsPastEvents'
       /\ event_locations' \subseteq Location
       /\ timebased_replay' \subseteq Location
  BY <1>1, <1>2, <1>4, <1>6, <1>7, <1>9, <1>10, IndexExtended
<1>12. FileTypes(content', durable', opened', next_append', event_count')
  BY <1>6, <1>7, ReleaseFilesProperties
<1>13. RestOK'
  BY <1>2, <1>6 DEF RestOK, NoRequest, Ids
<1>14. TypeOK'
  BY <1>11, <1>12, <1>13, TypePartsNext
<1>15. ScanInBounds'
  BY <1>6 DEF ScanInBounds
<1>16. QED
  BY <1>11, <1>14, <1>15 DEF IndexInvariant

(* A step which adds no location and releases file objects. *)
LEMMA KeptStep ==
    ASSUME IndexInvariant,
           NEW c, NEW d, NEW o, NEW n, NEW k, NEW held,
           FileTypes(c, d, o, n, k), ReleaseFiles(c, d, o, n, k, held),
           event_locations' \subseteq event_locations,
           timebased_replay' \subseteq timebased_replay,
           \A m \in event_locations' :
               /\ StoredIn(c[m.file], m)
               /\ m.file \in o /\ End(m) <= n[m.file],
           RestOK', ScanInBounds'
    PROVE  IndexInvariant'
<1>1. event_locations \subseteq Location /\ timebased_replay \subseteq Location
  BY TypeParts DEF IndexInvariant
<1>2. IndexMatchesFiles' /\ EventsDisjoint' /\ AppendIsPastEvents'
  BY <1>1, IndexKept DEF IndexInvariant
<1>3. FileTypes(content', durable', opened', next_append', event_count')
  BY ReleaseFilesProperties
<1>4. TypeOK'
  BY <1>1, <1>3, TypePartsNext
<1>5. QED
  BY <1>2, <1>4 DEF IndexInvariant

(* The index as it is: what KeptStep asks for when the files do not change. *)
LEMMA IndexAsIs ==
    ASSUME IndexInvariant
    PROVE  /\ FileTypes(content, durable, opened, next_append, event_count)
           /\ RestOK
           /\ \A m \in event_locations :
                /\ m \in Location /\ m.file \in Files /\ End(m) \in Nat
                /\ StoredIn(content[m.file], m)
                /\ m.file \in opened /\ End(m) <= next_append[m.file]
<1>1. /\ FileTypes(content, durable, opened, next_append, event_count)
      /\ event_locations \subseteq Location /\ RestOK
  BY TypeParts DEF IndexInvariant
<1>2. QED
  BY <1>1 DEF IndexInvariant, IndexMatchesFiles, AppendIsPastEvents, Location, End

LEMMA WriteNewEventFailsStep ==
    ASSUME IndexInvariant, ~scan.on, NEW f \in Files, NEW id \in Ids,
           NEW d \in Nat, NEW time \in Nat, NEW n \in 0 .. EventSize(d),
           WriteNewEventFails(f, id, d, time, n), faults' \in 0 .. MaxFaults
    PROVE  IndexInvariant'
<1> DEFINE c == [content EXCEPT ![f] = Appended(f, id, d, time, n)]
           e == [durable EXCEPT ![f] =
                    IF n = 0 THEN @ ELSE Appended(f, id, d, time, n - 1)]
           o == opened \cup {f}
           a == [next_append EXCEPT ![f] = AppendOffset(f)]
<1>1. TypeOK /\ IndexMatchesFiles /\ AppendIsPastEvents
  BY DEF IndexInvariant
<1>2. n = 0 \/ n - 1 \in 0 .. EventSize(d)
  BY DEF EventSize
<1>3. /\ AppendOffset(f) \in Nat
      /\ Appended(f, id, d, time, n) \in Seq(Cell)
      /\ \A m \in event_locations :
           m.file = f => /\ StoredIn(Appended(f, id, d, time, n), m)
                         /\ End(m) <= AppendOffset(f)
  BY <1>1, AppendedProperties
<1>4. n # 0 => Appended(f, id, d, time, n - 1) \in Seq(Cell)
  BY <1>1, <1>2, AppendedProperties
<1>5. FileTypes(c, e, o, a, event_count)
  BY <1>3, <1>4, IndexAsIs DEF FileTypes
<1>6. /\ ReleaseFiles(c, e, o, a, event_count, {})
      /\ current_file_index' = f /\ adding' = NoRequest
      /\ UNCHANGED <<event_locations, timebased_replay, can_be_compressed, conf, scan>>
  BY DEF WriteNewEventFails, indexVars
<1>7. \A m \in event_locations' :
        /\ StoredIn(c[m.file], m)
        /\ m.file \in o /\ End(m) <= a[m.file]
  <2> SUFFICES ASSUME NEW m \in event_locations
               PROVE  /\ StoredIn(c[m.file], m)
                      /\ m.file \in o /\ End(m) <= a[m.file]
    BY <1>6
  <2>1. CASE m.file = f
    BY <1>3, <2>1, IndexAsIs DEF FileTypes
  <2>2. CASE m.file # f
    BY <2>2, IndexAsIs DEF FileTypes
  <2>3. QED
    BY <2>1, <2>2
<1> HIDE DEF c, e, o, a
<1>8. RestOK'
  BY <1>6, IndexAsIs DEF RestOK, NoRequest, Ids
<1>9. ScanInBounds'
  BY <1>6 DEF ScanInBounds
<1>10. QED
  BY <1>5, <1>6, <1>7, <1>8, <1>9, KeptStep

LEMMA FileRanges ==
    ASSUME RestOK
    PROVE  /\ conf.files \in 1 .. FileLimit
           /\ 0 .. (conf.files - 1) \subseteq Files
           /\ \A f \in Nat : f < conf.files => f \in Files /\ f + 1 \in 0 .. FileLimit
<1>1. conf.files \in 1 .. FileLimit /\ FileLimit \in Nat
  BY JournalAssumption DEF RestOK, Configurations
<1>2. QED
  BY <1>1 DEF Files

(* Opening more files and closing those nobody refers to keeps the index.  *)
LEMMA OpenedStep ==
    ASSUME IndexInvariant, NEW tried \in SUBSET Files,
           ReleaseFiles(content, durable, opened \cup tried, next_append,
                        event_count, {}),
           event_locations' \subseteq event_locations,
           timebased_replay' \subseteq timebased_replay,
           RestOK', ScanInBounds'
    PROVE  IndexInvariant'
<1>1. FileTypes(content, durable, opened \cup tried, next_append, event_count)
  BY IndexAsIs DEF FileTypes
<1>2. \A m \in event_locations' :
        /\ StoredIn(content[m.file], m)
        /\ m.file \in opened \cup tried /\ End(m) <= next_append[m.file]
  BY IndexAsIs
<1>3. QED
  BY <1>1, <1>2, KeptStep

LEMMA RefuseStep ==
    ASSUME IndexInvariant, ~scan.on, Refuse, UNCHANGED faults
    PROVE  IndexInvariant'
<1>1. RestOK' /\ ScanInBounds'
  BY IndexAsIs DEF Refuse, RestOK, ScanInBounds, NoRequest, Ids
<1>2. 0 .. (conf.files - 1) \in SUBSET Files
  BY IndexAsIs, FileRanges
<1>3. QED
  BY <1>1, <1>2, OpenedStep DEF Refuse, indexVars

LEMMA CompressForStep ==
    ASSUME IndexInvariant, NEW id \in Ids, NEW d \in Nat, NEW time \in Nat,
           CompressFor(id, d, time), UNCHANGED faults
    PROVE  IndexInvariant'
<1>1. RestOK'
  <2>1. RestOK /\ 0 \in 0 .. FileLimit
    BY IndexAsIs, JournalAssumption
  <2>2. StartScan(TRUE) \in [on : BOOLEAN, compress : BOOLEAN, file : 0 .. FileLimit,
                             read : Nat, write : Nat, found : BOOLEAN]
    BY <2>1 DEF StartScan, ScanState
  <2>3. QED
    BY <2>1, <2>2 DEF CompressFor, RestOK
<1>2. ScanInBounds'
  BY DEF CompressFor, ScanInBounds, StartScan, ScanState
<1>3. 0 .. (conf.files - 1) \in SUBSET Files
  BY IndexAsIs, FileRanges
<1>4. QED
  BY <1>1, <1>2, <1>3, OpenedStep DEF CompressFor

LEMMA SetMaximumNumberOfFilesStep ==
    ASSUME IndexInvariant, NEW m \in FileCounts, SetMaximumNumberOfFiles(m)
    PROVE  IndexInvariant'
<1> DEFINE over == {f \in Files : m <= f /\ f < conf.files}
           InUse(f) == \E l \in event_locations : l.file = f
           tried == {f \in over : /\ content[f] # << >>
                                  /\ \A g \in over : g < f => ~InUse(g)}
<1>1. /\ ~scan.on
      /\ UNCHANGED <<event_locations, timebased_replay>>
      /\ ReleaseFiles(content, durable, opened \cup tried, next_append,
                      event_count, {})
      /\ conf' = conf \/ conf' = [conf EXCEPT !.files = m]
      /\ UNCHANGED <<current_file_index, can_be_compressed, scan, adding, faults>>
  BY DEF SetMaximumNumberOfFiles, SaveConfiguration, Ready, indexVars
<1>2. tried \in SUBSET Files
  OBVIOUS
<1> HIDE DEF tried
<1>3. conf' \in Configurations
  BY <1>1, IndexAsIs DEF RestOK, Configurations
<1>4. RestOK' /\ ScanInBounds'
  BY <1>1, <1>3, IndexAsIs DEF RestOK, ScanInBounds
<1>5. QED
  BY <1>1, <1>2, <1>4, OpenedStep

-----------------------------------------------------------------------------
(* Writing the status of an event.                                         *)

LEMMA CellWithStatus ==
    ASSUME NEW c \in Cell, NEW status \in Active \cup Final
    PROVE  /\ [c EXCEPT !.status = status] \in Cell
           /\ [c EXCEPT !.status = status].kind = c.kind
           /\ [c EXCEPT !.status = status].status = status
           /\ [c EXCEPT !.status = status].size = c.size
           /\ [c EXCEPT !.status = status].time = c.time
  BY DEF Cell

LEMMA LocationWithStatus ==
    ASSUME NEW l \in Location, NEW status \in Active
    PROVE  /\ [l EXCEPT !.status = status] \in Location
           /\ [l EXCEPT !.status = status].id = l.id
           /\ [l EXCEPT !.status = status].file = l.file
           /\ [l EXCEPT !.status = status].offset = l.offset
           /\ [l EXCEPT !.status = status].size = l.size
           /\ [l EXCEPT !.status = status].status = status
           /\ [l EXCEPT !.status = status].time = l.time
  BY DEF Location

(* The header and the identifier of an event are not where the header of   *)
(* a disjoint event is.                                                    *)
LEMMA DisjointCells ==
    ASSUME NEW a \in Nat, NEW b \in Nat, NEW p \in Nat, NEW q \in Nat,
           NEW n \in Nat, 2 <= b, 2 <= q, a + b <= n,
           a + b <= p \/ p + q <= a
    PROVE  /\ a + 1 \in 1 .. n /\ a + 2 \in 1 .. n
           /\ a + 1 # p + 1 /\ a + 2 # p + 1
  OBVIOUS

LEMMA WithStatusProperties ==
    ASSUME IndexInvariant, NEW l \in event_locations,
           NEW status \in Active \cup Final
    PROVE  /\ WithStatus(l, status) \in [Files -> Seq(Cell)]
           /\ DurableStatus(l, status) \in [Files -> Seq(Cell)]
           /\ \A m \in event_locations \ {l} :
                StoredIn(WithStatus(l, status)[m.file], m)
           /\ status \in Active =>
                StoredIn(WithStatus(l, status)[l.file], [l EXCEPT !.status = status])
<1> DEFINE s == content[l.file]
           i == l.offset + 1
           e == [s[i] EXCEPT !.status = status]
           w == [s EXCEPT ![i] = e]
           x == WithStatus(l, status)
<1>1. /\ content \in [Files -> Seq(Cell)] /\ durable \in [Files -> Seq(Cell)]
      /\ l \in Location /\ l.file \in Files /\ l.offset \in Nat /\ l.size \in Nat
      /\ StoredIn(s, l) /\ s \in Seq(Cell) /\ Len(s) \in Nat
  BY IndexAsIs, LenProperties DEF FileTypes, Location
<1>2. i \in 1 .. Len(s) /\ i + 1 \in 1 .. Len(s) /\ s[i] \in Cell /\ 2 <= l.size
  <2>1. i \in 1 .. Len(s) /\ i + 1 \in 1 .. Len(s) /\ 2 <= l.size
    BY <1>1 DEF StoredIn, End, EventSize, HeaderSize
  <2>2. QED
    BY <1>1, <2>1, ElementOfSeq
<1>3. /\ e \in Cell /\ e.kind = s[i].kind /\ e.status = status
      /\ e.size = s[i].size /\ e.time = s[i].time
  BY <1>2, CellWithStatus
<1>4. x = [content EXCEPT ![l.file] = w]
  BY DEF WithStatus
<1> HIDE DEF e, s
<1>5. /\ w \in Seq(Cell) /\ Len(w) = Len(s) /\ w[i] = e
      /\ \A j \in 1 .. Len(s) : j # i => w[j] = s[j]
  BY <1>1, <1>2, <1>3, ExceptSeq
<1> HIDE DEF w, x
<1>6. x \in [Files -> Seq(Cell)] /\ x[l.file] = w
  BY <1>1, <1>4, <1>5
<1>7. DurableStatus(l, status) \in [Files -> Seq(Cell)]
  BY <1>1, <1>6 DEF DurableStatus, s, x
<1>8. ASSUME NEW m \in event_locations \ {l}
      PROVE  StoredIn(x[m.file], m)
  <2>1. /\ m \in Location /\ m.file \in Files /\ m.offset \in Nat /\ m.size \in Nat
        /\ StoredIn(content[m.file], m)
    BY IndexAsIs DEF Location
  <2>2. CASE m.file # l.file
    BY <1>1, <1>4, <2>1, <2>2
  <2>3. CASE m.file = l.file
    <3>1. m.offset + m.size <= l.offset \/ l.offset + l.size <= m.offset
      BY <2>3 DEF IndexInvariant, EventsDisjoint, End
    <3>2. /\ StoredIn(s, m) /\ 2 <= m.size /\ m.offset + m.size <= Len(s)
          /\ 1 <= m.offset
      BY <2>1, <2>3 DEF s, StoredIn, End, EventSize, HeaderSize
    <3>3. /\ m.offset + 1 \in 1 .. Len(s) /\ m.offset + 1 # i
          /\ m.offset + 2 \in 1 .. Len(s) /\ m.offset + 2 # i
      <4>1. /\ m.offset \in Nat /\ m.size \in Nat /\ l.offset \in Nat
            /\ l.size \in Nat /\ Len(s) \in Nat /\ 2 <= l.size
        BY <1>1, <1>2, <2>1
      <4>2. QED
        BY <3>1, <3>2, <4>1, DisjointCells
    <3>4. w[m.offset + 1] = s[m.offset + 1] /\ w[m.offset + 2] = s[m.offset + 2]
      BY <1>5, <3>3
    <3>5. s \in Seq(Cell) /\ w \in Seq(Cell) /\ Len(s) <= Len(w)
      BY <1>1, <1>5
    <3>6. StoredIn(w, m)
      BY <2>1, <3>2, <3>4, <3>5, StoredInFrame
    <3>7. QED
      BY <1>6, <2>3, <3>6
  <2>4. QED
    BY <2>2, <2>3
<1>9. ASSUME status \in Active
      PROVE  StoredIn(w, [l EXCEPT !.status = status])
  <2> DEFINE y == [l EXCEPT !.status = status]
  <2>1. i + 1 # i /\ i + 1 = l.offset + 2 /\ w[l.offset + 2] = s[l.offset + 2]
    <3>1. i + 1 # i /\ i + 1 = l.offset + 2
      BY <1>1
    <3>2. l.offset + 2 \in 1 .. Len(s) /\ l.offset + 2 # i
      BY <1>2, <3>1
    <3>3. QED
      BY <1>5, <3>1, <3>2
  <2>2. /\ y.id = l.id /\ y.offset = l.offset /\ y.size = l.size
        /\ y.status = status /\ y.time = l.time
    BY <1>1, <1>9, LocationWithStatus
  <2> HIDE DEF y
  <2>3. StoredIn(w, y)
    BY <1>1, <1>3, <1>5, <2>1, <2>2 DEF StoredIn, End, RequestIdAt
  <2>4. QED
    BY <2>3 DEF y
<1>10. QED
  BY <1>6, <1>7, <1>8, <1>9 DEF x

LEMMA AdvanceEventStep ==
    ASSUME IndexInvariant, NEW l \in event_locations, NEW status,
           AdvanceEvent(l, status)
    PROVE  IndexInvariant'
<1> DEFINE y == [l EXCEPT !.status = status]
<1>1. /\ ~scan.on /\ status \in Active
      /\ event_locations' = (event_locations \ {l}) \cup {y}
      /\ timebased_replay' = (timebased_replay \ {l}) \cup
                                (IF l \in timebased_replay THEN {y} ELSE {})
      /\ content' = WithStatus(l, status)
      /\ durable' = DurableStatus(l, status)
      /\ UNCHANGED <<opened, next_append, event_count>>
      /\ UNCHANGED <<current_file_index, can_be_compressed, conf, scan, adding, faults>>
  BY DEF AdvanceEvent, Ready
<1>2. /\ l \in Location /\ y \in Location /\ y.file = l.file
      /\ y.offset = l.offset /\ y.size = l.size
  BY <1>1, IndexAsIs, LocationWithStatus
<1>3. /\ WithStatus(l, status) \in [Files -> Seq(Cell)]
      /\ DurableStatus(l, status) \in [Files -> Seq(Cell)]
      /\ \A m \in event_locations \ {l} : StoredIn(WithStatus(l, status)[m.file], m)
      /\ StoredIn(WithStatus(l, status)[l.file], y)
  BY <1>1, WithStatusProperties
<1> HIDE DEF y
<1>4. TypeOK'
  <2>1. event_locations \subseteq Location /\ timebased_replay \subseteq Location
    BY TypeParts DEF IndexInvariant
  <2>2. FileTypes(content', durable', opened', next_append', event_count')
    BY <1>1, <1>3, IndexAsIs DEF FileTypes
  <2>3. RestOK'
    BY <1>1, IndexAsIs DEF RestOK
  <2>4. event_locations' \subseteq Location /\ timebased_replay' \subseteq Location
    BY <1>1, <1>2, <2>1
  <2>5. QED
    BY <2>2, <2>3, <2>4, TypePartsNext
<1>5. IndexMatchesFiles'
  <2>1. \A m \in event_locations' : StoredIn(content'[m.file], m)
    BY <1>1, <1>2, <1>3
  <2>2. QED
    BY <2>1 DEF IndexMatchesFiles, StoredIn, RequestIdAt, End
<1>6. EventsDisjoint'
  <2> SUFFICES ASSUME NEW a \in event_locations', NEW b \in event_locations',
                      a # b, a.file = b.file
               PROVE  End(a) <= b.offset \/ End(b) <= a.offset
    BY DEF EventsDisjoint, End
  <2>1. \A p, q \in event_locations :
          p # q /\ p.file = q.file => End(p) <= q.offset \/ End(q) <= p.offset
    BY DEF IndexInvariant, EventsDisjoint
  <2>2. End(y) = End(l)
    BY <1>2 DEF End
  <2>3. CASE a # y /\ b # y
    BY <1>1, <2>1, <2>3
  <2>4. CASE a = y
    BY <1>1, <1>2, <2>1, <2>2, <2>4
  <2>5. CASE b = y
    BY <1>1, <1>2, <2>1, <2>2, <2>5
  <2>6. QED
    BY <2>3, <2>4, <2>5
<1>7. AppendIsPastEvents'
  <2>1. End(y) = End(l)
    BY <1>2 DEF End
  <2>2. \A m \in event_locations' : m.file \in opened /\ End(m) <= next_append[m.file]
    BY <1>1, <1>2, <2>1, IndexAsIs
  <2>3. QED
    BY <1>1, <2>2 DEF AppendIsPastEvents, End
<1>8. ScanInBounds'
  BY <1>1 DEF ScanInBounds
<1>9. QED
  BY <1>4, <1>5, <1>6, <1>7, <1>8 DEF IndexInvariant

LEMMA FinishEventStep ==
    ASSUME IndexInvariant, NEW l \in event_locations, NEW status,
           FinishEvent(l, status)
    PROVE  IndexInvariant'
<1> DEFINE c == WithStatus(l, status)
           e == DurableStatus(l, status)
           n == [next_append EXCEPT ![l.file] = AppendAfter(l)]
           k == DecreaseEventCount(l.file)
<1>1. /\ ~scan.on /\ status \in Active \cup Final
      /\ event_locations' = event_locations \ {l}
      /\ timebased_replay' \subseteq timebased_replay
      /\ ReleaseFiles(c, e, opened, n, k, {})
      /\ can_be_compressed' = TRUE
      /\ UNCHANGED <<current_file_index, conf, scan, adding, faults>>
  BY DEF FinishEvent, Ready
<1>2. /\ c \in [Files -> Seq(Cell)] /\ e \in [Files -> Seq(Cell)]
      /\ \A m \in event_locations \ {l} : StoredIn(c[m.file], m)
  BY <1>1, WithStatusProperties
<1>3. FileTypes(c, e, opened, n, k)
  BY <1>2, IndexAsIs DEF FileTypes, HeaderSize, DecreaseEventCount, AppendAfter
<1>4. \A m \in event_locations' :
        /\ StoredIn(c[m.file], m)
        /\ m.file \in opened /\ End(m) <= n[m.file]
  <2> SUFFICES ASSUME NEW m \in event_locations \ {l}
               PROVE  m.file \in opened /\ End(m) <= n[m.file]
    BY <1>1, <1>2
  <2>1. event_locations # {l}
    OBVIOUS
  <2>2. QED
    BY <2>1, IndexAsIs DEF FileTypes, AppendAfter
<1> HIDE DEF c, e, n, k
<1>5. RestOK' /\ ScanInBounds'
  BY <1>1, IndexAsIs DEF RestOK, ScanInBounds
<1>6. QED
  BY <1>1, <1>3, <1>4, <1>5, KeptStep

-----------------------------------------------------------------------------
(* The steps of a load.                                                    *)

LEMMA BootStep ==
    ASSUME IndexInvariant, NEW disk \in [Files -> Seq(Cell)], Boot(disk),
           faults' \in 0 .. MaxFaults
    PROVE  IndexInvariant'
<1>1. RestOK /\ 0 \in Files /\ 0 \in 0 .. FileLimit
  BY IndexAsIs, FileRanges, JournalAssumption
<1>2. StartScan(FALSE) \in [on : BOOLEAN, compress : BOOLEAN, file : 0 .. FileLimit,
                           read : Nat, write : Nat, found : BOOLEAN]
  BY <1>1 DEF StartScan, ScanState
<1>3. RestOK'
  BY <1>1, <1>2 DEF Boot, LoadConfiguration, RestOK, NoRequest, Ids
<1>4. FileTypes(content', durable', opened', next_append', event_count')
  BY DEF Boot, FileTypes
<1>5. TypeOK'
  BY <1>3, <1>4, TypePartsNext DEF Boot
<1>6. /\ IndexMatchesFiles' /\ EventsDisjoint' /\ AppendIsPastEvents'
  BY DEF Boot, IndexMatchesFiles, EventsDisjoint, AppendIsPastEvents
<1>7. ScanInBounds'
  BY DEF Boot, ScanInBounds, StartScan, ScanState
<1>8. QED
  BY <1>5, <1>6, <1>7 DEF IndexInvariant

ScanType ==
    [on : BOOLEAN, compress : BOOLEAN, file : 0 .. FileLimit, read : Nat,
     write : Nat, found : BOOLEAN]

LEMMA ScanFields ==
    ASSUME RestOK
    PROVE  /\ scan \in ScanType
           /\ scan.on \in BOOLEAN /\ scan.compress \in BOOLEAN
           /\ scan.found \in BOOLEAN /\ scan.file \in Nat
           /\ scan.read \in Nat /\ scan.write \in Nat
<1>1. scan \in ScanType /\ FileLimit \in Nat
  BY JournalAssumption DEF RestOK, ScanType
<1>2. QED
  BY <1>1 DEF ScanType

(* Moving on to the next file keeps the bounds of the scan. *)
LEMMA NextFileBounds ==
    ASSUME IndexInvariant, scan.on, scan.file < conf.files, scan' = NextFile,
           UNCHANGED <<event_locations, current_file_index, can_be_compressed,
                       conf, adding, faults>>
    PROVE  RestOK' /\ ScanInBounds'
<1>1. RestOK /\ scan \in ScanType /\ scan.file \in Nat /\ scan.file + 1 \in 0 .. FileLimit
  BY IndexAsIs, ScanFields, FileRanges
<1>2. /\ scan' \in ScanType /\ scan'.file = scan.file + 1 /\ scan'.read = 0
      /\ scan'.found = FALSE
  BY <1>1 DEF NextFile, ScanType
<1>3. \A m \in event_locations : m.file \in Nat /\ (m.file < scan.file \/ m.file = scan.file)
  BY IndexAsIs DEF IndexInvariant, ScanInBounds, Files
<1>4. RestOK'
  BY <1>1, <1>2 DEF RestOK, ScanType
<1>5. \A m \in event_locations' : m.file < scan'.file
  BY <1>1, <1>2, <1>3
<1>6. QED
  BY <1>2, <1>4, <1>5 DEF ScanInBounds

LEMMA ScanSyncedType ==
    ASSUME IndexInvariant, scan.file < conf.files, scan.on
    PROVE  /\ scan.file \in Files /\ Scanned \in Seq(Cell)
           /\ ScanSynced \in [Files -> Seq(Cell)]
<1>1. scan.file \in Files
  BY IndexAsIs, ScanFields, FileRanges
<1>2. QED
  BY <1>1, IndexAsIs DEF FileTypes, Scanned, ScanSynced

LEMMA ScanSkipFileStep ==
    ASSUME IndexInvariant, ScanSkipFile
    PROVE  IndexInvariant'
<1> DEFINE k == ResetEventCount(scan.file)
           o == opened \cup {scan.file}
<1>1. /\ scan.on /\ scan.file < conf.files
      /\ UNCHANGED <<event_locations, timebased_replay>>
      /\ scan' = NextFile
      /\ UNCHANGED <<current_file_index, can_be_compressed, conf, adding, faults>>
      /\ \/ UNCHANGED fileVars
         \/ ReleaseFiles(content, ScanSynced, o, next_append, k, {})
  BY DEF ScanSkipFile, indexVars
<1>2. RestOK' /\ ScanInBounds'
  BY <1>1, NextFileBounds
<1>3. scan.file \in Files /\ ScanSynced \in [Files -> Seq(Cell)]
  BY <1>1, ScanSyncedType
<1>4. CASE UNCHANGED fileVars
  BY <1>1, <1>2, <1>4, TypeParts, TypePartsNext
     DEF IndexInvariant, IndexMatchesFiles, EventsDisjoint, AppendIsPastEvents,
         StoredIn, RequestIdAt, End, fileVars
<1>5. CASE ReleaseFiles(content, ScanSynced, o, next_append, k, {})
  <2>1. FileTypes(content, ScanSynced, o, next_append, k)
    BY <1>3, IndexAsIs DEF FileTypes, ResetEventCount
  <2>2. \A m \in event_locations' :
          /\ StoredIn(content[m.file], m)
          /\ m.file \in o /\ End(m) <= next_append[m.file]
    BY <1>1, IndexAsIs
  <2> HIDE DEF o, k
  <2>3. QED
    BY <1>1, <1>2, <1>5, <2>1, <2>2, KeptStep
<1>6. QED
  BY <1>1, <1>4, <1>5

LEMMA ScanCloseFileStep ==
    ASSUME IndexInvariant, ScanCloseFile
    PROVE  IndexInvariant'
<1>1. /\ scan.on /\ scan.read > 0
      /\ UNCHANGED <<event_locations, timebased_replay>>
      /\ scan' = NextFile
      /\ UNCHANGED <<current_file_index, can_be_compressed, conf, adding, faults>>
      /\ ReleaseFiles(content, ScanSynced, opened, next_append, event_count, {})
  BY DEF ScanCloseFile, indexVars
<1>2. scan.file < conf.files
  BY <1>1 DEF IndexInvariant, ScanInBounds
<1>3. RestOK' /\ ScanInBounds'
  BY <1>1, <1>2, NextFileBounds
<1>4. FileTypes(content, ScanSynced, opened, next_append, event_count)
  BY <1>1, <1>2, ScanSyncedType, IndexAsIs DEF FileTypes
<1>5. \A m \in event_locations' :
        /\ StoredIn(content[m.file], m)
        /\ m.file \in opened /\ End(m) <= next_append[m.file]
  BY <1>1, IndexAsIs
<1>6. QED
  BY <1>1, <1>3, <1>4, <1>5, KeptStep

LEMMA ScanEndStep ==
    ASSUME IndexInvariant, ScanEnd
    PROVE  IndexInvariant'
<1>1. /\ scan' = NotScanning /\ UNCHANGED fileVars
      /\ UNCHANGED <<event_locations, timebased_replay, current_file_index,
                     can_be_compressed, conf, adding, faults>>
  BY DEF ScanEnd, indexVars
<1>2. 0 \in 0 .. FileLimit
  BY JournalAssumption
<1>3. NotScanning \in ScanType /\ ~NotScanning.on
  BY <1>2 DEF NotScanning, ScanState, ScanType
<1>4. RestOK' /\ ScanInBounds'
  BY <1>1, <1>3, IndexAsIs DEF RestOK, ScanType, ScanInBounds
<1>5. QED
  BY <1>1, <1>4, TypeParts, TypePartsNext
     DEF IndexInvariant, IndexMatchesFiles, EventsDisjoint, AppendIsPastEvents,
         StoredIn, RequestIdAt, End, fileVars

LEMMA ScanOpenFileStep ==
    ASSUME IndexInvariant, ScanOpenFile
    PROVE  IndexInvariant'
<1>1. /\ scan.on /\ scan.read = 0 /\ scan.file < conf.files /\ HasHeader(Scanned)
      /\ opened' = opened \cup {scan.file}
      /\ event_count' = ResetEventCount(scan.file)
      /\ durable' = ScanSynced
      /\ scan' = [scan EXCEPT !.read = HeaderSize]
      /\ UNCHANGED <<content, next_append, event_locations, timebased_replay>>
      /\ UNCHANGED <<current_file_index, can_be_compressed, conf, adding, faults>>
  BY DEF ScanOpenFile, indexVars
<1>2. /\ scan.file \in Files /\ Scanned \in Seq(Cell)
      /\ ScanSynced \in [Files -> Seq(Cell)]
  BY <1>1, ScanSyncedType
<1>3. RestOK /\ scan \in ScanType
  BY IndexAsIs, ScanFields
<1>4. /\ scan' \in ScanType /\ scan'.file = scan.file /\ scan'.read = 1
      /\ scan'.found = scan.found /\ scan'.write = scan.write
      /\ scan'.compress = scan.compress
  BY <1>1, <1>3 DEF HeaderSize, ScanType
<1>5. FileTypes(content', durable', opened', next_append', event_count')
  BY <1>1, <1>2, IndexAsIs DEF FileTypes, ResetEventCount
<1>6. RestOK'
  BY <1>1, <1>3, <1>4 DEF RestOK, ScanType
<1>7. TypeOK'
  BY <1>1, <1>5, <1>6, TypeParts, TypePartsNext DEF IndexInvariant
<1>8. IndexMatchesFiles' /\ EventsDisjoint' /\ AppendIsPastEvents'
  BY <1>1 DEF IndexInvariant, IndexMatchesFiles, EventsDisjoint,
              AppendIsPastEvents, StoredIn, RequestIdAt, End
<1>9. ScanInBounds'
  <2>1. \A m \in event_locations : m.file < scan.file
    BY <1>1 DEF IndexInvariant, ScanInBounds
  <2>2. 1 <= Len(content[scan.file])
    BY <1>1, <1>2, LenProperties DEF HasHeader, Scanned
  <2>3. scan.found = FALSE
    BY <1>1, <1>3, ScanFields DEF IndexInvariant, ScanInBounds, HeaderSize
  <2>4. QED
    BY <1>1, <1>4, <2>1, <2>2, <2>3 DEF ScanInBounds
<1>10. QED
  BY <1>7, <1>8, <1>9 DEF IndexInvariant

(* The event a load stands on. *)
LEMMA ScannedProperties ==
    ASSUME IndexInvariant, scan.on, scan.read > 0, ValidEventAt(Scanned, scan.read)
    PROVE  /\ scan \in ScanType /\ scan.read \in Nat /\ scan.write \in Nat
           /\ scan.file \in Files /\ scan.file < conf.files /\ scan.file \in opened
           /\ Scanned \in Seq(Cell) /\ Len(Scanned) \in Nat
           /\ ScannedEvent \in Cell /\ ScannedEvent.kind = "ev"
           /\ ScannedEvent.size \in Nat /\ 2 < ScannedEvent.size
           /\ ScannedEvent.time \in Nat
           /\ scan.read + ScannedEvent.size <= Len(Scanned)
           /\ RequestIdAt(Scanned, scan.read) \in Ids
<1>1. RestOK /\ scan \in ScanType /\ scan.read \in Nat /\ scan.write \in Nat
  BY IndexAsIs, ScanFields
<1>2. scan.file < conf.files /\ scan.file \in opened
  BY DEF IndexInvariant, ScanInBounds
<1>3. scan.file \in Files /\ Scanned \in Seq(Cell) /\ Len(Scanned) \in Nat
  BY <1>2, ScanSyncedType, LenProperties
<1>4. scan.read + 1 \in 1 .. Len(Scanned)
  BY <1>1, <1>3 DEF ValidEventAt
<1>5. ScannedEvent \in Cell
  BY <1>3, <1>4, ElementOfSeq DEF ScannedEvent
<1>6. ScannedEvent.size \in Nat /\ ScannedEvent.time \in Nat
  BY <1>5 DEF Cell
<1>7. /\ ScannedEvent.kind = "ev" /\ 2 < ScannedEvent.size
      /\ scan.read + ScannedEvent.size <= Len(Scanned)
  BY DEF ValidEventAt, ScannedEvent, EventSize
<1>8. RequestIdAt(Scanned, scan.read) \in Ids
  <2>1. scan.read + 2 \in 1 .. Len(Scanned)
    BY <1>1, <1>3, <1>6, <1>7
  <2>2. Scanned[scan.read + 2] \in Cell
    BY <1>3, <2>1, ElementOfSeq
  <2>3. QED
    BY <2>2 DEF RequestIdAt, Cell, Ids
<1>9. QED
  BY <1>1, <1>2, <1>3, <1>5, <1>6, <1>7, <1>8

LEMMA ScanFinishedEventStep ==
    ASSUME IndexInvariant, ScanFinishedEvent
    PROVE  IndexInvariant'
<1> DEFINE r == scan.read + ScannedEvent.size
           w == IF scan.found THEN scan.write ELSE scan.read
<1>1. /\ scan.on /\ scan.read > 0 /\ ValidEventAt(Scanned, scan.read)
      /\ scan' = [scan EXCEPT !.read = r, !.found = TRUE, !.write = w]
      /\ durable' = ScanSynced
      /\ can_be_compressed' = TRUE
      /\ UNCHANGED <<content, opened, next_append, event_count, event_locations,
                     timebased_replay>>
      /\ UNCHANGED <<current_file_index, conf, adding, faults>>
  BY DEF ScanFinishedEvent, indexVars
<1>2. /\ scan \in ScanType /\ scan.read \in Nat /\ scan.write \in Nat
      /\ scan.file < conf.files /\ scan.file \in opened
      /\ ScannedEvent.size \in Nat /\ 2 < ScannedEvent.size
      /\ r <= Len(Scanned) /\ r \in Nat /\ w \in Nat /\ r > scan.read
  BY <1>1, ScannedProperties
<1>3. w < r /\ HeaderSize <= w /\ (scan.found => w = scan.write)
  BY <1>1, <1>2 DEF IndexInvariant, ScanInBounds, HeaderSize
<1> HIDE DEF r, w
<1>4. /\ scan' \in ScanType /\ scan'.file = scan.file /\ scan'.read = r
      /\ scan'.found = TRUE /\ scan'.write = w /\ scan'.compress = scan.compress
  BY <1>1, <1>2 DEF ScanType
<1>5. FileTypes(content', durable', opened', next_append', event_count')
  BY <1>1, <1>2, ScanSyncedType, IndexAsIs DEF FileTypes
<1>6. RestOK'
  BY <1>1, <1>4, IndexAsIs DEF RestOK, ScanType
<1>7. TypeOK'
  BY <1>1, <1>5, <1>6, TypeParts, TypePartsNext DEF IndexInvariant
<1>8. IndexMatchesFiles' /\ EventsDisjoint' /\ AppendIsPastEvents'
  BY <1>1 DEF IndexInvariant, IndexMatchesFiles, EventsDisjoint,
              AppendIsPastEvents, StoredIn, RequestIdAt, End
<1>9. ScanInBounds'
  <2>1. ASSUME NEW m \in event_locations
        PROVE  \/ m.file < scan.file
               \/ /\ m.file = scan.file /\ End(m) \in Nat /\ End(m) <= r
                  /\ scan.compress => End(m) <= w
    <3>1. \/ m.file < scan.file
          \/ /\ m.file = scan.file
             /\ End(m) <= IF scan.found /\ scan.compress THEN scan.write
                          ELSE scan.read
      BY <1>1 DEF IndexInvariant, ScanInBounds
    <3>2. End(m) \in Nat
      BY IndexAsIs
    <3>3. QED
      BY <1>2, <1>3, <3>1, <3>2 DEF w
  <2>2. r <= Len(content[scan.file]) /\ r > 0
    BY <1>1, <1>2 DEF Scanned
  <2>3. QED
    BY <1>1, <1>2, <1>3, <1>4, <2>1, <2>2 DEF ScanInBounds, End
<1>10. QED
  BY <1>7, <1>8, <1>9 DEF IndexInvariant

(* A load adds the location l of the event it stands on, saved in c, and   *)
(* moves on to r.                                                          *)
LEMMA ScanExtendStep ==
    ASSUME IndexInvariant, scan.on, scan.read > 0, ValidEventAt(Scanned, scan.read),
           NEW c, NEW d, NEW n, NEW k, NEW l \in Location, NEW r \in Nat,
           FileTypes(c, d, opened, n, k),
           ReleaseFiles(c, d, opened, n, k, {scan.file}), AddLocation(l),
           l.file = scan.file,
           \A m \in event_locations :
               /\ StoredIn(c[m.file], m)
               /\ End(m) <= n[m.file]
               /\ m.file = l.file => End(m) <= l.offset,
           StoredIn(c[l.file], l), End(l) <= n[l.file],
           scan' \in ScanType, scan'.file = scan.file, scan'.read = r,
           scan'.compress = scan.compress, scan'.found = scan.found,
           0 < r, r <= Len(c[scan.file]), End(l) <= r,
           scan.found => /\ HeaderSize <= scan'.write /\ scan'.write < r
                         /\ scan.compress => End(l) <= scan'.write,
           UNCHANGED <<current_file_index, can_be_compressed, conf, adding, faults>>
    PROVE  IndexInvariant'
<1>1. /\ event_locations \subseteq Location /\ timebased_replay \subseteq Location
      /\ RestOK /\ EventsDisjoint
  BY TypeParts DEF IndexInvariant
<1>2. scan.file \in Files /\ scan.file \in opened /\ scan.file < conf.files
  BY ScannedProperties
<1>3. \A m \in event_locations :
        /\ StoredIn(c[m.file], m)
        /\ m.file \in opened /\ End(m) <= n[m.file]
        /\ m.file = l.file => End(m) <= l.offset
  BY IndexAsIs
<1>4. /\ IndexMatchesFiles' /\ EventsDisjoint' /\ AppendIsPastEvents'
      /\ event_locations' \subseteq Location
      /\ timebased_replay' \subseteq Location
      /\ \A m \in event_locations' : m \in event_locations \/ m = l
  <2>1. l.file \in opened
    BY <1>2
  <2>2. QED
    BY <1>1, <1>3, <2>1, IndexExtended
<1>5. /\ FileTypes(content', durable', opened', next_append', event_count')
      /\ content'[scan.file] = c[scan.file] /\ scan.file \in opened'
  <2>1. scan.file \in Referenced({scan.file})
    BY DEF Referenced
  <2>2. QED
    BY <1>2, <2>1, ReleaseFilesProperties
<1>6. RestOK'
  BY <1>1 DEF RestOK, ScanType
<1>7. TypeOK'
  BY <1>4, <1>5, <1>6, TypePartsNext
<1>8. ASSUME NEW m \in event_locations'
      PROVE  \/ m.file < scan.file
             \/ /\ m.file = scan.file /\ End(m) <= r
                /\ scan.found /\ scan.compress => End(m) <= scan'.write
  <2>1. CASE m = l
    BY <2>1
  <2>2. CASE m \in event_locations
    <3>1. m.file < scan.file \/ m.file = scan.file
      BY <2>2 DEF IndexInvariant, ScanInBounds
    <3>2. CASE m.file = scan.file
      <4>1. End(m) <= l.offset /\ End(m) \in Nat
        BY <2>2, <3>2, IndexAsIs
      <4>2. l.offset <= End(l) /\ l.offset \in Nat /\ End(l) \in Nat
        BY DEF End, Location
      <4>3. scan'.write \in Nat
        BY DEF ScanType
      <4>4. QED
        BY <3>2, <4>1, <4>2, <4>3
    <3>3. QED
      BY <3>1, <3>2
  <2>3. QED
    BY <1>4, <2>1, <2>2
<1>9. ScanInBounds'
  BY <1>2, <1>5, <1>8 DEF ScanInBounds, End
<1>10. QED
  BY <1>4, <1>7, <1>9 DEF IndexInvariant

LEMMA ScannedLocationProperties ==
    ASSUME IndexInvariant, scan.on, scan.read > 0, ValidEventAt(Scanned, scan.read),
           ScannedEvent.status \in Active, NEW offset \in Nat
    PROVE  /\ ScannedLocation(offset) \in Location
           /\ ScannedLocation(offset).file = scan.file
           /\ ScannedLocation(offset).offset = offset
           /\ ScannedLocation(offset).size = ScannedEvent.size
           /\ ScannedLocation(offset).status = ScannedEvent.status
           /\ ScannedLocation(offset).time = ScannedEvent.time
           /\ ScannedLocation(offset).id = RequestIdAt(Scanned, scan.read)
           /\ End(ScannedLocation(offset)) = offset + ScannedEvent.size
  BY ScannedProperties DEF ScannedLocation, Location, End

LEMMA ScanPendingEventStep ==
    ASSUME IndexInvariant, ScanPendingEvent
    PROVE  IndexInvariant'
<1> DEFINE r == scan.read + ScannedEvent.size
           l == ScannedLocation(scan.read)
           n == [next_append EXCEPT ![scan.file] = r]
           k == IncreaseEventCount(scan.file)
<1>1. /\ scan.on /\ scan.read > 0 /\ ValidEventAt(Scanned, scan.read)
      /\ ScannedEvent.status \in Active /\ ~(scan.found /\ scan.compress)
      /\ AddLocation(l)
      /\ ReleaseFiles(content, ScanSynced, opened, n, k, {scan.file})
      /\ scan' = [scan EXCEPT !.read = r]
      /\ UNCHANGED <<current_file_index, can_be_compressed, conf, adding, faults>>
  BY DEF ScanPendingEvent
<1>2. /\ scan \in ScanType /\ scan.read \in Nat /\ scan.write \in Nat
      /\ scan.file \in Files /\ scan.file < conf.files
      /\ ScannedEvent.size \in Nat /\ 2 < ScannedEvent.size
      /\ ScannedEvent.kind = "ev" /\ r <= Len(Scanned) /\ r \in Nat
  BY <1>1, ScannedProperties
<1>3. /\ l \in Location /\ l.file = scan.file /\ l.offset = scan.read
      /\ l.size = ScannedEvent.size /\ l.status = ScannedEvent.status
      /\ l.time = ScannedEvent.time /\ l.id = RequestIdAt(Scanned, scan.read)
      /\ End(l) = r
  BY <1>1, <1>2, ScannedLocationProperties
<1>4. StoredIn(content[l.file], l)
  BY <1>1, <1>2, <1>3 DEF StoredIn, Scanned, ScannedEvent, HeaderSize, EventSize
<1>5. FileTypes(content, ScanSynced, opened, n, k)
  BY SMTT(30), <1>1, <1>2, ScanSyncedType, IndexAsIs DEF FileTypes, IncreaseEventCount
<1>6. \A m \in event_locations :
        /\ StoredIn(content[m.file], m)
        /\ End(m) <= n[m.file]
        /\ m.file = l.file => End(m) <= l.offset
  <2> SUFFICES ASSUME NEW m \in event_locations
               PROVE  /\ End(m) <= n[m.file]
                      /\ m.file = l.file => End(m) <= l.offset
    BY IndexAsIs
  <2>1. /\ m.file \in Files /\ End(m) \in Nat /\ End(m) <= next_append[m.file]
        /\ m.file < scan.file \/ (m.file = scan.file /\ End(m) <= scan.read)
    BY <1>1, IndexAsIs DEF IndexInvariant, ScanInBounds
  <2>2. CASE m.file = scan.file
    BY <1>2, <1>3, <2>1, <2>2, IndexAsIs DEF FileTypes, Files
  <2>3. CASE m.file # scan.file
    BY <1>3, <2>1, <2>3, IndexAsIs DEF FileTypes
  <2>4. QED
    BY <2>2, <2>3
<1>7. End(l) <= n[l.file]
  BY <1>2, <1>3, IndexAsIs DEF FileTypes
<1> HIDE DEF r, l, n, k
<1>8. /\ scan' \in ScanType /\ scan'.file = scan.file /\ scan'.read = r
      /\ scan'.compress = scan.compress /\ scan'.found = scan.found
      /\ scan'.write = scan.write
  BY <1>1, <1>2 DEF ScanType
<1>9. /\ 0 < r /\ r <= Len(content[scan.file]) /\ End(l) <= r
      /\ scan.found => /\ HeaderSize <= scan'.write /\ scan'.write < r
                       /\ scan.compress => End(l) <= scan'.write
  BY <1>1, <1>2, <1>3, <1>8 DEF r, Scanned, IndexInvariant, ScanInBounds
<1>10. QED
  BY <1>1, <1>2, <1>3, <1>4, <1>5, <1>6, <1>7, <1>8, <1>9, ScanExtendStep

(* Copying up any number of the cells of the event a load stands on keeps  *)
(* the events before the place of the copy; copying all of them stores the *)
(* event at its new place.                                                 *)
LEMMA CompressedProperties ==
    ASSUME IndexInvariant, scan.on, scan.read > 0, ValidEventAt(Scanned, scan.read),
           ScannedEvent.status \in Active, scan.found, scan.compress,
           NEW n \in 0 .. ScannedEvent.size
    PROVE  /\ Compressed(n) \in Seq(Cell)
           /\ Len(Scanned) <= Len(Compressed(n))
           /\ \A m \in event_locations :
                m.file = scan.file => StoredIn(Compressed(n), m)
           /\ n = ScannedEvent.size =>
                StoredIn(Compressed(n), ScannedLocation(scan.write))
<1> DEFINE id == RequestIdAt(Scanned, scan.read)
           cells == [i \in 1 .. ScannedEvent.size |->
                        IF i = 2 THEN Plain("id", id, 0) ELSE Scanned[scan.read + i]]
           o == scan.write
           s == Scanned
           w == Compressed(n)
           l == ScannedLocation(scan.write)
<1>1. /\ scan.read \in Nat /\ o \in Nat
      /\ scan.file \in Files /\ s \in Seq(Cell) /\ Len(s) \in Nat
      /\ ScannedEvent.kind = "ev"
      /\ ScannedEvent.size \in Nat /\ 2 < ScannedEvent.size
      /\ scan.read + ScannedEvent.size <= Len(s) /\ id \in Ids
  BY ScannedProperties
<1>2. n \in Nat /\ n <= ScannedEvent.size /\ 1 <= o /\ o < scan.read
  BY <1>1 DEF IndexInvariant, ScanInBounds, HeaderSize
<1>3. w = WriteCells(s, o, cells, n)
  BY DEF Compressed
<1>4. \A i \in 1 .. n : cells[i] \in Cell
  <2> SUFFICES ASSUME NEW i \in 1 .. n
               PROVE  cells[i] \in Cell
    OBVIOUS
  <2>1. Plain("id", id, 0) \in Cell
    BY <1>1 DEF Plain, Cell, Active
  <2>2. scan.read + i \in 1 .. Len(s) /\ i \in 1 .. ScannedEvent.size
    BY <1>1, <1>2
  <2>3. s[scan.read + i] \in Cell
    BY <1>1, <2>2, ElementOfSeq
  <2>4. QED
    BY <2>1, <2>2, <2>3
<1>5. /\ cells[1] = s[scan.read + 1] /\ cells[2].kind = "id" /\ cells[2].id = id
  BY <1>1 DEF Plain
<1> HIDE DEF cells, o, s, w, id
<1>6. /\ w \in Seq(Cell)
      /\ Len(w) = Larger(Len(s), o + n)
      /\ \A i \in 1 .. n : w[o + i] = cells[i]
      /\ \A i \in 1 .. Len(s) : i <= o \/ o + n < i => w[i] = s[i]
  BY <1>1, <1>2, <1>3, <1>4, WriteCellsProperties
<1>7. Len(w) \in Nat /\ Len(s) <= Len(w) /\ o + n <= Len(w)
  BY <1>1, <1>2, <1>6 DEF Larger
<1>8. ASSUME NEW m \in event_locations, m.file = scan.file
      PROVE  StoredIn(w, m)
  <2>1. /\ m \in Location /\ m.offset \in Nat /\ m.size \in Nat /\ StoredIn(s, m)
        /\ m.offset + m.size <= o
    <3>1. m \in Location /\ StoredIn(s, m) /\ m.file \in Nat
      BY <1>1, <1>8, IndexAsIs DEF s, Scanned, Files
    <3>2. End(m) <= o
      BY <1>8, <3>1 DEF IndexInvariant, ScanInBounds, o
    <3>3. QED
      BY <3>1, <3>2 DEF End, Location
  <2>2. 2 <= m.size /\ m.offset + m.size <= Len(s)
    BY <2>1 DEF StoredIn, EventSize, End
  <2>3. /\ m.offset + 1 \in 1 .. Len(s) /\ m.offset + 1 <= o
        /\ m.offset + 2 \in 1 .. Len(s) /\ m.offset + 2 <= o
    BY SMTT(30), <1>1, <2>1, <2>2
  <2>4. w[m.offset + 1] = s[m.offset + 1] /\ w[m.offset + 2] = s[m.offset + 2]
    BY <1>6, <2>3
  <2>5. QED
    BY <1>1, <1>6, <1>7, <2>1, <2>4, StoredInFrame
<1>9. ASSUME n = ScannedEvent.size
      PROVE  StoredIn(w, l)
  <2>1. /\ l.offset = o /\ l.size = ScannedEvent.size
        /\ l.status = ScannedEvent.status /\ l.time = ScannedEvent.time
        /\ l.id = id /\ End(l) = o + ScannedEvent.size
    BY <1>1, ScannedLocationProperties DEF o, id
  <2>2. w[o + 1] = cells[1] /\ w[o + 2] = cells[2]
    <3>1. 1 \in 1 .. n /\ 2 \in 1 .. n
      BY <1>1, <1>2, <1>9
    <3>2. \A i \in 1 .. n : w[o + i] = cells[i]
      BY <1>6
    <3>3. QED
      BY <3>1, <3>2, Zenon
  <2>3. ScannedEvent = s[scan.read + 1] /\ ScannedEvent.size = ScannedEvent.size
    BY DEF ScannedEvent, s
  <2> HIDE DEF l
  <2>4. RequestIdAt(w, l.offset) = l.id
    BY <1>1, <1>2, <1>5, <1>7, <1>9, <2>1, <2>2 DEF RequestIdAt
  <2>5. QED
    BY <1>1, <1>2, <1>5, <1>7, <1>9, <2>1, <2>2, <2>3, <2>4
       DEF StoredIn, HeaderSize, EventSize
<1>10. QED
  BY <1>6, <1>7, <1>8, <1>9 DEF w, s

LEMMA CompressEventStep ==
    ASSUME IndexInvariant, CompressEvent
    PROVE  IndexInvariant'
<1> DEFINE z == ScannedEvent.size
           r == scan.read + z
           v == scan.write + z
           l == ScannedLocation(scan.write)
           c == [content EXCEPT ![scan.file] = Compressed(z)]
           d == [durable EXCEPT ![scan.file] = Compressed(z - 1)]
           n == [next_append EXCEPT ![scan.file] = v]
           k == IncreaseEventCount(scan.file)
<1>1. /\ scan.on /\ scan.read > 0 /\ ValidEventAt(Scanned, scan.read)
      /\ ScannedEvent.status \in Active /\ scan.found /\ scan.compress
      /\ AddLocation(l)
      /\ ReleaseFiles(c, d, opened, n, k, {scan.file})
      /\ scan' = [scan EXCEPT !.read = r, !.write = v]
      /\ UNCHANGED <<current_file_index, can_be_compressed, conf, adding, faults>>
  BY DEF CompressEvent
<1>2. /\ scan \in ScanType /\ scan.read \in Nat /\ scan.write \in Nat
      /\ scan.file \in Files /\ scan.file < conf.files
      /\ z \in Nat /\ 2 < z /\ r <= Len(Scanned) /\ r \in Nat
      /\ v \in Nat /\ Len(Scanned) \in Nat
  BY <1>1, ScannedProperties
<1>3. l \in Location /\ l.file = scan.file /\ l.offset = scan.write /\ End(l) = v
  BY <1>1, <1>2, ScannedLocationProperties
<1>4. HeaderSize <= scan.write /\ scan.write < scan.read
  BY <1>1 DEF IndexInvariant, ScanInBounds
<1>5. z \in 0 .. z /\ z - 1 \in 0 .. z
  BY <1>2
<1>6. /\ Compressed(z) \in Seq(Cell) /\ Len(Scanned) <= Len(Compressed(z))
      /\ \A m \in event_locations : m.file = scan.file => StoredIn(Compressed(z), m)
      /\ StoredIn(Compressed(z), l)
  BY <1>1, <1>5, CompressedProperties
<1>7. Compressed(z - 1) \in Seq(Cell)
  BY <1>1, <1>5, CompressedProperties
<1>8. FileTypes(c, d, opened, n, k)
  <2>1. FileTypes(content, durable, opened, next_append, event_count)
    BY IndexAsIs
  <2>2. c \in [Files -> Seq(Cell)] /\ d \in [Files -> Seq(Cell)]
    BY <1>2, <1>6, <1>7, <2>1 DEF FileTypes
  <2>3. n \in [Files -> Nat] /\ k \in [Files -> Int]
    BY <1>2, <2>1 DEF FileTypes, IncreaseEventCount
  <2>4. QED
    BY <2>1, <2>2, <2>3 DEF FileTypes
<1>9. \A m \in event_locations :
        /\ StoredIn(c[m.file], m)
        /\ End(m) <= n[m.file]
        /\ m.file = l.file => End(m) <= l.offset
  <2> SUFFICES ASSUME NEW m \in event_locations
               PROVE  /\ StoredIn(c[m.file], m)
                      /\ End(m) <= n[m.file]
                      /\ m.file = l.file => End(m) <= l.offset
    OBVIOUS
  <2>1. /\ m.file \in Files /\ End(m) \in Nat /\ End(m) <= next_append[m.file]
        /\ StoredIn(content[m.file], m)
        /\ m.file < scan.file \/ (m.file = scan.file /\ End(m) <= scan.write)
    BY <1>1, IndexAsIs DEF IndexInvariant, ScanInBounds
  <2>2. CASE m.file = scan.file
    <3>1. End(m) <= scan.write
      BY <2>1, <2>2 DEF Files
    <3>2. QED
      BY <1>2, <1>3, <1>6, <2>1, <2>2, <3>1, IndexAsIs DEF FileTypes
  <2>3. CASE m.file # scan.file
    BY <1>3, <2>1, <2>3, IndexAsIs DEF FileTypes
  <2>4. QED
    BY <2>2, <2>3
<1>10. StoredIn(c[l.file], l) /\ End(l) <= n[l.file]
  BY <1>2, <1>3, <1>6, IndexAsIs DEF FileTypes
<1>11. c[scan.file] = Compressed(z)
  BY <1>2, IndexAsIs DEF FileTypes
<1> HIDE DEF r, v, l, c, d, n, k, z
<1>12. /\ scan' \in ScanType /\ scan'.file = scan.file /\ scan'.read = r
       /\ scan'.compress = scan.compress /\ scan'.found = scan.found
       /\ scan'.write = v
  BY <1>1, <1>2 DEF ScanType
<1>13. /\ 0 < r /\ r <= Len(c[scan.file]) /\ End(l) <= r
  <2>1. Len(Compressed(z)) \in Nat
    BY <1>6, LenProperties
  <2>2. QED
    BY <1>1, <1>2, <1>3, <1>4, <1>6, <1>11, <2>1 DEF r, v
<1>14. scan.found => /\ HeaderSize <= scan'.write /\ scan'.write < r
                     /\ scan.compress => End(l) <= scan'.write
  BY <1>2, <1>3, <1>4, <1>12 DEF r, v, HeaderSize
<1>15. QED
  BY <1>1, <1>2, <1>3, <1>8, <1>9, <1>10, <1>12, <1>13, <1>14, ScanExtendStep

-----------------------------------------------------------------------------
(* The theorems.                                                           *)

LEMMA CutShortType ==
    ASSUME RestOK, CutShort
    PROVE  faults' \in 0 .. MaxFaults
  BY JournalAssumption DEF RestOK, CutShort

LEMMA SetOptionStep ==
    ASSUME IndexInvariant, NEW c \in Configurations, SetOption(c)
    PROVE  IndexInvariant'
<1>1. /\ ~scan.on /\ conf' = c /\ UNCHANGED fileVars
      /\ UNCHANGED <<event_locations, timebased_replay, current_file_index,
                     can_be_compressed, scan, adding, faults>>
  BY DEF SetOption, SaveConfiguration, Ready, indexVars
<1>2. RestOK' /\ ScanInBounds'
  BY <1>1, IndexAsIs DEF RestOK, ScanInBounds
<1>3. QED
  BY <1>1, <1>2, TypeParts, TypePartsNext
     DEF IndexInvariant, IndexMatchesFiles, EventsDisjoint, AppendIsPastEvents,
         StoredIn, RequestIdAt, End, fileVars

LEMMA InitInvariant == Init => IndexInvariant
<1> SUFFICES ASSUME Init PROVE IndexInvariant
  OBVIOUS
<1>1. conf.files \in 1 .. FileLimit /\ 0 \in 0 .. FileLimit
  <2>1. conf \in Configurations
    BY DEF Init
  <2>2. conf.files \in FileCounts
    BY <2>1 DEF Configurations
  <2>3. FileLimit \in Nat /\ FileCounts \subseteq 1 .. FileLimit
    BY JournalAssumption
  <2>4. conf.files \in 1 .. FileLimit
    BY <2>2, <2>3, Zenon
  <2>5. 0 \in 0 .. FileLimit
    BY <2>3
  <2>6. QED
    BY <2>4, <2>5
<1>2. 0 \in Files
  BY <1>1, JournalAssumption DEF Files
<1>3. scan \in ScanType
  BY <1>1 DEF Init, StartScan, ScanState, ScanType
<1>4. RestOK
  <2>1. NoRequest \in [id : Ids, data : Nat, time : Nat]
    BY DEF NoRequest, Ids
  <2>2. 0 \in 0 .. MaxFaults
    BY JournalAssumption
  <2>3. QED
    BY <1>2, <1>3, <2>1, <2>2 DEF Init, RestOK, ScanType
<1>5. FileTypes(content, durable, opened, next_append, event_count)
  <2>1. << >> \in Seq(Cell)
    BY EmptySeq
  <2>2. QED
    BY <2>1 DEF Init, FileTypes
<1>6. TypeOK
  BY <1>4, <1>5, TypeParts DEF Init
<1>7. /\ IndexMatchesFiles /\ EventsDisjoint /\ AppendIsPastEvents
  BY DEF Init, IndexMatchesFiles, EventsDisjoint, AppendIsPastEvents
<1>8. ScanInBounds
  BY DEF Init, ScanInBounds, StartScan, ScanState
<1>9. QED
  BY <1>6, <1>7, <1>8 DEF IndexInvariant

LEMMA AddStep ==
    ASSUME IndexInvariant, Add
    PROVE  IndexInvariant'
<1>1. PICK id \in RequestIds, d \in DataSizes, t \in InputTimes, time \in 1 .. MaxTime :
         \/ AddEvent(id, d, t, time)
         \/ AddEventFails(id, d, t, time)
         \/ CrashInAddEvent(id, d, t, time)
  BY DEF Add
<1>2. /\ id \in Ids /\ d \in Nat /\ time \in Nat /\ RestOK
      /\ TypeOK /\ IndexMatchesFiles /\ AppendIsPastEvents
  BY IndexAsIs, JournalAssumption DEF Ids, IndexInvariant
<1>3. CASE AddEvent(id, d, t, time)
  <2>1. ~scan.on /\ UNCHANGED faults
    BY <1>3 DEF AddEvent, Ready
  <2>2. CASE \E f \in Files : WriteNewEvent(f, id, d, time)
    BY <1>2, <2>1, <2>2, WriteNewEventStep
  <2>3. CASE CompressFor(id, d, time)
    BY <1>2, <2>1, <2>3, CompressForStep
  <2>4. CASE Refuse
    BY <2>1, <2>4, RefuseStep
  <2>5. QED
    BY <1>3, <2>2, <2>3, <2>4 DEF AddEvent
<1>4. CASE AddEventFails(id, d, t, time)
  <2>1. ~scan.on /\ CutShort
    BY <1>4 DEF AddEventFails, Ready
  <2>2. PICK f \in Files, n \in {0} \cup 2 .. (d + 1) :
           WriteNewEventFails(f, id, d, time, n)
    BY <1>4 DEF AddEventFails
  <2>3. n \in 0 .. EventSize(d)
    BY <1>2 DEF EventSize
  <2>4. faults' \in 0 .. MaxFaults
    BY <1>2, <2>1, CutShortType
  <2>5. QED
    BY <1>2, <2>1, <2>2, <2>3, <2>4, WriteNewEventFailsStep
<1>5. CASE CrashInAddEvent(id, d, t, time)
  <2>1. PICK f \in Files, n \in 0 .. (d + 1) :
           Boot([durable EXCEPT ![f] = Appended(f, id, d, time, n)])
    BY <1>5 DEF CrashInAddEvent
  <2>2. n \in 0 .. EventSize(d)
    BY <1>2 DEF EventSize
  <2>3. Appended(f, id, d, time, n) \in Seq(Cell)
    BY <1>2, <2>2, AppendedProperties
  <2>4. [durable EXCEPT ![f] = Appended(f, id, d, time, n)] \in [Files -> Seq(Cell)]
    BY <2>3, IndexAsIs DEF FileTypes
  <2>5. faults' \in 0 .. MaxFaults
    BY <1>2, <1>5, CutShortType DEF CrashInAddEvent
  <2>6. QED
    BY <2>1, <2>4, <2>5, BootStep
<1>6. QED
  BY <1>1, <1>3, <1>4, <1>5

LEMMA AddEventAgainStep ==
    ASSUME IndexInvariant, AddEventAgain
    PROVE  IndexInvariant'
<1>1. adding.id \in Ids /\ adding.data \in Nat /\ adding.time \in Nat
  BY IndexAsIs DEF RestOK
<1>2. ~scan.on /\ UNCHANGED faults
  BY DEF AddEventAgain
<1>3. CASE \E f \in Files : WriteNewEvent(f, adding.id, adding.data, adding.time)
  BY <1>1, <1>2, <1>3, WriteNewEventStep
<1>4. CASE Refuse
  BY <1>2, <1>4, RefuseStep
<1>5. QED
  BY <1>3, <1>4 DEF AddEventAgain

(* The second attempt is cut short, as the first may be. *)
LEMMA AddEventAgainCutStep ==
    ASSUME IndexInvariant, AddEventAgainFails \/ CrashInAddEventAgain
    PROVE  IndexInvariant'
<1> DEFINE id == adding.id
<1> DEFINE d == adding.data
<1> DEFINE time == adding.time
<1>1. /\ id \in Ids /\ d \in Nat /\ time \in Nat /\ RestOK
      /\ TypeOK /\ IndexMatchesFiles /\ AppendIsPastEvents
  BY IndexAsIs DEF IndexInvariant, RestOK
<1>2. ~scan.on /\ CutShort
  BY DEF AddEventAgainFails, CrashInAddEventAgain
<1>3. faults' \in 0 .. MaxFaults
  BY <1>1, <1>2, CutShortType
<1>4. CASE AddEventAgainFails
  <2>1. PICK f \in Files, n \in {0} \cup 2 .. (d + 1) :
           WriteNewEventFails(f, id, d, time, n)
    BY <1>4 DEF AddEventAgainFails
  <2>2. n \in 0 .. EventSize(d)
    BY <1>1 DEF EventSize
  <2> HIDE DEF id, d, time
  <2>3. QED
    BY <1>1, <1>2, <1>3, <2>1, <2>2, WriteNewEventFailsStep
<1>5. CASE CrashInAddEventAgain
  <2>1. PICK f \in Files, n \in 0 .. (d + 1) :
           Boot([durable EXCEPT ![f] = Appended(f, id, d, time, n)])
    BY <1>5 DEF CrashInAddEventAgain
  <2>2. n \in 0 .. EventSize(d)
    BY <1>1 DEF EventSize
  <2> HIDE DEF id, d, time
  <2>3. Appended(f, id, d, time, n) \in Seq(Cell)
    BY <1>1, <2>2, AppendedProperties
  <2>4. [durable EXCEPT ![f] = Appended(f, id, d, time, n)] \in [Files -> Seq(Cell)]
    BY <2>3, IndexAsIs DEF FileTypes
  <2>5. QED
    BY <1>3, <2>1, <2>4, BootStep
<1>6. QED
  BY <1>4, <1>5

LEMMA RestartStep ==
    ASSUME IndexInvariant, Reopen \/ Crash \/ CrashInCompress
    PROVE  IndexInvariant'
<1>1. /\ FileTypes(content, durable, opened, next_append, event_count)
      /\ RestOK /\ faults \in 0 .. MaxFaults
  BY IndexAsIs DEF RestOK
<1>2. CASE Reopen
  <2> DEFINE disk == [f \in Files |->
                  IF f \in opened THEN Truncate(content[f], next_append[f])
                  ELSE content[f]]
  <2>1. \A f \in Files : Truncate(content[f], next_append[f]) \in Seq(Cell)
    BY <1>1, TruncateType DEF FileTypes
  <2>2. disk \in [Files -> Seq(Cell)]
    BY <1>1, <2>1 DEF FileTypes
  <2>3. Boot(disk) /\ faults' \in 0 .. MaxFaults
    BY <1>1, <1>2 DEF Reopen
  <2>4. QED
    BY <2>2, <2>3, BootStep
<1>3. CASE Crash
  <2>1. Boot(durable) /\ faults' \in 0 .. MaxFaults /\ durable \in [Files -> Seq(Cell)]
    BY <1>1, <1>3 DEF Crash, FileTypes
  <2>2. QED
    BY <2>1, BootStep
<1>4. CASE CrashInCompress
  <2>1. PICK n \in 0 .. (ScannedEvent.size - 1) :
           Boot([durable EXCEPT ![scan.file] = Compressed(n)])
    BY <1>4 DEF CrashInCompress
  <2>2. /\ scan.on /\ scan.read > 0 /\ ValidEventAt(Scanned, scan.read)
        /\ ScannedEvent.status \in Active /\ scan.found /\ scan.compress
    BY <1>4 DEF CrashInCompress
  <2>3. n \in 0 .. ScannedEvent.size
    BY <2>2, ScannedProperties
  <2>4. Compressed(n) \in Seq(Cell)
    BY <2>2, <2>3, CompressedProperties
  <2>5. [durable EXCEPT ![scan.file] = Compressed(n)] \in [Files -> Seq(Cell)]
    BY <1>1, <2>4 DEF FileTypes
  <2>6. faults' \in 0 .. MaxFaults
    BY <1>1, <1>4, CutShortType DEF CrashInCompress
  <2>7. QED
    BY <2>1, <2>5, <2>6, BootStep
<1>5. QED
  BY <1>2, <1>3, <1>4

(* One step of the journal keeps the inductive invariant. *)
LEMMA NextInvariant == IndexInvariant /\ [Next]_vars => IndexInvariant'
<1> SUFFICES ASSUME IndexInvariant, [Next]_vars PROVE IndexInvariant'
  OBVIOUS
<1>1. CASE Add
  BY <1>1, AddStep
<1>2. CASE Update
  BY <1>2, AdvanceEventStep, FinishEventStep DEF Update
<1>3. CASE Configure
  BY <1>3, SetMaximumNumberOfFilesStep, SetOptionStep DEF Configure
<1>4. CASE Scan
  BY <1>4, ScanSkipFileStep, ScanOpenFileStep, ScanCloseFileStep,
     ScanFinishedEventStep, ScanPendingEventStep, CompressEventStep, ScanEndStep
     DEF Scan
<1>5. CASE AddEventAgain
  BY <1>5, AddEventAgainStep
<1>6. CASE Reopen \/ Crash \/ CrashInCompress
  BY <1>6, RestartStep
<1>7. CASE AddEventAgainFails \/ CrashInAddEventAgain
  BY <1>7, AddEventAgainCutStep
<1>8. CASE UNCHANGED vars
  BY <1>8, TypeParts, TypePartsNext
     DEF IndexInvariant, IndexMatchesFiles, EventsDisjoint, AppendIsPastEvents,
         ScanInBounds, RestOK, StoredIn, RequestIdAt, End, vars, fileVars, indexVars
<1>9. QED
  BY <1>1, <1>2, <1>3, <1>4, <1>5, <1>6, <1>7, <1>8 DEF Next, Continue

(* The inductive invariant holds in every reachable state of the journal.  *)
THEOREM IndexInvariantHolds == Spec => []IndexInvariant
<1>1. QED
  BY InitInvariant, NextInvariant, PTL DEF Spec

(* No operation, crash or restart of the journal takes a variable out of   *)
(* its type: no offset of a location leaves the naturals, no file number   *)
(* the files, whatever bytes load_event_locations() reads.                 *)
THEOREM TypeCorrect == Spec => []TypeOK
<1>1. IndexInvariant => TypeOK
  BY DEF IndexInvariant
<1>2. QED
  BY <1>1, IndexInvariantHolds, PTL

(* Every location of the index points at its event, for any number of      *)
(* files, events, identifiers and sizes, and any torn write.               *)
THEOREM IndexCorrect == Spec => []IndexMatchesFiles
<1>1. IndexInvariant => IndexMatchesFiles
  BY DEF IndexInvariant
<1>2. QED
  BY <1>1, IndexInvariantHolds, PTL

(* Pending events never share bytes: update_event_status() of one cannot   *)
(* damage another.                                                         *)
THEOREM EventsStayDisjoint == Spec => []EventsDisjoint
<1>1. IndexInvariant => EventsDisjoint
  BY DEF IndexInvariant
<1>2. QED
  BY <1>1, IndexInvariantHolds, PTL

(* add_event() always appends past the pending events of the file, also    *)
(* after a compression and after a write which was cut short.              *)
THEOREM AppendNeverOverwrites == Spec => []AppendIsPastEvents
<1>1. IndexInvariant => AppendIsPastEvents
  BY DEF IndexInvariant
<1>2. QED
  BY <1>1, IndexInvariantHolds, PTL

(* load_event_locations() never reads outside of its file, and never moves *)
(* an event over one it has already put in the index or not read yet.      *)
THEOREM ScanStaysInBounds == Spec => []ScanInBounds
<1>1. IndexInvariant => ScanInBounds
  BY DEF IndexInvariant
<1>2. QED
  BY <1>1, IndexInvariantHolds, PTL

=============================================================================
