------------------------------ MODULE Journal ------------------------------
(***************************************************************************)
(* The event journal of prinbee (prinbee/journal/journal.cpp): a bounded   *)
(* set of files in which events are appended, whose status byte is         *)
(* rewritten in place, and an index of the pending events kept in memory.  *)
(* The index is rebuilt from the files when the journal is opened and when *)
(* the files are compressed.                                               *)
(*                                                                         *)
(* A file is a sequence of cells.  The first cell is the "EVTJ" header; an *)
(* event with d cells of inline attachments is its "ev" header, its        *)
(* request identifier and d data cells.  Offsets are counted from zero, as *)
(* in the code, so the cell at offset o is element o + 1 of the sequence.  *)
(*                                                                         *)
(* An operator Name_Fault before Name is Name with a mistake: replacing    *)
(* Name by it must make TLC find a violation (README, section Mutants).    *)
(***************************************************************************)
EXTENDS Integers, Sequences, FiniteSets

CONSTANTS
    RequestIds,     \* the request identifiers clients use
    GarbageId,      \* what a request identifier read from foreign bytes gives
    InputTimes,     \* the times clients pass to add_event()
    MaxTime,        \* bound: no event is given a later time
    DataSizes,      \* the inline sizes of events; 0: no or only external attachments
    FileLimit,      \* bound: the files are 0 .. FileLimit - 1
    FileCounts, FileSizes, EventLimits, SyncModes, Managements, CompressModes,
                    \* the values the options may take
    ClientStatuses, \* the statuses clients report for their events
    MaxFaults       \* bound: how many writes of events are cut short

ASSUME JournalAssumption ==
    /\ GarbageId \notin RequestIds
    /\ MaxTime \in Nat /\ InputTimes \subseteq 1 .. MaxTime
    /\ DataSizes \subseteq Nat
    /\ FileLimit \in Nat /\ FileCounts \subseteq 1 .. FileLimit
    /\ FileSizes \subseteq Nat /\ EventLimits \subseteq Nat \ {0}
    /\ SyncModes \subseteq {"none", "flush", "full"}
    /\ Managements \subseteq {"keep", "truncate", "delete"}
    /\ CompressModes \subseteq BOOLEAN
    /\ ClientStatuses \subseteq {"FORWARDED", "ACKNOWLEDGED", "COMPLETED", "FAILED"}
    /\ MaxFaults \in Nat

VARIABLES
    content,            \* the files as the process sees them through its streams
    durable,            \* the files as the kernel has them: without buffered bytes
    opened,             \* the files which have a live journal::file object
    next_append,        \* file::f_next_append, 0 in a new object
    event_count,        \* file::f_event_count
    event_locations,    \* f_event_locations, at most one location per request id
    timebased_replay,   \* f_timebased_replay, at most one location per time
    current_file_index, \* f_current_file_index
    can_be_compressed,  \* f_can_be_compressed
    conf,               \* the options, also saved in journal.conf
    scan,               \* the progress of load_event_locations()
    adding,             \* the add_event() call which waits for a compression
    faults              \* the number of writes cut short so far

fileVars == <<content, durable, opened, next_append, event_count>>
indexVars == <<event_locations, timebased_replay>>
vars == <<fileVars, indexVars, current_file_index, can_be_compressed, conf,
          scan, adding, faults>>

Files == 0 .. (FileLimit - 1)
Ids == RequestIds \cup {GarbageId}
Active == {"READY", "FORWARDED", "ACKNOWLEDGED"}
Final == {"COMPLETED", "FAILED"}

-----------------------------------------------------------------------------
(* Cells and files.                                                        *)

Cell == [kind : {"EVTJ", "ev", "id", "data", "zero"}, id : Ids,
         status : Active \cup Final, size : Nat, time : Nat]

Plain(kind, id, time) ==
    [kind |-> kind, id |-> id, status |-> "READY", size |-> 0, time |-> time]

JournalHeader == Plain("EVTJ", GarbageId, 0)
ZeroCell == Plain("zero", GarbageId, 0)     \* also the "\0\0" end marker
HeaderSize == 1
EventSize(d) == d + 2

(* The bytes write_new_event() saves for one event. *)
EventCells(id, d, time) ==
    [i \in 1 .. EventSize(d) |->
        IF i = 1 THEN [kind |-> "ev", id |-> GarbageId, status |-> "READY",
                       size |-> EventSize(d), time |-> time]
        ELSE IF i = 2 THEN Plain("id", id, 0) ELSE Plain("data", id, time)]

Larger(a, b) == IF a > b THEN a ELSE b

(* The content s after n of the cells were written at offset o. *)
WriteCells(s, o, cells, n) ==
    [i \in 1 .. Larger(Len(s), o + n) |->
        IF o < i /\ i <= o + n THEN cells[i - o]
        ELSE IF i <= Len(s) THEN s[i] ELSE ZeroCell]

Resize(s, n) == [i \in 1 .. n |-> IF i <= Len(s) THEN s[i] ELSE ZeroCell]

Truncate_OffByOne(s, append) ==
    IF conf.management = "keep"
    THEN IF append > 0 THEN WriteCells(s, append - 1, <<ZeroCell>>, 1) ELSE s
    ELSE Resize(s, Larger(HeaderSize, append) - 1)

(* What destroying a file object does to the file: journal::file::truncate(). *)
Truncate(s, append) ==
    LET size == Larger(HeaderSize, append) IN
    IF conf.management = "keep"
    THEN IF append > 0 /\ Len(s) > append
         THEN WriteCells(s, append, <<ZeroCell>>, 1) ELSE s
    ELSE IF conf.management = "delete" /\ size = HeaderSize THEN << >>
    ELSE Resize(s, size)

ValidEventAt_LastMissed(s, o) ==
    /\ o < Len(s)
    /\ s[o + 1].kind = "ev"
    /\ s[o + 1].size > EventSize(0)
    /\ o + s[o + 1].size < Len(s)

ValidEventAt_EndUnchecked(s, o) ==
    /\ o < Len(s)
    /\ s[o + 1].kind = "ev"
    /\ s[o + 1].size > EventSize(0)

(* load_event_locations() accepts the bytes at offset o as an event. *)
ValidEventAt(s, o) ==
    /\ o < Len(s)
    /\ s[o + 1].kind = "ev"
    /\ s[o + 1].size > EventSize(0)
    /\ o + s[o + 1].size <= Len(s)

RequestIdAt(s, o) ==
    IF o + 1 < Len(s) /\ s[o + 2].kind = "id" THEN s[o + 2].id ELSE GarbageId

-----------------------------------------------------------------------------
(* The index and the file objects.                                         *)

Location == [id : Ids, file : Files, offset : Nat, size : Nat,
             status : Active, time : Nat]

Indexed == {l.id : l \in event_locations}
UsedTimes == {l.time : l \in timebased_replay}

AddLocation_ByIdOnly(l) ==
    /\ event_locations' = {x \in event_locations : x.id # l.id} \cup {l}
    /\ UNCHANGED timebased_replay

(* f_event_locations[l->f_request_id] = l and f_timebased_replay[time] = l. *)
AddLocation(l) ==
    /\ event_locations' = {x \in event_locations : x.id # l.id} \cup {l}
    /\ timebased_replay' = {x \in timebased_replay : x.time # l.time} \cup {l}

(* A file object lives as long as a location, or a local pointer of the    *)
(* running function (held), refers to it.  The values of the file          *)
(* variables after a function are those it computed, c, d, o, n and k,     *)
(* with the objects nobody refers to any more destroyed.                   *)
ReleaseFiles(c, d, o, n, k, held) ==
    LET used == {l.file : l \in event_locations' \cup timebased_replay'}
        gone == o \ (used \cup held)
    IN  /\ opened' = o \ gone
        /\ content' = [f \in Files |->
               IF f \in gone THEN Truncate(c[f], n[f]) ELSE c[f]]
        /\ durable' = [f \in Files |->
               IF f \in gone THEN Truncate(c[f], n[f]) ELSE d[f]]
        /\ next_append' = [f \in Files |-> IF f \in gone THEN 0 ELSE n[f]]
        /\ event_count' = [f \in Files |-> IF f \in gone THEN 0 ELSE k[f]]

IncreaseEventCount_Forgotten(f) == event_count
DecreaseEventCount_Forgotten(f) == event_count

IncreaseEventCount(f) == [event_count EXCEPT ![f] = @ + 1]
DecreaseEventCount(f) == [event_count EXCEPT ![f] = @ - 1]
ResetEventCount(f) == [event_count EXCEPT ![f] = 0]

ScanState(on, compress) ==
    [on |-> on, compress |-> compress, file |-> 0, read |-> 0, write |-> 0,
     found |-> FALSE]
NotScanning == ScanState(FALSE, FALSE)
StartScan(compress) == ScanState(TRUE, compress)
NextFile_SameFile == [scan EXCEPT !.read = 0, !.write = 0, !.found = FALSE]
NextFile == [scan EXCEPT !.file = @ + 1, !.read = 0, !.write = 0, !.found = FALSE]

NoRequest == [id |-> GarbageId, data |-> 0, time |-> 0]
CutShort == faults < MaxFaults /\ faults' = faults + 1
Ready == ~scan.on /\ adding = NoRequest

-----------------------------------------------------------------------------
(* add_event().                                                            *)

Fits(f, size) ==
    /\ next_append[f] + size < conf.size
    /\ event_count[f] < conf.events

(* The file where the search from f_current_file_index stops. *)
IsNextFit(f, size) ==
    /\ current_file_index < conf.files /\ f < conf.files /\ Fits(f, size)
    /\ LET steps(g) == (g + conf.files - current_file_index) % conf.files IN
       \A g \in 0 .. (conf.files - 1) : steps(g) < steps(f) => ~Fits(g, size)

NothingFits(size) ==
    /\ current_file_index < conf.files
    /\ \A f \in 0 .. (conf.files - 1) : ~Fits(f, size)

IsFreeTime(t, u) ==
    t <= u /\ u \notin UsedTimes /\ \A v \in t .. (u - 1) : v \in UsedTimes

AppendOffset_OffByOne(f) == Larger(HeaderSize, next_append[f] - 1)
AppendOffset(f) == Larger(HeaderSize, next_append[f])

(* The file f with its header: a new file object saves it first. *)
WithHeader(f) ==
    IF next_append[f] = 0 THEN WriteCells(content[f], 0, <<JournalHeader>>, 1)
    ELSE content[f]

(* The file f once write_new_event() has saved n cells of an event. *)
Appended(f, id, d, time, n) ==
    WriteCells(WithHeader(f), AppendOffset(f), EventCells(id, d, time), n)

NewLocation(f, id, d, time) ==
    [id |-> id, file |-> f, offset |-> AppendOffset(f), size |-> EventSize(d),
     status |-> "READY", time |-> time]

(* write_new_event(), then sync_if_requested(): only flush() empties the    *)
(* buffer of the stream, which holds what the last write() saved.           *)
WriteNewEvent(f, id, d, time) ==
    LET size == EventSize(d)
        kept == IF conf.sync = "flush" THEN size ELSE size - 1
    IN  /\ AddLocation(NewLocation(f, id, d, time))
        /\ ReleaseFiles([content EXCEPT ![f] = Appended(f, id, d, time, size)],
               [durable EXCEPT ![f] = Appended(f, id, d, time, kept)],
               opened \cup {f},
               [next_append EXCEPT ![f] = AppendOffset(f) + size],
               IncreaseEventCount(f), {})
        /\ current_file_index' = f
        /\ adding' = NoRequest
        /\ UNCHANGED <<can_be_compressed, conf, scan>>

(* An attachment cannot be read: write_new_event() returns after it saved  *)
(* the first n cells of the event, and f_next_append does not move.        *)
WriteNewEventFails(f, id, d, time, n) ==
    /\ UNCHANGED indexVars
    /\ ReleaseFiles([content EXCEPT ![f] = Appended(f, id, d, time, n)],
           [durable EXCEPT ![f] =
               IF n = 0 THEN @ ELSE Appended(f, id, d, time, n - 1)],
           opened \cup {f}, [next_append EXCEPT ![f] = AppendOffset(f)],
           event_count, {})
    /\ current_file_index' = f
    /\ adding' = NoRequest
    /\ UNCHANGED <<can_be_compressed, conf, scan>>

(* No file has room: every file was opened, those without events close again. *)
Refuse ==
    /\ UNCHANGED indexVars
    /\ ReleaseFiles(content, durable, opened \cup 0 .. (conf.files - 1),
           next_append, event_count, {})
    /\ adding' = NoRequest
    /\ UNCHANGED <<current_file_index, can_be_compressed, conf, scan>>

CanCompress == conf.compress /\ can_be_compressed

CompressFor_FromCurrent(id, d, time) ==
    /\ event_locations' = {}
    /\ UNCHANGED timebased_replay
    /\ ReleaseFiles(content, durable, opened \cup 0 .. (conf.files - 1),
           next_append, event_count, {})
    /\ adding' = [id |-> id, data |-> d, time |-> time]
    /\ scan' = [StartScan(TRUE) EXCEPT !.file = current_file_index]
    /\ can_be_compressed' = FALSE
    /\ UNCHANGED <<current_file_index, conf>>

(* load_event_locations(true) starts: the index by identifier is cleared,  *)
(* f_timebased_replay is not.                                              *)
CompressFor(id, d, time) ==
    /\ event_locations' = {}
    /\ UNCHANGED timebased_replay
    /\ ReleaseFiles(content, durable, opened \cup 0 .. (conf.files - 1),
           next_append, event_count, {})
    /\ adding' = [id |-> id, data |-> d, time |-> time]
    /\ scan' = StartScan(TRUE)
    /\ can_be_compressed' = FALSE
    /\ UNCHANGED <<current_file_index, conf>>

AddEvent(id, d, t, time) ==
    /\ Ready
    /\ id \notin Indexed
    /\ IsFreeTime(t, time)
    /\ \/ \E f \in Files : IsNextFit(f, EventSize(d)) /\ WriteNewEvent(f, id, d, time)
       \/ NothingFits(EventSize(d)) /\ CanCompress /\ CompressFor(id, d, time)
       \/ NothingFits(EventSize(d)) /\ ~CanCompress /\ Refuse
    /\ UNCHANGED faults

(* The second attempt of add_event(), once the files were compressed. *)
AddEventAgain ==
    /\ ~scan.on /\ adding # NoRequest
    /\ \/ \E f \in Files :
              /\ IsNextFit(f, EventSize(adding.data))
              /\ WriteNewEvent(f, adding.id, adding.data, adding.time)
       \/ NothingFits(EventSize(adding.data)) /\ Refuse
    /\ UNCHANGED faults

(* Nothing of the event was saved, or at least its header and identifier. *)
AddEventFails(id, d, t, time) ==
    /\ CutShort /\ Ready
    /\ id \notin Indexed
    /\ IsFreeTime(t, time)
    /\ \E f \in Files, n \in {0} \cup 2 .. (d + 1) :
           IsNextFit(f, EventSize(d)) /\ WriteNewEventFails(f, id, d, time, n)

(* The same in the second attempt. *)
AddEventAgainFails ==
    /\ CutShort /\ ~scan.on /\ adding # NoRequest
    /\ \E f \in Files, n \in {0} \cup 2 .. (adding.data + 1) :
           /\ IsNextFit(f, EventSize(adding.data))
           /\ WriteNewEventFails(f, adding.id, adding.data, adding.time, n)

-----------------------------------------------------------------------------
(* update_event_status(): the allowed changes, and what they do.           *)

Transitions ==
    {<<"READY", "FORWARDED">>, <<"READY", "ACKNOWLEDGED">>,
     <<"READY", "COMPLETED">>, <<"READY", "FAILED">>,
     <<"FORWARDED", "ACKNOWLEDGED">>, <<"FORWARDED", "COMPLETED">>,
     <<"FORWARDED", "FAILED">>, <<"ACKNOWLEDGED", "COMPLETED">>,
     <<"ACKNOWLEDGED", "FAILED">>}

WithStatus(l, status) ==
    [content EXCEPT ![l.file][l.offset + 1].status = status]

DurableStatus_NotFlushed(l, status) ==
    [durable EXCEPT ![l.file] = content[l.file]]

(* The status byte stays in the buffer of the stream unless it is flushed. *)
DurableStatus(l, status) ==
    [durable EXCEPT ![l.file] =
        IF conf.sync = "flush" THEN WithStatus(l, status)[l.file]
        ELSE content[l.file]]

(* event_forwarded() and event_acknowledged(). *)
AdvanceEvent(l, status) ==
    /\ Ready
    /\ status \in Active /\ <<l.status, status>> \in Transitions
    /\ LET moved(S) == (S \ {l}) \cup
                       (IF l \in S THEN {[l EXCEPT !.status = status]} ELSE {})
       IN  /\ event_locations' = moved(event_locations)
           /\ timebased_replay' = moved(timebased_replay)
    /\ content' = WithStatus(l, status)
    /\ durable' = DurableStatus(l, status)
    /\ UNCHANGED <<opened, next_append, event_count, current_file_index,
                   can_be_compressed, conf, scan, adding, faults>>

AppendAfter_Always(l) == HeaderSize

(* The file of the last event of the journal starts over. *)
AppendAfter(l) ==
    IF event_locations = {l} THEN HeaderSize ELSE next_append[l.file]

(* event_completed() and event_failed(): the event leaves the index.       *)
FinishEvent(l, status) ==
    /\ Ready
    /\ status \in Final /\ <<l.status, status>> \in Transitions
    /\ event_locations' = event_locations \ {l}
    /\ timebased_replay' = {x \in timebased_replay : x.time # l.time}
    /\ ReleaseFiles(WithStatus(l, status), DurableStatus(l, status), opened,
           [next_append EXCEPT ![l.file] = AppendAfter(l)],
           DecreaseEventCount(l.file), {})
    /\ can_be_compressed' = TRUE
    /\ UNCHANGED <<current_file_index, conf, scan, adding, faults>>

-----------------------------------------------------------------------------
(* load_event_locations(): one step per file and one per event.            *)

Scanned == content[scan.file]
ScanSynced == [durable EXCEPT ![scan.file] = Scanned]
ScannedEvent == Scanned[scan.read + 1]
HasHeader(s) == Len(s) > 0 /\ s[1].kind = "EVTJ"

(* The file does not exist, or its header is not one: it is left aside. *)
ScanSkipFile ==
    /\ scan.on /\ scan.read = 0 /\ scan.file < conf.files
    /\ ~HasHeader(Scanned)
    /\ UNCHANGED indexVars
    /\ IF Scanned = << >> THEN UNCHANGED fileVars
       ELSE ReleaseFiles(content, ScanSynced, opened \cup {scan.file},
                next_append, ResetEventCount(scan.file), {})
    /\ scan' = NextFile
    /\ UNCHANGED <<current_file_index, can_be_compressed, conf, adding, faults>>

ScanOpenFile ==
    /\ scan.on /\ scan.read = 0 /\ scan.file < conf.files
    /\ HasHeader(Scanned)
    /\ opened' = opened \cup {scan.file}
    /\ event_count' = ResetEventCount(scan.file)
    /\ durable' = ScanSynced
    /\ scan' = [scan EXCEPT !.read = HeaderSize]
    /\ UNCHANGED <<content, next_append, indexVars, current_file_index,
                   can_be_compressed, conf, adding, faults>>

(* The end of the file, an end marker or anything which is not an event. *)
ScanCloseFile ==
    /\ scan.on /\ scan.read > 0
    /\ ~ValidEventAt(Scanned, scan.read)
    /\ UNCHANGED indexVars
    /\ ReleaseFiles(content, ScanSynced, opened, next_append, event_count, {})
    /\ scan' = NextFile
    /\ UNCHANGED <<current_file_index, can_be_compressed, conf, adding, faults>>

(* A completed or failed event is passed over; compression starts there. *)
ScanFinishedEvent ==
    /\ scan.on /\ scan.read > 0
    /\ ValidEventAt(Scanned, scan.read) /\ ScannedEvent.status \in Final
    /\ scan' = [scan EXCEPT !.read = @ + ScannedEvent.size, !.found = TRUE,
                            !.write = IF scan.found THEN @ ELSE scan.read]
    /\ durable' = ScanSynced
    /\ can_be_compressed' = TRUE
    /\ UNCHANGED <<content, opened, next_append, event_count, indexVars,
                   current_file_index, conf, adding, faults>>

(* The location of the pending event just read, saved at an offset. *)
ScannedLocation(offset) ==
    [id |-> RequestIdAt(Scanned, scan.read), file |-> scan.file,
     offset |-> offset, size |-> ScannedEvent.size,
     status |-> ScannedEvent.status, time |-> ScannedEvent.time]

ScanPendingEvent ==
    /\ scan.on /\ scan.read > 0
    /\ ValidEventAt(Scanned, scan.read) /\ ScannedEvent.status \in Active
    /\ ~(scan.found /\ scan.compress)
    /\ AddLocation(ScannedLocation(scan.read))
    /\ ReleaseFiles(content, ScanSynced, opened,
           [next_append EXCEPT ![scan.file] = scan.read + ScannedEvent.size],
           IncreaseEventCount(scan.file), {scan.file})
    /\ scan' = [scan EXCEPT !.read = @ + ScannedEvent.size]
    /\ UNCHANGED <<current_file_index, can_be_compressed, conf, adding, faults>>

(* The file after n cells of the event just read were copied up. *)
Compressed(n) ==
    LET cells == [i \in 1 .. ScannedEvent.size |->
                     IF i = 2 THEN Plain("id", RequestIdAt(Scanned, scan.read), 0)
                     ELSE Scanned[scan.read + i]]
    IN  WriteCells(Scanned, scan.write, cells, n)

CompressEvent ==
    /\ scan.on /\ scan.read > 0
    /\ ValidEventAt(Scanned, scan.read) /\ ScannedEvent.status \in Active
    /\ scan.found /\ scan.compress
    /\ AddLocation(ScannedLocation(scan.write))
    /\ ReleaseFiles([content EXCEPT ![scan.file] = Compressed(ScannedEvent.size)],
           [durable EXCEPT ![scan.file] = Compressed(ScannedEvent.size - 1)],
           opened,
           [next_append EXCEPT ![scan.file] = scan.write + ScannedEvent.size],
           IncreaseEventCount(scan.file), {scan.file})
    /\ scan' = [scan EXCEPT !.read = @ + ScannedEvent.size,
                            !.write = @ + ScannedEvent.size]
    /\ UNCHANGED <<current_file_index, can_be_compressed, conf, adding, faults>>

ScanEnd ==
    /\ scan.on /\ scan.read = 0 /\ scan.file >= conf.files
    /\ scan' = NotScanning
    /\ UNCHANGED <<fileVars, indexVars, current_file_index, can_be_compressed,
                   conf, adding, faults>>

Scan ==
    \/ ScanSkipFile \/ ScanOpenFile \/ ScanCloseFile \/ ScanFinishedEvent
    \/ ScanPendingEvent \/ CompressEvent \/ ScanEnd

-----------------------------------------------------------------------------
(* The options.                                                            *)

Configurations ==
    [files : FileCounts, size : FileSizes, events : EventLimits,
     sync : SyncModes, management : Managements, compress : CompressModes]

(* A setter saves every option to journal.conf before it returns, and the  *)
(* next process starts with what was saved: both are in the variable conf. *)
SaveConfiguration(c) == conf' = c
LoadConfiguration == UNCHANGED conf

(* The files above the new limit are opened one after the other until one  *)
(* which still has pending events makes the function throw.                *)
SetMaximumNumberOfFiles(m) ==
    LET over == {f \in Files : m <= f /\ f < conf.files}
        InUse(f) == \E l \in event_locations : l.file = f
        tried == {f \in over : /\ content[f] # << >>
                               /\ \A g \in over : g < f => ~InUse(g)}
    IN  /\ Ready
        /\ m # conf.files
        /\ UNCHANGED indexVars
        /\ ReleaseFiles(content, durable, opened \cup tried, next_append,
               event_count, {})
        /\ IF \E f \in over : InUse(f) THEN UNCHANGED conf
           ELSE SaveConfiguration([conf EXCEPT !.files = m])
        /\ UNCHANGED <<current_file_index, can_be_compressed, scan, adding, faults>>

(* The setters of the other options change one of them and save it. *)
SetOption(c) ==
    /\ Ready
    /\ c # conf
    /\ \E o \in {"size", "events", "sync", "management", "compress"} :
           c = [conf EXCEPT ![o] = c[o]]
    /\ SaveConfiguration(c)
    /\ UNCHANGED <<fileVars, indexVars, current_file_index, can_be_compressed,
                   scan, adding, faults>>

-----------------------------------------------------------------------------
(* The end of the process and the next one, which opens the journal again. *)

Boot(disk) ==
    /\ content' = disk
    /\ durable' = disk
    /\ opened' = {}
    /\ next_append' = [f \in Files |-> 0]
    /\ event_count' = [f \in Files |-> 0]
    /\ event_locations' = {}
    /\ timebased_replay' = {}
    /\ current_file_index' = 0
    /\ can_be_compressed' = FALSE
    /\ scan' = StartScan(FALSE)
    /\ adding' = NoRequest
    /\ LoadConfiguration

(* The journal is destroyed, and with it every file object. *)
Reopen ==
    /\ Ready /\ UNCHANGED faults
    /\ Boot([f \in Files |->
           IF f \in opened THEN Truncate(content[f], next_append[f])
           ELSE content[f]])

(* The process is killed: what its streams still buffer is lost. *)
Crash == Boot(durable) /\ UNCHANGED faults

(* The process is killed while it saves or moves an event. *)
CrashInAddEvent(id, d, t, time) ==
    /\ CutShort /\ Ready
    /\ id \notin Indexed
    /\ IsFreeTime(t, time)
    /\ \E f \in Files, n \in 0 .. (d + 1) :
           /\ IsNextFit(f, EventSize(d))
           /\ Boot([durable EXCEPT ![f] = Appended(f, id, d, time, n)])

CrashInAddEventAgain ==
    /\ CutShort /\ ~scan.on /\ adding # NoRequest
    /\ \E f \in Files, n \in 0 .. (adding.data + 1) :
           /\ IsNextFit(f, EventSize(adding.data))
           /\ Boot([durable EXCEPT ![f] =
                  Appended(f, adding.id, adding.data, adding.time, n)])

CrashInCompress ==
    /\ CutShort
    /\ scan.on /\ scan.read > 0
    /\ ValidEventAt(Scanned, scan.read) /\ ScannedEvent.status \in Active
    /\ scan.found /\ scan.compress
    /\ \E n \in 0 .. (ScannedEvent.size - 1) :
           Boot([durable EXCEPT ![scan.file] = Compressed(n)])

-----------------------------------------------------------------------------

Init ==
    /\ content = [f \in Files |-> << >>]
    /\ durable = content
    /\ opened = {}
    /\ next_append = [f \in Files |-> 0]
    /\ event_count = [f \in Files |-> 0]
    /\ event_locations = {}
    /\ timebased_replay = {}
    /\ current_file_index = 0
    /\ can_be_compressed = FALSE
    /\ conf \in Configurations
    /\ scan = StartScan(FALSE)
    /\ adding = NoRequest
    /\ faults = 0

Add ==
    \E id \in RequestIds, d \in DataSizes, t \in InputTimes, time \in 1 .. MaxTime :
        \/ AddEvent(id, d, t, time)
        \/ AddEventFails(id, d, t, time)
        \/ CrashInAddEvent(id, d, t, time)

Update ==
    \E l \in event_locations :
        \/ \E status \in ClientStatuses \cap Active : AdvanceEvent(l, status)
        \/ \E status \in ClientStatuses \cap Final : FinishEvent(l, status)

Configure ==
    \/ \E m \in FileCounts : SetMaximumNumberOfFiles(m)
    \/ \E c \in Configurations : SetOption(c)

(* load_event_locations() and the second attempt of add_event() go on. *)
Continue == Scan \/ AddEventAgain

Next ==
    \/ Add \/ Update \/ Configure \/ Continue \/ AddEventAgainFails
    \/ Reopen \/ Crash \/ CrashInAddEventAgain \/ CrashInCompress

(* A call runs in the caller's thread until it returns. *)
Spec == Init /\ [][Next]_vars /\ WF_vars(Continue)

-----------------------------------------------------------------------------
(* Correctness of the index.                                               *)

(* Every variable keeps its type; the offsets, counts and times are        *)
(* integers the code stores in unsigned fields.                            *)
TypeOK ==
    /\ content \in [Files -> Seq(Cell)]
    /\ durable \in [Files -> Seq(Cell)]
    /\ opened \subseteq Files
    /\ next_append \in [Files -> Nat]
    /\ event_count \in [Files -> Int]
    /\ event_locations \subseteq Location
    /\ timebased_replay \subseteq Location
    /\ current_file_index \in Files
    /\ can_be_compressed \in BOOLEAN
    /\ conf \in Configurations
    /\ scan \in [on : BOOLEAN, compress : BOOLEAN, file : 0 .. FileLimit,
                read : Nat, write : Nat, found : BOOLEAN]
    /\ adding \in [id : Ids, data : Nat, time : Nat]
    /\ faults \in 0 .. MaxFaults

End(l) == l.offset + l.size

(* The bytes at the offset of l, in the content s of its file, are l's event. *)
StoredIn(s, l) ==
    /\ HeaderSize <= l.offset /\ EventSize(0) <= l.size /\ End(l) <= Len(s)
    /\ s[l.offset + 1].kind = "ev"
    /\ s[l.offset + 1].status = l.status
    /\ s[l.offset + 1].size = l.size
    /\ s[l.offset + 1].time = l.time
    /\ RequestIdAt(s, l.offset) = l.id

(* Every location of f_event_locations points at an event on disk which    *)
(* has the identifier, the status, the size and the time the index says,   *)
(* whatever was added, updated, compressed, cut short or reloaded before.  *)
IndexMatchesFiles == \A l \in event_locations : StoredIn(content[l.file], l)

(* Two pending events never share bytes of a file, so that writing the     *)
(* status of one, or moving one up, leaves the other alone.                *)
EventsDisjoint ==
    \A l, m \in event_locations :
        l # m /\ l.file = m.file => End(l) <= m.offset \/ End(m) <= l.offset

(* The place where a file grows is past every pending event of it: the     *)
(* next add_event() cannot overwrite one of them.                          *)
AppendIsPastEvents ==
    \A l \in event_locations : l.file \in opened /\ End(l) <= next_append[l.file]

(* Where load_event_locations() stands: it reads past every event it has   *)
(* put in the index, and writes, when it compresses, between those events  *)
(* and the place where it reads.                                           *)
ScanInBounds ==
    scan.on =>
        /\ \A l \in event_locations :
               \/ l.file < scan.file
               \/ /\ l.file = scan.file /\ scan.read > 0
                  /\ End(l) <= IF scan.found /\ scan.compress THEN scan.write
                               ELSE scan.read
        /\ scan.read > 0 =>
               /\ scan.file < conf.files /\ scan.file \in opened
               /\ scan.read <= Len(content[scan.file])
        /\ scan.found => HeaderSize <= scan.write /\ scan.write < scan.read

=============================================================================
