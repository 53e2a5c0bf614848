-------------------------- MODULE JournalRecovery --------------------------
(***************************************************************************)
(* What the files of the journal promise.  Persisted is read off the bytes *)
(* the kernel has, the way load_event_locations() would read them if the   *)
(* process were killed now, and it is shown to behave as an EventLedger.   *)
(***************************************************************************)
EXTENDS Journal

(* The pending events a load finds in the content s of one file from each  *)
(* offset on: the reference for the step by step Scan of module Journal.   *)
Walk(s) ==
    LET walk[o \in 0 .. Len(s)] ==
            IF ~ValidEventAt(s, o) THEN {}
            ELSE walk[o + s[o + 1].size] \cup
                 (IF s[o + 1].status \in Active
                  THEN {[id |-> RequestIdAt(s, o), time |-> s[o + 1].time,
                         status |-> s[o + 1].status]}
                  ELSE {})
    IN  walk

PendingFrom(s, from) == IF HasHeader(s) THEN Walk(s)[from] ELSE {}

PersistedIn(s) == PendingFrom(s, HeaderSize)

Persisted == UNION {PersistedIn(durable[f]) : f \in 0 .. (conf.files - 1)}

IndexedEvents ==
    {[id |-> l.id, time |-> l.time, status |-> l.status] : l \in event_locations}

Ledger == INSTANCE EventLedger
    WITH pending <- Persisted, serving <- Ready, Times <- 1 .. MaxTime

(* The files implement the ledger: a restart, a change of options, or a    *)
(* kill between two calls or two steps of a load, neither loses an         *)
(* accepted event nor brings back one which was completed or failed.  It   *)
(* is about writes which are whole: a kill inside of one breaks it (see    *)
(* the run torn), as does compression (see FinishedIsGone).                *)
FilesKeepLedger == Ledger!Spec

(* When no function of the journal runs, the index in memory is what a     *)
(* restart would rebuild: replay sees every pending event, and only those. *)
IndexIsPersisted == Ready => IndexedEvents = Persisted

(* When no function of the journal runs, the two maps hold the same        *)
(* locations: replay by time and by identifier return the same events.     *)
ReplayAgrees == Ready => timebased_replay = event_locations

(* The number of events which limits a file is the number of its pending   *)
(* events: a file never refuses events because of ones which are gone.  It *)
(* is about files which are not compressed: the old copy of an event which *)
(* moved is counted by the next load, as CountCovers allows.               *)
CountIsExact ==
    Ready => \A f \in Files :
        event_count[f] = Cardinality({l \in event_locations : l.file = f})

(* The number of events of a file is at least that of its pending events:  *)
(* the unsigned counter, decreased for each event which ends, never wraps, *)
(* whatever was compressed, moved, cut short or counted again by a load.   *)
CountCovers ==
    \A f \in Files :
        Cardinality({l \in event_locations : l.file = f}) <= event_count[f]

(* The bytes of a pending event's attachments are the ones saved with it.  *)
AttachmentsIntact ==
    \A l \in event_locations :
        \A i \in (l.offset + EventSize(0) + 1) .. End(l) :
            content[l.file][i] = Plain("data", l.id, l.time)

(* What the file f holds once its object, if it has one, is destroyed. *)
AtClose(f) ==
    IF f \in opened THEN Truncate(content[f], next_append[f]) ELSE content[f]

(* The events a running load has not read yet and will find, whichever of  *)
(* the files ahead of it are closed before it reaches them.                *)
Unread ==
    LET ahead == {f \in 0 .. (conf.files - 1) :
                     scan.file < f \/ (scan.file = f /\ scan.read = 0)}
    IN  (UNION {PersistedIn(AtClose(f)) : f \in ahead}) \cup
        (IF scan.read = 0 THEN {} ELSE PendingFrom(Scanned, scan.read))

Known == Indexed \cup (IF scan.on THEN {e.id : e \in Unread} ELSE {})

(* The next process finds every event of the index in the files, with its  *)
(* attachments: also when this one was killed inside of a write, over      *)
(* whatever older events left there.                                       *)
RestartKeepsEvents ==
    [][ Ready /\ scan'.on /\ ~scan'.compress =>
            \A l \in event_locations :
                /\ [id |-> l.id, time |-> l.time, status |-> l.status]
                       \in PersistedIn(content'[l.file])
                /\ \A i \in (l.offset + EventSize(0) + 1) .. End(l) :
                       content'[l.file][i] = content[l.file][i] ]_vars

(* The load of the next process finds them all: from the kill on, and at   *)
(* each step, an event which was pending is in the new index or ahead of   *)
(* the load.                                                               *)
LoadFindsEvents ==
    [][ scan.on \/ scan'.on => Known \subseteq Known' ]_vars

(* When add_event() compresses the files, every event which was pending    *)
(* before is found again: at each step it is in the new index or still     *)
(* ahead of the load, where no event which moves up overwrites it.         *)
CompressLosesNothing ==
    [][ scan'.compress \/ (scan.compress /\ ~scan'.on) => Known \subseteq Known' ]_vars

(* load_event_locations() returns, unless the process is killed for ever.  *)
LoadEnds == []<>Ready \/ []<><<Crash>>_vars

(* Once event_completed() or event_failed() took an event out of the index *)
(* no file offers it for replay any more.                                  *)
FinishedIsGone ==
    [][ Ready /\ Ready' =>
        \A l \in event_locations :
            l.id \in Indexed' \/ \A e \in Persisted' : e.id # l.id ]_vars

(* A load or a compression keeps every pending event in the files at each  *)
(* of its steps: a process killed in the middle of it loses none.          *)
LoadKeepsEvents == [][ scan.on /\ scan'.on => Persisted \subseteq Persisted' ]_vars

(* add_event() always starts its search in a file which exists: it never   *)
(* asks get_event_file() for an index past the last file.                  *)
CurrentFileExists == Ready => current_file_index < conf.files

=============================================================================
