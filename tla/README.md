# Verification of prinbee

This directory holds TLA+ specifications of prinbee, the TLC configurations
which check them on small instances, and proofs which TLAPS checks for
instances of any size. `PROJECT.json` lists the components, the runs, the
mutants, the lines of the source each definition stands for, the disagreements
found, and the hazards of the code.

- [Inventory](#inventory): what the system is made of and where it is hard
- [Modules](#modules): which module models which part
- [The journal](#the-journal), [The network](#the-network), [PBQL](#pbql), [Data](#data): the models and how they follow the code
- [Runs](#runs), [Mutants](#mutants), [Findings](#findings)
- [Proofs](#proofs)
- [What is not covered](#what-is-not-covered), [Plan](#plan)

## Inventory

Prinbee is a distributed database. A client library talks to a local proxy,
proxies talk to daemons, daemons form a cluster of nodes. Everything between
them is a binary message. The daemon keeps contexts, whose tables are to be
stored in files of fixed size blocks; events which must not be lost are first
saved in a journal. A console reads PBQL, an SQL dialect.

| Component | State it keeps | Operations | What makes it correct |
|---|---|---|---|
| Event journal (`prinbee/journal`) | event files, options, index by identifier and by time, append position and event count of each open file | `add_event`, four status updates, load, compress, options, replay | an accepted event is offered for replay until it is completed or failed, and never after, whatever crashes |
| Binary messages and connections (`prinbee/network`) | read state, partial header and data, output | read, resynchronize, write from several threads | every message sent is received once, whole, or the connection ends |
| Client library (`prinbee_connection`, `proxy_connection`) | registration, expected acknowledgments, list of contexts | status messages, connect, REG/ACK | a client ends up registered; its list is the proxy's |
| Proxy (`proxy`) | clients, daemons, conditions of its listener, list of contexts | register, forward, broadcast, close | clients are served as soon as, and only while, a daemon is ready |
| Daemon requests (`daemon/prinbeed*.cpp`, workers) | payload FIFO, stage of each payload, cluster lock | REG, list/get/set context | one node at a time changes a context; every request is answered once |
| Daemon startup (`prinbeed.cpp`, listeners, messenger) | conditions of the listeners, references of other nodes | status messages, listeners, connections to smaller addresses | no two daemons miss each other |
| Ping-pong | expected serial number, failure count | timer, PONG | only silent connections are given up |
| PBQL (`prinbee/pbql`) | input position, tokens, tree, commands | lex, parse, fold, translate to a script | the tree is the one of the precedence table; folding keeps values |
| Console (`cui`) | line, parsed commands, windows | read, execute, show | a line is parsed whole and its transactions are closed by their own ends |
| Virtual buffer (`prinbee/data`) | pieces of buffers | read, write, insert, erase, shift, save, load | equals the plain byte sequence |
| Structures | typed fields in bytes, offsets of the fields | get, set, arrays, flags | a value read is the value written |
| Conversions and cells | text, bytes, cell | parse, show, save, load, change of type | the value stays the same or is refused |
| 512 bit integers (`prinbee/bigint`) | words | all operators | arithmetic modulo 2^512 |
| Context manager, contexts | contexts by name, schema version | create, list, update, load | versions grow by one and survive |
| Tables, rows, blocks, indexes, free space | pages of files | insert, find, allocate | cannot run at this commit |
| Plugin, tools | none of their own | input and output | no state others rely on |

How they interact: the client library and the daemons exchange messages
through the network classes; the daemon's communicator thread turns a
message into a payload and pushes it to the workers' FIFO; a worker runs a
stage of the payload and either answers, asks cluckd for a cluster lock
(whose callback pushes the payload again) or tries to send messages to other
nodes. The context manager runs inside workers and owns
the files. The journal is a library used serially by one thread ("the journal
is not multi-thread safe", `journal.cpp`). communicatord carries the status
messages by which proxies, clients and daemons find each other.

Where behaviour is hard, in the order of the damage a mistake does:

1. crashes of a process between, or in the middle of, writes of the journal,
   above all while it compresses a file in place;
2. stages of a payload, with locks which come late, not at all or expire,
   exceptions which end the worker, and clients which are gone;
3. conditions and status messages which come in any order while processes
   start, stop and lose their connections;
4. resynchronization of a message stream, and several threads writing to one
   socket;
5. ping-pong, where timeouts race late answers;
6. offsets, carries, limits and precedences, where a mistake shows only in
   combinations.

`PROJECT.json` lists these hazards at their lines.

## Modules

| Module | Models | Uses |
|---|---|---|
| `Journal` | `prinbee/journal/journal.cpp`: files, index, every operation, crash and restart | |
| `EventLedger` | abstract: what the journal promises | |
| `JournalRecovery` | what the files hold; refinement of `EventLedger` | `Journal`, `EventLedger` |
| `JournalProofs` | inductive invariant of the index, proved | `Journal` |
| `JournalRecoveryProofs` | inductive invariants of the files and of compression, and the refinement, proved | `JournalRecovery`, `JournalProofs` |
| `Registration` | proxy and client library: listener, REG, list of contexts, lost connections | |
| `DaemonRequests` | daemon: payloads, worker, stages of set_context, locks, contexts | |
| `Cluster` | startup of daemons | |
| `MessageFifo` | abstract: what a connection promises | |
| `Wire` | one direction of a connection, byte by byte; refinement of `MessageFifo` | `MessageFifo` |
| `PingPong` | the timer, PING and PONG | |
| `RegistrationProofs`, `DaemonRequestsProofs`, `ClusterProofs`, `WireProofs`, `PingPongProofs` | the safety properties of these modules, proved | the module of that name |
| `Loops` | the loops of the lexer and the parser | |
| `Lexer` | `lexer.cpp`, `input.cpp` | `Loops` |
| `Expression` | `parse_expression.cpp` and the script of `node.cpp` | |
| `Statements` | `parser.cpp`, `command.cpp` | `Loops` |
| `Console` | `cui/` | `Statements` |
| `PbqlProofs` | transactions and operators, proved | `Lexer`, `Console` |
| `ByteSequence` | abstract: a buffer and its file as plain bytes | |
| `VirtualBuffer` | `virtual_buffer.cpp`; refinement of `ByteSequence` | `ByteSequence` |
| `Structure` | `structure.cpp` | |
| `BigInt` | `uint512.cpp`, `int512.cpp` and their assembly | |
| `Convert` | `convert.cpp`, `cell.cpp` | |
| `MCJournal`, `MCNetwork`, `MCPbql`, `MCData` | instances for TLC | |

`MCNetwork` puts `Cluster`, `Wire` and `PingPong` together in the order in
which a cluster comes up: a connection carries messages or PINGs once the
daemons started. `MCPbql` and `MCData` hold parts which share no state; one of
them moves while the others are in a first state, so that the instance is the
sum of its parts and not their product. Nothing is lost by that: no property
relates two of the parts, and the code of one never reads the state of another.

## The journal

`Journal` models `prinbee/journal/journal.cpp`.

**Data.** A file is a sequence of cells: one for the `EVTJ` header, and for an
event one for its `ev` header (status, size, time), one for its request
identifier and one per unit of inline attachment data. Event sizes, file
limits and offsets are counted in cells; the comparisons on them are those of
the code. A data cell remembers the event it was written for, so that a
property can tell when foreign bytes are read as an attachment; the model's
actions never look at that. An attachment saved in its own file takes no cell:
an event with only such attachments, or none, has data size 0. What a request
identifier reads as when the bytes under it are not one is `GarbageId`.

**Two images of a file.** `content` is what the process sees through its
`std::fstream`, `durable` what the kernel has. `file::write()` seeks before it
writes, which empties the stream's buffer, so what one call leaves buffered
is what its last write saved: the last cell of a new or moved event, or a
status byte. `flush()` empties it, `fsync()` on the descriptor does not, and
`file::size()`, which the load calls, does. A kill loses what is buffered
(`Crash`); a power failure, after which the kernel's own cache would be lost
too, is not modelled.

**Variables** have the names of the members they model, without `f_`:
`next_append`, `event_count`, `event_locations`, `timebased_replay`,
`current_file_index`, `can_be_compressed`. `opened` is the set of files with a
live `journal::file` object; objects are shared pointers held by locations, so
`ReleaseFiles`, a conjunct of every action, computes which ones nobody refers
to any more and applies their destructor (`Truncate`). An absent file and an
empty one are both `<< >>`: no operation tells them apart. `conf` holds the
options and is also `journal.conf`, which every setter saves at once.

**Actions.** Each public function is one action, except where the function
runs `load_event_locations()`, which takes one step per file and per event so
that the process can be killed between any two of them.

| Action | Code |
|---|---|
| `AddEvent`, `AddEventFails` | `add_event()`: refusal of a known identifier, next free time, search for a file, `write_new_event()`, sync, index; an attachment which cannot be read after the header was written |
| `AddEventAgain`, `AddEventAgainFails` | its second attempt after a compression, and the same failure there |
| `AdvanceEvent`, `FinishEvent` | `update_event_status()` for pending and for final statuses |
| `ScanSkipFile` … `ScanEnd` | `load_event_locations()`: file without valid header, header, finished event, pending event, event moved by compression, anything else, end |
| `SetMaximumNumberOfFiles`, `SetOption` | the setters |
| `Reopen`, `Crash` | destructor and constructor; kill and constructor |
| `CrashInAddEvent`, `CrashInAddEventAgain`, `CrashInCompress` | kill after n cells of an event were written, in either attempt or in a compression |

**Order.** A call runs to its end before the next one starts (`Ready`): the
journal is used serially.

**The promise.** `EventLedger` says what a client may rely on: the set of
pending events changes only when a client adds an event, moves it forward or
ends it, and loads, compressions, restarts and kills do not show in it.
`JournalRecovery` reads that set off the durable bytes (`Persisted`, a
recursive function which walks a file as the load would), and states that the
journal implements the ledger with it (`FilesKeepLedger`). This holds as long as
writes are whole. A write over the bytes of older events which a kill cuts short
may read as an event with the data of an older one (see the run `torn`); what
the journal keeps even then is stated from the side of the events which were
accepted: the bytes the next process starts from hold all of them, with their
attachments and where its load comes to (`RestartKeepsEvents`), and the load
loses none on its way (`LoadFindsEvents`). `CountIsExact` likewise is about
files which are not compressed, since the old copy of a moved event is counted
by the next load (see Findings); `CountCovers`, that the unsigned counter is at
least the number of pending events and so never wraps, holds always.

## The network

**`Registration`.** One proxy, its daemons and clients; each process is one
event loop, so one callback is one action, with the calls it makes. `flags`
are the conditions of `start_binary_listener()` except for the daemon
(`daemonReady`), which each arrive on their own (`SetGate`). A TCP connection
is a FIFO in each direction; connection n of client c is `<<c, n>>`, and the
proxy learns of the end of an old connection (`ClientDisconnected`) before or
after it accepted the next (`ProxyAccepts`), as in the code, where both are
events of different sockets. Faults: connections which are cut with the
messages in them, restarts of the proxy, registrations refused because clocks
differ. The version in a REG is written under one name and read under another
(`RegisterFields`, `TheirVersion`), so that the check of the versions compares
an empty one; that its major version is 0 is an assumption about the library
versiontheca. communicatord is external: it delivers in order to the services which
are ready and drops what nobody matches.

**`DaemonRequests`.** The communicator's thread (`Accept`, `Send`,
`Cluck`, `ClientDisconnected`) and the worker (`Work`, one stage of the payload
at the head of the FIFO) interleave. Stage 1 of `set_context()` is two steps,
the save of the context (`SetContextChange`) and its acknowledgment
(`SetContextSaved`), between which the daemon may be killed (`saving`); there is one worker, as
`prinbeed::start_worker_pool()` creates it. cluckd is external: it grants a
free lock, refuses, and takes a lock back when its time is over
(`LockExpires`), also before the worker used it. Files of contexts survive
`Restart`; the contexts in memory are what `load_contexts()` makes of them.
`CanCreateContextMessage` compares the setters which `create_context_message()`
calls with the types of the fields: it is false, so that a GET of an existing
context, and stage 2 of a SET when another node is known, throw and end the
worker. The acknowledgments of other nodes, stages 3 and 4 of `set_context()`
and the release of the lock come after that message and cannot happen; they are
not in the module. Requests are what a client could send: the client library
itself does not send GET and SET yet.

**`Cluster`.** Five conditions per daemon in any order, the status messages
through communicatord, `connect_to_node()`, restarts. A daemon has two addresses:
`NodeAddress`, the `node_listen` address which its status messages give, and
`MyAddress`, that of its messenger, which the receiver of a status compares the
first with. A daemon answers a query only when it is up for communicatord.

**`Wire`.** `send_message()` is two steps, header and data, because it makes
two calls of `write()`; each of them writes what the socket takes and keeps
the rest in `output`. The reader takes any number of cells, and its three
states are those of `process_read()`: header, the search for the next header,
data. `Damage` spoils a cell in the socket; `ConnectionEnds` and `Connect` give
both sides new buffers. `ImplementsFifo` maps the messages which are not
lost and have not arrived, in the order of their numbers (`InOrder`), to the
queue of `MessageFifo`. There, `Lose` takes one message or all of them away:
the code has no acknowledgment and sends nothing again.

**`PingPong`.** `Tick` is the whole `send_pings()`: a PING for every connection
in the order of the map until one has failed too often, which throws. PINGs
and PONGs arrive in any order. `silence` counts, apart from the code's own
counter, the ticks without an answer; it is only read by properties. Every
`binary_message` takes a serial number when it is made, those which are read
into too; `OtherMessage` is one which is not a PING.

## PBQL

**`Lexer`.** One step is one call of `get_next_token()`; the characters given
back with `ungetc()` are those from `at` on. The loops of the code are steps
which say whether there is `more`; `Loop` takes as many as there are characters
left, and so is no recursive operator. `OperatorsAreLongest` compares the
tokens with those of `LongestTokens`, which looks operators up in a table and
always cuts off the longest which is written `Here`.

**`Expression`.** An input is put together token by token (`AddOperand`,
`AddInfix`, `AddPrefix`, `AddSuffix`, groups), so that TLC meets every
expression of the bounded size; `ParseInput` parses it with one recursive
operator per function of `expr_state`, folds constants as the code does, and
translates the tree. `TreeMatchesTable` compares the tree with the one which
the table in the comment of `parse_expression.cpp` defines, computed from the
table alone. Integers are `int512_t` of four words of four bits, with the
operations of `BigInt`, the wrong signs of its divisions and right shifts
included; a power is computed on the low words, as in the code.
`FoldingKeepsValue` compares the tree with that of the same expression in which
a column takes the place of each literal, and so nothing can be folded: when
these columns have the values of the literals, and the columns of the input any
value, NULL, TRUE, FALSE or a number, the two trees have one value. It covers
the folds of AND and OR with a literal at one side. It says nothing where
the value is undefined, that is for operands of a wrong type, integers which do
not fit, powers larger than a word (the code truncates them to 64 bits; a TODO
says so), quotients, right shifts (`ShiftKeepsSign` and `SignedDivisionIsExact`
of the findings) and a column compared with the literal NULL, whose tree is the
one of IS NULL.

**`Statements`, `Console`.** A statement is a sequence of tokens in which an
expression is one token. Each function of the parser is an operator which
returns the position it stops at, as the code's `n`, and the parameters it
set; its loops are `Loop`s over the tokens. `ValidateName` refuses the names
which `validate_name()` refuses, of which a length over `MaxName` is one. The console parses one statement a step, runs its own commands meanwhile
(`f_user_capture`) and the others at the end.

## Data

**`VirtualBuffer`.** Pieces with their bytes, sizes and capacities, and `total`,
the member `f_total_size`, which the middle of a block keeps as it was
(`InMiddleOfBlock`; the check for this is in debug builds only). A shift by more
bytes than there are wraps the size around and is refused by the read past the
end (`DoShiftTooFar`). What a call
did is kept in `call`, so that `ByteSequence` can say what the same call does
to plain bytes.

**`Structure`.** The buffer as cells of a small base, and the tree of fields
with their offsets. Every setter is the chain of the code's calls:
`get_field()`, `set_..()`, the insertion or removal of bytes, the adjustment
of all offsets behind the cutoff. `values` is what was set, in a tree of its
own which knows nothing of offsets. Defaults are those of the outer fields:
`set_defaults()` does not go into sub-structures, whose fields stay zero
(`Unset`).

**`BigInt`.** Words of a few bits in place of 64; the algorithms are those of
the code (carry chains, shifts by words and bits, shift-and-subtract
division), compared with TLC's integers after every operation.

**`Convert`.** Bytes of two bits, words of four bytes and large integers of
three words keep all widths of the code, and their limits, within TLC's
integers. A value goes from text to a field and back, into a cell, to its big
endian image and to cells of other types; `meaning` is what the user meant.
The calendar is scaled too: a year of 8 seconds, years of one digit up to 9 (for
9999), 1900 and 1970 as the years 2 and 3. `strftime()` writes any year,
`strptime()` reads the digits of `%Y` and, where the text does not match, leaves
the rest of the `struct tm` as it is. `ValueIsKept` leaves out what the code
cannot read back, and the model shows what it does instead: a year of five
digits is read as the day before the year of its first four, one before the
year 0 as the day before 1900; a time before 1970 with a fraction is divided as an unsigned number and
shown far in the future ("negative numbers are not that useful to us at the
moment", `tests/catch_convert.cpp:2523`). Times for which `gmtime_r()` fails are
not modelled.

## Runs

The real limits (255 files, 64 KB, 100 events, 64 bit words, 5 failures) are
replaced by limits small enough to be reached; comparisons and arithmetic on
them are the code's.

| Run | Instance | Shows |
|---|---|---|
| `recovery` | 2 or 3 files, at most one of them with 2 events, flushed writes, no compression, all three file managements, options changed at any time, statuses up to completion | a kill or restart between any two steps finds exactly the pending events: index against files, the two maps, exact event counters, refinement of the ledger |
| `cut` | 2 files of 2 events, flushed writes, one write which fails half way or kill inside of a write | the next process finds every accepted event with its attachments, its load loses none, and it ends |
| `compress` | 3 identifiers; 2 small events in one file and a large one in the other, buffered writes, compressions which move events, one write cut short or kill inside a write, in either attempt | the index invariant of the proofs, with the bad bytes such writes leave; counters which never wrap; compression finds every event again and does not overwrite what it has yet to read |
| `connect` | 1 client, 1 daemon, 2 faults of any kind, 2 versions of the list, refused registrations | the listener follows its conditions, broadcasts reach the client, its list never goes back, and it is registered in the end unless it is refused or the proxy stays down |
| `requests` | 1 client, 1 reference to another node, 3 requests with valid and invalid names, disconnections, and restarts, also between a save and its acknowledgment | one final answer per request, what was acknowledged is on disk, versions grow by one even when locks expire |
| `answered` | 2 clients, 1 reference to another node, 3 requests, no faults | every request is answered in the end, or an exception ended the worker |
| `network` | 2 daemons with one restart; then 3 messages of different sizes with one damaged cell and one cut, or 2 connections with 4 ticks, 2 other messages and serial numbers modulo 16 | the daemons do not miss each other; the connection is a FIFO, loses only what was damaged, and goes on; numbers identify PINGs and only silence ends a connection |
| `pbql` | every text of 4 characters over two alphabets, one of them with every character with which an operator of two characters starts or ends; every expression of 3 operands and one suffix, prefix or group; lines of 3 statements | longest operators, the tree of the table, folding which keeps values, bracketed transactions |
| `data` | buffers of 4 bytes and 3 calls; a structure with a field of each kind and 4 operations; numbers of 3 words of 2 bits after any sequence of operations; every limit of every width as text | the four properties of [Data](#data) |
| `torn`, `killed`, `nolist` | see [Findings](#findings) | a violation each |

Why the bounds are enough. Journal: with two events per file there is an event
before and after the one which is updated, moved or cut; with two files the
search wraps around, refuses and compresses; with one cut write a load meets
every prefix of an event over every older content; the largest of `DataSizes`
fits no file next to another event, and so starts the compression and the
refusal. `MaxTime` is the number of identifiers. `recovery` is constrained
(`OneLongFile`) to states where one file at most holds two events, whichever it
is; all three files are used, and their number is reduced while they are.
`compress` is constrained (`LargeInSecond`) to states where the small events are
in the first file and the large one in the second, so that they fill the
journal and the next event needs a compression. `EventLimits` is two in all of
them: a file takes no third event.
Compression, and kills inside of a write, are outside of the refinement because
the code does not keep its promise there (see Findings). `connect`: two faults are enough for an
old and two new connections of one client at once. `requests`: three requests
are two writers of one version and a reader. `network`: a header of two cells
and a socket of two cut headers, data and messages in every way; 4 ticks are
twice the failures allowed, and the serial numbers wrap around in them; the two
addresses of a daemon are such that both daemons of the pair connect
(`MCNodeAddress`, `MCMyAddress`).
`pbql`: three operands put any two operators of different levels side by side
in both orders. `data`: the widths are 1, 2, 4, 8 and 12 bytes, below, at and
above one word.

**Fairness.** `WF_vars(Continue)` of the journal: a call which runs
`load_event_locations()` goes on until it returns, since it runs in its
caller's thread and waits for nothing; `LoadEnds` excepts behaviours which kill
the process for ever. `Registration` and `Cluster`: every event loop runs, the
services a process waits for come up, and a connection which is tried by a
timer again and again is made; faults are never fair. `DaemonRequests`: the
worker's thread runs, and cluckd decides on every request and takes a lock back
when its duration is over, which is its contract. `Wire`: a socket which is
ready is served, and a `send_message()` which started ends; nobody has to send
or to connect.

## Mutants

Every property of a passing run has an operator `Name_Fault`, defined before
`Name`, which is `Name` with a plausible mistake: an end marker or an append
position off by one, a flush left out, a counter not increased or not reset, a
map not updated, a bound not checked, an old read buffer kept, a level of the
grammar skipped, a carry lost. Putting it in the place of `Name` must make TLC
report that property violated; `PROJECT.json` pairs them.

## Findings

Three runs end with a violation, each a disagreement between the code and what
its comments say:

- `torn`: a kill inside of the write of an event, over the bytes of an older one,
  leaves an event which the next load offers with the data of the older one. The
  TODO of `write_new_event()` says so of a partial write. In the same
  configuration `FilesKeepLedger` is violated.
- `killed`: a kill during the compression of a file loses saved events.
- `nolist`: a client which registers after the first list of contexts never
  gets one, since the proxy drops an answer equal to the list it has.

Further disagreements, with the configuration which shows each. Where the
configuration is one of a passing run, put the property in the place of its
`INVARIANTS` and `PROPERTIES`.

| Property | Configuration | The code |
|---|---|---|
| `IndexIsPersisted` | `MCJournal_noinline.cfg` | accepts an event without inline data, which the next load takes for damage |
| `IndexIsPersisted` | `MCJournal_fullsync.cfg` | calls `fsync()` without `flush()` |
| `FinishedIsGone` | `MCJournal_returns.cfg` | leaves the old copy of a moved event, which comes back after a restart |
| `CountIsExact` | `MCJournal_returns.cfg`, with this property in place of its own | counts the old copy of a moved event, so that the file refuses events too early |
| `CurrentFileExists` | `MCJournal_shrink.cfg` | asks for a file past the reduced number of files |
| `RegisteredIsAcknowledged` | `Registration_connect.cfg` | counts a client as registered before the REG of its new connection is acknowledged |
| `LateClientConnects` | `Registration_connect.cfg` | never answers the query of a client which starts after the proxy |
| `ListAfterReconnect` | `Registration_connect.cfg` | leaves a client which was cut off with an old list |
| `RefusedIsDropped` | `Registration_connect.cfg` | keeps the connection of a client it refused |
| `VersionIsCompared` | `Registration_connect.cfg` | never reads the protocol version of the other side |
| `RegisteringExists` | `DaemonRequests_requests.cfg` | throws when a client is gone before its REG is handled |
| `ErrorIsReplied` | `DaemonRequests_malformed.cfg` | ends its only worker on a malformed name |
| `SharingEndsWell` | `DaemonRequests_requests.cfg` | cannot create a context message: its setters refuse the types of the fields, and the cluster lock stays until it times out |
| `ContextsSurvive` | `DaemonRequests_requests.cfg` | does not start with contexts on disk |
| `OneSide` | `MCNetwork_sides.cfg` | compares the listening address of the other daemon with its own address at communicatord: both may connect |
| `OneConnection` | `MCNetwork.cfg` | makes a new `node_client` for every status message |
| `CompleteNetwork` | `MCNetwork.cfg` | never adds a `node_client` to the communicator |
| `MessagesAreWhole` | `MCNetwork_threads.cfg` | mixes the messages of two threads |
| `DataIsChecked` | `MCNetwork.cfg` | does not check the CRC of the data |
| `FailureTurnsOffOneConnection` | `MCNetwork.cfg` | stops the process when one connection is silent |
| `ScriptKeepsGrouping` | `MCPbql.cfg` | writes scripts without the parentheses |
| `CommentsNest` | `MCPbql_comments.cfg` | does not close an empty comment inside of a comment |
| `CapturedIsAlone` | `MCPbql.cfg` | executes the commands before one of the console and drops the rest |
| `QuitIsAccepted` | `MCPbql_quit.cfg` | ends the session on a QUIT which it refused |
| `ScriptsDoNotCrash` | `MCPbql.cfg` | writes to a console which a script does not have |
| `ClausesAreAccepted` | `MCPbql_clauses.cfg` | cannot parse ORDER BY, LIMIT and a second table |
| `ImplementsBytes` | `MCData_block.cfg` | writes to a block at another offset than it reads |
| `OffsetsMatchBuffer` | `MCData_nested.cfg` | adds an item of a nested array at the end of the buffer |
| `FieldsKeepValues` | `MCData_twoflags.cfg` | changes the flags of another structure |
| `ShiftKeepsSign`, `SignedDivisionIsExact` | `MCData.cfg` | loses the sign in long shifts and in divisions |
| `RefusesTooLarge` | `MCData.cfg` | takes 2^63 for a signed 64 bit number |
| `ConvertsWhatFits` | `MCData.cfg` | cannot convert cells of times, versions and large unsigned numbers |

## Proofs

TLC checks small instances; the theorems hold for every value of the
constants: any number of files, events, identifiers, clients, nodes, daemons,
messages and bytes. Each module with constants names what it assumes of them
(`JournalAssumption`, `RegistrationAssumption`, `DaemonRequestsAssumption`,
`ClusterAssumption`, `WireAssumption`, `PingPongAssumption`,
`LexerAssumption`): sizes and bounds are numbers, a header is not empty, an
identifier read from garbage is not a client's, a text is a sequence. TLC evaluates them in the runs. A theorem which needs more says so
in an `ASSUME` of its own, and that condition is explained below.

The proofs use SMT, Zenon and, for the temporal steps, LS4.

### The index of the journal: `JournalProofs`

| Theorem | States |
|---|---|
| `TypeCorrect` | `Spec => []TypeOK` |
| `IndexCorrect` | `Spec => []IndexMatchesFiles`: a location points at its event |
| `EventsStayDisjoint` | `Spec => []EventsDisjoint` |
| `AppendNeverOverwrites` | `Spec => []AppendIsPastEvents` |
| `ScanStaysInBounds` | `Spec => []ScanInBounds` |
| `IndexInvariantHolds` | `Spec => []IndexInvariant`, their conjunction |

These hold with compression, buffered writes, cut writes and kills.

None of the five is inductive alone. That a status update or a new event
leaves the other events' bytes alone (`IndexMatchesFiles`) needs them disjoint
and below the append position; that an append position computed by a
compression is past all events needs to know where the load stands, that the
file is the one it reads, and that it writes below where it reads
(`ScanInBounds`); that destroying a file object harms no event needs that the
file of every location is open and that the truncation is at an append
position past its events. Their conjunction `IndexInvariant` is inductive, and
TLC checks its parts other than the types in the run `compress`.

The argument: lemmas about `WriteCells`, `Resize` and `Truncate` say which
cells they keep; `KeptStep` concludes that a step which keeps the cells of the
indexed events and moves append positions up keeps the invariant;
`IndexExtended` adds one location past all others; `ScanExtendStep` does both
for a load. One lemma per action derives its case from these, and the theorem
combines them.

### The files of the journal: `JournalRecoveryProofs`

| Theorem | States |
|---|---|
| `FileInvariantHolds` | `Spec => [](IndexInvariant /\ FileInv)` |
| `ReplayIsExact` | `Spec => []IndexIsPersisted`: the index is what a load would find |
| `BothMapsAgree` | `Spec => []ReplayAgrees` |
| `CountsAreExact` | `Spec => []CountIsExact` |
| `AttachmentsStay` | `Spec => []AttachmentsIntact` |
| `FinishedStaysGone` | `Spec => FinishedIsGone` |
| `LoadLosesNothing` | `Spec => LoadKeepsEvents` |
| `JournalKeepsLedger` | `Spec => FilesKeepLedger`: the journal implements `EventLedger` |
| `RestartsKeepEvents` | `Spec => RestartKeepsEvents`, with cut writes and kills inside of writes |
| `LoadsFindEvents` | `Spec => LoadFindsEvents`, with the same |
| `CountersCover` | `Spec => []CountCovers`, with no further assumption |
| `PathsHold` | `Spec => [](IndexInvariant /\ PathInv)`, with inline data |
| `CompressionLosesNothing` | `Spec => CompressLosesNothing`, with inline data |

All down to `JournalKeepsLedger` assume `Dependable`: writes are flushed, events
have inline data, files are not compressed and no write is cut short
(`MaxFaults = 0`); the process may still be killed between any two steps, and
restarted. These are the conditions of the run `recovery`. The code keeps its
promise under no weaker ones: without flushes, `MCJournal_fullsync.cfg` violates
`IndexIsPersisted`; without inline data, `MCJournal_noinline.cfg` does; with
compression, `MCJournal_returns.cfg` violates `FinishedIsGone`, and with a kill
inside of it, the run `killed`; with a kill inside of the write of an event, the
run `torn` violates `AttachmentsIntact` and the ledger (see
[Findings](#findings)).

`IndexIsPersisted` compares the index with the walk of a load over the bytes.
It is not inductive, since a step changes bytes in the middle of a file and
the walk has to find its way past them. `FileInv` says why it does: a file is
a row of whole events from its header up to an end (`Tiled`), behind which
nothing can be read as a pending event; the pending ones are exactly those of
the index, apart from the ones which a load in progress has not reached; no
two have one identifier; the counter of an open file is the number of its
pending events; a load stands at the start of an event or behind the last;
it has opened no file which it has yet to read; the kernel's image is the
process's one. TLC checked `FileInv` on the states of the run `recovery` before
it was proved.

The walk is a recursive function over offsets. `WalkEquation` proves that the
function which the recursion describes exists, from an explicit witness (the
events at the offsets which a walk from an offset reaches), so that what the
walk returns for a row needs no induction over the file. `SameEvents`, `EventAdded`,
`EventAdvanced` and `EventEnded` classify what a step does to the pending
events; each action is shown to be one of them, each of them to keep `FileInv`
and, in `LedgerStep`, to be a step or a stutter of `EventLedger`.

**Kills inside of a write.** `RestartsKeepEvents` and `LoadsFindEvents` drop the
condition on faults (`FlushedOnly` is the rest of `Dependable`): a write may fail
half way or the process be killed after any of its cells, over whatever older
events left there. The file then is no row of events any more. `KillInv` says
what is left: what the kernel has agrees with what the process sees up to the
end of each event of the index, the two are the same while a load runs, and the
load has opened no file which it has still to read. With `PathInv` (below) every
event of the index is where a load comes to, and a write which is cut short is
behind them all, since the append position is (`AppendIsPastEvents`).

**Counters.** `CountInv`, that the counter of a file covers its pending events,
is inductive with `IndexInvariant`: an event is counted whenever a location is
added, uncounted when one location is removed, and a counter is set to zero only
when the file has no location.

**Compression.** The last two theorems hold with compression, all three sync
modes and file managements, cut writes and kills; they assume only that events
have inline data (`0 \notin DataSizes`), since a load takes an event without
any for the end of its file (`MCJournal_noinline.cfg`). With compression a
file is no row of events any more: behind the last event which moved up are
cut events and old copies, some of which read as pending. What remains true is
about the offsets which a load from the header comes to, the path of the file
(`OnPath`: every set of offsets which holds the first event, and with each
event the one behind it, holds the offset). `PathInv` says that the events of
the index are on the paths of their files, that a file grows on its path (so
that a new event is found) and that the place where a load reads, or writes
once it moves events, is on it. `CompressLosesNothing` alone is not
inductive: when `add_event()` clears the index and starts the load, that the
events of the index are ahead of the load is `PathInv`.

`PathPrefix` says that a path depends on the cells before an offset alone,
`WalkSuffix` that what a load still finds depends on the cells from there on
alone; a moved event is written between the two. `PathChain` turns an event
which a load finds into an offset on the path. `TruncateFinds` and
`TruncateKeepsIndexed` say that a file object which is destroyed during a load
cuts off no event on the path before its append position. What is cut off
behind it, the old copies, was nobody's event any more: `Unread` therefore
counts a file ahead of the load as it is once its object is destroyed
(`AtClose`). TLC found that counting the bytes as they are is wrong: with two
files and the management `keep` such a copy is counted, and then cut off.
TLC checked `PathInv` on the instance of `compress` before it was proved.

### The network

| Module | Theorem | States |
|---|---|---|
| `RegistrationProofs` | `TypeCorrect` | `Spec => []TypeOK` |
| | `ListenerFollowsGatesHolds` | `Spec => []ListenerFollowsGates` |
| | `LiveIsReferencedHolds` | `Spec => []LiveIsReferenced` |
| | `BroadcastReachesHolds` | `Spec => []BroadcastReaches` |
| | `ListNeverOlderHolds` | `Spec => ListNeverOlder`, with one daemon |
| `DaemonRequestsProofs` | `TypeCorrect` | `Spec => []TypeOK` |
| | `AnsweredOnceHolds` | `Spec => []AnsweredOnce` |
| | `SavedIsOnDiskHolds` | `Spec => []SavedIsOnDisk` |
| | `VersionsByOneHolds` | `Spec => VersionsByOne` |
| `ClusterProofs` | `TypeCorrect` | `Spec => []TypeOK` |
| | `MetWhenSettledHolds` | `Spec => []MetWhenSettled` |
| `PingPongProofs` | `GivesUpOnlyOnSilenceHolds` | `PingSpec => []GivesUpOnlyOnSilence` |
| | `SerialsIdentifyHolds` | `PingSpec => []SerialsIdentify`, with enough numbers |
| `WireProofs` | `StreamIsFramed` | `WireSpec => []WireInv`, with one thread |
| | `MessagesStayWhole` | `WireSpec => []MessagesAreWhole`, with one thread |
| | `ResyncLosesNoOther` | `WireSpec => []ResyncLosesOnlyDamaged`, with one thread |
| | `ConnectionIsFifo` | `WireSpec => Fifo!FifoSafety`, with one thread |

`Registration`. That a live client is one of the proxy's references, and that
its list is the proxy's once nothing is on the way, depends on which
connection an event belongs to, since an old one may end after the next was
accepted. `LinkInv` says, per client, what the number of the connection, the
acknowledgments it expects, the queue to it and its list have to do with each
other: the last list in the queue is the proxy's, and if there is none the
client has it. `ListNeverOlder` follows from an order along the way
(`Chain`): the daemon's list is at least as new as any list on its way to the
proxy, each of these as any on the way to the client, and each of those as the
client's. Two daemons may know different lists, and the proxy takes the
list of either, so that this order, and the theorem, are about one daemon
(`OneDaemon`, as in the run `connect`).

`DaemonRequests`. A request is answered once because it is in one place:
in the FIFO, once, or with cluckd, or done (`OnePlace`), and because its stage
tells which answers it got (`StageTellsAnswers`). What was acknowledged is on
disk because memory and disk agree while the daemon runs (`MemoryIsDisk`), the
change which is saved and not acknowledged is that of the payload at the head of
the FIFO (`SavingIsTaken`), and the file of a context has the acknowledged
changes and that one (`DiskIsSaved`). A daemon killed in between leaves one
change more than was acknowledged, and only one, since it does not start again
with a context on disk (`ContextsSurvive` of the findings). The
conjunction, `DaemonInv`, is inductive; disconnections, restarts, and locks
which expire before they are used are among its steps.

`Cluster`. That two daemons which have handled their mail have met is inductive
with what is in the mail before: of two daemons which listen, the one which is
to connect has a reference of the other, or the status of the other is on its
way to it, or its own query on its way to the other (`MetInv`); and a daemon
which listens is one communicatord delivers to. Which one is to connect depends
on the two addresses of each, about which nothing is assumed.

`PingPong`. The code's counter of failures is at most the number of ticks in
silence (`FailuresAreSilence`). For the serial numbers, which wrap around, the
age of a number is the number of messages made since; every number on its way or
awaited is younger than the number of messages so far, so that a new one is not
among them (`SerialInv`). Once all numbers were used, a PONG which is that
late could be taken for another, so that the theorem assumes fewer messages than
numbers (`NoMoreMessagesThanNumbers`; the code has 2^32 - 1 of them, TLC's
instance 15, which start before the wrap).

`Wire`. The bytes read and not yet delivered, those in the socket, the output
buffer and the data which `send_message()` has still to write are one
`Stream`. Writes and reads only move the boundaries in it, so that `WireInv`
speaks of the stream: any two of its bytes are in the order of their messages
and offsets, with nothing missing between them (`Framed`), a damaged header is
that of a spoiled message (`Marked`), the first byte of a message which is
neither spoiled nor delivered is still ahead of the reader (`Ahead`), and the reader's state is what its buffers say
(`Reading`). Since the conditions relate any two bytes, none is defined by
recursion over the stream and the proof needs no induction. TLC checked
`WireInv` on the instance of `network` first. `OneThread` is needed:
`MCNetwork_threads.cfg` has a second thread, which mixes its header with the
other's data.

`ConnectionIsFifo` is the refinement without its fairness. The queue is the
sequence which sorts the waiting messages; `Sorts` says what that means
without computing it, sorted sequences of one set are equal, and there are
lemmas for a set with one more (the newest), without its least, and without
any other element (`SortsMore`, `SortsTail`, `SortsWithout`). A message is
delivered as the head of the queue because all bytes which the reader holds
for it are its own (`OwnBytes`, part of `FifoInv`) and by `Framed` and `Ahead`
nothing older is left in the stream. Each action then is one of the abstract
ones or a stutter: the first `write()` of `send_message()` sends, the read
which completes a message is its arrival, a damaged header loses at most one
message, the end of a connection loses all, and everything else, the search
for a header included, changes nothing.

### PBQL

| Theorem of `PbqlProofs` | States |
|---|---|
| `TransactionsBracketed` | `ConsoleSpec => []TransactionsAreBracketed` |
| `OperatorsLongest` | `LexerSpec => []OperatorsAreLongest` |

They hold for lines and texts of any length.

Transactions. The code looks for the last transaction command of the list
only; that this is enough is `BracketedAt`, which speaks of one command and
those before it: a command which is added changes it for none of the others
(`BracketedKept`), and `LastIsLast` makes it true of the new one. `ListInv`
is this for every command of the list.

Operators. The invariant `LexInv` says at each step what the property says at
the end: the tokens which were read, and those of `LongestTokens` from `at` on,
together are the tokens of the whole text, and no error occurs. `SkipBlanks` is a
loop and `LongestTokens` a recursive function; both are proved to exist and to
satisfy their equations by induction over a set of numbers (`SetInduction`),
with the function written down where that is possible (`SkipPlain`) and
extended one place at a time where it is not (`LongestTokensExist`). That one
token is right is `TokenIsLongest`, by cases on the first two characters.

## What is not covered

Only model-checked:

- liveness (`LoadEnds`, `LearnsThenRegisters`, `EveryRequestAnswered`,
  `AllMeet` and the liveness part of `ImplementsFifo`), which the prover does
  not handle;
- `ImplementsBytes` of `VirtualBuffer`, whose calls fold over a sequence of
  pieces;
- `Expression`, `Structure`, `BigInt` and `Convert`, which are recursive
  operators, bit operations and folds: what they compute for every input is an
  induction over data, which the installed provers cannot do;
- of `Lexer`, comments, strings and numbers, which no property of a passing run
  is about.

Not modelled in the modelled parts: the replay iterators and `read_data()` of
the journal, the separate files of large attachments, the comparison of event
times with the clock, errors of the operating system other than attachments
which cannot be read (among them the failure of the stream at
`journal.cpp:1393-1404`, whose bytes the model has as those of a cut write), and
a power failure; the load average and the REST-like
status messages of the proxy; data races inside of a container (the worker and
the communicator share `f_connection_references`), since a stage is one step;
floating point numbers, nanoseconds and size suffixes of the conversions;
layout and colours of the console.

Not modelled because the code cannot run at this commit: acknowledgments
between daemons and the stages after them, as said above; tables, rows,
cursors, blocks, indexes, the free space allocator and database files. The
constructor of a table dereferences a schema which is not set yet
(`table.cpp:341`); nothing calls `dbfile::set_table()` or `set_page_size()`
(`context.cpp:459-460` are comments); `dbfile::open_file()` sets fields which
`file_table` does not describe and so throws; `row::generate_mumur3()` always
throws (`row.cpp:406`); `row_update()` is empty (`table.cpp:1249`);
`release_space()` refuses the references which `get_free_space()` returns. A
model of them would be a model of intentions.

Not modelled because they keep no state of their own: the plugin, the tools,
hash functions, the reading of schemas from XML.

## Plan

Left are the refinement of `ByteSequence` by `VirtualBuffer`, for which the
calls would have to be stated without a fold over the pieces, and a module
`JournalReplay` for the two iterators of the journal next to updates and
reloads.
