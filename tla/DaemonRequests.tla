--------------------------- MODULE DaemonRequests ---------------------------
(***************************************************************************)
(* How a daemon answers requests: the communicator's thread turns every    *)
(* message into a payload and pushes it to the FIFO of the worker; the     *)
(* worker runs one stage of a payload; set_context() waits for a cluster   *)
(* lock between its first two stages and sends the context to the other    *)
(* nodes in its third, which always throws when there is another node.     *)
(* What comes after it (acknowledgments of nodes, stages 3 and 4) cannot   *)
(* happen.                                                                 *)
(*                                                                         *)
(* Modelled: daemon/prinbeed.cpp, daemon/prinbeed_context.cpp,             *)
(* daemon/prinbee_worker.cpp, daemon/worker_pool.cpp, the listeners and    *)
(* prinbee/database/context_manager.cpp with context::update().  cluckd is *)
(* external: it grants a free lock, gives up on a request, or takes a lock *)
(* back when its minute is over, at any time.                              *)
(***************************************************************************)
EXTENDS Integers, Sequences, FiniteSets

CONSTANTS
    Clients,        \* connections of proxies and direct clients
    Nodes,          \* node_client objects: references to other daemons
    Names,          \* valid context names, in canonical form
    Refused,        \* names for which set_name() throws invalid_parameter
    Malformed,      \* names for which set_name() throws invalid_name
    MaxVersion,     \* bound: schema versions requested
    MaxRequests,    \* bound: payloads created
    Faults          \* whether clients disconnect and the daemon restarts

ASSUME DaemonRequestsAssumption ==
    /\ MaxVersion \in Nat /\ MaxRequests \in Nat /\ Faults \in BOOLEAN
    /\ Clients \intersect Nodes = {}

VARIABLES
    refs,           \* f_connection_references
    payloads,       \* every payload made, in order; an index is its identity
    fifo,           \* payloads waiting for the worker
    running,        \* the worker thread is alive
    up,             \* the daemon is running
    answers,        \* messages sent back to the peer of each payload
    waiting,        \* payloads whose lock is requested
    holder,         \* payload which holds the lock of a context, 0 when free
    contexts,       \* schema version of the contexts in memory, 0 when absent
    files,          \* schema version in the context.pb files, 0 when absent
    saving          \* payload whose change is saved and not acknowledged yet, or 0

lockVars == <<waiting, holder>>
dataVars == <<contexts, files, saving>>
vars == <<refs, payloads, fifo, running, up, answers, lockVars, dataVars>>

Requests == {"REG", "LCTX", "GCTX", "SCTX"}
Ids == 1..Len(payloads)
AllNames == Names \union Refused \union Malformed

Payloads ==
    [peer : Clients, kind : Requests, name : AllNames \union {""}, ver : 0..MaxVersion, stage : 0..3]
Replies == {"ACK", "ERR", "LIST", "CTX", "RECEIVED", "SAVED"}

TypeOK ==
    /\ refs \subseteq Clients \union Nodes
    /\ payloads \in Seq(Payloads) /\ Len(payloads) <= MaxRequests
    /\ fifo \in Seq(Ids)
    /\ running \in BOOLEAN /\ up \in BOOLEAN
    /\ answers \in Seq(Seq(Replies)) /\ Len(answers) = Len(payloads)
    /\ waiting \subseteq Ids
    /\ holder \in [Names -> {0} \union Ids]
    /\ contexts \in [Names -> 0..MaxVersion] /\ files \in [Names -> 0..MaxVersion]
    /\ saving \in {0} \union Ids

Init ==
    /\ refs = {}
    /\ payloads = <<>> /\ fifo = <<>> /\ answers = <<>>
    /\ running = TRUE /\ up = TRUE
    /\ waiting = {}
    /\ holder = [n \in Names |-> 0]
    /\ contexts = [n \in Names |-> 0] /\ files = [n \in Names |-> 0]
    /\ saving = 0

-----------------------------------------------------------------------------
(* The communicator's thread                                               *)

\* process_new_connection() of the listeners, connect_to_node()
Accept(c) ==
    /\ up /\ c \notin refs
    /\ refs' = refs \union {c}
    /\ UNCHANGED <<payloads, fifo, running, up, answers, lockVars, dataVars>>

\* msg_process_payload(): a copy of the message is pushed to the worker
ProcessPayload(p) ==
    /\ Len(payloads) < MaxRequests
    /\ payloads' = Append(payloads, p)
    /\ answers' = Append(answers, <<>>)
    /\ fifo' = Append(fifo, Len(payloads'))

Payload(c, kind, name, ver) ==
    [peer |-> c, kind |-> kind, name |-> name, ver |-> ver, stage |-> 0]

Send(c) ==
    /\ up /\ c \in refs \intersect Clients
    /\ \/ \E kind \in {"REG", "LCTX"} : ProcessPayload(Payload(c, kind, "", 0))
       \/ \E n \in AllNames : ProcessPayload(Payload(c, "GCTX", n, 0))
       \/ \E n \in AllNames, v \in 1..MaxVersion : ProcessPayload(Payload(c, "SCTX", n, v))
    /\ UNCHANGED <<refs, running, up, lockVars, dataVars>>

\* client_disconnected(): payloads of the client stay in the FIFO
ClientDisconnected(c) ==
    /\ Faults /\ up /\ c \in refs \intersect Clients
    /\ refs' = refs \ {c}
    /\ UNCHANGED <<payloads, fifo, running, up, answers, lockVars, dataVars>>

ProcessFailedLock_Silent(i) ==
    /\ up /\ i \in waiting
    /\ waiting' = waiting \ {i}
    /\ UNCHANGED <<refs, payloads, fifo, running, up, answers, holder, dataVars>>

\* process_failed_lock(): cluckd gave up
ProcessFailedLock(i) ==
    /\ up /\ i \in waiting
    /\ waiting' = waiting \ {i}
    /\ answers' = [answers EXCEPT ![i] = Append(@, "ERR")]
    /\ UNCHANGED <<refs, payloads, fifo, running, up, holder, dataVars>>

\* process_obtained_lock(): cluckd granted the lock
ProcessObtainedLock(i) ==
    /\ up /\ i \in waiting /\ holder[payloads[i].name] = 0
    /\ waiting' = waiting \ {i}
    /\ holder' = [holder EXCEPT ![payloads[i].name] = i]
    /\ fifo' = Append(fifo, i)
    /\ UNCHANGED <<refs, payloads, running, up, answers, dataVars>>

\* the duration of a lock is over
LockExpires(n) ==
    /\ holder[n] # 0
    /\ holder' = [holder EXCEPT ![n] = 0]
    /\ UNCHANGED <<refs, payloads, fifo, running, up, answers, waiting, dataVars>>

\* The daemon is killed and started again.  load_contexts() passes the path of
\* each context.pb to create_context(), which refuses an absolute path, so that
\* the daemon does not start once it has a context.
Restart ==
    /\ Faults /\ up
    /\ up' = (\A n \in Names : files[n] = 0)
    /\ contexts' = [n \in Names |-> 0]
    /\ refs' = {} /\ fifo' = <<>> /\ running' = TRUE
    /\ waiting' = {} /\ saving' = 0
    /\ UNCHANGED <<payloads, answers, holder, files>>

-----------------------------------------------------------------------------
(* The worker                                                              *)

Reply(i, m) == answers' = [answers EXCEPT ![i] = Append(@, m)]
Done == fifo' = Tail(fifo)

\* register_client(): a client which is gone makes it throw, which ends the
\* thread; the time of the client may differ by 10 ms or more
RegisterClient(i) ==
    /\ payloads[i].kind = "REG"
    /\ Done
    /\ \/ Reply(i, "ERR") /\ UNCHANGED running
       \/ /\ payloads[i].peer \in refs
          /\ Reply(i, "ACK") /\ UNCHANGED running
       \/ /\ payloads[i].peer \notin refs
          /\ running' = FALSE /\ UNCHANGED answers
    /\ UNCHANGED <<payloads, lockVars, dataVars>>

\* list_contexts()
ListContexts(i) ==
    /\ payloads[i].kind = "LCTX"
    /\ Done /\ Reply(i, "LIST")
    /\ UNCHANGED <<payloads, running, lockVars, dataVars>>

\* g_context_description, the fields set by create_context_message(), and the
\* types which the setter used for each of them accepts
FieldType == [context_name |-> "P8STRING", description |-> "P32STRING",
              schema_version |-> "UINT32", context_id |-> "UINT32"]
SetInteger == {"INT8", "INT16", "INT32", "INT64", "TIME", "MSTIME", "USTIME"}
SetString == {"CHAR", "P8STRING", "P16STRING", "P32STRING"}
SetterAccepts == [context_name |-> SetString, description |-> SetString,
                  schema_version |-> SetInteger, context_id |-> SetInteger]

\* create_context_message(): a setter throws type_mismatch for other types
CanCreateContextMessage ==
    \A f \in DOMAIN FieldType : FieldType[f] \in SetterAccepts[f]

\* get_context(): the name is looked up as it came; an exception ends the worker
GetContext(i) ==
    /\ payloads[i].kind = "GCTX"
    /\ Done
    /\ LET found == payloads[i].name \in Names /\ contexts[payloads[i].name] # 0
       IN IF found /\ ~CanCreateContextMessage
          THEN running' = FALSE /\ UNCHANGED answers
          ELSE Reply(i, IF found THEN "CTX" ELSE "ERR") /\ UNCHANGED running
    /\ UNCHANGED <<payloads, lockVars, dataVars>>

\* set_context(), a name which set_name() refuses
SetContextName(i) ==
    /\ payloads[i].kind = "SCTX" /\ payloads[i].name \notin Names
    /\ Done
    /\ IF payloads[i].name \in Refused
       THEN Reply(i, "ERR") /\ UNCHANGED running
       ELSE running' = FALSE /\ UNCHANGED answers
    /\ UNCHANGED <<payloads, lockVars, dataVars>>

Stage(i, s) == payloads[i].kind = "SCTX" /\ payloads[i].name \in Names /\ payloads[i].stage = s

\* stage 0: received, ask for the lock
SetContextReceive(i) ==
    /\ Stage(i, 0)
    /\ Done /\ Reply(i, "RECEIVED")
    /\ payloads' = [payloads EXCEPT ![i].stage = 1]
    /\ waiting' = waiting \union {i}
    /\ UNCHANGED <<running, holder, dataVars>>

Update_AnyVersion(n, v) == IF contexts[n] = 0 THEN 1 ELSE v

\* the version a context has after a request for version v: a new one starts
\* at 1, an existing one only takes the next version
Update(n, v) ==
    IF contexts[n] = 0 THEN 1 ELSE IF v = contexts[n] + 1 THEN v ELSE 0

SaveContext_Later(n, v) ==
    contexts' = [contexts EXCEPT ![n] = v] /\ UNCHANGED files

\* context::update() ends with save_context()
SaveContext(n, v) ==
    contexts' = [contexts EXCEPT ![n] = v] /\ files' = [files EXCEPT ![n] = v]

\* stage 1: with the lock, change the context; the version must be the next
\* one, and the lock is kept when it is not
SetContextChange(i) ==
    /\ Stage(i, 1) /\ saving = 0
    /\ LET p == payloads[i]
           v == Update(p.name, p.ver)
       IN IF v = 0
          THEN /\ Done /\ Reply(i, "ERR")
               /\ UNCHANGED dataVars
          ELSE /\ SaveContext(p.name, v)
               /\ saving' = i
               /\ UNCHANGED <<fifo, answers>>
    /\ UNCHANGED <<payloads, running, lockVars>>

SetContextSaved_SameStage(i) ==
    /\ Stage(i, 1) /\ saving = i
    /\ Reply(i, "SAVED")
    /\ fifo' = Append(Tail(fifo), i)
    /\ saving' = 0
    /\ UNCHANGED <<payloads, running, lockVars, contexts, files>>

\* the end of stage 1: the change is in the file
SetContextSaved(i) ==
    /\ Stage(i, 1) /\ saving = i
    /\ Reply(i, "SAVED")
    /\ payloads' = [payloads EXCEPT ![i].stage = 2]
    /\ fifo' = Append(Tail(fifo), i)
    /\ saving' = 0
    /\ UNCHANGED <<running, lockVars, contexts, files>>

\* stage 2: send the context to every node; the stage is set before the loop
SetContextShare(i) ==
    /\ Stage(i, 2)
    /\ Done
    /\ payloads' = [payloads EXCEPT ![i].stage = 3]
    /\ running' = (refs \intersect Nodes = {} \/ CanCreateContextMessage)
    /\ UNCHANGED <<answers, lockVars, dataVars>>

\* do_work() for the next payload; stage 1 of set_context() is two steps, between
\* which the daemon can be killed
Work ==
    /\ up /\ running /\ fifo # <<>>
    /\ LET i == Head(fifo)
       IN \/ RegisterClient(i) \/ ListContexts(i) \/ GetContext(i) \/ SetContextName(i)
          \/ SetContextReceive(i) \/ SetContextChange(i) \/ SetContextSaved(i)
          \/ SetContextShare(i)
    /\ UNCHANGED <<refs, up>>

Cluck(i) == ProcessFailedLock(i) \/ ProcessObtainedLock(i)

Next ==
    \/ \E c \in Clients \union Nodes : Accept(c) \/ Send(c) \/ ClientDisconnected(c)
    \/ \E i \in Ids : Cluck(i)
    \/ \E n \in Names : LockExpires(n)
    \/ Restart
    \/ Work

\* the worker runs, and cluckd decides on every request and keeps no lock longer
\* than its duration
Fairness ==
    /\ WF_vars(Work)
    /\ \A i \in 1..MaxRequests : WF_vars(i \in Ids /\ Cluck(i))
    /\ \A n \in Names : WF_vars(LockExpires(n))

Spec == Init /\ [][Next]_vars /\ Fairness

-----------------------------------------------------------------------------
(* Properties                                                              *)

Final == {"ACK", "ERR", "LIST", "CTX", "SAVED"}

\* A payload which waits for the lock or has it is not answered yet, and a
\* request has at most one final answer, however often the payload goes through
\* the FIFO, cluckd and the acknowledgments.
AnsweredOnce ==
    \A i \in Ids :
        /\ \A j, k \in DOMAIN answers[i] : {answers[i][j], answers[i][k]} \subseteq Final => j = k
        /\ i \in waiting => answers[i] = <<"RECEIVED">>

\* Of two clients which change the same version of a context one gets an error:
\* the version of a context grows by one with every change, even when a lock
\* expired before the worker used it.
VersionsByOne ==
    [][\A n \in Names : contexts'[n] \in {0, contexts[n], contexts[n] + 1}]_vars

\* What clients were told is saved is in the file, and nothing else but the one
\* change the worker has not acknowledged, or was killed before it could: a file
\* has as many versions as there were changes acknowledged with SAVED, or one more.
Saved(n) == {i \in Ids : payloads[i].kind = "SCTX" /\ payloads[i].name = n /\ payloads[i].stage >= 2}
SavedIsOnDisk == \A n \in Names : files[n] - Cardinality(Saved(n)) \in {0, 1}

\* Every request is answered in the end, whatever cluckd does with its lock and
\* though nobody releases it, unless an exception ends the worker.
EveryRequestAnswered ==
    \A i \in 1..MaxRequests :
        (i \in Ids /\ payloads[i].kind \in Requests)
            ~> ~running \/ (i \in Ids /\ \E k \in DOMAIN answers[i] : answers[i][k] \in Final)

\* register_client() says that the connection "is registering itself, so it must
\* exist in the list of registered connections".
RegisteringExists ==
    running /\ fifo # <<>> /\ payloads[Head(fifo)].kind = "REG"
        => payloads[Head(fifo)].peer \in refs

\* "If an error occurs, the reply will be an ERR (error) instead": a request
\* the worker is done with was answered.
ErrorIsReplied ==
    \A i \in Ids : (\A k \in DOMAIN fifo : fifo[k] # i) /\ i \notin waiting
        => \/ answers[i] # <<>>
           \/ payloads[i].peer \notin refs

\* "next make sure that all the other nodes are also updated with the same
\* changes": the stage which does so ends without an exception.
SharingEndsWell ==
    [][\A i \in Ids : payloads[i].stage = 2 /\ payloads'[i].stage = 3 => running']_vars

\* load_contexts() "searches for all the contexts defined on this computer":
\* a daemon which starts again has its contexts.
ContextsSurvive == \A n \in Names : files[n] # 0 => contexts[n] = files[n]
=============================================================================
