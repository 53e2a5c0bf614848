------------------------ MODULE DaemonRequestsProofs ------------------------
(***************************************************************************)
(* Proofs about DaemonRequests, for any clients, nodes and context names   *)
(* and any number of requests: types, one final answer per request, one    *)
(* version per change, and changes acknowledged as saved are on disk.      *)
(***************************************************************************)
EXTENDS DaemonRequests, FiniteSetTheorems, SequenceTheorems, TLAPS

(***************************************************************************)
(* Sequences whose elements differ, as the FIFO of the worker.             *)
(***************************************************************************)

Distinct(s) == \A j, k \in DOMAIN s : s[j] = s[k] => j = k
Elements(s) == {s[k] : k \in DOMAIN s}

\* The first element of such a sequence is not in the others.
LEMMA DistinctTail ==
    ASSUME NEW S, NEW s \in Seq(S), s # <<>>, Distinct(s)
    PROVE  /\ Tail(s) \in Seq(S) /\ Distinct(Tail(s))
           /\ Head(s) \in Elements(s) /\ Head(s) \in S
           /\ Elements(Tail(s)) = Elements(s) \ {Head(s)}
  <1>1. Len(s) \in Nat /\ Len(s) >= 1 /\ DOMAIN s = 1 .. Len(s)
    BY EmptySeq, LenProperties
  <1>2. /\ Tail(s) \in Seq(S) /\ Len(Tail(s)) = Len(s) - 1
        /\ \A k \in 1 .. (Len(s) - 1) : Tail(s)[k] = s[k + 1]
    BY HeadTailProperties
  <1>3. DOMAIN Tail(s) = 1 .. (Len(s) - 1)
    BY <1>2, LenProperties
  <1>4. Head(s) = s[1] /\ 1 \in DOMAIN s
    BY <1>1
  <1>5. Distinct(Tail(s))
    BY <1>1, <1>2, <1>3 DEF Distinct
  <1>6. ASSUME NEW k \in DOMAIN s, k # 1
        PROVE  s[k] \in Elements(Tail(s))
    <2>1. k - 1 \in DOMAIN Tail(s) /\ Tail(s)[k - 1] = s[k]
      BY <1>1, <1>2, <1>3, <1>6
    <2>2. QED
      BY <2>1 DEF Elements
  <1>7. ASSUME NEW k \in DOMAIN Tail(s)
        PROVE  Tail(s)[k] \in Elements(s) \ {Head(s)}
    <2>1. k + 1 \in DOMAIN s /\ k + 1 # 1 /\ Tail(s)[k] = s[k + 1]
      BY <1>1, <1>2, <1>3
    <2>2. QED
      BY <1>4, <2>1 DEF Elements, Distinct
  <1>8. Elements(Tail(s)) = Elements(s) \ {Head(s)}
    <2>1. Elements(Tail(s)) \subseteq Elements(s) \ {Head(s)}
      BY <1>7 DEF Elements
    <2>2. Elements(s) \ {Head(s)} \subseteq Elements(Tail(s))
      BY <1>4, <1>6 DEF Elements
    <2>3. QED
      BY <2>1, <2>2
  <1>9. Head(s) \in Elements(s) /\ Head(s) \in S
    BY <1>1, <1>4, ElementOfSeq DEF Elements
  <1>10. QED
    BY <1>2, <1>5, <1>8, <1>9

\* A new element at the end keeps the elements different.
LEMMA DistinctAppend ==
    ASSUME NEW S, NEW s \in Seq(S), NEW x \in S, Distinct(s), x \notin Elements(s)
    PROVE  /\ Append(s, x) \in Seq(S) /\ Distinct(Append(s, x))
           /\ Elements(Append(s, x)) = Elements(s) \union {x}
  <1>1. /\ Append(s, x) \in Seq(S) /\ Len(Append(s, x)) = Len(s) + 1
        /\ \A k \in 1 .. Len(s) : Append(s, x)[k] = s[k]
        /\ Append(s, x)[Len(s) + 1] = x
    BY AppendProperties
  <1>2. /\ Len(s) \in Nat /\ DOMAIN s = 1 .. Len(s)
        /\ DOMAIN Append(s, x) = 1 .. (Len(s) + 1)
    BY <1>1, LenProperties
  <1>3. \A k \in DOMAIN Append(s, x) : k \in DOMAIN s \/ k = Len(s) + 1
    BY <1>2
  <1>4. \A k \in DOMAIN s : k \in DOMAIN Append(s, x) /\ Append(s, x)[k] = s[k]
    BY <1>1, <1>2
  <1>5. Len(s) + 1 \in DOMAIN Append(s, x)
    BY <1>2
  <1>6. Elements(Append(s, x)) = Elements(s) \union {x}
    <2> DEFINE t == Append(s, x)
    <2> HIDE DEF t
    <2>1. ASSUME NEW k \in DOMAIN t
          PROVE  t[k] \in Elements(s) \union {x}
      BY <1>1, <1>3, <1>4 DEF Elements, t
    <2>2. ASSUME NEW k \in DOMAIN s
          PROVE  s[k] \in Elements(t)
      BY <1>4 DEF Elements, t
    <2>3. x \in Elements(t)
      BY <1>1, <1>5 DEF Elements, t
    <2>4. Elements(t) = Elements(s) \union {x}
      BY <2>1, <2>2, <2>3 DEF Elements
    <2>5. QED
      BY <2>4 DEF t
  <1>7. Distinct(Append(s, x))
    BY <1>1, <1>3, <1>4 DEF Distinct, Elements
  <1>8. QED
    BY <1>1, <1>6, <1>7

\* A sequence in which one element is replaced.
LEMMA ReplacedElement ==
    ASSUME NEW S, NEW s \in Seq(S), NEW i \in 1 .. Len(s), NEW x \in S
    PROVE  /\ [s EXCEPT ![i] = x] \in Seq(S)
           /\ Len([s EXCEPT ![i] = x]) = Len(s)
           /\ [s EXCEPT ![i] = x][i] = x
           /\ \A j \in 1 .. Len(s) : j # i => [s EXCEPT ![i] = x][j] = s[j]
  <1>1. Len(s) \in Nat /\ DOMAIN s = 1 .. Len(s)
    BY LenProperties
  <1>2. \A k \in 1 .. Len(s) : s[k] \in S
    BY ElementOfSeq
  <1> DEFINE t == [s EXCEPT ![i] = x]
  <1>3. DOMAIN t = 1 .. Len(s) /\ t[i] = x /\ \A j \in 1 .. Len(s) : j # i => t[j] = s[j]
    BY <1>1
  <1>4. t = [k \in 1 .. Len(s) |-> t[k]]
    BY <1>1
  <1> HIDE DEF t
  <1>5. t \in [1 .. Len(s) -> S]
    BY <1>2, <1>3, <1>4
  <1>6. t \in Seq(S) /\ Len(t) = Len(s)
    BY <1>1, <1>3, <1>5, SeqDef, LenProperties
  <1>7. QED
    BY <1>3, <1>6 DEF t

-----------------------------------------------------------------------------
(* Types.                                                                  *)

\* The payload the worker takes is one which was made.
LEMMA HeadIsId ==
    ASSUME TypeOK, fifo # <<>>
    PROVE  Head(fifo) \in Ids /\ Tail(fifo) \in Seq(Ids)
  BY HeadTailProperties DEF TypeOK

\* A payload has its fields, and its answers are replies.
LEMMA PayloadType ==
    ASSUME TypeOK, NEW i \in Ids
    PROVE  payloads[i] \in Payloads /\ answers[i] \in Seq(Replies)
  BY ElementOfSeq DEF TypeOK, Ids

\* The fields of a payload.
LEMMA PayloadFields ==
    ASSUME NEW p \in Payloads
    PROVE  p.stage \in 0..3 /\ p.ver \in 0..MaxVersion /\ p.kind \in Requests
  <1> DEFINE N == AllNames \union {""}
  <1>1. p \in [peer : Clients, kind : Requests, name : N, ver : 0..MaxVersion, stage : 0..3]
    BY DEF Payloads
  <1> HIDE DEF N
  <1>2. QED
    BY <1>1

\* A new stage leaves the other fields of a payload alone.
LEMMA StageField ==
    ASSUME NEW p \in Payloads, NEW n, NEW q, q = [p EXCEPT !.stage = n]
    PROVE  q.stage = n /\ q.kind = p.kind /\ q.name = p.name /\ q.ver = p.ver
  <1> DEFINE N == AllNames \union {""}
  <1>1. p \in [peer : Clients, kind : Requests, name : N, ver : 0..MaxVersion, stage : 0..3]
    BY DEF Payloads
  <1> HIDE DEF N
  <1>2. QED
    BY <1>1

\* A reply keeps the types of the answers.
LEMMA ReplyType ==
    ASSUME TypeOK, NEW i \in Ids, NEW m \in Replies, Reply(i, m)
    PROVE  /\ answers' \in Seq(Seq(Replies)) /\ Len(answers') = Len(answers)
           /\ answers'[i] = Append(answers[i], m)
           /\ \A j \in Ids : j # i => answers'[j] = answers[j]
  <1>1. Append(answers[i], m) \in Seq(Replies)
    BY PayloadType, AppendProperties
  <1>2. answers' = [answers EXCEPT ![i] = Append(answers[i], m)]
    BY DEF Reply
  <1>3. answers \in Seq(Seq(Replies)) /\ i \in 1 .. Len(answers) /\ Ids = 1 .. Len(answers)
    BY DEF TypeOK, Ids
  <1> DEFINE a == Append(answers[i], m)
  <1> HIDE DEF a
  <1>4. QED
    BY <1>1, <1>2, <1>3, ReplacedElement DEF a

\* A new stage keeps the other fields of a payload and the other payloads.
LEMMA StageType ==
    ASSUME TypeOK, NEW i \in Ids, NEW n \in 0..3,
           payloads' = [payloads EXCEPT ![i].stage = n]
    PROVE  /\ payloads' \in Seq(Payloads) /\ Len(payloads') = Len(payloads)
           /\ payloads'[i] = [payloads[i] EXCEPT !.stage = n]
           /\ \A j \in Ids : j # i => payloads'[j] = payloads[j]
  <1>1. [payloads[i] EXCEPT !.stage = n] \in Payloads
    BY PayloadType DEF Payloads
  <1>2. payloads' = [payloads EXCEPT ![i] = [payloads[i] EXCEPT !.stage = n]]
    OBVIOUS
  <1>3. payloads \in Seq(Payloads) /\ i \in 1 .. Len(payloads) /\ Ids = 1 .. Len(payloads)
    BY DEF TypeOK, Ids
  <1> DEFINE p == [payloads[i] EXCEPT !.stage = n]
  <1> HIDE DEF p
  <1>4. QED
    BY <1>1, <1>2, <1>3, ReplacedElement DEF p

\* A new payload is the last one, and has no answer yet.
LEMMA NewPayload ==
    ASSUME TypeOK, NEW p \in Payloads, ProcessPayload(p)
    PROVE  LET n == Len(payloads) + 1 IN
           /\ payloads' \in Seq(Payloads) /\ Len(payloads') = n /\ n <= MaxRequests
           /\ answers' \in Seq(Seq(Replies)) /\ Len(answers') = n
           /\ Ids' = Ids \union {n} /\ n \notin Ids
           /\ payloads'[n] = p /\ answers'[n] = <<>>
           /\ \A j \in Ids : payloads'[j] = payloads[j] /\ answers'[j] = answers[j]
           /\ fifo' = Append(fifo, n)
  <1>1. payloads \in Seq(Payloads) /\ answers \in Seq(Seq(Replies)) /\ <<>> \in Seq(Replies)
        /\ Len(answers) = Len(payloads) /\ Len(payloads) \in Nat /\ MaxRequests \in Nat
    BY DaemonRequestsAssumption, EmptySeq, LenProperties DEF TypeOK
  <1>2. /\ payloads' = Append(payloads, p) /\ answers' = Append(answers, <<>>)
        /\ fifo' = Append(fifo, Len(payloads')) /\ Len(payloads) < MaxRequests
    BY DEF ProcessPayload
  <1>3. /\ payloads' \in Seq(Payloads) /\ Len(payloads') = Len(payloads) + 1
        /\ \A j \in 1 .. Len(payloads) : payloads'[j] = payloads[j]
        /\ payloads'[Len(payloads) + 1] = p
    BY <1>1, <1>2, AppendProperties
  <1>4. /\ answers' \in Seq(Seq(Replies)) /\ Len(answers') = Len(answers) + 1
        /\ \A j \in 1 .. Len(answers) : answers'[j] = answers[j]
        /\ answers'[Len(answers) + 1] = <<>>
    BY <1>1, <1>2, AppendProperties
  <1>5. Ids' = Ids \union {Len(payloads) + 1} /\ Len(payloads) + 1 \notin Ids
    BY <1>1, <1>3 DEF Ids
  <1>6. QED
    BY <1>1, <1>2, <1>3, <1>4, <1>5 DEF Ids

\* Every kind of payload which Send makes has its type.
LEMMA SendPayload ==
    ASSUME NEW c, Send(c)
    PROVE  \E p \in Payloads :
               /\ ProcessPayload(p) /\ p.stage = 0 /\ (p.kind = "SCTX" => p.ver \in 1..MaxVersion)
  <1>1. c \in Clients
    BY DEF Send
  <1>2. \A kind \in {"REG", "LCTX"} : Payload(c, kind, "", 0) \in Payloads
    BY <1>1, DaemonRequestsAssumption DEF Payload, Payloads, Requests
  <1> DEFINE N == AllNames \union {""}
  <1>3. \A n \in AllNames : n \in N
    BY Zenon
  <1>4. Payloads = [peer : Clients, kind : Requests, name : N, ver : 0..MaxVersion, stage : 0..3]
    BY DEF Payloads
  <1> HIDE DEF N
  <1>5. \A n \in AllNames : Payload(c, "GCTX", n, 0) \in Payloads
    BY <1>1, <1>3, <1>4, DaemonRequestsAssumption DEF Payload, Requests
  <1>6. \A n \in AllNames, v \in 1..MaxVersion : Payload(c, "SCTX", n, v) \in Payloads
    BY <1>1, <1>3, <1>4, DaemonRequestsAssumption DEF Payload, Requests
  <1>7. CASE \E kind \in {"REG", "LCTX"} : ProcessPayload(Payload(c, kind, "", 0))
    BY <1>2, <1>7 DEF Payload
  <1>8. CASE \E n \in AllNames : ProcessPayload(Payload(c, "GCTX", n, 0))
    <2>1. PICK n \in AllNames : ProcessPayload(Payload(c, "GCTX", n, 0))
      BY <1>8
    <2> DEFINE p == Payload(c, "GCTX", n, 0)
    <2>2. p.stage = 0 /\ p.kind # "SCTX"
      BY DEF Payload
    <2>3. p \in Payloads
      BY <1>5
    <2>4. QED
      BY <2>1, <2>2, <2>3
  <1>9. CASE \E n \in AllNames, v \in 1..MaxVersion : ProcessPayload(Payload(c, "SCTX", n, v))
    <2>1. PICK n \in AllNames, v \in 1..MaxVersion : ProcessPayload(Payload(c, "SCTX", n, v))
      BY <1>9
    <2> DEFINE p == Payload(c, "SCTX", n, v)
    <2>2. p.stage = 0 /\ p.ver \in 1..MaxVersion
      BY DEF Payload
    <2>3. p \in Payloads
      BY <1>6
    <2>4. QED
      BY <2>1, <2>2, <2>3
  <1>10. QED
    BY <1>7, <1>8, <1>9 DEF Send

-----------------------------------------------------------------------------
(* The inductive invariant.  A payload is at one place at most: once in    *)
(* the FIFO or waiting for its lock.  While it is, its stage tells which   *)
(* answers were sent; once it is not, no stage runs for it any more.       *)

VersionsRequested ==
    \A i \in Ids : payloads[i].kind = "SCTX" => payloads[i].ver \in 1..MaxVersion

Given(stage) ==
    IF stage = 0 THEN <<>> ELSE IF stage = 1 THEN <<"RECEIVED">> ELSE <<"RECEIVED", "SAVED">>

InProgress == Elements(fifo) \union waiting

OnePlace == Distinct(fifo) /\ \A i \in waiting : i \notin Elements(fifo)

StageTellsAnswers ==
    /\ \A i \in InProgress : payloads[i].stage # 3 /\ answers[i] = Given(payloads[i].stage)
    /\ \A i \in waiting : payloads[i].stage = 1
    /\ \A i \in Ids : payloads[i].stage # 0 => payloads[i].kind = "SCTX" /\ payloads[i].name \in Names

OneFinal ==
    \A i \in Ids : \A j, k \in DOMAIN answers[i] : {answers[i][j], answers[i][k]} \subseteq Final => j = k

\* the contexts in memory are the ones on disk while the daemon runs
MemoryIsDisk == up => \A n \in Names : contexts[n] = files[n]

\* the change the worker has not acknowledged is that of its payload in stage 1
SavingIsTaken ==
    saving # 0 => up /\ fifo # <<>> /\ saving = Head(fifo) /\ Stage(saving, 1)

\* one more version is in the file of a context while its change is not
\* acknowledged, and for ever when the daemon was killed then
Unacknowledged(n) == IF saving # 0 /\ payloads[saving].name = n THEN 1 ELSE 0
DiskIsSaved ==
    \A n \in Names : IF up THEN files[n] = Cardinality(Saved(n)) + Unacknowledged(n)
                            ELSE files[n] - Cardinality(Saved(n)) \in {0, 1}

DaemonInv ==
    /\ TypeOK /\ VersionsRequested
    /\ OnePlace /\ StageTellsAnswers /\ OneFinal
    /\ MemoryIsDisk /\ SavingIsTaken /\ DiskIsSaved

\* Payloads in the FIFO were made.
LEMMA ElementsAreIds ==
    ASSUME TypeOK
    PROVE  Elements(fifo) \subseteq Ids /\ InProgress \subseteq Ids
  <1>1. \A k \in DOMAIN fifo : fifo[k] \in Ids
    BY ElementOfSeq, LenProperties DEF TypeOK
  <1>2. QED
    BY <1>1 DEF Elements, InProgress, TypeOK

\* What the worker knows of the payload it takes.
LEMMA TakenPayload ==
    ASSUME DaemonInv, fifo # <<>>
    PROVE  LET i == Head(fifo) IN
           /\ i \in Ids /\ i \in Elements(fifo) /\ i \notin waiting
           /\ payloads[i] \in Payloads /\ payloads[i].stage \in 0..2
           /\ answers[i] = Given(payloads[i].stage)
           /\ Tail(fifo) \in Seq(Ids) /\ Distinct(Tail(fifo))
           /\ Elements(Tail(fifo)) = Elements(fifo) \ {i}
  <1> DEFINE i == Head(fifo)
  <1>1. TypeOK /\ OnePlace /\ StageTellsAnswers
    BY DEF DaemonInv
  <1>2. /\ i \in Ids /\ i \in Elements(fifo) /\ Tail(fifo) \in Seq(Ids) /\ Distinct(Tail(fifo))
        /\ Elements(Tail(fifo)) = Elements(fifo) \ {i}
    BY <1>1, DistinctTail DEF TypeOK, OnePlace
  <1> HIDE DEF i
  <1>3. i \notin waiting
    BY <1>1, <1>2 DEF OnePlace
  <1>4. payloads[i].stage # 3 /\ answers[i] = Given(payloads[i].stage)
    BY <1>1, <1>2 DEF StageTellsAnswers, InProgress
  <1>5. payloads[i] \in Payloads
    BY <1>1, <1>2, PayloadType
  <1>6. payloads[i].stage \in 0..2
    BY <1>4, <1>5, PayloadFields
  <1>7. QED
    BY <1>2, <1>3, <1>4, <1>5, <1>6 DEF i

\* The reply to a payload in one of its first two stages is its first final one.
LEMMA ReplyOnce ==
    ASSUME TypeOK, OneFinal, NEW i \in Ids, NEW m \in Replies, Reply(i, m), Ids' = Ids,
           answers[i] = <<>> \/ answers[i] = <<"RECEIVED">>
    PROVE  OneFinal'
  <1>1. /\ answers'[i] = Append(answers[i], m)
        /\ \A j \in Ids : j # i => answers'[j] = answers[j]
    BY ReplyType
  <1>2. \A j, k \in DOMAIN answers'[i] : {answers'[i][j], answers'[i][k]} \subseteq Final => j = k
    <2>1. CASE answers[i] = <<>>
      <3>1. answers'[i] = <<m>>
        BY <1>1, <2>1
      <3>2. DOMAIN answers'[i] = {1}
        BY <3>1
      <3>3. QED
        BY <3>2
    <2>2. CASE answers[i] = <<"RECEIVED">>
      <3>1. answers[i] \in Seq(Replies) /\ Len(answers[i]) = 1 /\ answers[i][1] = "RECEIVED"
        BY <2>2, PayloadType
      <3>2. /\ answers'[i] \in Seq(Replies) /\ Len(answers'[i]) = 2
            /\ answers'[i][1] = answers[i][1]
        BY <1>1, <3>1, AppendProperties
      <3>3. DOMAIN answers'[i] = 1 .. 2 /\ answers'[i][1] = "RECEIVED"
        BY <3>1, <3>2, LenProperties
      <3>4. "RECEIVED" \notin Final
        BY DEF Final
      <3>5. \A k \in DOMAIN answers'[i] : answers'[i][k] \in Final => k = 2
        BY <3>3, <3>4
      <3>6. QED
        BY <3>5
    <2>3. QED
      BY <2>1, <2>2
  <1>3. ASSUME NEW h \in Ids
        PROVE  \A j, k \in DOMAIN answers'[h] : {answers'[h][j], answers'[h][k]} \subseteq Final => j = k
    <2>1. CASE h = i
      BY <1>2, <2>1
    <2>2. CASE h # i
      <3>1. answers'[h] = answers[h]
        BY <1>1, <2>2
      <3>2. QED
        BY <3>1 DEF OneFinal
    <2>3. QED
      BY <2>1, <2>2
  <1>4. QED
    BY <1>3 DEF OneFinal

\* Outside of stage 1 every change is acknowledged.
LEMMA NotSaving ==
    ASSUME DaemonInv, payloads[Head(fifo)].stage # 1
    PROVE  saving = 0
  BY DEF DaemonInv, SavingIsTaken, Stage

\* A payload pushed to the FIFO leaves the one the worker is at in front.
LEMMA PushKeepsHead ==
    ASSUME NEW S, NEW s \in Seq(S), s # <<>>, NEW x
    PROVE  Append(s, x) # <<>> /\ Head(Append(s, x)) = Head(s)
  <1>1. Len(s) \in Nat /\ Len(s) >= 1
    BY EmptySeq, LenProperties
  <1>2. QED
    BY <1>1

\* The changes acknowledged are finitely many.
LEMMA SavedCount ==
    ASSUME TypeOK, NEW n
    PROVE  IsFiniteSet(Saved(n)) /\ Cardinality(Saved(n)) \in Nat
  <1>1. IsFiniteSet(Ids)
    BY FS_Interval, LenProperties DEF Ids, TypeOK
  <1>2. Saved(n) \in SUBSET Ids
    BY DEF Saved
  <1>3. QED
    BY <1>1, <1>2, FS_Subset, FS_CardinalityType

\* Steps which change neither the files nor what is acknowledged.
LEMMA SameDisk ==
    ASSUME DiskIsSaved, UNCHANGED <<files, up, saving>>, \A n \in Names : Saved(n)' = Saved(n),
           saving # 0 => payloads'[saving].name = payloads[saving].name
    PROVE  DiskIsSaved'
  <1>1. \A n \in Names : Unacknowledged(n)' = Unacknowledged(n)
    BY DEF Unacknowledged
  <1>2. QED
    BY <1>1 DEF DiskIsSaved

-----------------------------------------------------------------------------
(* The steps of the worker.                                                *)

\* A stage which ends the work on a payload, with one reply or none.
LEMMA StageEnds ==
    ASSUME DaemonInv, fifo # <<>>, fifo' = Tail(fifo), running' \in BOOLEAN, saving = 0,
           UNCHANGED <<refs, payloads, up, waiting, holder, contexts, files, saving>>,
           \/ answers' = answers
           \/ payloads[Head(fifo)].stage \in {0, 1} /\ \E m \in Replies : Reply(Head(fifo), m)
    PROVE  DaemonInv'
  <1> DEFINE i == Head(fifo)
  <1>1. /\ i \in Ids /\ i \in Elements(fifo) /\ i \notin waiting
        /\ answers[i] = Given(payloads[i].stage)
        /\ fifo' \in Seq(Ids) /\ Distinct(fifo') /\ Elements(fifo') = Elements(fifo) \ {i}
    BY TakenPayload
  <1>2. \/ answers' = answers
        \/ payloads[i].stage \in {0, 1} /\ \E m \in Replies : Reply(i, m)
    OBVIOUS
  <1> HIDE DEF i
  <1>3. Ids' = Ids /\ InProgress' = InProgress \ {i}
    BY <1>1 DEF Ids, InProgress
  <1>4. TypeOK /\ OneFinal
    BY DEF DaemonInv
  <1>5. /\ answers' \in Seq(Seq(Replies)) /\ Len(answers') = Len(answers)
        /\ \A j \in Ids : j # i => answers'[j] = answers[j]
    BY <1>1, <1>2, <1>4, ReplyType DEF TypeOK
  <1>6. OneFinal'
    <2>1. CASE answers' = answers
      BY <1>3, <1>4, <2>1 DEF OneFinal
    <2>2. CASE payloads[i].stage \in {0, 1} /\ \E m \in Replies : Reply(i, m)
      <3>1. answers[i] = <<>> \/ answers[i] = <<"RECEIVED">>
        BY <1>1, <2>2 DEF Given
      <3>2. QED
        BY <1>1, <1>3, <1>4, <2>2, <3>1, ReplyOnce
    <2>3. QED
      BY <1>2, <2>1, <2>2
  <1>7. TypeOK'
    BY <1>1, <1>3, <1>4, <1>5 DEF TypeOK
  <1>8. OnePlace'
    BY <1>1 DEF DaemonInv, OnePlace
  <1>9. StageTellsAnswers'
    <2>1. InProgress \subseteq Ids
      BY <1>4, ElementsAreIds
    <2>2. StageTellsAnswers
      BY DEF DaemonInv
    <2>3. \A j \in InProgress' : payloads'[j].stage # 3 /\ answers'[j] = Given(payloads'[j].stage)
      BY <1>3, <1>5, <2>1, <2>2 DEF StageTellsAnswers
    <2>4. QED
      BY <1>3, <2>2, <2>3 DEF StageTellsAnswers
  <1>10. VersionsRequested' /\ MemoryIsDisk' /\ SavingIsTaken' /\ DiskIsSaved'
    <2>1. \A n \in Names : Saved(n)' = Saved(n)
      BY <1>3 DEF Saved
    <2>2. QED
      BY <1>3, <2>1, SameDisk DEF DaemonInv, VersionsRequested, MemoryIsDisk, SavingIsTaken
  <1>11. QED
    BY <1>6, <1>7, <1>8, <1>9, <1>10 DEF DaemonInv

\* Requests which are not SCTX, or have a name which is refused, are in stage 0.
LEMMA FirstStage ==
    ASSUME DaemonInv, fifo # <<>>,
           payloads[Head(fifo)].kind # "SCTX" \/ payloads[Head(fifo)].name \notin Names
    PROVE  payloads[Head(fifo)].stage = 0
  BY TakenPayload DEF DaemonInv, StageTellsAnswers

\* register_client(), list_contexts(), get_context() and the names which
\* set_context() refuses.
LEMMA OneStageSteps ==
    ASSUME DaemonInv, fifo # <<>>, UNCHANGED <<refs, up>>,
           \/ RegisterClient(Head(fifo)) \/ ListContexts(Head(fifo))
           \/ GetContext(Head(fifo)) \/ SetContextName(Head(fifo))
    PROVE  DaemonInv'
  <1> DEFINE i == Head(fifo)
  <1>1. running \in BOOLEAN
    BY DEF DaemonInv, TypeOK
  <1>2. CASE RegisterClient(i)
    <2>1. payloads[i].stage = 0
      BY <1>2, FirstStage DEF RegisterClient
    <2>2. /\ fifo' = Tail(fifo) /\ running' \in BOOLEAN
          /\ UNCHANGED <<payloads, waiting, holder, contexts, files, saving>>
          /\ answers' = answers \/ Reply(i, "ERR") \/ Reply(i, "ACK")
      BY <1>1, <1>2 DEF RegisterClient, Done, lockVars, dataVars
    <2>3. "ERR" \in Replies /\ "ACK" \in Replies
      BY DEF Replies
    <2>4. answers' = answers \/ \E m \in Replies : Reply(i, m)
      BY Zenon, <2>2, <2>3
    <2>5. QED
      BY <2>1, <2>2, <2>4, NotSaving, StageEnds
  <1>3. CASE ListContexts(i)
    <2>1. payloads[i].stage = 0
      BY <1>3, FirstStage DEF ListContexts
    <2>2. /\ fifo' = Tail(fifo) /\ running' \in BOOLEAN
          /\ UNCHANGED <<payloads, waiting, holder, contexts, files, saving>>
          /\ Reply(i, "LIST")
      BY <1>1, <1>3 DEF ListContexts, Done, lockVars, dataVars
    <2>3. "LIST" \in Replies
      BY DEF Replies
    <2>4. \E m \in Replies : Reply(i, m)
      BY Zenon, <2>2, <2>3
    <2>5. QED
      BY <2>1, <2>2, <2>4, NotSaving, StageEnds
  <1>4. CASE GetContext(i)
    <2>1. payloads[i].stage = 0
      BY <1>4, FirstStage DEF GetContext
    <2>2. /\ fifo' = Tail(fifo) /\ running' \in BOOLEAN
          /\ UNCHANGED <<payloads, waiting, holder, contexts, files, saving>>
          /\ answers' = answers \/ Reply(i, "CTX") \/ Reply(i, "ERR")
      BY <1>1, <1>4 DEF GetContext, Done, lockVars, dataVars
    <2>3. "ERR" \in Replies /\ "CTX" \in Replies
      BY DEF Replies
    <2>4. answers' = answers \/ \E m \in Replies : Reply(i, m)
      BY Zenon, <2>2, <2>3
    <2>5. QED
      BY <2>1, <2>2, <2>4, NotSaving, StageEnds
  <1>5. CASE SetContextName(i)
    <2>1. payloads[i].stage = 0
      BY <1>5, FirstStage DEF SetContextName
    <2>2. /\ fifo' = Tail(fifo) /\ running' \in BOOLEAN
          /\ UNCHANGED <<payloads, waiting, holder, contexts, files, saving>>
          /\ answers' = answers \/ Reply(i, "ERR")
      BY <1>1, <1>5 DEF SetContextName, Done, lockVars, dataVars
    <2>3. "ERR" \in Replies
      BY DEF Replies
    <2>4. answers' = answers \/ \E m \in Replies : Reply(i, m)
      BY Zenon, <2>2, <2>3
    <2>5. QED
      BY <2>1, <2>2, <2>4, NotSaving, StageEnds
  <1>6. QED
    BY <1>2, <1>3, <1>4, <1>5

\* The answers of a stage are those of the stage before and one more.
LEMMA GivenNext ==
    Given(1) = Append(Given(0), "RECEIVED") /\ Given(2) = Append(Given(1), "SAVED")
  BY DEF Given

\* set_context() of a valid name, in its stage s: the fields it depends on.
LEMMA StagePayload ==
    ASSUME DaemonInv, fifo # <<>>, NEW s \in 0..2, Stage(Head(fifo), s)
    PROVE  LET i == Head(fifo) IN
           /\ payloads[i].kind = "SCTX" /\ payloads[i].name \in Names /\ payloads[i].stage = s
           /\ payloads[i].ver \in 1..MaxVersion /\ answers[i] = Given(s)
  BY TakenPayload DEF Stage, DaemonInv, VersionsRequested

\* A new stage of payload i says nothing of the other payloads.
LEMMA StageEffect ==
    ASSUME DaemonInv, fifo # <<>>, NEW n \in 1..3, n = payloads[Head(fifo)].stage + 1,
           Stage(Head(fifo), n - 1), payloads' = [payloads EXCEPT ![Head(fifo)].stage = n]
    PROVE  LET i == Head(fifo) IN
           /\ Ids' = Ids /\ payloads' \in Seq(Payloads) /\ Len(payloads') = Len(payloads)
           /\ payloads'[i].stage = n /\ payloads'[i].kind = "SCTX" /\ payloads'[i].ver = payloads[i].ver
           /\ payloads'[i].name = payloads[i].name /\ payloads[i].name \in Names
           /\ \A j \in Ids : j # i => payloads'[j] = payloads[j]
           /\ VersionsRequested'
           /\ \A j \in Ids : payloads'[j].stage # 0
                  => payloads'[j].kind = "SCTX" /\ payloads'[j].name \in Names
  <1> DEFINE i == Head(fifo)
  <1>1. TypeOK /\ VersionsRequested /\ StageTellsAnswers
    BY DEF DaemonInv
  <1>2. i \in Ids /\ payloads[i] \in Payloads
    BY TakenPayload
  <1>3. payloads[i].kind = "SCTX" /\ payloads[i].name \in Names
    BY DEF Stage
  <1>4. payloads' = [payloads EXCEPT ![i].stage = n]
    OBVIOUS
  <1> HIDE DEF i
  <1>5. /\ payloads' \in Seq(Payloads) /\ Len(payloads') = Len(payloads)
        /\ payloads'[i] = [payloads[i] EXCEPT !.stage = n]
        /\ \A j \in Ids : j # i => payloads'[j] = payloads[j]
    <2>1. n \in 0..3
      OBVIOUS
    <2>2. QED
      BY <1>1, <1>2, <1>4, <2>1, StageType
  <1>6. /\ payloads'[i].stage = n /\ payloads'[i].kind = payloads[i].kind
        /\ payloads'[i].name = payloads[i].name /\ payloads'[i].ver = payloads[i].ver
    <2> DEFINE p == payloads[i]
    <2> DEFINE q == payloads'[i]
    <2>1. p \in Payloads /\ q = [p EXCEPT !.stage = n]
      BY <1>2, <1>5
    <2> HIDE DEF p, q
    <2>2. q.stage = n /\ q.kind = p.kind /\ q.name = p.name /\ q.ver = p.ver
      BY <2>1, StageField
    <2>3. QED
      BY <2>2 DEF p, q
  <1>7. Ids' = Ids
    BY <1>5 DEF Ids
  <1>8. VersionsRequested'
    BY <1>1, <1>3, <1>5, <1>6, <1>7 DEF VersionsRequested
  <1>9. ASSUME NEW j \in Ids, payloads'[j].stage # 0
        PROVE  payloads'[j].kind = "SCTX" /\ payloads'[j].name \in Names
    BY <1>1, <1>3, <1>5, <1>6, <1>9 DEF StageTellsAnswers
  <1>10. QED
    BY <1>3, <1>5, <1>6, <1>7, <1>8, <1>9 DEF i

\* Stage 0: the payload moves from the FIFO to the requests for a lock.
LEMMA ReceiveStep ==
    ASSUME DaemonInv, fifo # <<>>, UNCHANGED <<refs, up>>, SetContextReceive(Head(fifo))
    PROVE  DaemonInv'
  <1> DEFINE i == Head(fifo)
  <1>1. /\ i \in Ids /\ i \in Elements(fifo) /\ i \notin waiting /\ payloads[i] \in Payloads
        /\ Tail(fifo) \in Seq(Ids) /\ Distinct(Tail(fifo))
        /\ Elements(Tail(fifo)) = Elements(fifo) \ {i}
    BY TakenPayload
  <1>2. /\ Stage(i, 0) /\ fifo' = Tail(fifo) /\ Reply(i, "RECEIVED")
        /\ payloads' = [payloads EXCEPT ![i].stage = 1]
        /\ waiting' = waiting \union {i}
        /\ UNCHANGED <<running, holder, contexts, files, saving>>
    BY DEF SetContextReceive, Done, dataVars
  <1>3. payloads[i].stage = 0 /\ answers[i] = Given(0) /\ saving = 0
    BY <1>2, StagePayload, NotSaving
  <1>4. TypeOK /\ OneFinal /\ OnePlace /\ StageTellsAnswers /\ MemoryIsDisk /\ DiskIsSaved
    BY DEF DaemonInv
  <1>5. /\ Ids' = Ids /\ payloads' \in Seq(Payloads) /\ Len(payloads') = Len(payloads)
        /\ payloads'[i].stage = 1
        /\ \A j \in Ids : j # i => payloads'[j] = payloads[j]
        /\ VersionsRequested'
        /\ \A j \in Ids : payloads'[j].stage # 0
               => payloads'[j].kind = "SCTX" /\ payloads'[j].name \in Names
    BY <1>2, <1>3, StageEffect
  <1> HIDE DEF i
  <1>6. "RECEIVED" \in Replies
    BY DEF Replies
  <1>7. /\ answers' \in Seq(Seq(Replies)) /\ Len(answers') = Len(answers)
        /\ answers'[i] = Given(1)
        /\ \A j \in Ids : j # i => answers'[j] = answers[j]
    BY <1>1, <1>2, <1>3, <1>4, <1>6, ReplyType, GivenNext
  <1>8. TypeOK'
    BY <1>1, <1>2, <1>4, <1>5, <1>7 DEF TypeOK
  <1>9. OnePlace'
    BY <1>1, <1>2, <1>4 DEF OnePlace
  <1>10. OneFinal'
    <2>1. answers[i] = <<>>
      BY <1>3 DEF Given
    <2>2. QED
      BY <1>1, <1>2, <1>4, <1>5, <1>6, <2>1, ReplyOnce
  <1>11. InProgress' = InProgress /\ InProgress \subseteq Ids
    BY <1>1, <1>2, <1>4, ElementsAreIds DEF InProgress
  <1>12. StageTellsAnswers'
    <2>1. \A j \in InProgress : payloads'[j].stage # 3 /\ answers'[j] = Given(payloads'[j].stage)
      <3>1. \A j \in InProgress : j # i
                => payloads'[j].stage # 3 /\ answers'[j] = Given(payloads'[j].stage)
        BY <1>4, <1>5, <1>7, <1>11 DEF StageTellsAnswers
      <3>2. payloads'[i].stage # 3 /\ answers'[i] = Given(payloads'[i].stage)
        BY <1>5, <1>7
      <3>3. QED
        BY <3>1, <3>2
    <2>2. \A j \in waiting' : payloads'[j].stage = 1
      BY <1>2, <1>4, <1>5 DEF StageTellsAnswers, TypeOK
    <2>3. QED
      BY <1>5, <1>11, <2>1, <2>2 DEF StageTellsAnswers
  <1>13. \A n \in Names : Saved(n)' = Saved(n)
    BY <1>3, <1>5 DEF Saved
  <1>14. DiskIsSaved' /\ MemoryIsDisk' /\ SavingIsTaken'
    BY <1>2, <1>3, <1>4, <1>13, SameDisk DEF MemoryIsDisk, SavingIsTaken
  <1>15. QED
    BY <1>5, <1>8, <1>9, <1>10, <1>12, <1>14 DEF DaemonInv

\* Stage 2: the payload is done; the worker may have ended.
LEMMA ShareStep ==
    ASSUME DaemonInv, fifo # <<>>, UNCHANGED <<refs, up>>, SetContextShare(Head(fifo))
    PROVE  DaemonInv'
  <1> DEFINE i == Head(fifo)
  <1>1. /\ i \in Ids /\ i \in Elements(fifo) /\ i \notin waiting /\ payloads[i] \in Payloads
        /\ Tail(fifo) \in Seq(Ids) /\ Distinct(Tail(fifo))
        /\ Elements(Tail(fifo)) = Elements(fifo) \ {i}
    BY TakenPayload
  <1>2. /\ Stage(i, 2) /\ fifo' = Tail(fifo) /\ running' \in BOOLEAN
        /\ payloads' = [payloads EXCEPT ![i].stage = 3]
        /\ UNCHANGED <<answers, waiting, holder, contexts, files, saving>>
    BY DEF SetContextShare, Done, lockVars, dataVars
  <1>3. payloads[i].stage = 2 /\ payloads[i].kind = "SCTX" /\ saving = 0
    BY <1>2, StagePayload, NotSaving
  <1>4. TypeOK /\ OneFinal /\ OnePlace /\ StageTellsAnswers /\ MemoryIsDisk /\ DiskIsSaved
    BY DEF DaemonInv
  <1>5. /\ Ids' = Ids /\ payloads' \in Seq(Payloads) /\ Len(payloads') = Len(payloads)
        /\ payloads'[i].stage = 3 /\ payloads'[i].kind = "SCTX" /\ payloads'[i].name = payloads[i].name
        /\ \A j \in Ids : j # i => payloads'[j] = payloads[j]
        /\ VersionsRequested'
        /\ \A j \in Ids : payloads'[j].stage # 0
               => payloads'[j].kind = "SCTX" /\ payloads'[j].name \in Names
    BY <1>2, <1>3, StageEffect
  <1> HIDE DEF i
  <1>6. TypeOK'
    BY <1>1, <1>2, <1>4, <1>5 DEF TypeOK
  <1>7. OnePlace' /\ OneFinal'
    BY <1>1, <1>2, <1>4, <1>5 DEF OnePlace, OneFinal
  <1>8. InProgress' = InProgress \ {i} /\ InProgress \subseteq Ids
    BY <1>1, <1>2, <1>4, ElementsAreIds DEF InProgress
  <1>9. StageTellsAnswers'
    <2>1. \A j \in InProgress' : payloads'[j].stage # 3 /\ answers'[j] = Given(payloads'[j].stage)
      BY <1>2, <1>4, <1>5, <1>8 DEF StageTellsAnswers
    <2>2. \A j \in waiting' : payloads'[j].stage = 1
      BY <1>1, <1>2, <1>4, <1>5 DEF StageTellsAnswers, TypeOK
    <2>3. QED
      BY <1>5, <2>1, <2>2 DEF StageTellsAnswers
  <1>10. \A n \in Names : Saved(n)' = Saved(n)
    BY <1>1, <1>3, <1>5 DEF Saved
  <1>11. DiskIsSaved' /\ MemoryIsDisk' /\ SavingIsTaken'
    BY <1>2, <1>3, <1>4, <1>10, SameDisk DEF MemoryIsDisk, SavingIsTaken
  <1>12. QED
    BY <1>5, <1>6, <1>7, <1>9, <1>11 DEF DaemonInv

\* A change which is accepted is the next version, in memory and on disk.
LEMMA UpdateIsNext ==
    ASSUME TypeOK, NEW n \in Names, NEW v \in 1..MaxVersion, Update(n, v) # 0
    PROVE  Update(n, v) = contexts[n] + 1 /\ Update(n, v) \in 1..MaxVersion
  BY DaemonRequestsAssumption DEF TypeOK, Update

\* Stage 1: the change is refused, or saved.
LEMMA ChangeStep ==
    ASSUME DaemonInv, fifo # <<>>, UNCHANGED <<refs, up>>, up, SetContextChange(Head(fifo))
    PROVE  DaemonInv'
  <1> DEFINE i == Head(fifo)
  <1> DEFINE n == payloads[i].name
  <1> DEFINE v == Update(n, payloads[i].ver)
  <1>1. i \in Ids /\ Ids \subseteq Nat \ {0}
    BY TakenPayload DEF Ids
  <1>2. Stage(i, 1) /\ saving = 0 /\ UNCHANGED <<payloads, running, waiting, holder>>
    BY DEF SetContextChange, lockVars
  <1>3. /\ payloads[i].stage = 1 /\ payloads[i].kind = "SCTX" /\ n \in Names
        /\ payloads[i].ver \in 1..MaxVersion
    BY <1>2, StagePayload
  <1>4. TypeOK /\ OneFinal /\ OnePlace /\ StageTellsAnswers /\ VersionsRequested /\ MemoryIsDisk /\ DiskIsSaved
    BY DEF DaemonInv
  <1>5. CASE v = 0
    <2>1. fifo' = Tail(fifo) /\ Reply(i, "ERR") /\ UNCHANGED <<contexts, files, saving>>
      BY <1>5 DEF SetContextChange, Done, dataVars
    <2>2. "ERR" \in Replies
      BY DEF Replies
    <2>3. running' \in BOOLEAN
      BY <1>2, <1>4 DEF TypeOK
    <2>4. \E m \in Replies : Reply(i, m)
      BY Zenon, <2>1, <2>2
    <2>5. QED
      BY <1>2, <1>3, <2>1, <2>3, <2>4, StageEnds
  <1>6. CASE v # 0
    <2>1. /\ contexts' = [contexts EXCEPT ![n] = v] /\ files' = [files EXCEPT ![n] = v]
          /\ saving' = i /\ UNCHANGED <<fifo, answers>>
      BY <1>6 DEF SetContextChange, SaveContext
    <2>2. v = contexts[n] + 1 /\ v \in 1..MaxVersion
      BY <1>3, <1>4, <1>6, UpdateIsNext
    <2>3. SavingIsTaken'
      BY <1>2, <2>1 DEF SavingIsTaken, Stage
    <2> HIDE DEF i, v
    <2>4. Ids' = Ids /\ InProgress' = InProgress
      BY <1>2, <2>1 DEF Ids, InProgress
    <2>5. contexts' \in [Names -> 0..MaxVersion] /\ files' \in [Names -> 0..MaxVersion]
      <3>1. v \in 0..MaxVersion
        BY <2>2, DaemonRequestsAssumption
      <3>2. QED
        BY <1>4, <2>1, <3>1 DEF TypeOK
    <2>6. TypeOK'
      BY <1>1, <1>2, <1>4, <2>1, <2>4, <2>5 DEF TypeOK
    <2>7. OnePlace' /\ OneFinal' /\ StageTellsAnswers' /\ VersionsRequested'
      BY <1>2, <1>4, <2>1, <2>4 DEF OnePlace, OneFinal, StageTellsAnswers, VersionsRequested
    <2>8. MemoryIsDisk'
      BY <1>3, <1>4, <2>1 DEF MemoryIsDisk, TypeOK
    <2>9. DiskIsSaved'
      <3>1. SUFFICES ASSUME NEW m \in Names
                     PROVE  files'[m] = Cardinality(Saved(m)') + Unacknowledged(m)'
        BY DEF DiskIsSaved
      <3>2. Saved(m)' = Saved(m)
        BY <1>2, <2>4 DEF Saved
      <3>3. files[m] = Cardinality(Saved(m)) /\ files[m] \in Nat
        <4>1. Cardinality(Saved(m)) \in Nat
          BY <1>4, SavedCount
        <4>2. Unacknowledged(m) = 0
          BY <1>2 DEF Unacknowledged
        <4>3. QED
          BY <1>4, <4>1, <4>2 DEF DiskIsSaved
      <3>4. CASE m = n
        <4>1. Unacknowledged(m)' = 1
          BY <1>1, <1>2, <2>1, <3>4 DEF Unacknowledged
        <4>2. files'[m] = files[m] + 1
          BY <1>4, <2>1, <2>2, <3>4 DEF MemoryIsDisk, TypeOK
        <4>3. QED
          BY <3>2, <3>3, <4>1, <4>2
      <3>5. CASE m # n
        <4>1. Unacknowledged(m)' = 0
          BY <1>2, <2>1, <3>5 DEF Unacknowledged
        <4>2. files'[m] = files[m]
          BY <1>4, <2>1, <3>5 DEF TypeOK
        <4>3. QED
          BY <3>2, <3>3, <4>1, <4>2
      <3>6. QED
        BY <3>4, <3>5
    <2>10. QED
      BY <2>3, <2>6, <2>7, <2>8, <2>9 DEF DaemonInv
  <1>7. QED
    BY <1>5, <1>6

\* The end of stage 1: the change is acknowledged and the payload goes back to
\* the FIFO.
LEMMA SavedStep ==
    ASSUME DaemonInv, fifo # <<>>, UNCHANGED <<refs, up>>, up, SetContextSaved(Head(fifo))
    PROVE  DaemonInv'
  <1> DEFINE i == Head(fifo)
  <1> DEFINE n == payloads[i].name
  <1>1. /\ i \in Ids /\ i \in Elements(fifo) /\ i \notin waiting /\ payloads[i] \in Payloads
        /\ Tail(fifo) \in Seq(Ids) /\ Distinct(Tail(fifo))
        /\ Elements(Tail(fifo)) = Elements(fifo) \ {i}
    BY TakenPayload
  <1>2. /\ Stage(i, 1) /\ saving = i /\ saving' = 0
        /\ UNCHANGED <<running, waiting, holder, contexts, files>>
        /\ Reply(i, "SAVED") /\ fifo' = Append(Tail(fifo), i)
        /\ payloads' = [payloads EXCEPT ![i].stage = 2]
    BY DEF SetContextSaved, lockVars
  <1>3. payloads[i].stage = 1 /\ payloads[i].kind = "SCTX" /\ n \in Names /\ answers[i] = Given(1)
    BY <1>2, StagePayload
  <1>4. TypeOK /\ OneFinal /\ OnePlace /\ StageTellsAnswers /\ MemoryIsDisk /\ DiskIsSaved
    BY DEF DaemonInv
  <1>5. /\ Ids' = Ids /\ payloads' \in Seq(Payloads) /\ Len(payloads') = Len(payloads)
        /\ payloads'[i].stage = 2 /\ payloads'[i].kind = "SCTX" /\ payloads'[i].name = n
        /\ \A j \in Ids : j # i => payloads'[j] = payloads[j]
        /\ VersionsRequested'
        /\ \A j \in Ids : payloads'[j].stage # 0
               => payloads'[j].kind = "SCTX" /\ payloads'[j].name \in Names
    BY <1>2, <1>3, StageEffect
  <1> HIDE DEF i
  <1>6. "SAVED" \in Replies
    BY DEF Replies
  <1>7. /\ answers' \in Seq(Seq(Replies)) /\ Len(answers') = Len(answers)
        /\ answers'[i] = Given(2)
        /\ \A j \in Ids : j # i => answers'[j] = answers[j]
    BY <1>1, <1>2, <1>3, <1>4, <1>6, ReplyType, GivenNext
  <1>8. /\ fifo' \in Seq(Ids) /\ Distinct(fifo') /\ Elements(fifo') = Elements(fifo)
    <2>1. i \notin Elements(Tail(fifo))
      BY <1>1
    <2>2. /\ fifo' \in Seq(Ids) /\ Distinct(fifo')
          /\ Elements(fifo') = Elements(Tail(fifo)) \union {i}
      BY ZenonT(30), <1>1, <1>2, <2>1, DistinctAppend
    <2>3. QED
      BY <1>1, <2>2
  <1>9. TypeOK'
    BY <1>2, <1>4, <1>5, <1>7, <1>8 DEF TypeOK
  <1>10. OnePlace'
    BY <1>2, <1>4, <1>8 DEF OnePlace
  <1>11. OneFinal'
    <2>1. answers[i] = <<"RECEIVED">>
      BY <1>3 DEF Given
    <2>2. QED
      BY <1>1, <1>2, <1>4, <1>5, <1>6, <2>1, ReplyOnce
  <1>12. InProgress' = InProgress /\ InProgress \subseteq Ids
    BY <1>2, <1>4, <1>8, ElementsAreIds DEF InProgress
  <1>13. StageTellsAnswers'
    <2>1. \A j \in InProgress : j # i
              => payloads'[j].stage # 3 /\ answers'[j] = Given(payloads'[j].stage)
      BY <1>4, <1>5, <1>7, <1>12 DEF StageTellsAnswers
    <2>2. payloads'[i].stage # 3 /\ answers'[i] = Given(payloads'[i].stage)
      BY <1>5, <1>7
    <2>3. \A j \in waiting' : payloads'[j].stage = 1
      BY <1>1, <1>2, <1>4, <1>5 DEF StageTellsAnswers, TypeOK
    <2>4. QED
      BY <1>5, <1>12, <2>1, <2>2, <2>3 DEF StageTellsAnswers
  <1>14. MemoryIsDisk' /\ SavingIsTaken'
    BY <1>2, <1>4 DEF MemoryIsDisk, SavingIsTaken
  <1>15. DiskIsSaved'
    <2>1. SUFFICES ASSUME NEW m \in Names
                   PROVE  files'[m] = Cardinality(Saved(m)') + Unacknowledged(m)'
      BY DEF DiskIsSaved
    <2>2. files[m] = Cardinality(Saved(m)) + Unacknowledged(m) /\ files[m] \in Nat
      BY <1>4, DaemonRequestsAssumption DEF DiskIsSaved, TypeOK
    <2>3. IsFiniteSet(Saved(m)) /\ Cardinality(Saved(m)) \in Nat
      BY <1>4, SavedCount
    <2>4. Saved(m)' = IF m = n THEN Saved(m) \union {i} ELSE Saved(m)
      BY <1>1, <1>3, <1>5 DEF Saved
    <2>5. Unacknowledged(m)' = 0 /\ Unacknowledged(m) = IF m = n THEN 1 ELSE 0
      <3>1. i # 0
        BY <1>1 DEF Ids
      <3>2. QED
        BY <1>2, <3>1 DEF Unacknowledged
    <2>6. CASE m = n
      <3>1. i \notin Saved(m)
        BY <1>3 DEF Saved
      <3>2. Cardinality(Saved(m)') = Cardinality(Saved(m)) + 1
        BY <2>3, <2>4, <2>6, <3>1, FS_AddElement
      <3>3. QED
        BY <1>2, <2>2, <2>3, <2>5, <2>6, <3>2
    <2>7. CASE m # n
      BY <1>2, <2>2, <2>3, <2>4, <2>5, <2>7
    <2>8. QED
      BY <2>6, <2>7
  <1>16. QED
    BY <1>5, <1>9, <1>10, <1>11, <1>13, <1>14, <1>15 DEF DaemonInv

-----------------------------------------------------------------------------
(* The steps of the communicator, of cluckd, and the restart.              *)

\* A new payload is in the FIFO, once, with no answer.
LEMMA SendStep ==
    ASSUME DaemonInv, NEW c, Send(c)
    PROVE  DaemonInv'
  <1>1. PICK p \in Payloads :
            ProcessPayload(p) /\ p.stage = 0 /\ (p.kind = "SCTX" => p.ver \in 1..MaxVersion)
    BY SendPayload
  <1> DEFINE n == Len(payloads) + 1
  <1>2. TypeOK /\ VersionsRequested /\ OneFinal /\ OnePlace /\ StageTellsAnswers
        /\ MemoryIsDisk /\ SavingIsTaken /\ DiskIsSaved
    BY DEF DaemonInv
  <1>3. /\ payloads' \in Seq(Payloads) /\ Len(payloads') = n /\ n <= MaxRequests
        /\ answers' \in Seq(Seq(Replies)) /\ Len(answers') = n
        /\ Ids' = Ids \union {n} /\ n \notin Ids
        /\ payloads'[n] = p /\ answers'[n] = <<>>
        /\ \A j \in Ids : payloads'[j] = payloads[j] /\ answers'[j] = answers[j]
        /\ fifo' = Append(fifo, n)
    BY <1>1, <1>2, NewPayload
  <1>4. UNCHANGED <<refs, running, up, waiting, holder, contexts, files, saving>>
    BY DEF Send, lockVars, dataVars
  <1> HIDE DEF n
  <1>5. Elements(fifo) \subseteq Ids /\ InProgress \subseteq Ids
    BY <1>2, ElementsAreIds
  <1>6. fifo' \in Seq(Ids') /\ Distinct(fifo') /\ Elements(fifo') = Elements(fifo) \union {n}
    <2>1. fifo \in Seq(Ids')
      BY <1>2, <1>3, SeqMonotonic DEF TypeOK
    <2>2. n \in Ids' /\ n \notin Elements(fifo) /\ Distinct(fifo)
      BY <1>2, <1>3, <1>5 DEF OnePlace
    <2>3. QED
      BY <1>3, <2>1, <2>2, DistinctAppend
  <1>7. TypeOK'
    BY <1>2, <1>3, <1>4, <1>6 DEF TypeOK
  <1>8. VersionsRequested'
    BY <1>1, <1>2, <1>3 DEF VersionsRequested
  <1>9. OnePlace'
    BY <1>2, <1>3, <1>4, <1>6 DEF OnePlace, TypeOK
  <1>10. InProgress' = InProgress \union {n}
    BY <1>4, <1>6 DEF InProgress
  <1>11. StageTellsAnswers'
    <2>1. \A j \in InProgress : payloads'[j].stage # 3 /\ answers'[j] = Given(payloads'[j].stage)
      BY <1>2, <1>3, <1>5 DEF StageTellsAnswers
    <2>2. payloads'[n].stage # 3 /\ answers'[n] = Given(payloads'[n].stage)
      <3>1. Given(0) = <<>>
        BY DEF Given
      <3>2. QED
        BY <1>1, <1>3, <3>1
    <2>3. \A j \in waiting' : payloads'[j].stage = 1
      BY <1>2, <1>3, <1>4 DEF StageTellsAnswers, TypeOK
    <2>4. \A j \in Ids' : payloads'[j].stage # 0
              => payloads'[j].kind = "SCTX" /\ payloads'[j].name \in Names
      BY <1>1, <1>2, <1>3 DEF StageTellsAnswers
    <2>5. QED
      BY <1>10, <2>1, <2>2, <2>3, <2>4 DEF StageTellsAnswers
  <1>12. OneFinal'
    <2>1. DOMAIN answers'[n] = {}
      BY <1>3
    <2>2. ASSUME NEW i \in Ids
          PROVE  \A j, k \in DOMAIN answers'[i] : {answers'[i][j], answers'[i][k]} \subseteq Final => j = k
      <3>1. answers'[i] = answers[i]
        BY <1>3
      <3>2. QED
        BY <1>2, <3>1 DEF OneFinal
    <2>3. \A i \in Ids' : i \in Ids \/ i = n
      BY <1>3
    <2>4. QED
      BY <2>1, <2>2, <2>3 DEF OneFinal
  <1>13. \A m \in Names : Saved(m)' = Saved(m)
    BY <1>1, <1>3 DEF Saved
  <1>14. MemoryIsDisk' /\ SavingIsTaken' /\ DiskIsSaved'
    <2>1. saving # 0 => saving \in Ids /\ payloads'[saving] = payloads[saving]
      BY <1>2, <1>3 DEF TypeOK
    <2>2. SavingIsTaken'
      <3>1. SUFFICES ASSUME saving # 0
                     PROVE  up' /\ fifo' # <<>> /\ saving' = Head(fifo') /\ Stage(saving, 1)'
        BY <1>4 DEF SavingIsTaken
      <3>2. up /\ fifo # <<>> /\ saving = Head(fifo) /\ Stage(saving, 1)
        BY <1>2, <3>1 DEF SavingIsTaken
      <3>3. fifo' # <<>> /\ Head(fifo') = Head(fifo)
        BY <1>2, <1>3, <3>2, PushKeepsHead DEF TypeOK
      <3>4. QED
        BY <1>4, <2>1, <3>1, <3>2, <3>3 DEF Stage
    <2>3. QED
      BY <1>2, <1>4, <1>13, <2>1, <2>2, SameDisk DEF MemoryIsDisk
  <1>15. QED
    BY <1>7, <1>8, <1>9, <1>11, <1>12, <1>14 DEF DaemonInv

\* cluckd gives up on a lock: the request for it is the only place of the payload.
LEMMA FailedLockStep ==
    ASSUME DaemonInv, NEW i \in Ids, ProcessFailedLock(i)
    PROVE  DaemonInv'
  <1>1. /\ i \in waiting /\ waiting' = waiting \ {i} /\ Reply(i, "ERR")
        /\ UNCHANGED <<refs, payloads, fifo, running, up, holder, contexts, files, saving>>
    BY DEF ProcessFailedLock, Reply, dataVars
  <1>2. TypeOK /\ OneFinal /\ OnePlace /\ StageTellsAnswers
    BY DEF DaemonInv
  <1>3. "ERR" \in Replies
    BY DEF Replies
  <1>4. /\ answers' \in Seq(Seq(Replies)) /\ Len(answers') = Len(answers)
        /\ \A j \in Ids : j # i => answers'[j] = answers[j]
    BY <1>1, <1>2, <1>3, ReplyType
  <1>5. Ids' = Ids
    BY <1>1 DEF Ids
  <1>6. OneFinal'
    <2>1. answers[i] = <<"RECEIVED">>
      BY <1>1, <1>2 DEF StageTellsAnswers, InProgress, Given
    <2>2. QED
      BY <1>1, <1>2, <1>3, <1>5, <2>1, ReplyOnce
  <1>7. TypeOK'
    BY <1>1, <1>2, <1>4, <1>5 DEF TypeOK
  <1>8. OnePlace'
    BY <1>1, <1>2 DEF OnePlace
  <1>9. StageTellsAnswers'
    <2>1. InProgress' \subseteq InProgress \ {i} /\ InProgress \subseteq Ids
      BY <1>1, <1>2, ElementsAreIds DEF InProgress, OnePlace
    <2>2. QED
      BY <1>1, <1>2, <1>4, <1>5, <2>1 DEF StageTellsAnswers
  <1>10. VersionsRequested' /\ MemoryIsDisk' /\ SavingIsTaken' /\ DiskIsSaved'
    <2>1. \A n \in Names : Saved(n)' = Saved(n)
      BY <1>1, <1>5 DEF Saved
    <2>2. QED
      BY <1>1, <1>5, <2>1, SameDisk
         DEF DaemonInv, VersionsRequested, MemoryIsDisk, SavingIsTaken, Stage
  <1>11. QED
    BY <1>6, <1>7, <1>8, <1>9, <1>10 DEF DaemonInv

\* cluckd grants a lock: the payload moves back to the FIFO.
LEMMA ObtainedLockStep ==
    ASSUME DaemonInv, NEW i \in Ids, ProcessObtainedLock(i)
    PROVE  DaemonInv'
  <1>1. /\ i \in waiting /\ waiting' = waiting \ {i} /\ fifo' = Append(fifo, i)
        /\ holder' = [holder EXCEPT ![payloads[i].name] = i]
        /\ UNCHANGED <<refs, payloads, running, up, answers, contexts, files, saving>>
    BY DEF ProcessObtainedLock, dataVars
  <1>2. TypeOK /\ OneFinal /\ OnePlace /\ StageTellsAnswers
    BY DEF DaemonInv
  <1>3. Ids' = Ids
    BY <1>1 DEF Ids
  <1>4. fifo' \in Seq(Ids) /\ Distinct(fifo') /\ Elements(fifo') = Elements(fifo) \union {i}
    <2>1. fifo \in Seq(Ids) /\ Distinct(fifo) /\ i \notin Elements(fifo)
      BY <1>1, <1>2 DEF TypeOK, OnePlace
    <2>2. QED
      BY <1>1, <2>1, DistinctAppend
  <1>5. TypeOK'
    BY <1>1, <1>2, <1>3, <1>4 DEF TypeOK
  <1>6. OnePlace'
    BY <1>1, <1>2, <1>4 DEF OnePlace
  <1>7. InProgress' = InProgress
    BY <1>1, <1>4 DEF InProgress
  <1>8. StageTellsAnswers'
    BY <1>1, <1>2, <1>3, <1>7 DEF StageTellsAnswers
  <1>9. OneFinal' /\ VersionsRequested' /\ MemoryIsDisk'
    BY <1>1, <1>2, <1>3 DEF DaemonInv, OneFinal, VersionsRequested, MemoryIsDisk
  <1>10. DiskIsSaved'
    <2>1. \A n \in Names : Saved(n)' = Saved(n)
      BY <1>1, <1>3 DEF Saved
    <2>2. QED
      BY <1>1, <2>1, SameDisk DEF DaemonInv
  <1>11. SavingIsTaken'
    <2>1. fifo # <<>> => fifo' # <<>> /\ Head(fifo') = Head(fifo)
      BY <1>1, <1>2, PushKeepsHead DEF TypeOK
    <2>2. QED
      BY <1>1, <2>1 DEF DaemonInv, SavingIsTaken, Stage
  <1>12. QED
    BY <1>5, <1>6, <1>8, <1>9, <1>10, <1>11 DEF DaemonInv

\* A daemon which starts again has no payload in progress; it runs only when
\* there was no context to load.
LEMMA RestartStep ==
    ASSUME DaemonInv, Restart
    PROVE  DaemonInv'
  <1>1. /\ up' = (\A n \in Names : files[n] = 0) /\ contexts' = [n \in Names |-> 0]
        /\ refs' = {} /\ fifo' = <<>> /\ running' = TRUE /\ waiting' = {}
        /\ up /\ saving' = 0 /\ UNCHANGED <<payloads, answers, holder, files>>
    BY DEF Restart
  <1>2. TypeOK /\ StageTellsAnswers
    BY DEF DaemonInv
  <1>3. Ids' = Ids /\ Elements(fifo') = {} /\ Distinct(fifo')
    BY <1>1 DEF Ids, Elements, Distinct
  <1>4. TypeOK'
    <2>1. fifo' \in Seq(Ids')
      BY <1>1, EmptySeq
    <2>2. contexts' \in [Names -> 0..MaxVersion]
      BY <1>1, DaemonRequestsAssumption
    <2>3. up' \in BOOLEAN /\ running' \in BOOLEAN
      BY <1>1
    <2>4. QED
      BY <1>1, <1>2, <1>3, <2>1, <2>2, <2>3 DEF TypeOK
  <1>5. InProgress' = {}
    BY <1>1, <1>3 DEF InProgress
  <1>6. OnePlace' /\ StageTellsAnswers'
    BY <1>1, <1>2, <1>3, <1>5 DEF OnePlace, StageTellsAnswers
  <1>7. MemoryIsDisk'
    BY <1>1 DEF MemoryIsDisk
  <1>8. OneFinal' /\ VersionsRequested' /\ SavingIsTaken'
    BY <1>1, <1>3 DEF DaemonInv, OneFinal, VersionsRequested, SavingIsTaken
  <1>9. DiskIsSaved'
    <2>1. SUFFICES ASSUME NEW n \in Names
                   PROVE  IF up' THEN files'[n] = Cardinality(Saved(n)') + Unacknowledged(n)'
                                 ELSE files'[n] - Cardinality(Saved(n)') \in {0, 1}
      BY DEF DiskIsSaved
    <2>2. Saved(n)' = Saved(n) /\ Unacknowledged(n)' = 0
      BY <1>1, <1>3 DEF Saved, Unacknowledged
    <2>3. Cardinality(Saved(n)) \in Nat
      BY <1>2, SavedCount
    <2>4. files[n] = Cardinality(Saved(n)) + Unacknowledged(n) /\ Unacknowledged(n) \in {0, 1}
      BY <1>1 DEF DaemonInv, DiskIsSaved, Unacknowledged
    <2>5. CASE up'
      BY <1>1, <2>2, <2>3, <2>4, <2>5
    <2>6. CASE ~up'
      BY <1>1, <2>2, <2>3, <2>4, <2>6
    <2>7. QED
      BY <2>5, <2>6
  <1>10. QED
    BY <1>4, <1>6, <1>7, <1>8, <1>9 DEF DaemonInv

\* Steps which change the connections, or the holder of a lock, only.
LEMMA OtherSteps ==
    ASSUME DaemonInv,
           refs' \subseteq Clients \union Nodes, holder' \in [Names -> {0} \union Ids],
           UNCHANGED <<payloads, fifo, running, up, answers, waiting, contexts, files, saving>>
    PROVE  DaemonInv'
  <1>1. Ids' = Ids /\ InProgress' = InProgress
    BY DEF Ids, InProgress
  <1>2. TypeOK'
    BY <1>1 DEF DaemonInv, TypeOK
  <1>3. OnePlace' /\ StageTellsAnswers' /\ OneFinal' /\ VersionsRequested' /\ MemoryIsDisk'
    BY <1>1 DEF DaemonInv, OnePlace, StageTellsAnswers, OneFinal, VersionsRequested, MemoryIsDisk
  <1>4. SavingIsTaken' /\ DiskIsSaved'
    <2>1. \A n \in Names : Saved(n)' = Saved(n)
      BY <1>1 DEF Saved
    <2>2. QED
      BY <2>1, SameDisk DEF DaemonInv, SavingIsTaken, Stage
  <1>5. QED
    BY <1>2, <1>3, <1>4 DEF DaemonInv

\* The daemon starts with the invariant.
LEMMA InvInit == Init => DaemonInv
  <1>1. SUFFICES ASSUME Init
                 PROVE  DaemonInv
    OBVIOUS
  <1>2. /\ refs = {} /\ payloads = <<>> /\ fifo = <<>> /\ answers = <<>> /\ waiting = {}
        /\ running = TRUE /\ up = TRUE /\ holder = [n \in Names |-> 0]
        /\ contexts = [n \in Names |-> 0] /\ files = [n \in Names |-> 0] /\ saving = 0
    BY <1>1 DEF Init
  <1>3. Ids = {} /\ Elements(fifo) = {} /\ Distinct(fifo) /\ InProgress = {}
    BY <1>2 DEF Ids, Elements, Distinct, InProgress
  <1>4. TypeOK
    <2>1. payloads \in Seq(Payloads) /\ fifo \in Seq(Ids) /\ answers \in Seq(Seq(Replies))
          /\ Len(payloads) = 0 /\ Len(answers) = 0
      BY <1>2, EmptySeq
    <2>2. holder \in [Names -> {0} \union Ids]
      BY <1>2
    <2>3. contexts \in [Names -> 0..MaxVersion] /\ files \in [Names -> 0..MaxVersion]
      BY <1>2, DaemonRequestsAssumption
    <2>4. QED
      BY <1>2, <2>1, <2>2, <2>3, DaemonRequestsAssumption DEF TypeOK
  <1>5. DiskIsSaved
    <2>1. \A n \in Names : Saved(n) = {}
      BY <1>3 DEF Saved
    <2>2. QED
      BY <1>2, <2>1, FS_EmptySet DEF DiskIsSaved, Unacknowledged
  <1>6. VersionsRequested /\ OnePlace /\ StageTellsAnswers /\ OneFinal /\ MemoryIsDisk /\ SavingIsTaken
    BY <1>2, <1>3
       DEF VersionsRequested, OnePlace, StageTellsAnswers, OneFinal, MemoryIsDisk, SavingIsTaken
  <1>7. QED
    BY <1>4, <1>5, <1>6 DEF DaemonInv

\* Every step keeps the invariant.
LEMMA InvStep == DaemonInv /\ [Next]_vars => DaemonInv'
  <1>1. SUFFICES ASSUME DaemonInv, [Next]_vars
                 PROVE  DaemonInv'
    OBVIOUS
  <1>2. refs \subseteq Clients \union Nodes /\ holder \in [Names -> {0} \union Ids]
    BY <1>1 DEF DaemonInv, TypeOK
  <1>3. ASSUME NEW c \in Clients \union Nodes, Accept(c)
        PROVE  DaemonInv'
    BY <1>1, <1>2, <1>3, OtherSteps DEF Accept, lockVars, dataVars
  <1>4. ASSUME NEW c \in Clients \union Nodes, ClientDisconnected(c)
        PROVE  DaemonInv'
    BY <1>1, <1>2, <1>4, OtherSteps DEF ClientDisconnected, lockVars, dataVars
  <1>5. ASSUME NEW n \in Names, LockExpires(n)
        PROVE  DaemonInv'
    <2>1. holder' \in [Names -> {0} \union Ids]
      BY <1>2, <1>5 DEF LockExpires
    <2>2. QED
      BY <1>1, <1>2, <1>5, <2>1, OtherSteps DEF LockExpires, dataVars
  <1>6. CASE Work
    <2>1. up /\ fifo # <<>> /\ UNCHANGED <<refs, up>>
      BY <1>6 DEF Work
    <2>2. \/ RegisterClient(Head(fifo)) \/ ListContexts(Head(fifo))
          \/ GetContext(Head(fifo)) \/ SetContextName(Head(fifo))
          \/ SetContextReceive(Head(fifo)) \/ SetContextChange(Head(fifo))
          \/ SetContextSaved(Head(fifo)) \/ SetContextShare(Head(fifo))
      BY <1>6 DEF Work
    <2>3. QED
      BY <1>1, <2>1, <2>2, OneStageSteps, ReceiveStep, ChangeStep, SavedStep, ShareStep
  <1>7. CASE UNCHANGED vars
    BY <1>1, <1>2, <1>7, OtherSteps DEF vars, lockVars, dataVars
  <1>8. QED
    BY <1>1, <1>3, <1>4, <1>5, <1>6, <1>7, SendStep, FailedLockStep, ObtainedLockStep, RestartStep
       DEF Next, Cluck

\* The FIFO, the payloads and the answers of a daemon always have their types.
THEOREM TypeCorrect == Spec => []TypeOK
  <1>1. DaemonInv => TypeOK
    BY DEF DaemonInv
  <1>2. QED
    BY <1>1, InvInit, InvStep, PTL DEF Spec

\* However often a payload goes through the FIFO and cluckd, its client gets at
\* most one final answer, and none while it waits for the lock (do_work(),
\* set_context(), process_failed_lock()).
THEOREM AnsweredOnceHolds == Spec => []AnsweredOnce
  <1>1. DaemonInv => AnsweredOnce
    <2>1. SUFFICES ASSUME DaemonInv, NEW i \in Ids, i \in waiting
                   PROVE  answers[i] = <<"RECEIVED">>
      BY DEF AnsweredOnce, DaemonInv, OneFinal
    <2>2. QED
      BY <2>1 DEF DaemonInv, StageTellsAnswers, InProgress, Given
  <1>2. QED
    BY <1>1, InvInit, InvStep, PTL DEF Spec

\* The changes a daemon acknowledged with SAVED are in the file of the context,
\* and at most one more: the one it did not acknowledge yet or was killed before
\* it could; over expired locks and restarts (context::update(), save_context(),
\* set_context()).
THEOREM SavedIsOnDiskHolds == Spec => []SavedIsOnDisk
  <1>1. DaemonInv => SavedIsOnDisk
    <2>1. SUFFICES ASSUME DaemonInv, NEW n \in Names
                   PROVE  files[n] - Cardinality(Saved(n)) \in {0, 1}
      BY DEF SavedIsOnDisk
    <2>2. Cardinality(Saved(n)) \in Nat
      BY <2>1, SavedCount DEF DaemonInv
    <2>3. QED
      BY <2>1, <2>2 DEF DaemonInv, DiskIsSaved, Unacknowledged
  <1>2. QED
    BY <1>1, InvInit, InvStep, PTL DEF Spec

\* A step changes the version of a context by one, or a restart forgets it: an
\* expired lock never lets two clients make the same version (context::update()).
THEOREM VersionsByOneHolds == Spec => VersionsByOne
  <1>1. DaemonInv /\ [Next]_vars
            => [\A n \in Names : contexts'[n] \in {0, contexts[n], contexts[n] + 1}]_vars
    <2>1. SUFFICES ASSUME DaemonInv, Next, NEW n \in Names
                   PROVE  contexts'[n] \in {0, contexts[n], contexts[n] + 1}
      OBVIOUS
    <2>2. CASE Work
      <3>1. up /\ fifo # <<>>
        BY <2>2 DEF Work
      <3>2. CASE SetContextChange(Head(fifo))
        <4> DEFINE p == payloads[Head(fifo)]
        <4>1. p.name \in Names /\ p.ver \in 1..MaxVersion
          <5>1. Stage(Head(fifo), 1)
            BY <3>2 DEF SetContextChange
          <5>2. QED
            BY <2>1, <3>1, <5>1, StagePayload
        <4>2. \/ contexts' = contexts
              \/ /\ Update(p.name, p.ver) # 0
                 /\ contexts' = [contexts EXCEPT ![p.name] = Update(p.name, p.ver)]
          BY <3>2 DEF SetContextChange, SaveContext, dataVars
        <4> HIDE DEF p
        <4>3. QED
          BY <2>1, <4>1, <4>2, UpdateIsNext DEF DaemonInv, TypeOK
      <3>3. CASE ~SetContextChange(Head(fifo))
        BY <2>2, <3>3 DEF Work, RegisterClient, ListContexts, GetContext, SetContextName,
                          SetContextReceive, SetContextSaved, SetContextShare, dataVars
      <3>4. QED
        BY <3>2, <3>3
    <2>3. CASE Restart
      BY <2>3 DEF Restart
    <2>4. CASE ~Work /\ ~Restart
      BY <2>1, <2>4 DEF Next, Accept, Send, ClientDisconnected, Cluck, ProcessFailedLock,
                        ProcessObtainedLock, LockExpires, dataVars
    <2>5. QED
      BY <2>2, <2>3, <2>4
  <1>2. QED
    BY <1>1, InvInit, InvStep, PTL DEF Spec, VersionsByOne
=============================================================================
