----------------------------- MODULE PbqlProofs ------------------------------
(***************************************************************************)
(* Proofs about the statements of the console and the operators of the     *)
(* lexer.                                                                  *)
(***************************************************************************)
EXTENDS Lexer, Console, SequenceTheorems, FiniteSetTheorems, WellFoundedInduction, TLAPS

\* Induction on a set of numbers: the prover takes no predicate as a parameter.
LEMMA SetInduction ==
    ASSUME NEW S, 0 \in S, \A n \in Nat : n \in S => n + 1 \in S
    PROVE  \A n \in Nat : n \in S
  <1> DEFINE K == {k \in Nat : k \notin S}
  <1>1. SUFFICES ASSUME K # {} PROVE FALSE
    OBVIOUS
  <1>2. IsWellFoundedOn(OpToRel(<, Nat), Nat)
    BY NatLessThanWellFounded
  <1>3. K \subseteq Nat
    OBVIOUS
  <1> HIDE DEF K
  <1>4. PICK k \in K : \A j \in K : ~(<<j, k>> \in OpToRel(<, Nat))
    BY <1>1, <1>2, <1>3, WFMin
  <1>5. \A j \in K : ~(j < k)
    BY <1>3, <1>4 DEF OpToRel
  <1>6. k \in Nat /\ k # 0
    BY <1>3 DEF K
  <1>7. k - 1 \in Nat /\ k - 1 \notin K
    BY <1>5, <1>6
  <1>8. QED
    BY <1>6, <1>7 DEF K

\* A set of numbers with a bound has a greatest element.
LEMMA GreatestExists ==
    ASSUME NEW n \in Nat, NEW S \in SUBSET (1..n), S # {}
    PROVE  \E x \in S : \A y \in S : y <= x
  <1> DEFINE P == {m \in Nat : \A T \in SUBSET (1..m) : T # {} => \E x \in T : \A y \in T : y <= x}
  <1>1. 0 \in P
    <2>1. 1..0 = {}
      OBVIOUS
    <2>2. QED
      BY <2>1
  <1>2. ASSUME NEW m \in Nat, m \in P PROVE m + 1 \in P
    <2>1. SUFFICES ASSUME NEW T \in SUBSET (1..(m + 1)), T # {}
                   PROVE  \E x \in T : \A y \in T : y <= x
      OBVIOUS
    <2>2. CASE m + 1 \in T
      BY <2>2
    <2>3. CASE m + 1 \notin T
      <3>1. T \in SUBSET (1..m)
        BY <2>3
      <3>2. QED
        BY <1>2, <2>1, <3>1
    <2>4. QED
      BY <2>2, <2>3
  <1> HIDE DEF P
  <1>3. n \in P
    BY <1>1, <1>2, SetInduction
  <1>4. QED
    BY <1>3 DEF P

-----------------------------------------------------------------------------
(* Transactions.                                                           *)

Transactions == EndsTransaction \cup {"BEGIN"}

\* The property of command k of a list.
BracketedAt(list, k) ==
    /\ list[k].command = "BEGIN" =>
          \A j \in 1..(k - 1) :
              list[j].command \in Transactions /\ (\A i \in (j + 1)..(k - 1) : list[i].command \notin Transactions)
              => list[j].command \in EndsTransaction
    /\ list[k].command \in EndsTransaction =>
          \E j \in 1..(k - 1) :
              /\ list[j].command \in Transactions
              /\ \A i \in (j + 1)..(k - 1) : list[i].command \notin Transactions
              /\ list[j].command = "BEGIN"
              /\ list[j].params["TYPE"] = list[k].params["TYPE"]

IsList(list) == \E S : list \in Seq(S)

\* TransactionsAreBracketed is about each command of the list.
LEMMA BracketedList ==
    TransactionsAreBracketed <=> \A k \in DOMAIN commands : BracketedAt(commands, k)
  BY DEF TransactionsAreBracketed, BracketedAt, Transactions

\* What a list of commands looks like when one was added.
LEMMA AddedCommand ==
    ASSUME NEW list, IsList(list), NEW c
    PROVE  /\ IsList(Append(list, c))
           /\ Len(list) \in Nat /\ DOMAIN list = 1..Len(list)
           /\ DOMAIN Append(list, c) = 1..(Len(list) + 1)
           /\ \A k \in 1..Len(list) : Append(list, c)[k] = list[k]
           /\ Append(list, c)[Len(list) + 1] = c
  <1>1. PICK S : list \in Seq(S)
    BY DEF IsList
  <1>2. list \in Seq(S \cup {c}) /\ c \in S \cup {c}
    BY <1>1
  <1>3. Append(list, c) \in Seq(S \cup {c})
    BY <1>2
  <1>4. QED
    BY <1>1, <1>2, <1>3, AppendProperties, LenProperties DEF IsList

\* The commands before the one which is added are bracketed as they were.
LEMMA BracketedKept ==
    ASSUME NEW list, IsList(list), NEW c, NEW k \in 1..Len(list), BracketedAt(list, k)
    PROVE  BracketedAt(Append(list, c), k)
  <1>1. \A j \in 1..k : Append(list, c)[j] = list[j]
    BY AddedCommand
  <1>2. k \in Nat /\ k \in 1..k
    BY AddedCommand
  <1>3. \A j \in 1..(k - 1) : j \in 1..k /\ \A i \in (j + 1)..(k - 1) : i \in 1..k
    BY <1>2
  <1>4. QED
    BY <1>1, <1>2, <1>3 DEF BracketedAt

\* LastTransaction() is the last transaction command of a list, if there is one.
LEMMA LastIsLast ==
    ASSUME NEW list, IsList(list)
    PROVE  /\ LastTransaction(list) = 0 => \A i \in 1..Len(list) : list[i].command \notin Transactions
           /\ LastTransaction(list) # 0 =>
                /\ LastTransaction(list) \in 1..Len(list)
                /\ list[LastTransaction(list)].command \in Transactions
                /\ \A i \in (LastTransaction(list) + 1)..Len(list) : list[i].command \notin Transactions
  <1> DEFINE all == {k \in DOMAIN list : list[k].command \in Transactions}
  <1>1. LastTransaction(list) = IF all = {} THEN 0 ELSE CHOOSE k \in all : \A j \in all : j <= k
    BY DEF LastTransaction, Transactions
  <1>2. Len(list) \in Nat /\ DOMAIN list = 1..Len(list)
    BY AddedCommand
  <1>3. all \in SUBSET (1..Len(list))
    BY <1>2
  <1>4. CASE all = {}
    BY <1>1, <1>2, <1>4
  <1>5. CASE all # {}
    <2>1. \E x \in all : \A y \in all : y <= x
      BY <1>2, <1>3, <1>5, GreatestExists
    <2>2. LastTransaction(list) \in all /\ \A y \in all : y <= LastTransaction(list)
      BY <1>1, <1>5, <2>1
    <2>3. QED
      BY <1>2, <2>2
  <1>6. QED
    BY <1>4, <1>5

\* Bracket() throws, or the command can be added.
LEMMA BracketAdds ==
    ASSUME NEW list, IsList(list), NEW cmd \in Transactions, NEW r,
           Bracket(list, cmd, r).at # 0, NEW c,
           c = [command |-> cmd, params |-> Bracket(list, cmd, r).params]
    PROVE  BracketedAt(Append(list, c), Len(list) + 1)
  <1> DEFINE b == LastTransaction(list)
             new == Append(list, c)
  <1>1. /\ Len(list) \in Nat
        /\ \A k \in 1..Len(list) : new[k] = list[k]
        /\ new[Len(list) + 1] = c
        /\ (Len(list) + 1) - 1 = Len(list)
    BY AddedCommand
  <1>2. c.command = cmd /\ c.params = Bracket(list, cmd, r).params
    OBVIOUS
  <1>3. CASE cmd = "BEGIN"
    <2>1. ~(b # 0 /\ list[b].command = "BEGIN")
      BY <1>3 DEF Bracket, Throw
    <2>2. ASSUME NEW j \in 1..Len(list), list[j].command \in Transactions,
                 \A i \in (j + 1)..Len(list) : list[i].command \notin Transactions
          PROVE  list[j].command \in EndsTransaction
      <3>1. b = j
        BY <1>1, <2>2, LastIsLast
      <3>2. QED
        BY <1>1, <2>1, <2>2, <3>1 DEF Transactions
    <2>3. \A j \in 1..Len(list) : \A i \in (j + 1)..Len(list) : i \in 1..Len(list)
      BY <1>1
    <2> HIDE DEF new, b
    <2>4. new[Len(list) + 1].command \notin EndsTransaction
      BY <1>1, <1>2, <1>3 DEF EndsTransaction
    <2>5. QED
      BY <1>1, <2>2, <2>3, <2>4 DEF BracketedAt, new
  <1>4. CASE cmd # "BEGIN"
    <2>1. b # 0 /\ list[b].command = "BEGIN"
      BY <1>4 DEF Bracket, Throw
    <2>2. Bracket(list, cmd, r).params["TYPE"] = list[b].params["TYPE"]
      BY <1>4, <2>1 DEF Bracket, Throw, At, Set
    <2>3. /\ b \in 1..Len(list) /\ list[b].command \in Transactions
          /\ \A i \in (b + 1)..Len(list) : list[i].command \notin Transactions
      BY <2>1, LastIsLast
    <2>4. \A i \in (b + 1)..Len(list) : i \in 1..Len(list)
      BY <1>1, <2>3
    <2>5. new[Len(list) + 1].command # "BEGIN" /\ new[Len(list) + 1].params["TYPE"] = list[b].params["TYPE"]
      BY <1>1, <1>2, <1>4, <2>2
    <2> HIDE DEF new, b
    <2>6. QED
      BY <1>1, <2>1, <2>3, <2>4, <2>5 DEF BracketedAt, new
  <1>5. QED
    BY <1>3, <1>4

\* The outcomes of a statement which may add a command, and the others.
LEMMA StatementCases ==
    ASSUME NEW t, NEW list
    PROVE  LET ps == ParseStatement(t, list)
               word == StringOf(t, 1)
           IN  \/ ps \in {Made("EOF", "", At(1, None)), Made("command", "CONFIG", ParseConfig(t, 2)),
                          Made("command", "SELECT", ParseSelect(t, 2)),
                          Made("command", "CREATE_CONTEXT", ParseCreateContext(t, 3)), NoCommand(t)}
               \/ /\ ps = Made("command", word, ParseTransactionCommand(t, 2, list, word))
                  /\ word \in {"BEGIN", "COMMIT", "ROLLBACK"}
  <1> DEFINE ps == ParseStatement(t, list)
             word == StringOf(t, 1)
             p == Made("command", word, ParseTransactionCommand(t, 2, list, word))
             others == {Made("EOF", "", At(1, None)), Made("command", "CONFIG", ParseConfig(t, 2)),
                        Made("command", "SELECT", ParseSelect(t, 2)),
                        Made("command", "CREATE_CONTEXT", ParseCreateContext(t, 3)), NoCommand(t)}
  <1>1. ps \in others \/ ps = p
    BY SMTT(30) DEF ParseStatement
  <1>2. ASSUME word \notin {"BEGIN", "COMMIT", "ROLLBACK"} PROVE ps \in others
    BY <1>2, SMTT(30) DEF ParseStatement
  <1> HIDE DEF ps, word, p, others
  <1>3. QED
    BY <1>1, <1>2, Zenon DEF ps, word, p, others

\* What parse() adds to the list is not of a transaction, or Bracket() let it pass.
LEMMA ParsedCommand ==
    ASSUME NEW t, NEW list, ParseStatement(t, list).kind = "command"
    PROVE  LET c == ParseStatement(t, list).command
           IN  \/ c.command \notin Transactions
               \/ \E cmd \in Transactions : \E r :
                     /\ Bracket(list, cmd, r).at # 0
                     /\ c = [command |-> cmd, params |-> Bracket(list, cmd, r).params]
  <1> DEFINE word == StringOf(t, 1)
             p == ParseTransactionCommand(t, 2, list, word)
             ps == ParseStatement(t, list)
  <1>1. \A kind, cmd, r : /\ Made(kind, cmd, r).command.command = cmd
                          /\ Made(kind, cmd, r).command = [command |-> cmd, params |-> r.params]
                          /\ Made(kind, cmd, r).kind = "command" => r.at # 0 /\ kind = "command"
    BY DEF Made
  <1>2. \/ ps = Made("command", word, p) /\ word \in {"BEGIN", "COMMIT", "ROLLBACK"}
        \/ \E r : ps = Made("command", "CONFIG", r)
        \/ \E r : ps = Made("command", "SELECT", r)
        \/ \E r : ps = Made("command", "CREATE_CONTEXT", r)
        \/ \E kind \in {"EOF", "nothing", "quit", "error", "unknown"} : \E cmd, r : ps = Made(kind, cmd, r)
    <2>1. \/ ps \in {Made("EOF", "", At(1, None)), Made("command", "CONFIG", ParseConfig(t, 2)),
                     Made("command", "SELECT", ParseSelect(t, 2)),
                     Made("command", "CREATE_CONTEXT", ParseCreateContext(t, 3)), NoCommand(t)}
          \/ ps = Made("command", word, p) /\ word \in {"BEGIN", "COMMIT", "ROLLBACK"}
      BY StatementCases
    <2>2. \/ NoCommand(t) = Made("nothing", "", ParseAlterIndex(t, 3))
          \/ NoCommand(t) = Made("quit", "", ExpectSemiColon(t, At(2, None)))
          \/ NoCommand(t) = Made("error", "", Throw)
          \/ NoCommand(t) = Made("unknown", word, At(2, None))
      BY SMT DEF NoCommand
    <2> HIDE DEF ps, p, word
    <2>3. QED
      BY <2>1, <2>2, Zenon
  <1>3. CASE ps = Made("command", word, p) /\ word \in {"BEGIN", "COMMIT", "ROLLBACK"}
    <2>1. p.at # 0 /\ ps.command = [command |-> word, params |-> p.params]
      BY <1>1, <1>3
    <2>2. PICK r : p = Bracket(list, word, r)
      BY DEF ParseTransactionCommand
    <2>3. word \in Transactions
      BY <1>3 DEF Transactions, EndsTransaction
    <2>4. QED
      BY <2>1, <2>2, <2>3
  <1>4. CASE \E r : \E cmd \in {"CONFIG", "SELECT", "CREATE_CONTEXT"} : ps = Made("command", cmd, r)
    BY <1>1, <1>4 DEF Transactions, EndsTransaction
  <1>5. CASE \E kind \in {"EOF", "nothing", "quit", "error", "unknown"} : \E cmd, r : ps = Made(kind, cmd, r)
    BY <1>1, <1>5
  <1>6. QED
    BY <1>2, <1>3, <1>4, <1>5

-----------------------------------------------------------------------------
(* The console.                                                            *)

ListInv == IsList(commands) /\ \A k \in DOMAIN commands : BracketedAt(commands, k)

\* The list of commands starts empty.
LEMMA EmptyList == IsList(<<>>) /\ \A k \in DOMAIN <<>> : BracketedAt(<<>>, k)
  <1>1. <<>> \in Seq({})
    OBVIOUS
  <1>2. QED
    BY <1>1 DEF IsList

\* A step of the console keeps the list bracketed.
LEMMA ListStep ==
    ASSUME ListInv, [ConsoleNext]_session
    PROVE  ListInv'
  <1>1. CASE UNCHANGED commands
    BY <1>1 DEF ListInv
  <1>2. CASE StartParsing
    BY <1>2, EmptyList DEF StartParsing, ListInv
  <1>3. CASE Parse
    <2>1. PICK t : commands' = IF ParseStatement(t, commands).kind = "command"
                               THEN Append(commands, ParseStatement(t, commands).command) ELSE commands
      BY <1>3 DEF Parse
    <2> DEFINE c == ParseStatement(t, commands).command
    <2>2. CASE ParseStatement(t, commands).kind = "command"
      <3>1. commands' = Append(commands, c)
        BY <2>1, <2>2
      <3>2. /\ IsList(commands) /\ Len(commands) \in Nat /\ DOMAIN commands = 1..Len(commands)
            /\ IsList(commands') /\ DOMAIN commands' = 1..(Len(commands) + 1)
        BY <3>1, AddedCommand DEF ListInv
      <3>3. ASSUME NEW k \in 1..Len(commands) PROVE BracketedAt(commands', k)
        <4>1. BracketedAt(commands, k)
          BY <3>2, <3>3 DEF ListInv
        <4>2. QED
          BY <3>1, <3>2, <4>1, BracketedKept
      <3>4. BracketedAt(commands', Len(commands) + 1)
        <4>1. CASE c.command \notin Transactions
          <5>1. commands'[Len(commands) + 1] = c
            BY <3>1, <3>2, AddedCommand
          <5>2. QED
            BY <4>1, <5>1 DEF BracketedAt, Transactions
        <4>2. CASE c.command \in Transactions
          <5>1. PICK cmd \in Transactions : \E r :
                        /\ Bracket(commands, cmd, r).at # 0
                        /\ c = [command |-> cmd, params |-> Bracket(commands, cmd, r).params]
            BY <2>2, <4>2, ParsedCommand
          <5>2. PICK r : /\ Bracket(commands, cmd, r).at # 0
                         /\ c = [command |-> cmd, params |-> Bracket(commands, cmd, r).params]
            BY <5>1
          <5> HIDE DEF c
          <5>3. QED
            BY <3>1, <3>2, <5>2, BracketAdds
        <4>3. QED
          BY <4>1, <4>2
      <3>5. \A k \in 1..(Len(commands) + 1) : k \in 1..Len(commands) \/ k = Len(commands) + 1
        BY <3>2
      <3> HIDE DEF c
      <3>6. \A k \in DOMAIN commands' : BracketedAt(commands', k)
        BY <3>2, <3>3, <3>4, <3>5
      <3>7. QED
        BY <3>2, <3>6 DEF ListInv, BracketedAt, IsList
    <2>3. CASE ParseStatement(t, commands).kind # "command"
      BY <1>1, <2>1, <2>3
    <2>4. QED
      BY <2>2, <2>3
  <1>4. QED
    BY <1>1, <1>2, <1>3
       DEF ConsoleNext, session, Run, ExecuteCommands, ShowStatus, Stop

(* Whatever statements a user types, the transactions of the list which    *)
(* parser::parse() makes do not nest, and each COMMIT or ROLLBACK ends a   *)
(* BEGIN of its own type (parse_transaction_command()).                    *)
THEOREM TransactionsBracketed == ConsoleSpec => []TransactionsAreBracketed
  <1>1. ConsoleInit => ListInv
    BY EmptyList DEF ConsoleInit, ListInv
  <1>2. ListInv => TransactionsAreBracketed
    BY BracketedList DEF ListInv
  <1>3. QED
    BY <1>1, <1>2, ListStep, PTL DEF ConsoleSpec

-----------------------------------------------------------------------------
(* The lexer: operators.                                                   *)

\* A text is a sequence: of what does not matter.
IsText(t) == Len(t) \in Nat /\ DOMAIN t = 1..Len(t)

\* A text of operators and blanks, without comments.
Plain(t) == IsText(t) /\ OperatorsOnly(t) /\ ~HasComment(t)

\* What input::getc() returns is a text.
LEMMA NormalizedIsText ==
    ASSUME NEW t \in Seq(STRING)
    PROVE  IsText(Normalized(t))
  <1> DEFINE kept == {k \in DOMAIN t : ~(t[k] = "\n" /\ k > 1 /\ t[k - 1] = "\r")}
             n == Cardinality(kept)
  <1>1. Len(t) \in Nat /\ DOMAIN t = 1..Len(t)
    BY LenProperties
  <1>2. n \in Nat
    <2>1. IsFiniteSet(1..Len(t))
      <3>1. 1 \in Int /\ Len(t) \in Int
        BY <1>1
      <3>2. QED
        BY <3>1, FS_Interval
    <2>2. kept \in SUBSET (1..Len(t))
      BY <1>1
    <2> HIDE DEF kept
    <2>3. IsFiniteSet(kept)
      BY <2>1, <2>2, FS_Subset
    <2>4. QED
      BY <2>3, FS_CardinalityType
  <1> HIDE DEF n
  <1>3. DOMAIN Normalized(t) = 1..n
    BY DEF Normalized, n
  <1> DEFINE u == Normalized(t)
             S == {u[k] : k \in 1..n}
  <1>4. u = [k \in 1..n |-> u[k]]
    BY DEF Normalized, n
  <1>5. u \in [1..n -> S]
    <2> HIDE DEF u
    <2>1. QED
      BY <1>4
  <1> HIDE DEF u, S
  <1>6. u \in Seq(S)
    BY <1>2, <1>5, SeqDef
  <1>7. QED
    BY <1>6, LenProperties DEF IsText, u


\* The operators of one character, and those of two with their characters.
OneChar == Singles \cup {":", "<", ">", "|", "/", "-"}
Pairs == {<<"!~", "!", "~">>, <<"::", ":", ":">>, <<"<=", "<", "=">>, <<"<<", "<", "<">>, <<"<>", "<", ">">>,
          <<">=", ">", "=">>, <<">>", ">", ">">>, <<"|/", "|", "/">>, <<"||", "|", "|">>}

\* The operators of one, two and three characters.
LEMMA OperatorSizes ==
    ASSUME NEW p
    PROVE  p \in OperatorTable <=>
              \/ \E c \in OneChar : p = <<c, <<c>>>>
              \/ \E x \in Pairs : p = <<x[1], <<x[2], x[3]>>>>
              \/ p = <<"||/", <<"|", "|", "/">>>>
  BY DEF OperatorTable, OneChar, Pairs

\* The entries of the table.
Single(c) == <<c, <<c>>>>
Pair(x) == <<x[1], <<x[2], x[3]>>>>
Triple == <<"||/", <<"|", "|", "/">>>>

\* What an entry says.
LEMMA Sizes ==
    /\ \A c : Len(Single(c)[2]) = 1 /\ Single(c)[2][1] = c /\ Single(c)[1] = c
    /\ \A x \in Pairs : Len(Pair(x)[2]) = 2 /\ Pair(x)[2][1] = x[2] /\ Pair(x)[2][2] = x[3] /\ Pair(x)[1] = x[1]
    /\ Len(Triple[2]) = 3 /\ Triple[2][1] = "|" /\ Triple[2][2] = "|" /\ Triple[2][3] = "/" /\ Triple[1] = "||/"
  BY DEF Single, Pair, Triple

\* The operators which are written at a place of a text.
LEMMA HereFacts ==
    ASSUME NEW t, NEW i \in Nat
    PROVE  /\ \A c \in OneChar : CharAt(t, i) = c => Single(c) \in Here(t, i)
           /\ \A x \in Pairs : CharAt(t, i) = x[2] /\ CharAt(t, i + 1) = x[3] => Pair(x) \in Here(t, i)
           /\ CharAt(t, i) = "|" /\ CharAt(t, i + 1) = "|" /\ CharAt(t, i + 2) = "/" => Triple \in Here(t, i)
           /\ \A q \in Here(t, i) :
                \/ CharAt(t, i) \in OneChar /\ q = Single(CharAt(t, i))
                \/ \E x \in Pairs : q = Pair(x) /\ CharAt(t, i) = x[2] /\ CharAt(t, i + 1) = x[3]
                \/ q = Triple /\ CharAt(t, i) = "|" /\ CharAt(t, i + 1) = "|" /\ CharAt(t, i + 2) = "/"
  <1>0. (i + 1) - 1 = i /\ (i + 2) - 1 = i + 1 /\ (i + 3) - 1 = i + 2
    OBVIOUS
  <1>1. ASSUME NEW c \in OneChar, CharAt(t, i) = c PROVE Single(c) \in Here(t, i)
    <2>1. Single(c) \in OperatorTable
      BY OperatorSizes DEF Single
    <2>2. \A k \in 1..1 : CharAt(t, (i + k) - 1) = Single(c)[2][k]
      BY <1>0, <1>1, Sizes
    <2>3. QED
      BY SMTT(30), <2>1, <2>2, Sizes DEF Here
  <1>2. ASSUME NEW x \in Pairs, CharAt(t, i) = x[2], CharAt(t, i + 1) = x[3] PROVE Pair(x) \in Here(t, i)
    <2>1. Pair(x) \in OperatorTable
      BY OperatorSizes DEF Pair
    <2>2. \A k \in 1..2 : k = 1 \/ k = 2
      OBVIOUS
    <2>3. \A k \in 1..2 : CharAt(t, (i + k) - 1) = Pair(x)[2][k]
      BY <1>0, <1>2, <2>2, Sizes
    <2>4. Len(Pair(x)[2]) = 2
      BY Sizes
    <2>5. QED
      BY <2>1, <2>3, <2>4 DEF Here
  <1>3. ASSUME CharAt(t, i) = "|", CharAt(t, i + 1) = "|", CharAt(t, i + 2) = "/" PROVE Triple \in Here(t, i)
    <2>1. Triple \in OperatorTable
      BY OperatorSizes DEF Triple
    <2>2. \A k \in 1..3 : k = 1 \/ k = 2 \/ k = 3
      OBVIOUS
    <2>3. \A k \in 1..3 : CharAt(t, (i + k) - 1) = Triple[2][k]
      BY <1>0, <1>3, <2>2, Sizes
    <2>4. Len(Triple[2]) = 3
      BY Sizes
    <2>5. QED
      BY <2>1, <2>3, <2>4 DEF Here
  <1>4. ASSUME NEW q \in Here(t, i)
        PROVE  \/ CharAt(t, i) \in OneChar /\ q = Single(CharAt(t, i))
               \/ \E x \in Pairs : q = Pair(x) /\ CharAt(t, i) = x[2] /\ CharAt(t, i + 1) = x[3]
               \/ q = Triple /\ CharAt(t, i) = "|" /\ CharAt(t, i + 1) = "|" /\ CharAt(t, i + 2) = "/"
    <2>1. q \in OperatorTable /\ \A k \in 1..Len(q[2]) : CharAt(t, (i + k) - 1) = q[2][k]
      BY DEF Here
    <2>2. CASE \E c \in OneChar : q = Single(c)
      <3>1. PICK c \in OneChar : q = Single(c)
        BY <2>2
      <3>2. 1 \in 1..1
        OBVIOUS
      <3>3. CharAt(t, (i + 1) - 1) = c
        BY <2>1, <3>1, <3>2, Sizes
      <3>4. QED
        BY <1>0, <3>1, <3>3
    <2>3. CASE \E x \in Pairs : q = Pair(x)
      <3>1. PICK x \in Pairs : q = Pair(x)
        BY <2>3
      <3>2. 1 \in 1..2 /\ 2 \in 1..2
        OBVIOUS
      <3>3. CharAt(t, (i + 1) - 1) = x[2] /\ CharAt(t, (i + 2) - 1) = x[3]
        BY <2>1, <3>1, <3>2, Sizes
      <3>4. QED
        BY <1>0, <3>1, <3>3
    <2>4. CASE q = Triple
      <3>1. 1 \in 1..3 /\ 2 \in 1..3 /\ 3 \in 1..3
        OBVIOUS
      <3>2. CharAt(t, (i + 1) - 1) = "|" /\ CharAt(t, (i + 2) - 1) = "|" /\ CharAt(t, (i + 3) - 1) = "/"
        BY <2>1, <2>4, <3>1, Sizes
      <3>3. QED
        BY <1>0, <2>4, <3>2
    <2>5. QED
      BY <2>1, <2>2, <2>3, <2>4, OperatorSizes DEF Single, Pair, Triple
  <1>5. QED
    BY <1>1, <1>2, <1>3, <1>4

\* An operator which is longer than the others at its place is the longest.
LEMMA LongestIs ==
    ASSUME NEW t, NEW i, NEW p \in Here(t, i), Len(p[2]) \in Nat,
           \A q \in Here(t, i) : q = p \/ (Len(q[2]) \in Nat /\ Len(q[2]) < Len(p[2]))
    PROVE  Longest(t, i) = p
  <1> DEFINE l == Longest(t, i)
  <1>1. l \in Here(t, i) /\ \A q \in Here(t, i) : Len(q[2]) <= Len(l[2])
    <2>1. \A q \in Here(t, i) : Len(q[2]) <= Len(p[2])
      OBVIOUS
    <2>2. QED
      BY <2>1 DEF Longest
  <1> HIDE DEF l
  <1>2. QED
    BY <1>1 DEF l


\* Two characters are one operator at most.
LEMMA PairOf ==
    ASSUME NEW x \in Pairs, NEW y \in Pairs, x[2] = y[2], x[3] = y[3]
    PROVE  x = y
  BY DEF Pairs

\* Which of the operators at a place is the longest one.
LEMMA LongestAt ==
    ASSUME NEW t, NEW i \in Nat
    PROVE  /\ CharAt(t, i) = "|" /\ CharAt(t, i + 1) = "|" /\ CharAt(t, i + 2) = "/" => Longest(t, i) = Triple
           /\ ~(CharAt(t, i) = "|" /\ CharAt(t, i + 1) = "|" /\ CharAt(t, i + 2) = "/") =>
                /\ \A x \in Pairs : CharAt(t, i) = x[2] /\ CharAt(t, i + 1) = x[3] => Longest(t, i) = Pair(x)
                /\ (\A x \in Pairs : ~(CharAt(t, i) = x[2] /\ CharAt(t, i + 1) = x[3])) /\ CharAt(t, i) \in OneChar
                   => Longest(t, i) = Single(CharAt(t, i))
  <1> DEFINE c == CharAt(t, i)
             d == CharAt(t, i + 1)
             e == CharAt(t, i + 2)
             three == c = "|" /\ d = "|" /\ e = "/"
  <1>1. ASSUME NEW q \in Here(t, i)
        PROVE  \/ c \in OneChar /\ q = Single(c)
               \/ \E x \in Pairs : q = Pair(x) /\ c = x[2] /\ d = x[3]
               \/ q = Triple /\ three
    BY HereFacts
  <1>2. /\ \A k \in OneChar : c = k => Single(k) \in Here(t, i)
        /\ \A x \in Pairs : c = x[2] /\ d = x[3] => Pair(x) \in Here(t, i)
        /\ three => Triple \in Here(t, i)
    BY HereFacts
  <1>3. /\ \A k : Len(Single(k)[2]) = 1
        /\ \A x \in Pairs : Len(Pair(x)[2]) = 2
        /\ Len(Triple[2]) = 3
    BY Sizes
  <1> HIDE DEF c, d, e
  <1>4. CASE three
    <2>1. Triple \in Here(t, i) /\ Len(Triple[2]) \in Nat
      BY <1>2, <1>3, <1>4
    <2>2. ASSUME NEW q \in Here(t, i)
          PROVE  q = Triple \/ (Len(q[2]) \in Nat /\ Len(q[2]) < Len(Triple[2]))
      <3>1. q = Triple \/ Len(q[2]) = 1 \/ Len(q[2]) = 2
        BY <1>1, <1>3
      <3>2. Len(Triple[2]) = 3
        BY <1>3
      <3> DEFINE m == Len(q[2])
                 n == Len(Triple[2])
      <3> HIDE DEF m, n
      <3>3. q = Triple \/ m = 1 \/ m = 2
        BY <3>1 DEF m
      <3>4. n = 3
        BY <3>2 DEF n
      <3>5. q = Triple \/ (m \in Nat /\ m < n)
        BY <3>3, <3>4
      <3>6. QED
        BY <3>5 DEF m, n
    <2>3. Longest(t, i) = Triple
      BY <2>1, <2>2, LongestIs
    <2>4. QED
      BY <1>4, <2>3 DEF c, d, e
  <1>5. ASSUME ~three, NEW x \in Pairs, c = x[2], d = x[3]
        PROVE  Longest(t, i) = Pair(x)
    <2>1. Pair(x) \in Here(t, i) /\ Len(Pair(x)[2]) \in Nat
      BY <1>2, <1>3, <1>5
    <2>2. ASSUME NEW q \in Here(t, i)
          PROVE  q = Pair(x) \/ (Len(q[2]) \in Nat /\ Len(q[2]) < Len(Pair(x)[2]))
      <3>1. \A y \in Pairs : c = y[2] /\ d = y[3] => y = x
        BY <1>5, PairOf
      <3>2. q = Pair(x) \/ Len(q[2]) = 1
        BY <1>1, <1>3, <1>5, <3>1
      <3>3. Len(Pair(x)[2]) = 2
        BY <1>3
      <3> DEFINE m == Len(q[2])
                 n == Len(Pair(x)[2])
      <3> HIDE DEF m, n
      <3>4. q = Pair(x) \/ m = 1
        BY <3>2 DEF m
      <3>5. n = 2
        BY <3>3 DEF n
      <3>6. q = Pair(x) \/ (m \in Nat /\ m < n)
        BY <3>4, <3>5
      <3>7. QED
        BY <3>6 DEF m, n
    <2>3. QED
      BY <2>1, <2>2, LongestIs
  <1>6. ASSUME ~three, \A x \in Pairs : ~(c = x[2] /\ d = x[3]), c \in OneChar
        PROVE  Longest(t, i) = Single(c)
    <2>1. Single(c) \in Here(t, i) /\ Len(Single(c)[2]) \in Nat
      BY <1>2, <1>3, <1>6
    <2>2. \A q \in Here(t, i) : q = Single(c)
      BY <1>1, <1>6
    <2>3. QED
      BY <2>1, <2>2, LongestIs
  <1>7. QED
    BY <1>4, <1>5, <1>6 DEF c, d, e

\* The place after an operator is a place of the text or the one after it.
LEMMA AfterOperator ==
    ASSUME NEW t, IsText(t), NEW i \in 1..Len(t), NEW p \in Here(t, i)
    PROVE  /\ Len(p[2]) \in 1..3
           /\ i + Len(p[2]) \in (i + 1)..(Len(t) + 1)
           /\ p[1] \notin {"EOF", "error"}
  <1>0. i \in Nat /\ Len(t) \in Nat /\ (i + 1) - 1 = i
    BY DEF IsText
  <1>1. \/ CharAt(t, i) \in OneChar /\ p = Single(CharAt(t, i))
        \/ \E x \in Pairs : p = Pair(x) /\ CharAt(t, i) = x[2] /\ CharAt(t, i + 1) = x[3]
        \/ p = Triple /\ CharAt(t, i) = "|" /\ CharAt(t, i + 1) = "|" /\ CharAt(t, i + 2) = "/"
    BY <1>0, HereFacts
  <1>2. CASE CharAt(t, i) \in OneChar /\ p = Single(CharAt(t, i))
    <2>1. Len(p[2]) = 1 /\ p[1] = CharAt(t, i)
      BY <1>2, Sizes
    <2>2. p[1] \notin {"EOF", "error"}
      BY <1>2, <2>1 DEF OneChar, Singles
    <2>3. QED
      BY <1>0, <2>1, <2>2
  <1>3. ASSUME NEW x \in Pairs, p = Pair(x), CharAt(t, i + 1) = x[3]
        PROVE  /\ Len(p[2]) \in 1..3
               /\ i + Len(p[2]) \in (i + 1)..(Len(t) + 1)
               /\ p[1] \notin {"EOF", "error"}
    <2>1. Len(p[2]) = 2 /\ p[1] = x[1]
      BY <1>3, Sizes
    <2>2. x[1] \notin {"EOF", "error"} /\ x[3] # "EOS"
      BY DEF Pairs
    <2>3. i + 1 <= Len(t)
      BY <1>0, <1>3, <2>2 DEF CharAt
    <2>4. QED
      BY <1>0, <2>1, <2>2, <2>3
  <1>4. CASE p = Triple /\ CharAt(t, i + 2) = "/"
    <2>1. Len(p[2]) = 3 /\ p[1] = "||/"
      BY <1>4, Sizes
    <2>2. i + 2 <= Len(t)
      BY <1>0, <1>4 DEF CharAt
    <2>3. QED
      BY <1>0, <2>1, <2>2
  <1>5. QED
    BY <1>1, <1>2, <1>3, <1>4


\* get_next_token() takes the longest of the operators at a place.
LEMMA TokenIsLongest ==
    ASSUME NEW t, NEW i \in Nat, Here(t, i) # {}, ~(CharAt(t, i) = "/" /\ CharAt(t, i + 1) = "*")
    PROVE  /\ Longest(t, i) \in Here(t, i)
           /\ TokenAt(t, i) = Token(Longest(t, i)[1], 0, i + Len(Longest(t, i)[2]))
  <1> DEFINE c == CharAt(t, i)
             d == CharAt(t, i + 1)
             e == CharAt(t, i + 2)
             cut(p) == p \in Here(t, i) /\ Longest(t, i) = p /\ TokenAt(t, i) = Token(p[1], 0, i + Len(p[2]))
  <1>0. SUFFICES \E p : cut(p)
    BY DEF cut
  <1>1. \/ c \in OneChar
        \/ \E x \in Pairs : c = x[2] /\ d = x[3]
    <2>1. PICK q : q \in Here(t, i)
      OBVIOUS
    <2>2. "|" \in OneChar
      BY DEF OneChar
    <2>3. QED
      BY <2>1, <2>2, HereFacts
  <1>2. c \in Punctuation /\ c # "EOS"
    <2> HIDE DEF c
    <2>1. \A x \in Pairs : x[2] \in {"!", ":", "<", ">", "|"}
      BY DEF Pairs
    <2>2. c \in OneChar => c \in Punctuation
      BY DEF OneChar, Punctuation
    <2>3. c \in {"!", ":", "<", ">", "|"} => c \in Punctuation
      BY DEF Punctuation
    <2>4. \A k \in Punctuation : k # "EOS"
      BY DEF Punctuation, Singles
    <2>5. QED
      BY <1>1, <2>1, <2>2, <2>3, <2>4
  <1>3. TokenAt(t, i) = PunctuationAt(t, i)
    BY <1>2 DEF TokenAt
  <1>4. ASSUME NEW x \in Pairs, c = x[2], d = x[3], ~(c = "|" /\ d = "|" /\ e = "/"),
               Compound(t, i) = Token(x[1], 0, i + 2)
        PROVE  cut(Pair(x))
    <2>1. c \in {"!", ":", "<", ">", "|"}
      BY <1>4 DEF Pairs
    <2>2. PunctuationAt(t, i) = Compound(t, i)
      BY <2>1 DEF PunctuationAt
    <2>3. Longest(t, i) = Pair(x) /\ Pair(x) \in Here(t, i)
      BY <1>4, LongestAt, HereFacts
    <2>4. Len(Pair(x)[2]) = 2 /\ Pair(x)[1] = x[1]
      BY Sizes
    <2>5. QED
      BY <1>3, <1>4, <2>2, <2>3, <2>4
  <1>5. ASSUME c \in OneChar, \A x \in Pairs : ~(c = x[2] /\ d = x[3]), PunctuationAt(t, i) = Token(c, 0, i + 1)
        PROVE  cut(Single(c))
    <2>1. <<"||", "|", "|">> \in Pairs
      BY DEF Pairs
    <2>2. ~(c = "|" /\ d = "|" /\ e = "/")
      BY <1>5, <2>1
    <2>3. Longest(t, i) = Single(c) /\ Single(c) \in Here(t, i)
      BY <1>5, <2>2, LongestAt, HereFacts
    <2>4. Len(Single(c)[2]) = 1 /\ Single(c)[1] = c
      BY Sizes
    <2>5. QED
      BY <1>3, <1>5, <2>3, <2>4
  <1> HIDE DEF cut
  <1>6. CASE c \notin {"!", ":", "<", ">", "|"}
    <2>1. \A x \in Pairs : c # x[2]
      BY <1>6 DEF Pairs
    <2>2. PunctuationAt(t, i) = Token(c, 0, i + 1)
      BY <1>6 DEF PunctuationAt
    <2>3. QED
      BY <1>1, <1>5, <2>1, <2>2
  <1>7. CASE c \in {"!", ":", "<", ">", "|"}
    <2>0. PunctuationAt(t, i) = Compound(t, i)
      BY <1>7 DEF PunctuationAt
    <2>1. CASE c = "!"
      <3>1. d = "~"
        BY <1>1, <2>1 DEF OneChar, Singles, Pairs
      <3>2. Compound(t, i) = Token("!~", 0, i + 2)
        BY <2>1, <3>1 DEF Compound
      <3>3. <<"!~", "!", "~">> \in Pairs
        BY DEF Pairs
      <3>4. QED
        BY <1>4, <2>1, <3>1, <3>2, <3>3
    <2>2. CASE c = ":"
      <3>0. c \in OneChar
        BY <2>2 DEF OneChar
      <3>1. CASE d = ":"
        <4>1. Compound(t, i) = Token("::", 0, i + 2)
          BY <2>2, <3>1 DEF Compound
        <4>2. <<"::", ":", ":">> \in Pairs
          BY DEF Pairs
        <4>3. QED
          BY <1>4, <2>2, <3>1, <4>1, <4>2
      <3>2. CASE d # ":"
        <4>1. Compound(t, i) = Token(c, 0, i + 1)
          BY <2>2, <3>2 DEF Compound
        <4>2. \A x \in Pairs : ~(c = x[2] /\ d = x[3])
          BY <2>2, <3>2 DEF Pairs
        <4>3. QED
          BY <1>5, <2>0, <3>0, <4>1, <4>2
      <3>3. QED
        BY <3>1, <3>2
    <2>3. CASE c = "<"
      <3>0. c \in OneChar
        BY <2>3 DEF OneChar
      <3>1. CASE d \in {"=", "<", ">"}
        <4>1. Compound(t, i) = Token(IF d = "=" THEN "<=" ELSE IF d = "<" THEN "<<" ELSE "<>", 0, i + 2)
          BY <2>3, <3>1 DEF Compound
        <4>2. <<IF d = "=" THEN "<=" ELSE IF d = "<" THEN "<<" ELSE "<>", "<", d>> \in Pairs
          BY <3>1 DEF Pairs
        <4>3. QED
          BY <1>4, <2>3, <3>1, <4>1, <4>2
      <3>2. CASE d \notin {"=", "<", ">"}
        <4>1. Compound(t, i) = Token(c, 0, i + 1)
          BY <2>3, <3>2 DEF Compound
        <4>2. \A x \in Pairs : ~(c = x[2] /\ d = x[3])
          BY <2>3, <3>2 DEF Pairs
        <4>3. QED
          BY <1>5, <2>0, <3>0, <4>1, <4>2
      <3>3. QED
        BY <3>1, <3>2
    <2>4. CASE c = ">"
      <3>0. c \in OneChar
        BY <2>4 DEF OneChar
      <3>1. CASE d \in {"=", ">"}
        <4>1. Compound(t, i) = Token(IF d = "=" THEN ">=" ELSE ">>", 0, i + 2)
          BY <2>4, <3>1 DEF Compound
        <4>2. <<IF d = "=" THEN ">=" ELSE ">>", ">", d>> \in Pairs
          BY <3>1 DEF Pairs
        <4>3. QED
          BY <1>4, <2>4, <3>1, <4>1, <4>2
      <3>2. CASE d \notin {"=", ">"}
        <4>1. Compound(t, i) = Token(c, 0, i + 1)
          BY <2>4, <3>2 DEF Compound
        <4>2. \A x \in Pairs : ~(c = x[2] /\ d = x[3])
          BY <2>4, <3>2 DEF Pairs
        <4>3. QED
          BY <1>5, <2>0, <3>0, <4>1, <4>2
      <3>3. QED
        BY <3>1, <3>2
    <2>5. CASE c = "|"
      <3>0. c \in OneChar
        BY <2>5 DEF OneChar
      <3>1. CASE d = "/"
        <4>1. Compound(t, i) = Token("|/", 0, i + 2)
          BY <2>5, <3>1 DEF Compound
        <4>2. <<"|/", "|", "/">> \in Pairs
          BY DEF Pairs
        <4>3. QED
          BY <1>4, <2>5, <3>1, <4>1, <4>2
      <3>2. CASE d = "|" /\ e # "/"
        <4>1. Compound(t, i) = Token("||", 0, i + 2)
          BY <2>5, <3>2 DEF Compound
        <4>2. <<"||", "|", "|">> \in Pairs
          BY DEF Pairs
        <4>3. QED
          BY <1>4, <2>5, <3>2, <4>1, <4>2
      <3>3. CASE d = "|" /\ e = "/"
        <4>1. Compound(t, i) = Token("||/", 0, i + 3)
          BY <2>5, <3>3 DEF Compound
        <4>2. Longest(t, i) = Triple /\ Triple \in Here(t, i)
          BY <2>5, <3>3, LongestAt, HereFacts
        <4>3. Len(Triple[2]) = 3 /\ Triple[1] = "||/"
          BY Sizes
        <4>4. QED
          BY <1>3, <2>0, <4>1, <4>2, <4>3 DEF cut
      <3>4. CASE d \notin {"/", "|"}
        <4>1. Compound(t, i) = Token(c, 0, i + 1)
          BY <2>5, <3>4 DEF Compound
        <4>2. \A x \in Pairs : ~(c = x[2] /\ d = x[3])
          BY <2>5, <3>4 DEF Pairs
        <4>3. QED
          BY <1>5, <2>0, <3>0, <4>1, <4>2
      <3>5. QED
        BY <3>1, <3>2, <3>3, <3>4
    <2>6. QED
      BY <1>7, <2>1, <2>2, <2>3, <2>4, <2>5
  <1>8. QED
    BY <1>6, <1>7


\* The character with which an operator starts.
LEMMA StartsOperator ==
    ASSUME NEW t, NEW i \in Nat, Here(t, i) # {}
    PROVE  CharAt(t, i) \notin Blank \cup {"#", "EOS"}
  <1>1. PICK q : q \in Here(t, i)
    OBVIOUS
  <1>2. CharAt(t, i) \in OneChar \/ \E x \in Pairs : CharAt(t, i) = x[2]
    <2>1. "|" \in OneChar
      BY DEF OneChar
    <2>2. QED
      BY <1>1, <2>1, HereFacts
  <1>3. \A c \in OneChar : c \notin Blank \cup {"#", "EOS"}
    BY DEF OneChar, Singles, Blank
  <1>4. \A x \in Pairs : x[2] \notin Blank \cup {"#", "EOS"}
    <2>1. \A x \in Pairs : x[2] \in {"!", ":", "<", ">", "|"}
      BY DEF Pairs
    <2>2. \A c \in {"!", ":", "<", ">", "|"} : c \notin Blank \cup {"#", "EOS"}
      BY DEF Blank
    <2>3. QED
      BY <2>1, <2>2
  <1>5. QED
    BY <1>2, <1>3, <1>4

\* What is at a place of a plain text.
LEMMA PlainAt ==
    ASSUME NEW t, Plain(t), NEW i \in 1..(Len(t) + 1)
    PROVE  /\ i \in Nat /\ Len(t) \in Nat
           /\ \/ i <= Len(t) /\ CharAt(t, i) = t[i] /\ t[i] \in Blank
              \/ i <= Len(t) /\ CharAt(t, i) = t[i] /\ t[i] \notin Blank /\ Here(t, i) # {}
              \/ i = Len(t) + 1 /\ CharAt(t, i) = "EOS"
           /\ ~(CharAt(t, i) = "-" /\ CharAt(t, i + 1) = "-")
           /\ ~(CharAt(t, i) = "/" /\ CharAt(t, i + 1) = "*")
  <1>1. i \in Nat /\ Len(t) \in Nat /\ DOMAIN t = 1..Len(t)
    BY DEF Plain, IsText
  <1>2. \A k \in 1..Len(t) : t[k] \in Blank \/ Here(t, k) # {}
    BY <1>1 DEF Plain, OperatorsOnly
  <1>3. i <= Len(t) => CharAt(t, i) = t[i]
    BY DEF CharAt
  <1>4. i > Len(t) => CharAt(t, i) = "EOS"
    BY <1>1 DEF CharAt
  <1>5. i + 1 > Len(t) => CharAt(t, i + 1) = "EOS"
    BY <1>1 DEF CharAt
  <1>6. i + 1 <= Len(t) => CharAt(t, i + 1) = t[i + 1] /\ i \in 1..(Len(t) - 1)
    BY <1>1 DEF CharAt
  <1>7. \A k \in 1..(Len(t) - 1) : ~(t[k] = "-" /\ t[k + 1] = "-") /\ ~(t[k] = "/" /\ t[k + 1] = "*")
    BY DEF Plain, HasComment
  <1>8. i <= Len(t) \/ i = Len(t) + 1
    BY <1>1
  <1>9. CharAt(t, i + 1) \in {"-", "*"} => i + 1 <= Len(t)
    BY <1>1, <1>5
  <1>10. i + 1 <= Len(t) => CharAt(t, i) = t[i]
    BY <1>1, <1>3
  <1>11. ~(CharAt(t, i) = "-" /\ CharAt(t, i + 1) = "-") /\ ~(CharAt(t, i) = "/" /\ CharAt(t, i + 1) = "*")
    BY <1>6, <1>7, <1>9, <1>10
  <1>12. i <= Len(t) => i \in 1..Len(t)
    BY <1>1
  <1>13. i = Len(t) + 1 => CharAt(t, i) = "EOS"
    BY <1>1, <1>4
  <1>14. QED
    BY <1>1, <1>2, <1>3, <1>8, <1>11, <1>12, <1>13

\* In a plain text only blanks are skipped.
LEMMA SkipOnePlain ==
    ASSUME NEW t, Plain(t), NEW i \in 1..(Len(t) + 1)
    PROVE  SkipOnce(t, i) = IF CharAt(t, i) \in Blank THEN i + 1 ELSE i
  <1>1. CASE CharAt(t, i) \in Blank
    BY <1>1 DEF SkipOnce, Blank
  <1>2. CASE CharAt(t, i) \notin Blank
    <2>1. CharAt(t, i) # "#"
      BY <1>2, PlainAt, StartsOperator
    <2>2. /\ ~(CharAt(t, i) = "-" /\ CharAt(t, i + 1) = "-")
          /\ ~(CharAt(t, i) = "/" /\ CharAt(t, i + 1) = "*")
      BY PlainAt
    <2>3. QED
      BY <1>2, <2>1, <2>2 DEF SkipOnce
  <1>3. QED
    BY <1>1, <1>2

\* The first place from i on which is not blank.
LEMMA FirstStop ==
    ASSUME NEW t, Plain(t), NEW i \in 1..(Len(t) + 1)
    PROVE  \E s \in i..(Len(t) + 1) : CharAt(t, s) \notin Blank /\ \A k \in i..(s - 1) : CharAt(t, k) \in Blank
  <1> DEFINE K == {k \in Nat : i <= k /\ CharAt(t, k) \notin Blank}
  <1>0. i \in Nat /\ Len(t) \in Nat
    BY PlainAt
  <1>1. Len(t) + 1 \in K
    <2>1. CharAt(t, Len(t) + 1) = "EOS"
      BY <1>0 DEF CharAt
    <2>2. "EOS" \notin Blank
      BY DEF Blank
    <2>3. Len(t) + 1 \in Nat /\ i <= Len(t) + 1
      BY <1>0
    <2>4. CharAt(t, Len(t) + 1) \notin Blank
      BY <2>1, <2>2
    <2> DEFINE k == Len(t) + 1
    <2> HIDE DEF k
    <2>5. k \in Nat /\ i <= k /\ CharAt(t, k) \notin Blank
      BY <2>3, <2>4 DEF k
    <2>6. k \in K
      BY <2>5
    <2>7. QED
      BY <2>6 DEF k
  <1>2. IsWellFoundedOn(OpToRel(<, Nat), Nat)
    BY NatLessThanWellFounded
  <1>3. K \subseteq Nat
    OBVIOUS
  <1> HIDE DEF K
  <1>4. K # {}
    BY <1>1
  <1>5. PICK s \in K : \A j \in K : ~(<<j, s>> \in OpToRel(<, Nat))
    BY <1>2, <1>3, <1>4, WFMin
  <1>6. \A j \in K : ~(j < s)
    BY <1>3, <1>5 DEF OpToRel
  <1>7. s \in i..(Len(t) + 1) /\ CharAt(t, s) \notin Blank
    BY <1>0, <1>1, <1>6 DEF K
  <1>8. \A k \in i..(s - 1) : k \in Nat /\ i <= k /\ k < s
    BY <1>0, <1>7
  <1>9. \A k \in i..(s - 1) : CharAt(t, k) \in Blank
    BY <1>6, <1>8 DEF K
  <1>10. QED
    BY <1>7, <1>9


\* The function which the loop of SkipBlanks() computes.
SkipSteps(t, i, f) ==
    f = [k \in 0..(Len(t) + 1) |->
            IF k = 0 THEN [at |-> i, more |-> TRUE]
            ELSE IF f[k - 1].more
                 THEN [at |-> SkipOnce(t, f[k - 1].at), more |-> SkipOnce(t, f[k - 1].at) # f[k - 1].at]
                 ELSE f[k - 1]]

\* SkipBlanks() is the last value of that function.
LEMMA SkipLoop ==
    ASSUME NEW t, NEW i
    PROVE  SkipBlanks(t, i) = (CHOOSE f : SkipSteps(t, i, f))[Len(t) + 1].at
  BY DEF SkipBlanks, Loop, SkipSteps

\* SkipBlanks() stops at the first place which is not blank.
LEMMA SkipPlain ==
    ASSUME NEW t, Plain(t), NEW i \in 1..(Len(t) + 1), NEW s \in i..(Len(t) + 1),
           CharAt(t, s) \notin Blank, \A k \in i..(s - 1) : CharAt(t, k) \in Blank
    PROVE  SkipBlanks(t, i) = s
  <1> DEFINE n == Len(t) + 1
             w(k) == IF i + k <= s THEN [at |-> i + k, more |-> TRUE] ELSE [at |-> s, more |-> FALSE]
             W == [k \in 0..n |-> w(k)]
             next(r) == IF r.more THEN [at |-> SkipOnce(t, r.at), more |-> SkipOnce(t, r.at) # r.at] ELSE r
             T == {k \in Nat : k <= n => \A f : SkipSteps(t, i, f) => f[k] = w(k)}
  <1>0. i \in Nat /\ i >= 1 /\ n \in Nat /\ s \in Nat /\ i <= s /\ s <= n /\ n >= 1
    BY PlainAt
  <1>1. ASSUME NEW k \in Nat
        PROVE  w(k + 1) = next(w(k))
    <2>1. CASE i + k < s
      <3>1. i + k \in i..(s - 1) /\ i + k \in 1..(Len(t) + 1) /\ i + (k + 1) <= s /\ i + k <= s
        BY <1>0, <2>1
      <3>2. SkipOnce(t, i + k) = (i + k) + 1
        BY <3>1, SkipOnePlain
      <3>3. (i + k) + 1 = i + (k + 1) /\ (i + k) + 1 # i + k
        BY <1>0
      <3>4. QED
        BY <3>1, <3>2, <3>3
    <2>2. CASE i + k = s
      <3>1. s \in 1..(Len(t) + 1) /\ ~(i + (k + 1) <= s) /\ i + k <= s
        BY <1>0, <2>2
      <3>2. SkipOnce(t, s) = s
        BY <3>1, SkipOnePlain
      <3>3. QED
        BY <2>2, <3>1, <3>2
    <2>3. CASE i + k > s
      <3>1. ~(i + (k + 1) <= s) /\ ~(i + k <= s)
        BY <1>0, <2>3
      <3>2. QED
        BY <3>1
    <2>4. QED
      BY <1>0, <2>1, <2>2, <2>3
  <1>2. w(0) = [at |-> i, more |-> TRUE]
    BY <1>0
  <1>3. w(n) = [at |-> s, more |-> FALSE]
    BY <1>0
  <1> HIDE DEF w, n
  <1>4. SkipSteps(t, i, W)
    <2>1. \A k \in 0..n : k # 0 => k - 1 \in Nat /\ k - 1 \in 0..n /\ (k - 1) + 1 = k
      BY <1>0
    <2>2. \A k \in 0..n : k # 0 => W[k - 1] = w(k - 1) /\ w(k) = next(w(k - 1))
      BY <1>1, <2>1
    <2>3. \A k \in 0..n : w(k) = IF k = 0 THEN [at |-> i, more |-> TRUE] ELSE next(W[k - 1])
      BY <1>2, <2>2
    <2>4. W = [k \in 0..n |-> IF k = 0 THEN [at |-> i, more |-> TRUE] ELSE next(W[k - 1])]
      BY <2>3
    <2>5. QED
      BY <2>4 DEF SkipSteps, n
  <1>5. ASSUME NEW f, SkipSteps(t, i, f)
        PROVE  /\ f[0] = [at |-> i, more |-> TRUE]
               /\ \A k \in 1..n : f[k] = next(f[k - 1])
    <2>1. f = [k \in 0..n |-> IF k = 0 THEN [at |-> i, more |-> TRUE] ELSE next(f[k - 1])]
      BY <1>5 DEF SkipSteps, n
    <2> HIDE DEF next
    <2>2. \A k \in 0..n : f[k] = IF k = 0 THEN [at |-> i, more |-> TRUE] ELSE next(f[k - 1])
      BY <2>1
    <2>3. 0 \in 0..n /\ \A k \in 1..n : k \in 0..n /\ k # 0
      BY <1>0
    <2>4. QED
      BY <2>2, <2>3
  <1> HIDE DEF next
  <1>6. 0 \in T
    BY <1>2, <1>5
  <1>7. ASSUME NEW k \in Nat, k \in T PROVE k + 1 \in T
    <2>1. SUFFICES ASSUME k + 1 <= n, NEW f, SkipSteps(t, i, f) PROVE f[k + 1] = w(k + 1)
      OBVIOUS
    <2>2. k <= n /\ k + 1 \in 1..n /\ (k + 1) - 1 = k
      BY <1>0, <2>1
    <2>3. f[k] = w(k)
      BY <1>7, <2>1, <2>2
    <2>4. f[k + 1] = next(f[(k + 1) - 1])
      BY <1>5, <2>1, <2>2
    <2>5. QED
      BY <1>1, <2>2, <2>3, <2>4
  <1> HIDE DEF T
  <1>8. n \in T
    BY <1>0, <1>6, <1>7, SetInduction
  <1>9. \A f : SkipSteps(t, i, f) => f[n] = w(n)
    BY <1>0, <1>8 DEF T
  <1>10. SkipSteps(t, i, CHOOSE f : SkipSteps(t, i, f))
    BY <1>4
  <1>11. (CHOOSE f : SkipSteps(t, i, f))[n] = [at |-> s, more |-> FALSE]
    BY <1>3, <1>9, <1>10
  <1> DEFINE r == (CHOOSE f : SkipSteps(t, i, f))[Len(t) + 1]
  <1>12. r = [at |-> s, more |-> FALSE]
    BY <1>11 DEF n
  <1>13. SkipBlanks(t, i) = r.at
    BY SkipLoop
  <1> HIDE DEF r
  <1>14. QED
    BY <1>12, <1>13


\* The tokens of operators.
OperatorTokens == {<<p[1], 0>> : p \in OperatorTable}

\* The place from which the tokens after those at i are.
NextPlace(t, i) == IF t[i] \in Blank THEN i + 1 ELSE i + Len(Longest(t, i)[2])

\* The tokens from i on, when f has those from later places on.
TokensFrom(t, i, f) ==
    CASE i > Len(t) -> <<>>
      [] i <= Len(t) /\ t[i] \in Blank -> f[i + 1]
      [] OTHER -> <<<<Longest(t, i)[1], 0>>>> \o f[i + Len(Longest(t, i)[2])]

\* LongestTokens() is defined by recursion.
LEMMA LongestTokensChosen ==
    ASSUME NEW t
    PROVE  LongestTokens(t) = CHOOSE f : f = [i \in 1..(Len(t) + 1) |-> TokensFrom(t, i, f)]
  BY DEF LongestTokens, TokensFrom

\* The longest operator at a place of a plain text which is not blank.
LEMMA LongestHere ==
    ASSUME NEW t, Plain(t), NEW i \in 1..Len(t), t[i] \notin Blank
    PROVE  /\ Longest(t, i) \in Here(t, i)
           /\ TokenAt(t, i) = Token(Longest(t, i)[1], 0, i + Len(Longest(t, i)[2]))
           /\ Longest(t, i)[1] \notin {"EOF", "error"}
           /\ i + Len(Longest(t, i)[2]) \in (i + 1)..(Len(t) + 1)
           /\ <<Longest(t, i)[1], 0>> \in OperatorTokens
  <1>1. i \in Nat /\ i \in 1..(Len(t) + 1) /\ IsText(t) /\ i # Len(t) + 1
    BY DEF Plain, IsText
  <1>2. Here(t, i) # {} /\ ~(CharAt(t, i) = "/" /\ CharAt(t, i + 1) = "*")
    BY <1>1, PlainAt
  <1>3. /\ Longest(t, i) \in Here(t, i)
        /\ TokenAt(t, i) = Token(Longest(t, i)[1], 0, i + Len(Longest(t, i)[2]))
    BY <1>1, <1>2, TokenIsLongest
  <1>4. /\ Longest(t, i)[1] \notin {"EOF", "error"}
        /\ i + Len(Longest(t, i)[2]) \in (i + 1)..(Len(t) + 1)
    BY <1>1, <1>3, AfterOperator
  <1>5. Longest(t, i) \in OperatorTable
    BY <1>3 DEF Here
  <1>6. <<Longest(t, i)[1], 0>> \in OperatorTokens
    BY <1>5 DEF OperatorTokens
  <1>7. QED
    BY <1>3, <1>4, <1>6

\* A token takes at least one character.
LEMMA NextIsLater ==
    ASSUME NEW t, Plain(t), NEW i \in 1..Len(t)
    PROVE  NextPlace(t, i) \in (i + 1)..(Len(t) + 1)
  <1>1. CASE t[i] \in Blank
    BY <1>1 DEF NextPlace, Plain, IsText
  <1>2. CASE t[i] \notin Blank
    BY <1>2, LongestHere DEF NextPlace
  <1>3. QED
    BY <1>1, <1>2

\* The tokens from a place on need only the tokens from later places on.
LEMMA TokensNeedLater ==
    ASSUME NEW t, Plain(t), NEW i \in 1..(Len(t) + 1), NEW f, NEW g,
           \A k \in (i + 1)..(Len(t) + 1) : f[k] = g[k]
    PROVE  TokensFrom(t, i, f) = TokensFrom(t, i, g)
  <1>0. i \in Nat /\ Len(t) \in Nat
    BY PlainAt
  <1>1. CASE i > Len(t)
    BY <1>0, <1>1 DEF TokensFrom
  <1>2. CASE ~(i > Len(t))
    <2>1. i \in 1..Len(t) /\ i <= Len(t)
      BY <1>0, <1>2
    <2>2. NextPlace(t, i) \in (i + 1)..(Len(t) + 1)
      BY <2>1, NextIsLater
    <2>3. f[NextPlace(t, i)] = g[NextPlace(t, i)]
      BY <2>2
    <2>4. CASE t[i] \in Blank
      BY <1>2, <2>1, <2>3, <2>4 DEF TokensFrom, NextPlace
    <2>5. CASE t[i] \notin Blank
      BY <1>2, <2>1, <2>3, <2>5 DEF TokensFrom, NextPlace
    <2>6. QED
      BY <2>4, <2>5
  <1>3. QED
    BY <1>1, <1>2

\* There is a function with the tokens from each place on.
LEMMA LongestTokensExist ==
    ASSUME NEW t, Plain(t)
    PROVE  LongestTokens(t) = [i \in 1..(Len(t) + 1) |-> TokensFrom(t, i, LongestTokens(t))]
  <1> DEFINE N == Len(t) + 1
             good(m, f) == f = [i \in m..N |-> TokensFrom(t, i, f)]
             P == {k \in Nat : k < N => \E f : good(N - k, f)}
  <1>0. Len(t) \in Nat /\ N \in Nat /\ N >= 1
    BY DEF Plain, IsText
  <1>1. 0 \in P
    <2> DEFINE f == [i \in N..N |-> TokensFrom(t, i, <<>>)]
    <2>1. N - 0 = N /\ \A i \in N..N : i \in 1..(Len(t) + 1) /\ \A k \in (i + 1)..(Len(t) + 1) : FALSE
      BY <1>0
    <2>2. \A i \in N..N : TokensFrom(t, i, f) = TokensFrom(t, i, <<>>)
      <3> HIDE DEF f, N
      <3> SUFFICES ASSUME NEW i \in N..N PROVE TokensFrom(t, i, f) = TokensFrom(t, i, <<>>)
        OBVIOUS
      <3>1. i \in 1..(Len(t) + 1) /\ \A k \in (i + 1)..(Len(t) + 1) : f[k] = <<>>[k]
        BY <2>1
      <3>2. QED
        BY <3>1, TokensNeedLater
    <2>3. f = [i \in N..N |-> TokensFrom(t, i, f)]
      <3> DEFINE a(i) == TokensFrom(t, i, <<>>)
                 b(i) == TokensFrom(t, i, f)
      <3>1. \A i \in N..N : a(i) = b(i)
        BY <2>2
      <3>2. f = [i \in N..N |-> a(i)]
        OBVIOUS
      <3> HIDE DEF a, b, f, N
      <3>3. f = [i \in N..N |-> b(i)]
        BY <3>1, <3>2
      <3>4. QED
        BY <3>3 DEF b
    <2>4. good(N - 0, f)
      BY <2>1, <2>3
    <2> HIDE DEF good, N, f
    <2>5. QED
      BY <2>4
  <1>2. ASSUME NEW k \in Nat, k \in P PROVE k + 1 \in P
    <2> DEFINE m == N - (k + 1)
    <2>1. SUFFICES ASSUME k + 1 < N PROVE \E f : good(m, f)
      OBVIOUS
    <2>2. m \in Nat /\ m >= 1 /\ m < N /\ m + 1 = N - k /\ k < N
      BY <1>0, <2>1
    <2>3. PICK f : good(m + 1, f)
      BY <1>2, <2>2
    <2> HIDE DEF m
    <2> DEFINE g == [i \in m..N |-> TokensFrom(t, i, f)]
    <2>4. f = [i \in (m + 1)..N |-> TokensFrom(t, i, f)]
      BY <2>3
    <2> HIDE DEF N
    <2>5. \A i \in (m + 1)..N : i \in m..N
      BY <1>0, <2>2
    <2>6. \A i \in (m + 1)..N : f[i] = TokensFrom(t, i, f)
      BY <2>4
    <2>7. \A i \in (m + 1)..N : g[i] = f[i]
      BY <2>5, <2>6
    <2>8. ASSUME NEW i \in m..N PROVE TokensFrom(t, i, f) = TokensFrom(t, i, g)
      <3> HIDE DEF g
      <3>1. i \in 1..N /\ \A j \in (i + 1)..N : j \in (m + 1)..N
        BY <1>0, <2>2
      <3>2. i \in 1..(Len(t) + 1) /\ \A j \in (i + 1)..(Len(t) + 1) : f[j] = g[j]
        BY <2>7, <3>1 DEF N
      <3>3. QED
        BY <3>2, TokensNeedLater
    <2>9. g = [i \in m..N |-> TokensFrom(t, i, g)]
      <3> DEFINE a(i) == TokensFrom(t, i, f)
                 b(i) == TokensFrom(t, i, g)
      <3>1. \A i \in m..N : a(i) = b(i)
        BY <2>8
      <3>2. g = [i \in m..N |-> a(i)]
        OBVIOUS
      <3> HIDE DEF a, b, g
      <3>3. g = [i \in m..N |-> b(i)]
        BY <3>1, <3>2
      <3>4. QED
        BY <3>3 DEF b
    <2>10. good(m, g)
      BY <2>9
    <2> HIDE DEF good, g
    <2>11. QED
      BY <2>10
  <1> HIDE DEF P
  <1>3. N - 1 \in P
    <2>1. N - 1 \in Nat
      BY <1>0
    <2>2. QED
      BY <1>1, <1>2, <2>1, SetInduction
  <1>4. \E f : good(1, f)
    <2>1. N - 1 < N /\ N - (N - 1) = 1
      BY <1>0
    <2>2. \E f : good(N - (N - 1), f)
      <3> HIDE DEF good
      <3>1. QED
        BY <1>3, <2>1 DEF P
    <2> HIDE DEF good
    <2>3. QED
      BY <2>1, <2>2
  <1>5. \E f : f = [i \in 1..(Len(t) + 1) |-> TokensFrom(t, i, f)]
    BY <1>4
  <1>6. QED
    BY <1>5, LongestTokensChosen


\* The tokens at the end, from a blank on and from an operator on.
LEMMA LongestTokensAt ==
    ASSUME NEW t, Plain(t), NEW i \in 1..(Len(t) + 1)
    PROVE  /\ i = Len(t) + 1 => LongestTokens(t)[i] = <<>>
           /\ i <= Len(t) /\ t[i] \in Blank => LongestTokens(t)[i] = LongestTokens(t)[i + 1]
           /\ i <= Len(t) /\ t[i] \notin Blank =>
                LongestTokens(t)[i] =
                    <<<<Longest(t, i)[1], 0>>>> \o LongestTokens(t)[i + Len(Longest(t, i)[2])]
  <1> DEFINE L == LongestTokens(t)
  <1>0. i \in Nat /\ Len(t) \in Nat
    BY PlainAt
  <1>1. L = [k \in 1..(Len(t) + 1) |-> TokensFrom(t, k, L)]
    BY LongestTokensExist
  <1> HIDE DEF L
  <1>2. L[i] = TokensFrom(t, i, L)
    BY <1>1
  <1>3. i = Len(t) + 1 => TokensFrom(t, i, L) = <<>>
    BY <1>0 DEF TokensFrom
  <1>4. i <= Len(t) /\ t[i] \in Blank => TokensFrom(t, i, L) = L[i + 1]
    BY <1>0 DEF TokensFrom
  <1>5. i <= Len(t) /\ t[i] \notin Blank =>
            TokensFrom(t, i, L) = <<<<Longest(t, i)[1], 0>>>> \o L[i + Len(Longest(t, i)[2])]
    BY <1>0 DEF TokensFrom
  <1>6. QED
    BY <1>2, <1>3, <1>4, <1>5 DEF L

\* The tokens from a place on are tokens of operators.
LEMMA LongestTokensType ==
    ASSUME NEW t, Plain(t), NEW i \in 1..(Len(t) + 1)
    PROVE  LongestTokens(t)[i] \in Seq(OperatorTokens)
  <1> DEFINE N == Len(t) + 1
             L == LongestTokens(t)
             P == {k \in Nat : \A j \in 1..N : N - j <= k => L[j] \in Seq(OperatorTokens)}
  <1>0. Len(t) \in Nat /\ N \in Nat
    BY DEF Plain, IsText
  <1>1. ASSUME NEW j \in 1..N, \A k \in (j + 1)..N : L[k] \in Seq(OperatorTokens)
        PROVE  L[j] \in Seq(OperatorTokens)
    <2>1. CASE j = N
      <3>1. L[j] = <<>>
        BY <2>1, LongestTokensAt
      <3>2. QED
        BY <3>1
    <2>2. CASE j # N /\ t[j] \in Blank
      <3>1. j <= Len(t) /\ j + 1 \in (j + 1)..N
        BY <1>0, <2>2
      <3>2. L[j] = L[j + 1]
        BY <2>2, <3>1, LongestTokensAt
      <3>3. QED
        BY <1>1, <3>1, <3>2
    <2>3. CASE j # N /\ t[j] \notin Blank
      <3> DEFINE k == j + Len(Longest(t, j)[2])
                 x == <<Longest(t, j)[1], 0>>
      <3>1. j <= Len(t) /\ j \in 1..Len(t)
        BY <1>0, <2>3
      <3>2. k \in (j + 1)..N /\ x \in OperatorTokens
        BY <2>3, <3>1, LongestHere
      <3>3. L[j] = <<x>> \o L[k]
        BY <2>3, <3>1, LongestTokensAt
      <3> HIDE DEF k, x, L, N
      <3>4. L[k] \in Seq(OperatorTokens)
        BY <1>1, <3>2
      <3>5. QED
        BY <3>2, <3>3, <3>4
    <2>4. QED
      BY <2>1, <2>2, <2>3
  <1> HIDE DEF L
  <1>2. 0 \in P
    <2>1. \A j \in 1..N : N - j <= 0 => \A k \in (j + 1)..N : FALSE
      BY <1>0
    <2> HIDE DEF N
    <2>2. \A j \in 1..N : N - j <= 0 => L[j] \in Seq(OperatorTokens)
      BY <1>1, <2>1
    <2>3. QED
      BY <2>2
  <1>3. ASSUME NEW m \in Nat, m \in P PROVE m + 1 \in P
    <2>1. \A j \in 1..N : N - j <= m + 1 => \A k \in (j + 1)..N : k \in 1..N /\ N - k <= m
      BY <1>0
    <2>2. \A k \in 1..N : N - k <= m => L[k] \in Seq(OperatorTokens)
      BY <1>3
    <2> HIDE DEF N
    <2>3. \A j \in 1..N : N - j <= m + 1 => L[j] \in Seq(OperatorTokens)
      BY <1>1, <2>1, <2>2
    <2>4. QED
      BY <2>3
  <1> HIDE DEF P
  <1>4. N \in P
    BY <1>0, <1>2, <1>3, SetInduction
  <1>5. N - i <= N
    BY <1>0
  <1>6. QED
    BY <1>4, <1>5 DEF P, L

\* Blanks have no tokens.
LEMMA BlanksHaveNoTokens ==
    ASSUME NEW t, Plain(t), NEW i \in 1..(Len(t) + 1), NEW s \in i..(Len(t) + 1),
           \A k \in i..(s - 1) : CharAt(t, k) \in Blank
    PROVE  LongestTokens(t)[i] = LongestTokens(t)[s]
  <1> DEFINE L == LongestTokens(t)
             P == {k \in Nat : i + k <= s => L[i + k] = L[i]}
  <1>0. i \in Nat /\ s \in Nat /\ Len(t) \in Nat /\ i + 0 = i
    BY PlainAt
  <1>1. 0 \in P
    BY <1>0
  <1>2. ASSUME NEW k \in Nat, k \in P PROVE k + 1 \in P
    <2>1. SUFFICES ASSUME i + (k + 1) <= s PROVE L[i + (k + 1)] = L[i]
      OBVIOUS
    <2> DEFINE j == i + k
    <2>2. j \in i..(s - 1) /\ j \in 1..(Len(t) + 1) /\ j <= s /\ j <= Len(t) /\ j + 1 = i + (k + 1)
      BY <1>0, <2>1
    <2>3. L[j] = L[i]
      BY <1>2, <2>2
    <2> HIDE DEF j
    <2>4. t[j] \in Blank
      BY <2>2 DEF CharAt
    <2>5. L[j] = L[j + 1]
      BY <2>2, <2>4, LongestTokensAt
    <2>6. QED
      BY <2>2, <2>3, <2>5
  <1> HIDE DEF P
  <1>3. s - i \in Nat /\ i + (s - i) = s
    BY <1>0
  <1>4. s - i \in P
    BY <1>1, <1>2, <1>3, SetInduction
  <1>5. QED
    BY <1>3, <1>4 DEF P

\* One call of get_next_token() takes the first of the tokens which are left.
LEMMA NextTokenPlain ==
    ASSUME NEW t, Plain(t), NEW i \in 1..(Len(t) + 1)
    PROVE  \/ LongestTokens(t)[i] = <<>> /\ GetNextToken(t, i) = Token("EOF", 0, Len(t) + 1)
           \/ \E x \in OperatorTokens, j \in 1..(Len(t) + 1) :
                /\ x[1] \notin {"EOF", "error"}
                /\ GetNextToken(t, i) = [token |-> x, at |-> j]
                /\ LongestTokens(t)[i] = <<x>> \o LongestTokens(t)[j]
  <1>0. i \in Nat /\ Len(t) \in Nat
    BY PlainAt
  <1>1. PICK s \in i..(Len(t) + 1) : CharAt(t, s) \notin Blank /\ \A k \in i..(s - 1) : CharAt(t, k) \in Blank
    BY FirstStop
  <1>2. SkipBlanks(t, i) = s /\ LongestTokens(t)[i] = LongestTokens(t)[s]
    BY <1>1, SkipPlain, BlanksHaveNoTokens
  <1>3. GetNextToken(t, i) = TokenAt(t, s)
    BY <1>2 DEF GetNextToken
  <1>4. s \in 1..(Len(t) + 1) /\ (s = Len(t) + 1 \/ s \in 1..Len(t))
    BY <1>0
  <1>5. CASE s = Len(t) + 1
    <2>1. CharAt(t, s) = "EOS"
      BY <1>0, <1>5 DEF CharAt
    <2>2. TokenAt(t, s) = Token("EOF", 0, s)
      <3>1. "EOS" \notin Punctuation
        BY DEF Punctuation, Singles
      <3>2. QED
        BY <2>1, <3>1 DEF TokenAt
    <2>3. LongestTokens(t)[s] = <<>>
      BY <1>4, <1>5, LongestTokensAt
    <2>4. QED
      BY <1>2, <1>3, <1>5, <2>2, <2>3
  <1>6. CASE s \in 1..Len(t)
    <2> DEFINE x == <<Longest(t, s)[1], 0>>
               j == s + Len(Longest(t, s)[2])
    <2>1. s <= Len(t) /\ t[s] \notin Blank
      BY <1>0, <1>1, <1>6 DEF CharAt
    <2>2. /\ TokenAt(t, s) = Token(Longest(t, s)[1], 0, j)
          /\ Longest(t, s)[1] \notin {"EOF", "error"}
          /\ j \in (s + 1)..(Len(t) + 1)
          /\ x \in OperatorTokens
      BY <1>6, <2>1, LongestHere
    <2>3. TokenAt(t, s) = [token |-> x, at |-> j]
      <3> HIDE DEF j
      <3>1. QED
        BY <2>2 DEF Token
    <2>4. LongestTokens(t)[s] = <<x>> \o LongestTokens(t)[j]
      BY <1>4, <2>1, LongestTokensAt
    <2>5. x[1] \notin {"EOF", "error"}
      BY <2>2
    <2> HIDE DEF x, j
    <2>6. j \in 1..(Len(t) + 1)
      BY <1>0, <1>4, <2>2
    <2>7. QED
      BY <1>2, <1>3, <2>2, <2>3, <2>4, <2>5, <2>6
  <1>7. QED
    BY <1>4, <1>5, <1>6


\* In a plain text the tokens which were read and those which are left are
\* the tokens of the text: OperatorsAreLongest says this of the end only.
LexInv ==
    /\ IsText(text)
    /\ Plain(text) =>
        /\ lexed \in {"", "EOF"}
        /\ at \in 1..(Len(text) + 1)
        /\ tokens \in Seq(OperatorTokens)
        /\ tokens \o LongestTokens(text)[at] = LongestTokens(text)[1]
        /\ lexed = "EOF" => LongestTokens(text)[at] = <<>>

\* A text which was not read yet.
LEMMA LexInvInit ==
    ASSUME LexerInit
    PROVE  LexInv
  <1>1. PICK t \in Texts : text = Normalized(t)
    BY DEF LexerInit
  <1>2. IsText(text)
    BY <1>1, LexerAssumption, NormalizedIsText
  <1>3. ASSUME Plain(text)
        PROVE  /\ at \in 1..(Len(text) + 1)
               /\ tokens \in Seq(OperatorTokens)
               /\ tokens \o LongestTokens(text)[at] = LongestTokens(text)[1]
    <2>1. 1 \in 1..(Len(text) + 1) /\ at = 1 /\ tokens = <<>>
      <3>1. Len(text) \in Nat
        BY <1>2 DEF IsText
      <3>2. at = 1 /\ tokens = <<>>
        BY DEF LexerInit
      <3>3. QED
        BY <3>1, <3>2
    <2>2. LongestTokens(text)[1] \in Seq(OperatorTokens)
      BY <1>3, <2>1, LongestTokensType
    <2>3. <<>> \o LongestTokens(text)[1] = LongestTokens(text)[1]
      BY <2>2, ConcatEmptySeq
    <2>4. QED
      BY <2>1, <2>3
  <1>4. lexed = ""
    BY DEF LexerInit
  <1>5. QED
    BY <1>2, <1>3, <1>4 DEF LexInv

\* One token, before it is said which: the place after it, the tokens with it.
LEMMA OneTokenMore ==
    ASSUME NEW t, Plain(t), NEW i \in 1..(Len(t) + 1), NEW r \in Seq(OperatorTokens),
           NEW x \in OperatorTokens, NEW j \in 1..(Len(t) + 1),
           LongestTokens(t)[i] = <<x>> \o LongestTokens(t)[j],
           r \o LongestTokens(t)[i] = LongestTokens(t)[1]
    PROVE  /\ Append(r, x) \in Seq(OperatorTokens)
           /\ Append(r, x) \o LongestTokens(t)[j] = LongestTokens(t)[1]
  <1> DEFINE a == LongestTokens(t)[i]
             b == LongestTokens(t)[j]
             c == LongestTokens(t)[1]
  <1>1. b \in Seq(OperatorTokens)
    BY LongestTokensType
  <1>2. a = <<x>> \o b /\ r \o a = c
    OBVIOUS
  <1> HIDE DEF a, b, c
  <1>3. <<x>> \in Seq(OperatorTokens)
    OBVIOUS
  <1>4. Append(r, x) = r \o <<x>>
    BY AppendIsConcat
  <1>5. (r \o <<x>>) \o b = r \o (<<x>> \o b)
    BY <1>1, <1>3, ConcatAssociative
  <1>6. Append(r, x) \in Seq(OperatorTokens)
    OBVIOUS
  <1>7. QED
    BY <1>2, <1>4, <1>5, <1>6 DEF b, c

\* One call of get_next_token() keeps the tokens of the text.
LEMMA LexInvNext ==
    ASSUME LexInv, [LexerNext]_lexing
    PROVE  LexInv'
  <1>1. CASE UNCHANGED lexing
    BY <1>1 DEF LexInv, lexing, Plain, IsText, OperatorsOnly
  <1>2. CASE NextToken
    <2>1. text' = text /\ IsText(text)
      BY <1>2 DEF NextToken, LexInv
    <2>2. SUFFICES ASSUME Plain(text)
                   PROVE  /\ lexed' \in {"", "EOF"}
                          /\ at' \in 1..(Len(text) + 1)
                          /\ tokens' \in Seq(OperatorTokens)
                          /\ tokens' \o LongestTokens(text)[at'] = LongestTokens(text)[1]
                          /\ lexed' = "EOF" => LongestTokens(text)[at'] = <<>>
      BY <2>1 DEF LexInv
    <2> DEFINE next == GetNextToken(text, at)
    <2>3. /\ lexed = "" /\ at' = next.at
          /\ tokens' = IF next.token[1] \in {"EOF", "error"} THEN tokens ELSE Append(tokens, next.token)
          /\ lexed' = IF next.token[1] \in {"EOF", "error"} THEN next.token[1] ELSE ""
      BY <1>2 DEF NextToken
    <2>4. /\ at \in 1..(Len(text) + 1)
          /\ tokens \in Seq(OperatorTokens)
          /\ tokens \o LongestTokens(text)[at] = LongestTokens(text)[1]
      BY <2>2 DEF LexInv
    <2>5. \/ LongestTokens(text)[at] = <<>> /\ next = Token("EOF", 0, Len(text) + 1)
          \/ \E x \in OperatorTokens, j \in 1..(Len(text) + 1) :
                /\ x[1] \notin {"EOF", "error"}
                /\ next = [token |-> x, at |-> j]
                /\ LongestTokens(text)[at] = <<x>> \o LongestTokens(text)[j]
      BY <2>2, <2>4, NextTokenPlain
    <2> HIDE DEF next
    <2>6. CASE LongestTokens(text)[at] = <<>> /\ next = Token("EOF", 0, Len(text) + 1)
      <3>1. next.at = Len(text) + 1 /\ next.token = <<"EOF", 0>>
        BY <2>6 DEF Token
      <3>2. at' = Len(text) + 1 /\ tokens' = tokens /\ lexed' = "EOF"
        <4>1. next.token[1] = "EOF"
          BY <3>1
        <4>2. QED
          BY <2>3, <3>1, <4>1
      <3>3. Len(text) + 1 \in 1..(Len(text) + 1)
        BY <2>1 DEF IsText
      <3>4. LongestTokens(text)[Len(text) + 1] = <<>>
        BY <2>2, <3>3, LongestTokensAt
      <3>5. QED
        BY <2>4, <2>6, <3>2, <3>3, <3>4
    <2>7. ASSUME NEW x \in OperatorTokens, NEW j \in 1..(Len(text) + 1),
                 x[1] \notin {"EOF", "error"}, next = [token |-> x, at |-> j],
                 LongestTokens(text)[at] = <<x>> \o LongestTokens(text)[j]
          PROVE  /\ lexed' \in {"", "EOF"}
                 /\ at' \in 1..(Len(text) + 1)
                 /\ tokens' \in Seq(OperatorTokens)
                 /\ tokens' \o LongestTokens(text)[at'] = LongestTokens(text)[1]
                 /\ lexed' = "EOF" => LongestTokens(text)[at'] = <<>>
      <3>1. next.token = x /\ next.at = j
        BY <2>7
      <3>2. at' = j /\ tokens' = Append(tokens, x) /\ lexed' = ""
        BY <2>3, <2>7, <3>1
      <3>3. /\ Append(tokens, x) \in Seq(OperatorTokens)
            /\ Append(tokens, x) \o LongestTokens(text)[j] = LongestTokens(text)[1]
        BY <2>2, <2>4, <2>7, OneTokenMore
      <3>4. QED
        BY <3>2, <3>3
    <2>8. QED
      BY <2>5, <2>6, <2>7
  <1>3. QED
    BY <1>1, <1>2 DEF LexerNext

\* A text of operators is read to its end and cut at the longest operator
\* each time (lexer::get_next_token() and its calls of ungetc()).
THEOREM OperatorsLongest == LexerSpec => []OperatorsAreLongest
  <1>1. LexerInit => LexInv
    BY LexInvInit
  <1>2. LexInv /\ [LexerNext]_lexing => LexInv'
    BY LexInvNext
  <1>3. LexInv => OperatorsAreLongest
    <2>1. SUFFICES ASSUME LexInv, lexed # "", OperatorsOnly(text), ~HasComment(text)
                   PROVE  lexed = "EOF" /\ tokens = LongestTokens(text)[1]
      BY DEF OperatorsAreLongest
    <2>2. Plain(text)
      BY <2>1 DEF Plain, LexInv
    <2>3. /\ lexed = "EOF" /\ tokens \in Seq(OperatorTokens)
          /\ tokens \o <<>> = LongestTokens(text)[1]
      BY <2>1, <2>2 DEF LexInv
    <2>4. tokens \o <<>> = tokens
      BY <2>3, ConcatEmptySeq
    <2>5. QED
      BY <2>3, <2>4
  <1>4. QED
    BY <1>1, <1>2, <1>3, PTL DEF LexerSpec
=============================================================================
