----------------------------- MODULE Statements ------------------------------
(***************************************************************************)
(* The parser of PBQL statements (prinbee/pbql/parser.cpp) and the         *)
(* commands it makes (prinbee/pbql/command.cpp).                           *)
(*                                                                         *)
(* A token is <<kind, value>>; the kind of an operator is its spelling.    *)
(* An expression is one token, of kind "EXPRESSION": module Expression is  *)
(* about what is in it.  A parsing function returns a record: "at" is the  *)
(* next token and 0 when the code throws, "params" the parameters which    *)
(* are set so far, and "more" is true while a loop goes on.                *)
(***************************************************************************)
EXTENDS Integers, Sequences, FiniteSets, Loops

CONSTANTS
    MaxExpressions,     \* MAX_EXPRESSIONS
    MaxTables,          \* MAX_TABLES
    MaxLimit,           \* MAX_LIMIT
    MaxSegments,        \* MAX_CONTEXT_NAME_SEGMENTS
    MaxName             \* max_length of validate_name()

Kind(t, i) == IF i \in DOMAIN t THEN t[i][1] ELSE "EOF"
IsWord(t, i, word) == Kind(t, i) = "ID" /\ t[i][2] = word
Words == {"ID", "STRING"}
\* node::get_string_upper(): the string of the token, empty if it has none
StringOf(t, i) == IF Kind(t, i) \in Words THEN t[i][2] ELSE ""

None == <<>>
Throw == [at |-> 0, params |-> None, more |-> FALSE]
At(i, params) == [at |-> i, params |-> params, more |-> FALSE]
More(i, params) == [at |-> i, params |-> params, more |-> TRUE]
Set(params, name, value) == [p \in DOMAIN params \cup {name} |-> IF p = name THEN value ELSE params[p]]

\* parse_expression(): here a single token
ParseExpressionAt(t, i) == IF Kind(t, i) \in Words \cup {"EXPRESSION", "INTEGER"} THEN i + 1 ELSE 0

ExpectSemiColon(t, r) == IF r.at # 0 /\ Kind(t, r.at) = ";" THEN At(r.at + 1, r.params) ELSE Throw

\* keyword_string(): the place after the keywords, which an identifier must follow
KeywordString(t, i, keywords) ==
    LET n == Len(keywords)
    IN  IF (\A k \in 1..n : IsWord(t, i + k - 1, keywords[k])) /\ Kind(t, i + n) = "ID" THEN i + n ELSE 0

-----------------------------------------------------------------------------
(* BEGIN, COMMIT and ROLLBACK.                                             *)

\* The word after which the transaction's type may come, and its type.
TransactionType(t, i) ==
    LET j == IF IsWord(t, i, "WORK") \/ IsWord(t, i, "TRANSACTION") THEN i + 1 ELSE i
        k == IF IsWord(t, j, "ON") THEN j + 1 ELSE j
    IN  CASE IsWord(t, k, "SCHEMA") \/ IsWord(t, k, "DATA") -> At(k + 1, Set(None, "TYPE", t[k][2]))
          [] k # j /\ ~(IsWord(t, k, "SCHEMA") \/ IsWord(t, k, "DATA")) -> Throw
          [] OTHER -> At(j, Set(None, "TYPE", "UNDEFINED"))

TransactionCondition(t, r, cmd) ==
    LET i == ParseExpressionAt(t, r.at + 1)
        with == Set(r.params, "CONDITION", "if")
        other == IF cmd = "COMMIT" THEN "ROLLBACK" ELSE "COMMIT"
    IN  CASE r.at = 0 -> Throw
          [] r.at # 0 /\ (cmd = "BEGIN" \/ Kind(t, r.at) # "ID") -> r
          [] r.at # 0 /\ cmd # "BEGIN" /\ Kind(t, r.at) = "ID" /\ ~IsWord(t, r.at, "IF") -> Throw
          [] OTHER ->
                CASE i = 0 -> Throw
                  [] i # 0 /\ Kind(t, i) # "ID" -> At(i, with)
                  [] i # 0 /\ Kind(t, i) = "ID" ->
                        IF IsWord(t, i, "OTHERWISE") /\ IsWord(t, i + 1, other) THEN At(i + 2, with) ELSE Throw

EndsTransaction == {"COMMIT", "ROLLBACK"}
\* the last transaction command of the list, 0 if there is none
LastTransaction(commands) ==
    LET all == {k \in DOMAIN commands : commands[k].command \in EndsTransaction \cup {"BEGIN"}}
    IN  IF all = {} THEN 0 ELSE CHOOSE k \in all : \A j \in all : j <= k

\* Mutant: the search for the BEGIN does not stop on a COMMIT or a ROLLBACK.
Bracket_FindsAnyBegin(commands, cmd, r) ==
    LET begins == {k \in DOMAIN commands : commands[k].command = "BEGIN"}
        b == CHOOSE k \in begins : \A j \in begins : j <= k
        last == LastTransaction(commands)
    IN  CASE r.at = 0 \/ (cmd # "BEGIN" /\ begins = {}) -> Throw
          [] cmd = "BEGIN" /\ last # 0 -> IF commands[last].command = "BEGIN" THEN Throw ELSE r
          [] cmd = "BEGIN" /\ last = 0 -> r
          [] OTHER -> At(r.at, Set(r.params, "TYPE", commands[b].params["TYPE"]))

\* A BEGIN may not follow a BEGIN, the others end one and have its type.
Bracket(commands, cmd, r) ==
    LET b == LastTransaction(commands)
        open == b # 0 /\ commands[b].command = "BEGIN"
    IN  CASE r.at = 0 -> Throw
          [] r.at # 0 /\ cmd = "BEGIN" -> IF open THEN Throw ELSE r
          [] r.at # 0 /\ cmd # "BEGIN" /\ ~open -> Throw
          [] OTHER ->
                CASE r.params["TYPE"] = "UNDEFINED" -> At(r.at, Set(r.params, "TYPE", commands[b].params["TYPE"]))
                  [] r.params["TYPE"] = commands[b].params["TYPE"] -> r
                  [] OTHER -> Throw

ParseTransactionCommand(t, i, commands, cmd) ==
    Bracket(commands, cmd, ExpectSemiColon(t, TransactionCondition(t, TransactionType(t, i), cmd)))

-----------------------------------------------------------------------------
(* ALTER INDEX.  Nothing of it is kept yet: no command is made.            *)

\* what follows SET, the statement up to its semi-colon
AlterSet(t, i) ==
    LET negate == IsWord(t, i, "NOT")
        j == IF negate THEN i + 1 ELSE i
        v == IF Kind(t, j + 1) = "=" THEN j + 2 ELSE j + 1
    IN  CASE IsWord(t, j, "SECURE") \/ IsWord(t, j, "SPARSE") -> ExpectSemiColon(t, At(j + 1, None))
          [] IsWord(t, j, "MODEL") /\ ~negate /\ Kind(t, v) = "ID" -> ExpectSemiColon(t, At(v + 1, None))
          [] IsWord(t, j, "COMMENT") /\ ~negate /\ Kind(t, v) = "STRING" -> ExpectSemiColon(t, At(v + 1, None))
          [] OTHER -> Throw
\* what follows ADD or DROP: the code returns before the end of the statement
AlterAddDrop(t, i, add) ==
    CASE IsWord(t, i, "COLUMN") ->
            IF Kind(t, i + 1) = "ID" \/ (Kind(t, i + 1) = "INTEGER" /\ ~add) THEN At(i + 2, None) ELSE Throw
      [] Kind(t, i) = "ID" /\ ~IsWord(t, i, "COLUMN") /\ ~IsWord(t, i, "EXPRESSION") -> At(i + 1, None)
      [] (Kind(t, i) = "(" /\ add) \/ (Kind(t, i) = "INTEGER" /\ ~add) -> At(i + 1, None)
      [] OTHER -> Throw

ParseAlterIndex(t, i) ==
    LET name == IF IsWord(t, i, "IF") THEN KeywordString(t, i + 1, <<"EXISTS">>) ELSE i
    IN  CASE name = 0 \/ Kind(t, name) # "ID" -> Throw
          [] name # 0 /\ IsWord(t, name + 1, "SET") /\ Kind(t, name + 2) = "ID" -> AlterSet(t, name + 2)
          [] name # 0 /\ IsWord(t, name + 1, "ADD") -> AlterAddDrop(t, name + 2, TRUE)
          [] name # 0 /\ IsWord(t, name + 1, "DROP") -> AlterAddDrop(t, name + 2, FALSE)
          [] OTHER -> Throw

-----------------------------------------------------------------------------
(* CREATE CONTEXT.  A path has one character for each of its segments.     *)

\* OWNER user, OWNER user:group or OWNER 'user:group'; i is at the user
ContextOwner(t, i, params) ==
    LET group == Kind(t, i + 1) = ":" /\ Kind(t, i) # "STRING"
    IN  CASE "USER" \in DOMAIN params \/ Kind(t, i) \notin Words \cup {"INTEGER"} -> Throw
          [] group /\ Kind(t, i + 2) \notin {"ID", "INTEGER"} -> Throw
          [] OTHER -> At(IF group THEN i + 3 ELSE i + 1, Set(params, "USER", "owner"))

\* one of the definitions between parentheses; i is at its name
ContextDefinition(t, i, params) ==
    LET v == IF Kind(t, i + 1) = "=" THEN i + 2 ELSE i + 1
        r == CASE IsWord(t, i, "OWNER") -> ContextOwner(t, v, params)
               [] IsWord(t, i, "COMMENT") ->
                    IF "DESCRIPTION" \in DOMAIN params \/ Kind(t, v) # "STRING" THEN Throw
                    ELSE At(v + 1, Set(params, "DESCRIPTION", t[v][2]))
               [] OTHER -> At(v, params)
    IN  CASE Kind(t, i) # "ID" \/ r.at = 0 -> Throw
          [] r.at # 0 /\ Kind(t, r.at) = ")" -> At(r.at + 1, r.params)
          [] r.at # 0 /\ Kind(t, r.at) = "," -> More(r.at + 1, r.params)
          [] OTHER -> Throw
ContextWith(t, i, params) ==
    Loop(LAMBDA r : ContextDefinition(t, r.at, r.params), More(i, params), Len(t))

\* USING or WITH, other words are skipped
ContextFeature(t, i, params) ==
    LET with == ContextWith(t, i + 2, params)
    IN  CASE Kind(t, i) # "ID" -> At(i, params)
          [] IsWord(t, i, "USING") ->
                IF "PATH" \in DOMAIN params \/ Kind(t, i + 1) # "STRING" THEN Throw
                ELSE IF t[i + 1][2] = "" \/ Len(t[i + 1][2]) >= MaxSegments THEN Throw
                ELSE More(i + 2, Set(params, "PATH", t[i + 1][2]))
          [] IsWord(t, i, "WITH") ->
                IF Kind(t, i + 1) # "(" THEN Throw ELSE [with EXCEPT !.more = with.at # 0]
          [] OTHER -> More(i + 1, params)
ContextFeatures(t, i, params) ==
    Loop(LAMBDA r : ContextFeature(t, r.at, r.params), More(i, params), Len(t) + 1)

\* validate_name(): the lexer lets no other character into an identifier than
\* those which are valid, only its length may be wrong
ValidateName(name) == Len(name) \in 1..MaxName

ParseCreateContext(t, i) ==
    LET ifNotExists == IsWord(t, i, "IF")
        name == IF ifNotExists THEN KeywordString(t, i + 1, <<"NOT", "EXISTS">>) ELSE i
    IN  IF name = 0 \/ Kind(t, name) # "ID" THEN Throw
        ELSE IF ~ValidateName(t[name][2]) THEN Throw
        ELSE ExpectSemiColon(t, ContextFeatures(t, name + 1, Set(Set(None, "NAME", t[name][2]), "IF_EXISTS", ~ifNotExists)))

-----------------------------------------------------------------------------
(* SELECT.                                                                 *)

\* the place after AS and a name, if there is AS
AsName(t, i) ==
    CASE i = 0 \/ ~IsWord(t, i, "AS") -> i
      [] OTHER -> IF Kind(t, i + 1) = "ID" THEN i + 2 ELSE 0

\* one expression and its name; the parameter is the number of those before
SelectExpression(t, i, params) ==
    LET j == AsName(t, ParseExpressionAt(t, i))
        count == params["EXPRESSIONS"]
        counted == Set(params, "EXPRESSIONS", count + 1)
    IN  CASE IsWord(t, i, "DEFAULT") ->
                IF count > 0 THEN Throw
                ELSE IF Kind(t, i + 1) # "ID" /\ StringOf(t, i + 1) # "VALUES" THEN Throw
                ELSE At(i + 2, params)
          [] ~IsWord(t, i, "DEFAULT") /\ (count >= MaxExpressions \/ j = 0) -> Throw
          [] OTHER -> IF Kind(t, j) = "," THEN More(j + 1, counted) ELSE At(j, counted)
SelectExpressions(t, i) ==
    Loop(LAMBDA r : SelectExpression(t, r.at, r.params), More(i, Set(None, "EXPRESSIONS", 0)), Len(t))

\* the name of a table: the comma between two is not skipped
SelectTable(t, i, params) ==
    LET j == AsName(t, i + 1)
        count == params["TABLES"]
        counted == Set(params, "TABLES", count + 1)
    IN  CASE count >= MaxTables \/ Kind(t, i) # "ID" \/ j = 0 -> Throw
          [] OTHER -> IF Kind(t, j) = "," THEN More(j, counted) ELSE At(j, counted)
SelectTables(t, i, params) ==
    Loop(LAMBDA r : SelectTable(t, r.at, r.params), More(i, Set(params, "TABLES", 0)), Len(t))

\* WHERE, ORDER BY or LIMIT: the last token of ORDER BY and of LIMIT is where
\* the next clause is looked for
SelectClause(t, i, params) ==
    LET where == ParseExpressionAt(t, i + 1)
        key == IF IsWord(t, i + 2, "PRIMARY") THEN i + 3 ELSE i + 2
    IN  CASE IsWord(t, i, "WHERE") ->
                IF "WHERE" \in DOMAIN params \/ where = 0 THEN Throw
                ELSE More(where, Set(params, "WHERE", "if"))
          [] IsWord(t, i, "ORDER") ->
                IF "ORDER_BY" \in DOMAIN params \/ ~IsWord(t, i + 1, "BY") \/ Kind(t, i + 2) # "ID"
                   \/ (key = i + 3 /\ ~IsWord(t, key, "KEY"))
                THEN Throw ELSE More(key, Set(params, "ORDER_BY", t[key][2]))
          [] IsWord(t, i, "LIMIT") ->
                IF "LIMIT" \in DOMAIN params \/ Kind(t, i + 1) # "INTEGER" THEN Throw
                ELSE IF t[i + 1][2] \notin 1..MaxLimit THEN Throw
                ELSE More(i + 1, Set(params, "LIMIT", t[i + 1][2]))
          [] OTHER -> At(i, params)
SelectClauses(t, tables) ==
    IF tables.at = 0 THEN Throw
    ELSE Loop(LAMBDA r : SelectClause(t, r.at, r.params), More(tables.at, tables.params), Len(t) + 1)

\* OUTPUT and its mode, on which the code stays
SelectOutput(t, r) ==
    CASE r.at = 0 \/ ~IsWord(t, r.at, "OUTPUT") -> r
      [] OTHER -> IF Kind(t, r.at + 1) = "ID" /\ StringOf(t, r.at + 1) \in {"TABLE", "PRINT", "JSON"}
                  THEN At(r.at + 1, Set(r.params, "MODE", t[r.at + 1][2])) ELSE Throw

ParseSelect(t, i) ==
    LET e == SelectExpressions(t, i)
        from == CASE e.at = 0 -> Throw
                  [] e.at # 0 /\ IsWord(t, e.at, "FROM") -> SelectClauses(t, SelectTables(t, e.at + 1, e.params))
                  [] OTHER -> e
    IN  ExpectSemiColon(t, SelectOutput(t, from))

-----------------------------------------------------------------------------
(* CONFIG.                                                                 *)

ParseConfig(t, i) ==
    LET scoped == Kind(t, i) = "ID" /\ Kind(t, i + 1) = "::"
        name == IF scoped THEN i + 2 ELSE i
        params == LET p == Set(None, "NAME", StringOf(t, name)) IN IF scoped THEN Set(p, "PATH", t[i][2]) ELSE p
        value == IF Kind(t, name + 1) = "=" THEN ParseExpressionAt(t, name + 2) ELSE name + 1
    IN  CASE Kind(t, i) = ";" -> At(i + 1, None)
          [] Kind(t, i) = "STRING" -> ExpectSemiColon(t, At(i + 1, IF t[i][2] = "" THEN None ELSE params))
          [] Kind(t, i) = "ID" /\ Kind(t, name) = "ID" ->
                ExpectSemiColon(t, At(value, IF Kind(t, name + 1) = "=" THEN Set(params, "EXPRESSIONS", 1) ELSE params))
          [] OTHER -> Throw

-----------------------------------------------------------------------------
(* parser::parse(): one statement of the loop.                             *)

Quits == {"BYE", "EXIT", "QUIT"}

\* the outcome of a statement whose parsing function returned r
Made(kind, cmd, r) ==
    [kind |-> IF r.at = 0 THEN "error" ELSE kind, at |-> r.at, command |-> [command |-> cmd, params |-> r.params]]

\* not a statement, or CREATE, ALTER and SET statements which are not implemented
Refused(t) ==
    \/ Kind(t, 1) # "ID"
    \/ IsWord(t, 1, "SET")
    \/ IsWord(t, 1, "CREATE") /\ ~IsWord(t, 2, "CONTEXT")
    \/ IsWord(t, 1, "ALTER") /\ ~IsWord(t, 2, "INDEX")

\* A statement of which nothing is kept, quit, exception, or a word which is not
\* one of PBQL.  BYE, EXIT and QUIT set f_quit before they look further.
NoCommand(t) ==
    CASE IsWord(t, 1, "ALTER") /\ IsWord(t, 2, "INDEX") -> Made("nothing", "", ParseAlterIndex(t, 3))
      [] Kind(t, 1) = "ID" /\ StringOf(t, 1) \in Quits -> Made("quit", "", ExpectSemiColon(t, At(2, None)))
      [] Refused(t) -> Made("error", "", Throw)
      [] OTHER -> Made("unknown", StringOf(t, 1), At(2, None))

\* What the loop does with the tokens from here on: end of the input, command
\* to add, or statement which adds no command.
ParseStatement(t, commands) ==
    LET word == StringOf(t, 1)
        Word(w) == IsWord(t, 1, w)
    IN  CASE t = <<>> -> Made("EOF", "", At(1, None))
          [] Kind(t, 1) = "ID" /\ word \in {"BEGIN", "COMMIT", "ROLLBACK"} ->
                Made("command", word, ParseTransactionCommand(t, 2, commands, word))
          [] Word("CONFIG") -> Made("command", "CONFIG", ParseConfig(t, 2))
          [] Word("SELECT") -> Made("command", "SELECT", ParseSelect(t, 2))
          [] Word("CREATE") /\ IsWord(t, 2, "CONTEXT") -> Made("command", "CREATE_CONTEXT", ParseCreateContext(t, 3))
          [] OTHER -> NoCommand(t)
=============================================================================
