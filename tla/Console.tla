------------------------------- MODULE Console -------------------------------
(***************************************************************************)
(* The PBQL console (cui/): a line is read and parsed one statement after  *)
(* the other, the console's own commands are run while it is parsed, the   *)
(* others once all of it was read.                                         *)
(***************************************************************************)
EXTENDS Statements

CONSTANTS
    Sources,            \* the statements a user types, sequences of tokens
    MaxLines,           \* lines typed in one session
    MaxStatements       \* statements on a line

VARIABLES
    interactive,        \* f_interactive: neither --command nor --file
    phase,              \* "starting", "idle", "parsing", "stopped" or "crashed"
    rest,               \* tokens of the line which were not read yet
    typed,              \* statements of the line so far
    commands,           \* f_commands of the parser
    ended,              \* how the last parse() ended, "" while it runs
    quit,               \* f_quit
    running,            \* f_cmds: the commands to execute
    window,             \* the status window is open
    lines               \* lines so far

session == <<interactive, phase, rest, typed, commands, ended, quit, running, window, lines>>

ConsoleInit ==
    /\ interactive \in BOOLEAN
    /\ phase = "starting" /\ rest = <<>> /\ typed = 0 /\ commands = <<>> /\ ended = ""
    /\ quit = FALSE /\ running = <<>> /\ window = FALSE /\ lines = 0

\* cui::run() and init_console_connection(): a script waits for the proxy
Run ==
    /\ phase = "starting"
    /\ phase' = "idle"
    /\ UNCHANGED <<interactive, rest, typed, commands, ended, quit, running, window, lines>>

\* execute_commands(): a new lexer and parser for the line; without a console
\* messenger::process_proxy_status() calls it through proxy_registered()
StartParsing ==
    /\ phase = "idle" /\ lines < (IF interactive THEN MaxLines ELSE 1)
    /\ phase' = "parsing" /\ rest' = <<>> /\ typed' = 0 /\ commands' = <<>> /\ ended' = ""
    /\ quit' = FALSE /\ running' = <<>> /\ lines' = lines + 1
    /\ UNCHANGED <<interactive, window>>

\* The next tokens to parse: the ones left, or a new statement, or the end.
NextTokens ==
    IF rest # <<>> THEN {rest}
    ELSE (IF typed < MaxStatements THEN Sources ELSE {}) \cup (IF typed > 0 THEN {<<>>} ELSE {})

\* The commands of the console: where the statement ends, 0 when the code
\* throws, -1 when it is left to the parser, which throws too.
SemiColon(t, i) == IF Kind(t, i) = ";" THEN i + 1 ELSE 0
AfterNames(t, i) == CHOOSE k \in i..(Len(t) + 1) : Kind(t, k) # "ID" /\ \A j \in i..(k - 1) : Kind(t, j) = "ID"

ParseClear(t) == SemiColon(t, 2)
ParseHelp(t) ==
    CASE Kind(t, 2) = ";" -> 3
      [] IsWord(t, 2, "COMMANDS") -> SemiColon(t, 3)
      [] IsWord(t, 2, "COMMAND") -> IF Kind(t, 3) = "ID" THEN SemiColon(t, AfterNames(t, 3)) ELSE 0
      [] OTHER -> -1
ParseLicense(t) ==
    CASE IsWord(t, 2, "FULL") -> SemiColon(t, 3)
      [] Kind(t, 2) = "ID" /\ ~IsWord(t, 2, "FULL") -> 0
      [] OTHER -> SemiColon(t, 2)
ParseStatus(t) ==
    CASE Kind(t, 2) = ";" -> 3
      [] IsWord(t, 2, "HIDE") \/ IsWord(t, 2, "SHOW") -> SemiColon(t, 3)
      [] OTHER -> -1
\* names of systems, each followed by a comma or not; COMMUNICATOR is the only one
ParseVersions(t) ==
    LET listed(k) == \/ IsWord(t, k, "COMMUNICATOR")
                     \/ k > 2 /\ Kind(t, k) = "," /\ IsWord(t, k - 1, "COMMUNICATOR")
    IN SemiColon(t, CHOOSE k \in 2..(Len(t) + 1) : (k > Len(t) \/ ~listed(k)) /\ \A j \in 2..(k - 1) : listed(j))

\* user_commands()
UserCommands(t) ==
    CASE IsWord(t, 1, "CLEAR") -> ParseClear(t)
      [] IsWord(t, 1, "HELP") -> ParseHelp(t)
      [] IsWord(t, 1, "LICENSE") \/ IsWord(t, 1, "LICENCE") -> ParseLicense(t)
      [] IsWord(t, 1, "STATUS") -> ParseStatus(t)
      [] IsWord(t, 1, "VERSIONS") -> ParseVersions(t)
      [] OTHER -> -1

\* open_close_status_window() for STATUS, STATUS HIDE and STATUS SHOW
WindowAfter(t) ==
    CASE ~IsWord(t, 1, "STATUS") -> window
      [] IsWord(t, 1, "STATUS") /\ Kind(t, 2) = ";" -> ~window
      [] OTHER -> IsWord(t, 2, "SHOW")

\* One statement of the loop of parser::parse().
Parse ==
    /\ phase = "parsing" /\ ended = ""
    /\ \E t \in NextTokens :
        LET r == ParseStatement(t, commands)
            user == UserCommands(t)
            \* every command of the console writes to its connection
            captured == r.kind = "unknown" /\ user > 0
        IN  /\ typed' = IF rest = <<>> THEN typed + 1 ELSE typed
            /\ rest' = CASE r.kind \in {"command", "nothing"} -> SubSeq(t, r.at, Len(t))
                         [] OTHER -> <<>>
            /\ commands' = IF r.kind = "command" THEN Append(commands, r.command) ELSE commands
            /\ ended' = CASE r.kind \in {"EOF", "quit", "error"} -> r.kind
                          [] r.kind = "unknown" -> IF captured THEN "captured" ELSE "error"
                          [] OTHER -> ""
            /\ quit' = (r.kind = "quit" \/ (Kind(t, 1) = "ID" /\ StringOf(t, 1) \in Quits))
            /\ window' = IF captured /\ interactive THEN WindowAfter(t) ELSE window
            /\ phase' = IF captured /\ ~interactive THEN "crashed" ELSE phase
    /\ UNCHANGED <<interactive, running, lines>>

\* The end of execute_commands(): f_cmds is only set when parse() returns.
\* The messages go to the console, which a script does not have; it stops in
\* proxy_registered().
ExecuteCommands ==
    /\ phase = "parsing" /\ ended # ""
    /\ LET cmds == IF ended = "error" THEN <<>> ELSE commands
       IN  /\ running' = cmds
           /\ phase' = CASE ~interactive /\ (ended = "error" \/ cmds # <<>>) -> "crashed"
                         [] interactive /\ ~(cmds = <<>> /\ quit) -> "idle"
                         [] OTHER -> "stopped"
           /\ window' = (window /\ phase' # "stopped")
    /\ UNCHANGED <<interactive, rest, typed, commands, ended, quit, lines>>

\* F2: the status window is opened or closed at any time
ShowStatus ==
    /\ interactive /\ phase = "idle"       \* keys are read between two lines
    /\ window' = ~window
    /\ UNCHANGED <<interactive, phase, rest, typed, commands, ended, quit, running, lines>>

\* Ctrl-C and Ctrl-D: interrupt::process_signal(), process_quit() and stop()
Stop ==
    /\ phase = "idle"
    /\ phase' = "stopped" /\ window' = FALSE
    /\ UNCHANGED <<interactive, rest, typed, commands, ended, quit, running, lines>>

ConsoleNext == Run \/ StartParsing \/ Parse \/ ExecuteCommands \/ ShowStatus \/ Stop
ConsoleSpec == ConsoleInit /\ [][ConsoleNext]_session

-----------------------------------------------------------------------------
(* Properties.                                                             *)

\* The transactions of a line do not nest and each COMMIT or ROLLBACK ends a
\* BEGIN of its own type, whatever commands are between them
\* (parse_transaction_command()).
TransactionsAreBracketed ==
    LET transaction(k) == commands[k].command \in EndsTransaction \cup {"BEGIN"}
        lastBefore(j, k) == transaction(j) /\ \A i \in (j + 1)..(k - 1) : ~transaction(i)
    IN  \A k \in DOMAIN commands :
            /\ commands[k].command = "BEGIN" =>
                  \A j \in 1..(k - 1) : lastBefore(j, k) => commands[j].command \in EndsTransaction
            /\ commands[k].command \in EndsTransaction =>
                  \E j \in 1..(k - 1) :
                      /\ lastBefore(j, k) /\ commands[j].command = "BEGIN"
                      /\ commands[j].params["TYPE"] = commands[k].params["TYPE"]

\* "f_commands should be empty as a result": a command of the console is alone
\* on its line.  Violated: the commands before it are executed and the rest of
\* the line is lost, also the end of a transaction.
CapturedIsAlone == ended = "captured" => commands = <<>>

\* "there was just a QUIT; command": a line ends the session of a user only when
\* its QUIT was accepted.  Violated: f_quit is set before the semi-colon is
\* looked for, and is read after the exception.
QuitIsAccepted ==
    [][ interactive /\ phase = "parsing" /\ phase' = "stopped" => ended = "quit" ]_session

\* A script with a valid command is executed.  Violated: without a console the
\* messages are written through a null pointer.
ScriptsDoNotCrash == phase # "crashed"

\* The clauses of a SELECT which its messages describe can be used.  Violated:
\* the code stays on their last token.
ClausesAreAccepted ==
    \A s \in Sources : IsWord(s, 1, "SELECT") => ParseStatement(s, <<>>).kind = "command"
=============================================================================
