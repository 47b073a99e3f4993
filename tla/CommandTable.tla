---------------------------- MODULE CommandTable ----------------------------
(****************************************************************************)
(* From the tokens of a line to its command table: check_flag(),            *)
(* parser_is_syntax_correct() and parser_cmd_build_many().  Building a      *)
(* command opens its redirections as they are met and reads its             *)
(* here-documents, so a line that turns out to be bad has descriptors to    *)
(* give back.                                                               *)
(*                                                                          *)
(* A token is a record of its type, of wp (white space comes before it) and *)
(* of its text, of which only the names of built-ins matter.  An argument   *)
(* is the sequence of the positions of the tokens it was glued from; what   *)
(* quotes and dollars make of each token is left out.                       *)
(****************************************************************************)
EXTENDS FdTable, Tokens, FiniteSets

CONSTANTS
    OpenMax,        \* descriptors per process
    Lines,          \* the token lists the lexer may hand over
    Builtins,       \* texts that parser_cmd_type() takes for a built-in
    MaxHeredocs,    \* MAX_HEREDOCS
    ArenaFails      \* TRUE: arena_alloc() may fail

Fds == 0 .. OpenMax - 1

Token == [type : TokenTypes, wp : BOOLEAN, text : Builtins \cup { "other" }]

ASSUME CommandTableAssumption ==
    /\ OpenMax \in Nat /\ OpenMax > STDERR
    /\ \A line \in Lines : line \in Seq(Token) /\ Lexed(line)
    /\ MaxHeredocs \in Nat
    /\ ArenaFails \in BOOLEAN

VARIABLES
    line,           \* the token list
    pc,             \* where repl_parse_and_execute() is
    start,          \* position of the first token of the current command
    tok,            \* the token parser_cmd_build_one() looks at
    cmd,            \* the command under construction
    table,          \* the commands before it
    fds,            \* the shell's descriptor table
    state,          \* the flags of shell->state that are read somewhere
    code,           \* shell->code
    heredoc_count,  \* shell->heredoc_count
    heredoc_index,  \* shell->heredoc_index
    starved         \* history: the arena ran out of memory

vars == << line, pc, start, tok, cmd, table, fds, state, code,
           heredoc_count, heredoc_index, starved >>

NoCommand == [in |-> STDIN, out |-> STDOUT, type |-> "EXTERNAL", args |-> << >>]

Init ==
    /\ line \in Lines
    /\ pc = "scan" /\ start = 1 /\ tok = 1
    /\ cmd = NoCommand /\ table = << >>
    /\ fds = [fd \in Fds |-> IF fd <= STDERR THEN Tty ELSE Closed]
    /\ state = { "EVALUATING" }
    /\ code = 0
    /\ heredoc_count = 0 /\ heredoc_index = -1
    /\ starved = FALSE

Type(i) == line[i].type
HasNext(i) == i < Len(line)

\* The token after i is glued to it: it exists and has no space before it.
NextGlued(i) == HasNext(i) /\ ~line[i + 1].wp

\* The pipes from position i on, and the first of them.
Pipes(i)    == { j \in i .. Len(line) : Type(j) = "PIPE" }
NextPipe(i) == CHOOSE j \in Pipes(i) : \A k \in Pipes(i) : j <= k

\* The redirections of a command that hold a descriptor.
Redirs(c) == { c.in, c.out } \ { STDIN, STDOUT }

AllRedirs == UNION { Redirs(table[i]) : i \in DOMAIN table }

\* sh_abort()
Abort(c) ==
    /\ code' = c
    /\ state' = {}

-----------------------------------------------------------------------------
(* check_flag() and parser_is_syntax_correct()                              *)

\* Mutant: like the flags beside it, the count only says whether there is one.
AnyHeredoc(l) == IF \E i \in DOMAIN l : l[i].type = "HEREDOC" THEN 1 ELSE 0

CountHeredocs(l) == Cardinality({ i \in DOMAIN l : l[i].type = "HEREDOC" })

SyntaxCorrect ==
    /\ Type(Len(line)) \notin Operators
    /\ \A i \in DOMAIN line : Type(i) # "INVALID"
    /\ \A i \in DOMAIN line :
         Type(i) = "PIPE" => i > 1 /\ Type(i + 1) = "WORD"
    /\ \A i \in DOMAIN line :
         Type(i) \in RedirTypes \cup { "HEREDOC" } => Type(i + 1) \in WordTypes

Scan ==
    /\ pc = "scan"
    /\ heredoc_count' = CountHeredocs(line)
    /\ IF SyntaxCorrect
       THEN /\ state' = state \cup { "HAS_PIPE" : i \in Pipes(1) }
            /\ pc' = "begin"
            /\ code' = code
       ELSE Abort(2) /\ pc' = "rejected"
    /\ UNCHANGED << line, start, tok, cmd, table, fds, heredoc_index, starved >>

-----------------------------------------------------------------------------
(* parser_cmd_build_one()                                                   *)

\* parser_cmd_type(): the type goes by the first token, whatever it is.
CommandType(t) ==
    IF t.type = "WORD" /\ t.text \in Builtins THEN t.text ELSE "EXTERNAL"

Begin ==
    /\ pc = "begin"
    /\ cmd' = [NoCommand EXCEPT !.type = CommandType(line[start])]
    /\ tok' = start
    /\ pc' = "build"
    /\ UNCHANGED << line, start, table, fds, state, code, heredoc_count,
                    heredoc_index, starved >>

\* The arena is out of memory, for a command or for a word: the line is given
\* up without a word.
NoMemory ==
    /\ ArenaFails
    /\ pc \in { "begin", "build" }
    /\ pc = "build" => tok <= Len(line) /\ Type(tok) \notin Operators
    /\ cmd' = IF pc = "begin" THEN NoCommand ELSE cmd
    /\ starved' = TRUE
    /\ pc' = "fail"
    /\ UNCHANGED << line, start, tok, table, fds, state, code, heredoc_count,
                    heredoc_index >>

\* A redirection replaces the one of its side: the old descriptor goes first.
Side(type) == IF type \in { "REDIRECT_IN", "HEREDOC" } THEN "in" ELSE "out"

\* Mutant: the descriptor that is replaced stays open.
ReplacedOpen(side) == fds

Replaced(side) == Close(fds, { cmd[side] } \cap (STDERR + 1 .. OpenMax - 1))

\* handle_redirect_in(), handle_redirect_out(), handle_append()
Redirect ==
    /\ pc = "build" /\ tok <= Len(line) /\ Type(tok) \in RedirTypes
    /\ LET side == Side(Type(tok))
           shut == Replaced(side)
       IN  \E fd \in Fds :
             /\ LowestFree(shut, fd)
             /\ fds' = Bind(shut, fd, << "file", tok >>)
             /\ cmd' = [cmd EXCEPT ![side] = fd]
    /\ tok' = tok + 2
    /\ UNCHANGED << line, pc, start, table, state, code, heredoc_count,
                    heredoc_index, starved >>

\* open() fails; the field holds -1 and no longer the old descriptor.
RedirectFails ==
    /\ pc = "build" /\ tok <= Len(line) /\ Type(tok) \in RedirTypes
    /\ LET side == Side(Type(tok))
       IN  /\ fds' = Replaced(side)
           /\ cmd' = [cmd EXCEPT ![side] = -1]
    /\ Abort(1)
    /\ pc' = "fail"
    /\ UNCHANGED << line, start, tok, table, heredoc_count,
                    heredoc_index, starved >>

\* Mutant: the delimiter is one token.
DelimiterOneToken(i) == i

\* strip_delimiter(): the last of the words glued to the delimiter at i.
DelimiterEnd(i) ==
    CHOOSE j \in i .. Len(line) :
        /\ \A k \in i .. j - 1 : NextGlued(k) /\ Type(k + 1) \in WordTypes
        /\ ~NextGlued(j) \/ Type(j + 1) \notin WordTypes

\* handle_heredoc(): the read end of the pipe becomes the command's input.
HereDocument ==
    /\ pc = "build" /\ tok <= Len(line) /\ Type(tok) = "HEREDOC"
    /\ heredoc_count < MaxHeredocs
    /\ LET shut == Replaced("in")
       IN  \E rd, wr \in Fds :
             /\ LowestFree(shut, rd)
             /\ LowestFree(Bind(shut, rd, << "doc", tok >>), wr)
             /\ fds' = Bind(shut, rd, << "doc", tok >>)
             /\ cmd' = [cmd EXCEPT !.in = rd]
    /\ heredoc_index' = heredoc_index + 1
    /\ tok' = DelimiterEnd(tok + 1) + 1
    /\ UNCHANGED << line, pc, start, table, state, code,
                    heredoc_count, starved >>

\* read_heredoc() refuses, fails, or is cancelled by Ctrl-C.
HereDocumentFails ==
    /\ pc = "build" /\ tok <= Len(line) /\ Type(tok) = "HEREDOC"
    /\ fds' = Replaced("in")
    /\ cmd' = [cmd EXCEPT !.in = -1]
    /\ \E c \in { 112, 130 } :
         /\ heredoc_count >= MaxHeredocs => c = 112
         /\ Abort(c)
    /\ tok' = DelimiterEnd(tok + 1)
    /\ pc' = "fail"
    /\ UNCHANGED << line, start, table, heredoc_count,
                    heredoc_index, starved >>

\* handle_word_loop(): the last of the tokens glued to the word at i.  The
\* loop asks for white space only, not for the type of what it appends.
GluedEnd(i) ==
    CHOOSE j \in i .. Len(line) :
        (\A k \in i .. j - 1 : NextGlued(k)) /\ ~NextGlued(j)

\* handle_word(): only a word after the first, and after a space, is glued to
\* what follows it.
WordEnd(i, first) ==
    IF ~first /\ line[i].wp /\ HasNext(i) /\ Type(i + 1) \notin Operators
    THEN GluedEnd(i) ELSE i

Word ==
    /\ pc = "build" /\ tok <= Len(line)
    /\ Type(tok) \notin Operators
    /\ LET last == WordEnd(tok, cmd.args = << >>)
       IN  /\ cmd' = [cmd EXCEPT !.args =
                         Append(@, [k \in 1 .. last - tok + 1 |-> tok + k - 1])]
           /\ tok' = last + 1
    /\ UNCHANGED << line, pc, start, table, fds, state, code, heredoc_count,
                    heredoc_index, starved >>

-----------------------------------------------------------------------------
(* parser_cmd_build_many(), parser_cmd_build_main()                         *)

\* A command is built: without words it gives its redirections back.  The
\* next one starts after the next pipe, looked for from where this one began.
EndCommand ==
    /\ pc = "build"
    /\ tok <= Len(line) => Type(tok) = "PIPE"
    /\ IF cmd.args = << >>
       THEN /\ table' = Append(table, [cmd EXCEPT !.in = STDIN, !.out = STDOUT])
            /\ fds' = Close(fds, Redirs(cmd))
       ELSE /\ table' = Append(table, cmd)
            /\ fds' = fds
    /\ cmd' = NoCommand
    /\ IF Pipes(start) # {}
       THEN start' = NextPipe(start) + 1 /\ pc' = "begin"
       ELSE start' = start /\ pc' = "finish"
    /\ UNCHANGED << line, tok, state, code, heredoc_count,
                    heredoc_index, starved >>

\* Mutant: the commands before the bad one keep their descriptors.
GiveUpOnlyCurrent ==
    /\ pc = "fail" \/ (pc = "finish" /\ "EVALUATING" \notin state)
    /\ fds' = Close(fds, Redirs(cmd))
    /\ cmd' = NoCommand
    /\ table' = << >>
    /\ state' = {}
    /\ pc' = "rejected"
    /\ UNCHANGED << line, start, tok, code, heredoc_count,
                    heredoc_index, starved >>

\* clean_up_fds() on the command under construction, close_all_cmd_fds() on
\* those before it; repl_parse_and_execute() gives up.
GiveUp ==
    /\ pc = "fail" \/ (pc = "finish" /\ "EVALUATING" \notin state)
    /\ fds' = Close(fds, Redirs(cmd) \cup AllRedirs)
    /\ cmd' = NoCommand
    /\ table' = << >>
    /\ state' = {}
    /\ pc' = "rejected"
    /\ UNCHANGED << line, start, tok, code, heredoc_count,
                    heredoc_index, starved >>

\* The table goes to exec_pipeline() or exec_no_pipe().
HandOver ==
    /\ pc = "finish" /\ "EVALUATING" \in state
    /\ pc' = "handed"
    /\ UNCHANGED << line, start, tok, cmd, table, fds, state, code,
                    heredoc_count, heredoc_index, starved >>

Over == pc \in { "handed", "rejected" } /\ UNCHANGED vars

Next ==
    \/ Scan \/ Begin \/ NoMemory \/ Redirect \/ RedirectFails
    \/ HereDocument \/ HereDocumentFails \/ Word \/ EndCommand
    \/ GiveUp \/ HandOver
    \/ Over

Spec == Init /\ [][Next]_vars

-----------------------------------------------------------------------------
(* What the code promises.                                                  *)

CommandOK(c) ==
    /\ c.in \in Fds \cup { -1 } /\ c.out \in Fds \cup { -1 }
    /\ c.type \in Builtins \cup { "EXTERNAL" }
    /\ c.args \in Seq(Seq(1 .. Len(line)))

\* No word is glued to a pipe behind the string it is glued to: the tokens of
\* each command are its own.
PipesApart ==
    \A i \in DOMAIN line : \A j \in i + 2 .. Len(line) :
        /\ line[i].wp
        /\ Type(i) \notin Operators /\ Type(i + 1) \notin Operators
        /\ Type(j) = "PIPE"
        => \E k \in i + 1 .. j : line[k].wp

\* Types; heredoc_index stays within heredoc_delim[], which has MaxHeredocs
\* entries. Not on every line: a here-document behind a pipe that an argument
\* swallowed is read once for each of the commands, and counted once.
TypeOK ==
    /\ line \in Lines
    /\ pc \in { "scan", "begin", "build", "fail", "finish",
               "handed", "rejected" }
    /\ start \in 1 .. Len(line) /\ tok \in 1 .. Len(line) + 1
    /\ CommandOK(cmd)
    /\ \A i \in DOMAIN table : CommandOK(table[i])
    /\ fds \in [Fds -> { "closed", "tty", "file", "doc" }
                         \X (0 .. Len(line))]
    /\ state \subseteq { "EVALUATING", "HAS_PIPE" }
    /\ code \in { 0, 1, 2, 112, 130 }
    /\ heredoc_count \in 0 .. Len(line)
    /\ heredoc_index \in Nat \cup { -1 }
    /\ PipesApart => heredoc_index < MaxHeredocs
    /\ starved \in BOOLEAN

\* A line that is given up, at whatever token of whatever command, leaves no
\* descriptor open, nothing to evaluate, and (unless memory ran out) a code
\* that says so (parser_cmd_build_one(), parser_cmd_build_many()).
RejectedClean ==
    pc = "rejected" =>
        /\ Extra(fds) = {}
        /\ state = {}
        /\ code # 0 \/ starved

\* A table that is handed over owns its descriptors: every redirection has
\* one of its own, and the shell holds no others, however often a redirection
\* was replaced.  exec_pipeline() and exec_no_pipe() rely on it.
TableOwned ==
    pc = "handed" =>
        /\ Owned(table, OpenMax)
        /\ Extra(fds) = AllRedirs

(***************************************************************************)
(* What a line means, by position and without a token pointer: pipes       *)
(* separate the commands, the token after a redirection is its file, the   *)
(* words glued together after << are a delimiter, the rest are arguments.  *)
(***************************************************************************)
Number(i)  == 1 + Cardinality({ j \in 1 .. i - 1 : Type(j) = "PIPE" })
Members(c) == { i \in DOMAIN line : Type(i) # "PIPE" /\ Number(i) = c }

Operand(i) ==
    \/ i > 1 /\ Type(i - 1) \in RedirTypes \cup { "HEREDOC" }
    \/ \E h \in 1 .. i - 2 :
         /\ Type(h) = "HEREDOC"
         /\ \A k \in h + 2 .. i : ~line[k].wp /\ Type(k) \in WordTypes

IsWord(i) == Type(i) \notin Operators /\ ~Operand(i)

\* A word that continues the word before it, and the words that do not.
Glued(i)  == i > 1 /\ IsWord(i) /\ IsWord(i - 1) /\ ~line[i].wp
Heads(c)  == { i \in Members(c) : IsWord(i) /\ ~Glued(i) }
EndOf(h)  == CHOOSE j \in h .. Len(line) :
                /\ \A k \in h + 1 .. j : Glued(k)
                /\ j < Len(line) => ~Glued(j + 1)
Piece(h)  == [k \in 1 .. EndOf(h) - h + 1 |-> h + k - 1]

\* The redirection that counts on one side: the last.
Sides(c, side) == { i \in Members(c) :
                      /\ Type(i) \in RedirTypes \cup { "HEREDOC" }
                      /\ Side(Type(i)) = side }
Target(c, side) ==
    LET last == CHOOSE i \in Sides(c, side) : \A j \in Sides(c, side) : j <= i
    IN  IF Sides(c, side) = {} \/ Heads(c) = {} THEN Tty
        ELSE << IF Type(last) = "HEREDOC" THEN "doc" ELSE "file", last >>

\* The lines on which the glueing of words does what it should: a word is
\* glued to an earlier one only after a space, not at the start of a command,
\* and no operator follows without a space.
Plain ==
    \A i \in DOMAIN line :
        Glued(i) =>
            LET h == CHOOSE g \in 1 .. i : i \in g .. EndOf(g) /\ IsWord(g)
                                            /\ ~Glued(g)
            IN  /\ line[h].wp
                /\ \E g \in Heads(Number(h)) : g < h
                /\ ~NextGlued(EndOf(h)) \/ Type(EndOf(h) + 1) \notin Operators

\* A plain line is built into the commands it means: one for every pipe and
\* one more, each with its arguments in order and, on either side, the last
\* redirection that was written (handle_token(), handle_word_loop(),
\* strip_delimiter(), parser_cmd_build_main()).
LineMeaning ==
    pc = "handed" /\ Plain =>
        /\ Len(table) = Cardinality(Pipes(1)) + 1
        /\ \A c \in DOMAIN table :
             LET t == table[c]
             IN  /\ { t.args[k] : k \in DOMAIN t.args }
                        = { Piece(h) : h \in Heads(c) }
                 /\ \A k, l \in DOMAIN t.args :
                        k < l => t.args[k][1] < t.args[l][1]
                 /\ fds[t.in] = Target(c, "in")
                 /\ fds[t.out] = Target(c, "out")

\* "PIPE which is the delimiter that separates different commands": a command
\* takes its arguments from the tokens between its pipes.
PipesSeparate ==
    pc = "handed" =>
        \A c \in DOMAIN table : \A k \in DOMAIN table[c].args :
            \A j \in DOMAIN table[c].args[k] :
                table[c].args[k][j] \in Members(c)
=============================================================================
