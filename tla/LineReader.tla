----------------------------- MODULE LineReader -----------------------------
(****************************************************************************)
(* The shell on a script: repl_step_non_interactive() takes lines from      *)
(* get_next_line(), which reads the standard input in pieces and keeps what *)
(* comes behind a line in its static variable remains. The commands share   *)
(* the shell's offset in the input: the child of a here-document, whose     *)
(* readline() takes one character at a time up to its delimiter, and any    *)
(* program, which takes what it wants.                                      *)
(*                                                                          *)
(* Signals are Repl's subject. A NUL character, which would end a string    *)
(* early, is in no script here.                                             *)
(****************************************************************************)
EXTENDS Integers, SequencesExt

CONSTANTS
    Scripts,        \* the texts on standard input
    NL,             \* the newline
    HereChar,       \* a line of it and a delimiter is a here-document
    ProgramChar,    \* a line that begins with it runs a program that may read
    BUFFER_SIZE,
    ARG_MAX

ASSUME LineReaderAssumption ==
    /\ Scripts \subseteq Seq(UNION { ToSet(text) : text \in Scripts })
    /\ Cardinality({ NL, HereChar, ProgramChar }) = 3
    /\ BUFFER_SIZE \in Nat \ { 0 }
    /\ ARG_MAX \in Nat /\ ARG_MAX > 3

VARIABLES
    unread,         \* the script behind the shared offset
    remains,        \* << >> for NULL: it is never an empty string
    pc,             \* "call" or "read" of get_next_line(), "run", "ended"; or
                    \* "failed", which looks like "ended" to the shell
    line,           \* what it returned last
    command_line,
    typed           \* the line the here-document child is reading

readervars == << unread, remains, pc, line, command_line, typed >>

-----------------------------------------------------------------------------
(* get_next_line()                                                          *)

HasLine(text) == NL \in ToSet(text)

\* Mutant: the new remains begin one character too late.
AfterLineSkips(text) == SubSeq(text, SelectInSeq(text, LAMBDA c : c = NL) + 2, Len(text))

\* process_newline(): the string behind the newline, NULL if there is none.
AfterLine(text) == SubSeq(text, SelectInSeq(text, LAMBDA c : c = NL) + 1, Len(text))

FirstLine(text) == SubSeq(text, 1, SelectInSeq(text, LAMBDA c : c = NL))

\* The newline is cut off, and the copy has room for ARG_MAX - 2 characters.
Command(text) ==
    LET bare == IF Last(text) = NL THEN Front(text) ELSE text
    IN  SubSeq(bare, 1, IF Len(bare) < ARG_MAX - 2 THEN Len(bare) ELSE ARG_MAX - 2)

\* The rest of the step: an empty line is passed over.
Return(text) ==
    /\ line' = text
    /\ command_line' = Command(text)
    /\ pc' = IF Command(text) = << >> THEN "call" ELSE "run"
    /\ typed' = << >>

Call ==
    /\ pc = "call"
    /\ \/ /\ HasLine(remains)
          /\ Return(FirstLine(remains))
          /\ remains' = AfterLine(remains)
       \/ /\ ~HasLine(remains)
          /\ pc' = "read"
          /\ UNCHANGED << remains, line, command_line, typed >>
    /\ UNCHANGED unread

\* One read(), which may be short, and concat_buffer_to_remains().
Read ==
    /\ pc = "read"
    /\ \E n \in 1 .. BUFFER_SIZE :
        LET text == remains \o SubSeq(unread, 1, n) IN
        /\ n <= Len(unread)
        /\ unread' = SubSeq(unread, n + 1, Len(unread))
        /\ \/ /\ HasLine(text)
              /\ Return(FirstLine(text))
              /\ remains' = AfterLine(text)
           \/ /\ ~HasLine(text)
              /\ remains' = text
              /\ UNCHANGED << pc, line, command_line, typed >>

\* The end of the input: a last line without a newline, then NULL, at which
\* the shell sets SHOULD_EXIT.
ReadEof ==
    /\ pc = "read" /\ unread = << >>
    /\ \/ /\ remains # << >>
          /\ Return(remains)
          /\ remains' = << >>
       \/ /\ remains = << >>
          /\ pc' = "ended"
          /\ UNCHANGED << remains, line, command_line, typed >>
    /\ UNCHANGED unread

\* A read() or an allocation fails: remains are freed, with what a read() may
\* have brought, and the NULL that is returned ends the shell like an end of
\* the input.
Fails ==
    /\ pc \in { "call", "read" }
    /\ pc = "call" => HasLine(remains)
    /\ remains' = << >>
    /\ pc' = "failed"
    /\ \E n \in 0 .. IF pc = "read" THEN BUFFER_SIZE ELSE 0 :
        n <= Len(unread) /\ unread' = SubSeq(unread, n + 1, Len(unread))
    /\ UNCHANGED << line, command_line, typed >>

-----------------------------------------------------------------------------
(* The commands.                                                            *)

HereDocument == command_line[1] = HereChar /\ Len(command_line) > 1
Program      == command_line[1] = ProgramChar

TakeByte == unread # << >> /\ unread' = Tail(unread)

\* readline() and the test of hd_read_loop(). A line that the end of the input
\* cuts short is a line.
HereByte ==
    /\ pc = "run" /\ HereDocument
    /\ TakeByte
    /\ LET got  == IF Head(unread) = NL THEN typed ELSE Append(typed, Head(unread))
           full == Head(unread) = NL \/ Tail(unread) = << >>
       IN  /\ pc' = IF full /\ got = Tail(command_line) THEN "call" ELSE pc
           /\ typed' = IF full THEN << >> ELSE got
    /\ UNCHANGED << remains, line, command_line >>

ProgramByte ==
    /\ pc = "run" /\ Program
    /\ TakeByte
    /\ UNCHANGED << remains, pc, line, command_line, typed >>

\* The command is over; a here-document ends here at the end of the input.
Done ==
    /\ pc = "run"
    /\ HereDocument => unread = << >>
    /\ pc' = "call"
    /\ UNCHANGED << unread, remains, line, command_line, typed >>

-----------------------------------------------------------------------------
ReaderInit ==
    /\ unread \in Scripts
    /\ remains = << >>
    /\ pc = "call"
    /\ line = << >> /\ command_line = << >> /\ typed = << >>

ReaderNext == Call \/ Read \/ ReadEof \/ Fails \/ HereByte \/ ProgramByte \/ Done

ReaderSpec == ReaderInit /\ [][ReaderNext]_readervars

\* The shell goes on, and so do its commands.
FairSpec == ReaderSpec /\ WF_readervars(ReaderNext)
-----------------------------------------------------------------------------
(* Properties.                                                              *)

Text == INSTANCE Script WITH
    rest    <- remains \o unread,
    state   <- IF pc \in { "ended", "failed" } THEN pc ELSE "running",
    Readers <- { HereChar, ProgramChar }

\* The lines the shell executes are the script's, whatever pieces they came
\* in: nothing is lost, read twice or put in another order, and what a command
\* reads of the input comes from behind the shell's read-ahead, which between
\* two lines is shorter than a buffer. And the shell comes to the end of every
\* script, unless a read() or an allocation fails, and ends.
RefinesScript == Text!Spec
==============================================================================
