-------------------------------- MODULE Repl --------------------------------
(****************************************************************************)
(* run_shell(): the loop that reads a line, looks whether a signal came and *)
(* executes the line. A signal is only noted by its handler, in the one     *)
(* variable g_received_signal; reset_signal() looks at it before and after  *)
(* the reading, and handle_signal() resets it when it is through, so what   *)
(* comes in between is forgotten, and so is what sh_abort() finds noted.    *)
(*                                                                          *)
(* Both the prompt's handlers and those of the evaluation are installed     *)
(* with SA_RESTART: no call of the shell is interrupted.                    *)
(****************************************************************************)
EXTENDS Integers, Sequences

CONSTANTS
    Scripts,        \* what may be typed: sequences of lines
    Codes,          \* codes a command may end with
    Wide,           \* ULLONG_MAX + 1
    MaxSignals      \* bound on the model: signals sent to the shell

OK               == 0
EXIT_GENERAL_ERROR  == 1
EXIT_BUILTIN_MISUSE == 2
EXIT_PARSE_ERROR == 2
EXIT_REDIRECT_ERROR == 1
EXIT_HEREDOC_ERROR  == 112
EXIT_SIGINT      == 130

\* "run": an external command; "builtin"; "exit": the builtin exit; "bad": a
\* line the parser gives up; "cancel": one whose here-document is cancelled;
\* "blank": an empty line.
Kinds == { "run", "builtin", "exit", "bad", "cancel", "blank" }

\* An argument of exit: a sign, digits, and what else there is.
Arguments == [sign : { "", "+", "-" }, digits : Seq(0 .. 9), rest : { "", "x" }]

Line(kind, args) == [kind |-> kind, args |-> args]
Eof   == Line("eof", << >>)
Lines == [kind : Kinds, args : Seq(Arguments)]

ASSUME ReplAssumption ==
    /\ \A s \in Scripts : s \in Seq(Lines)
    /\ Codes \subseteq 0 .. 255
    /\ Wide \in Nat \ { 0 } /\ Wide % 512 = 0
    /\ MaxSignals \in Nat

VARIABLES
    input,      \* the lines still to come
    pc,         \* "top", "read", "got", "use", "eval", "wait", "ended"
    line,       \* the line that was read
    received,   \* g_received_signal: "none", "int" or "term"
    handling,   \* the signal handle_signal() was called with, or "none"
    exiting,    \* SHOULD_EXIT
    code,       \* $?
    childCode,  \* the code the running child was given by Ctrl-C, if any
    signals,
    hit,        \* history: Ctrl-C came since the last line was begun
    last,       \* history: the code the last line left
    noted       \* history: "yes": a SIGTERM came that no line is to be begun
                \* after; "late": it came after the last look before a line

vars == << input, pc, line, received, handling, exiting, code, childCode,
           signals, hit, last, noted >>

Ghost == << hit, last, noted >>

\* A SIGTERM that came too late for one line is there for the next.
NotLateAnyMore == noted' = IF noted = "late" THEN "yes" ELSE noted

-----------------------------------------------------------------------------
(* reset_signal(), at the top of the loop and after the reading.            *)

Looking == pc \in { "top", "got" } /\ handling = "none"

\* The call: the value is passed before anything else happens.
Look ==
    /\ Looking /\ ~(pc = "top" /\ exiting)
    /\ received # "none"
    /\ handling' = received
    /\ UNCHANGED << input, pc, line, received, exiting, code, childCode, signals, Ghost >>

After == IF pc = "top" THEN "read" ELSE "use"

\* Mutant: an interrupt at the late look leaves the code alone.
HandleAtTopOnly ==
    /\ handling # "none"
    /\ exiting' = (exiting \/ handling = "term")
    /\ code' = IF pc = "top" /\ handling = "int" THEN EXIT_SIGINT ELSE OK
    /\ received' = "none"
    /\ handling' = "none"
    /\ pc' = IF handling = "term" THEN "ended" ELSE After
    /\ noted' = "no"
    /\ UNCHANGED << input, line, childCode, signals, hit, last >>

\* handle_signal(); EVALUATING is never set at these two places.
Handle ==
    /\ handling # "none"
    /\ exiting' = (exiting \/ handling = "term")
    /\ code' = IF handling = "int" THEN EXIT_SIGINT ELSE OK
    /\ received' = "none"
    /\ handling' = "none"
    /\ pc' = IF handling = "term" THEN "ended" ELSE After
    /\ noted' = "no"
    /\ UNCHANGED << input, line, childCode, signals, hit, last >>

\* Mutant: the signal is not looked at once the line is there.
NoLateLook ==
    /\ Looking /\ ~(pc = "top" /\ exiting)
    /\ received = "none" \/ pc = "got"
    /\ pc' = After
    /\ UNCHANGED << input, line, received, handling, exiting, code, childCode, signals, Ghost >>

NoSignal ==
    /\ Looking /\ ~(pc = "top" /\ exiting)
    /\ received = "none"
    /\ pc' = After
    /\ UNCHANGED << input, line, received, handling, exiting, code, childCode, signals, Ghost >>

-----------------------------------------------------------------------------
(* The loop.                                                                *)

\* while (!(shell->state & SHOULD_EXIT))
Stop ==
    /\ pc = "top" /\ exiting
    /\ pc' = "ended"
    /\ UNCHANGED << input, line, received, handling, exiting, code, childCode, signals, Ghost >>

\* readline() or get_next_line().
ReadLine ==
    /\ pc = "read"
    /\ \/ input = << >> /\ line' = Eof /\ UNCHANGED input
       \/ input # << >> /\ line' = Head(input) /\ input' = Tail(input)
    /\ pc' = "got"
    /\ UNCHANGED << received, handling, exiting, code, childCode, signals, Ghost >>

\* Mutant: an empty read is executed instead of ending the shell.
UseAtEof ==
    /\ pc = "use"
    /\ exiting' = exiting
    /\ pc' = IF line.kind \in { "eof", "blank" } THEN "top" ELSE "eval"
    /\ NotLateAnyMore
    /\ UNCHANGED << input, line, received, handling, code, childCode, signals, hit, last >>

\* The end of the input ends the loop, an empty line is passed over, any other
\* goes to process_command_line().
Use ==
    /\ pc = "use"
    /\ exiting' = (exiting \/ line = Eof)
    /\ pc' = IF line = Eof THEN "ended" ELSE IF line.kind = "blank" THEN "top" ELSE "eval"
    /\ NotLateAnyMore
    /\ UNCHANGED << input, line, received, handling, code, childCode, signals, hit, last >>

\* What a line leaves: its code, and a Ctrl-C that is noted but not handled.
Left(c, sig) == code' = c /\ last' = c /\ hit' = (sig = "int")

Builtin ==
    /\ pc = "eval" /\ line.kind = "builtin"
    /\ \E c \in Codes \cup { code } : Left(c, received)
    /\ pc' = "top"
    /\ UNCHANGED << input, line, received, handling, exiting, childCode, signals, noted >>

\* The test of builtin_exit(), which lets a sign without digits and an empty
\* argument pass.
Numeric(arg) == arg.rest = ""

LLONG_MAX == Wide \div 2 - 1

\* raw, after each of the digits: ft_atoll() gives up when one brings it above
\* LLONG_MAX, unless the multiplication has wrapped around.
Raw(digits) ==
    LET raw[k \in 0 .. Len(digits)] ==
          IF k = 0 THEN 0
          ELSE IF raw[k - 1] > LLONG_MAX THEN raw[k - 1]
          ELSE (raw[k - 1] * 10 + digits[k]) % Wide
    IN  raw

\* ft_atoll()
Atoll(arg) ==
    LET raw == Raw(arg.digits)[Len(arg.digits)]
    IN  IF raw > LLONG_MAX THEN -1 ELSE IF arg.sign = "-" THEN -raw ELSE raw

\* Mutant: the arguments are counted before the first is looked at.
ExitCountsFirst ==
    LET args == line.args IN
    /\ pc = "eval" /\ line.kind = "exit"
    /\ \/ args = << >> /\ Left(code, received) /\ exiting' = TRUE
       \/ Len(args) > 1 /\ Left(EXIT_GENERAL_ERROR, received) /\ UNCHANGED exiting
       \/ /\ Len(args) = 1
          /\ Left(IF ~Numeric(args[1]) \/ Atoll(args[1]) < 0 THEN EXIT_BUILTIN_MISUSE
                  ELSE Atoll(args[1]) % 256, received)
          /\ exiting' = TRUE
    /\ pc' = "top"
    /\ UNCHANGED << input, line, received, handling, childCode, signals, noted >>

\* builtin_exit()
Exit ==
    LET args == line.args IN
    /\ pc = "eval" /\ line.kind = "exit"
    /\ \/ args = << >> /\ Left(code, received) /\ exiting' = TRUE
       \/ /\ args # << >> /\ ~Numeric(args[1])
          /\ Left(EXIT_BUILTIN_MISUSE, received)
          /\ exiting' = TRUE
       \/ /\ args # << >> /\ Numeric(args[1]) /\ Len(args) > 1
          /\ Left(EXIT_GENERAL_ERROR, received)
          /\ UNCHANGED exiting
       \/ /\ Len(args) = 1 /\ Numeric(args[1])
          /\ Left(IF Atoll(args[1]) < 0 THEN EXIT_BUILTIN_MISUSE
                  ELSE Atoll(args[1]) % 256, received)
          /\ exiting' = TRUE
    /\ pc' = "top"
    /\ UNCHANGED << input, line, received, handling, childCode, signals, noted >>

\* sh_abort() from the parser: a syntax error, a redirection that cannot be
\* opened, a here-document that fails or is cancelled.
Abort ==
    /\ pc = "eval" /\ line.kind \in { "bad", "cancel" }
    /\ received' = "none"
    /\ \E c \in IF line.kind = "cancel" THEN { EXIT_SIGINT }
               ELSE { EXIT_PARSE_ERROR, EXIT_REDIRECT_ERROR, EXIT_HEREDOC_ERROR } :
          Left(c, "none")
    /\ pc' = "top"
    /\ noted' = "no"
    /\ UNCHANGED << input, line, handling, exiting, childCode, signals >>

Fork ==
    /\ pc = "eval" /\ line.kind = "run"
    /\ pc' = "wait"
    /\ childCode' = -1
    /\ UNCHANGED << input, line, received, handling, exiting, code, signals, Ghost >>

\* Mutant: the raw wait status is kept.
WaitRaw ==
    /\ pc = "wait"
    /\ IF childCode = -1 THEN \E c \in Codes : Left(256 * c, received)
                         ELSE Left(childCode, received)
    /\ pc' = "top"
    /\ UNCHANGED << input, line, received, handling, exiting, childCode, signals, noted >>

\* waitpid_retry() and shell_update_code_from_status().
Wait ==
    /\ pc = "wait"
    /\ IF childCode = -1 THEN \E c \in Codes : Left(c, received) ELSE Left(childCode, received)
    /\ pc' = "top"
    /\ UNCHANGED << input, line, received, handling, exiting, childCode, signals, noted >>

-----------------------------------------------------------------------------
(* The signals, at any moment.                                              *)

\* Ctrl-C: the child ends by it, or catches it and goes on.
Interrupt ==
    /\ pc # "ended" /\ signals < MaxSignals
    /\ signals' = signals + 1
    /\ received' = "int"
    /\ hit' = TRUE
    /\ noted' = "no"
    /\ \/ pc = "wait" /\ childCode' = EXIT_SIGINT
       \/ UNCHANGED childCode
    /\ UNCHANGED << input, pc, line, handling, exiting, code, last >>

\* SIGTERM is only noted; its handler is the same in both modes.
Terminate ==
    /\ pc # "ended" /\ signals < MaxSignals
    /\ signals' = signals + 1
    /\ received' = "term"
    /\ noted' = IF pc = "use" THEN "late" ELSE "yes"
    /\ UNCHANGED << input, pc, line, handling, exiting, code, childCode, hit, last >>

-----------------------------------------------------------------------------
Init ==
    /\ input \in Scripts
    /\ pc = "top" /\ line = Eof
    /\ received = "none" /\ handling = "none"
    /\ exiting = FALSE
    /\ code = 0 /\ childCode = -1
    /\ signals = 0
    /\ hit = FALSE /\ last = 0 /\ noted = "no"

Step == Look \/ Handle \/ NoSignal \/ Stop \/ ReadLine \/ Use
        \/ Builtin \/ Exit \/ Abort \/ Fork \/ Wait

Next == Step \/ Interrupt \/ Terminate

Spec == Init /\ [][Next]_vars

\* The shell runs, its commands end, and the user types on or ends the input.
FairSpec == Spec /\ WF_vars(Step)

-----------------------------------------------------------------------------
(* Properties.                                                              *)

\* Every variable has its type.
TypeOK ==
    /\ input \in Seq(Lines)
    /\ pc \in { "top", "read", "got", "use", "eval", "wait", "ended" }
    /\ line \in Lines \cup { Eof }
    /\ received \in { "none", "int", "term" }
    /\ handling \in { "none", "int", "term" }
    /\ exiting \in BOOLEAN
    /\ code \in 0 .. 255
    /\ childCode \in { -1, EXIT_SIGINT }
    /\ signals \in 0 .. MaxSignals
    /\ hit \in BOOLEAN /\ last \in 0 .. 255 /\ noted \in { "no", "late", "yes" }

\* After a SIGTERM at most the line that is past its last look is executed, and
\* no other, wherever the signal comes. Three things lose it, and nothing else:
\* a Ctrl-C before the shell looks, which takes its place in g_received_signal;
\* handle_signal(), when it is at another signal; a line that is given up.
TermStopsSoon == pc = "use" => noted # "yes"

\* The line that is begun sees the code of the one before it, or 130 if
\* Ctrl-C came since; one that comes after the last look is for the next line.
CodeSeen ==
    pc = "eval" /\ received = "none" => code = IF hit THEN EXIT_SIGINT ELSE last

\* The number an argument writes.
Values(digits) ==
    LET value[k \in 0 .. Len(digits)] ==
          IF k = 0 THEN 0 ELSE value[k - 1] * 10 + digits[k]
    IN  value

Number(arg) == Values(arg.digits)[Len(arg.digits)]

\* exit NUMBER ends the shell with the number's low byte, exit of a negative
\* number, of one above LLONG_MAX or of none with 2; a number that wraps around
\* gives one or the other. A number and more arguments end nothing.
ExitAsMeant == [][
    pc = "eval" /\ pc' = "top" /\ line.kind = "exit" /\ line.args # << >> =>
        LET arg == line.args[1]
            n   == Number(arg)
            refused == ~Numeric(arg) \/ n > LLONG_MAX \/ (arg.sign = "-" /\ n > 0)
        IN  /\ exiting' <=> ~Numeric(arg) \/ Len(line.args) = 1
            /\ ~exiting' => code' = EXIT_GENERAL_ERROR
            /\ exiting' /\ n < Wide =>
                   code' = IF refused THEN EXIT_BUILTIN_MISUSE ELSE n % 256
            /\ exiting' /\ n >= Wide => code' \in { EXIT_BUILTIN_MISUSE, n % 256 }
    ]_vars

\* Whatever signals come, the shell ends when its input does.
Ends == <>(pc = "ended")
==============================================================================
