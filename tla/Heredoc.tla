------------------------------- MODULE Heredoc -------------------------------
(****************************************************************************)
(* The here-documents of one command line. For each the shell makes a pipe  *)
(* and forks a child that reads the user's lines and writes them to it; the *)
(* shell waits for the child to end before it goes on, so nobody reads the  *)
(* pipe meanwhile. Ctrl-C reaches the shell and its child, each of which    *)
(* has a disposition and a g_received_signal of its own; SIGTERM reaches    *)
(* the one it is sent to.                                                   *)
(*                                                                          *)
(* A line is one unit of the pipe's capacity. readline(), the terminal and  *)
(* the kernel are outside the repository.                                   *)
(****************************************************************************)
EXTENDS Integers, Sequences

CONSTANTS
    Text,           \* the lines that may be typed, the delimiters among them
    CommandLines,   \* records [delims, input]: a line's delimiters, what is typed
    MAX_HEREDOCS,
    PipeCapacity,
    MaxInterrupts,  \* bound on the model: Ctrl-C is typed at most so often
    MaxKills        \* bound on the model: SIGTERM is sent at most so often

EXIT_SIGINT        == 130
EXIT_HEREDOC_ERROR == 112

Eof == "eof"        \* what readline() returns for NULL

ASSUME HeredocAssumption ==
    /\ Eof \notin Text
    /\ \A l \in CommandLines : l.delims \in Seq(Text) /\ l.input \in Seq(Text)
    /\ MAX_HEREDOCS \in Nat \ { 0 }
    /\ PipeCapacity \in Nat
    /\ MaxInterrupts \in Nat /\ MaxKills \in Nat

VARIABLES
    delims,         \* the delimiters of the line; heredoc_count is their number
    input,          \* the lines still to come from the terminal
    pc,             \* the shell: "parse", "fork", "wait", "result" or "done"
    heredoc_index,
    evaluating,     \* the EVALUATING flag: the line is to be executed
    sigint,         \* the shell's disposition of SIGINT: "note" or "ignore"
    received,       \* its g_received_signal: "none", "int" or "term"
    child,          \* the child: [pc, sigint, received, stdin, line]
    status,         \* how it ended
    pipe,           \* the lines in the pipe
    ends,           \* who holds which end of it: pairs << process, end >>
    code,           \* $?
    interrupts, kills,
    bodies,         \* history: the bodies handed to commands
    before,         \* history: the input behind the last body
    caught          \* history: the child's handler ran before its last look

shell == << delims, heredoc_index, evaluating, code >>
vars  == << shell, input, pc, sigint, received, child, status, pipe, ends,
            interrupts, kills, bodies, before, caught >>

None == [pc |-> "none", sigint |-> "default", received |-> "none",
         stdin |-> FALSE, line |-> Eof]

Full == Len(pipe) = PipeCapacity

Parsing == pc = "parse" /\ Len(bodies) < Len(delims)

-----------------------------------------------------------------------------
(* The shell. handle_heredoc() steps heredoc_index before it calls          *)
(* read_heredoc() and back when that fails; sh_abort() clears the flags and *)
(* g_received_signal.                                                       *)

Abort(c) ==
    /\ pc' = "done"
    /\ evaluating' = FALSE
    /\ received' = "none"
    /\ code' = c

\* Mutant: the limit is tested one too late.
RefusedLate == Len(delims) > MAX_HEREDOCS + 1

Refused == Len(delims) >= MAX_HEREDOCS

\* "maximum here-document count exceeded"
Refuse ==
    /\ Parsing /\ Refused
    /\ Abort(EXIT_HEREDOC_ERROR)
    /\ UNCHANGED << delims, heredoc_index, input, sigint, child, status, pipe, ends,
                    interrupts, kills, bodies, before, caught >>

\* pipe(), then enter_heredoc().
Enter ==
    /\ Parsing /\ ~Refused
    /\ heredoc_index' = heredoc_index + 1
    /\ pipe' = << >>
    /\ ends' = ends \cup { << "shell", "read" >>, << "shell", "write" >> }
    /\ sigint' = "ignore"
    /\ pc' = "fork"
    /\ caught' = FALSE
    /\ UNCHANGED << delims, evaluating, code, input, received, child, status,
                    interrupts, kills, bodies, before >>

PipeFails ==
    /\ Parsing /\ ~Refused
    /\ Abort(EXIT_HEREDOC_ERROR)
    /\ UNCHANGED << delims, heredoc_index, input, sigint, child, status, pipe, ends,
                    interrupts, kills, bodies, before, caught >>

\* Mutant: the shell keeps the write end of the pipe.
ForkKeepsWriter ==
    /\ pc = "fork"
    /\ child' = [None EXCEPT !.pc = "start", !.sigint = sigint,
                             !.received = received, !.stdin = TRUE]
    /\ ends' = ends \cup { << "child", "write" >> }
    /\ pc' = "wait"
    /\ UNCHANGED << shell, input, sigint, received, status, pipe,
                    interrupts, kills, bodies, before, caught >>

\* The child inherits the disposition and g_received_signal. It closes the
\* read end, the shell the write end.
Fork ==
    /\ pc = "fork"
    /\ child' = [None EXCEPT !.pc = "start", !.sigint = sigint,
                             !.received = received, !.stdin = TRUE]
    /\ ends' = (ends \ { << "shell", "write" >> }) \cup { << "child", "write" >> }
    /\ pc' = "wait"
    /\ UNCHANGED << shell, input, sigint, received, status, pipe,
                    interrupts, kills, bodies, before, caught >>

\* hd_setup_fail()
ForkFails ==
    /\ pc = "fork"
    /\ sigint' = "note"
    /\ ends' = ends \ { << "shell", "read" >>, << "shell", "write" >> }
    /\ heredoc_index' = heredoc_index - 1
    /\ Abort(EXIT_HEREDOC_ERROR)
    /\ UNCHANGED << delims, input, child, status, pipe,
                    interrupts, kills, bodies, before, caught >>

\* heredoc_wait_and_restore(): waitpid() and leave_heredoc().
Wait ==
    /\ pc = "wait" /\ child.pc = "ended"
    /\ child' = None
    /\ sigint' = "note"
    /\ pc' = "result"
    /\ UNCHANGED << shell, input, received, status, pipe, ends,
                    interrupts, kills, bodies, before, caught >>

\* Mutant: any status but the cancelled one accepts the body.
AcceptUnlessCancelled ==
    /\ pc = "result" /\ status # EXIT_SIGINT
    /\ bodies' = Append(bodies, pipe)
    /\ ends' = ends \ { << "shell", "read" >> }
    /\ before' = input
    /\ pc' = "parse"
    /\ UNCHANGED << shell, input, sigint, received, child, status, pipe,
                    interrupts, kills, caught >>

\* Mutant: the bodies read so far stay recorded.
GiveUpKeepsIndex ==
    /\ pc = "result" /\ status # 0
    /\ ends' = ends \ { << "shell", "read" >> }
    /\ Abort(IF status = EXIT_SIGINT THEN EXIT_SIGINT ELSE EXIT_HEREDOC_ERROR)
    /\ UNCHANGED << delims, heredoc_index, input, sigint, child, status, pipe,
                    interrupts, kills, bodies, before, caught >>

\* heredoc_status_result() and reading_result(): the read end goes to the
\* command, or is closed and the line given up.
Accept ==
    /\ pc = "result" /\ status = 0
    /\ bodies' = Append(bodies, pipe)
    /\ ends' = ends \ { << "shell", "read" >> }
    /\ before' = input
    /\ pc' = "parse"
    /\ UNCHANGED << shell, input, sigint, received, child, status, pipe,
                    interrupts, kills, caught >>

GiveUp ==
    /\ pc = "result" /\ status # 0
    /\ heredoc_index' = heredoc_index - 1
    /\ ends' = ends \ { << "shell", "read" >> }
    /\ Abort(IF status = EXIT_SIGINT THEN EXIT_SIGINT ELSE EXIT_HEREDOC_ERROR)
    /\ UNCHANGED << delims, input, sigint, child, status, pipe,
                    interrupts, kills, bodies, before, caught >>

\* The parser goes on; the commands are executed if EVALUATING is still set.
Finish ==
    /\ pc = "parse" /\ Len(bodies) = Len(delims)
    /\ pc' = "done"
    /\ UNCHANGED << shell, input, sigint, received, child, status, pipe, ends,
                    interrupts, kills, bodies, before, caught >>

-----------------------------------------------------------------------------
(* The child.                                                               *)

Child(at) == child.pc = at

ChildGoes(to) == child' = [child EXCEPT !.pc = to]

UnchangedByChild ==
    UNCHANGED << shell, pc, sigint, received, interrupts, kills, bodies, before, caught >>

\* sig_mode_set(SIGMODE_HEREDOC_CHILD)
Install ==
    /\ Child("start")
    /\ child' = [child EXCEPT !.pc = "read", !.sigint = "close"]
    /\ UNCHANGED << input, status, pipe, ends >> /\ UnchangedByChild

\* readline(): a line, or NULL at the end of the input or without an input.
ReadLine ==
    /\ Child("read") /\ child.stdin /\ input # << >>
    /\ child' = [child EXCEPT !.pc = "look", !.line = Head(input)]
    /\ input' = Tail(input)
    /\ UNCHANGED << status, pipe, ends >> /\ UnchangedByChild

ReadNothing ==
    /\ Child("read") /\ (~child.stdin \/ input = << >>)
    /\ child' = [child EXCEPT !.pc = "look", !.line = Eof]
    /\ UNCHANGED << input, status, pipe, ends >> /\ UnchangedByChild

Delimiter == delims[Len(bodies) + 1]

\* Mutant: the end of the input does not end the body.
LookAgainAtEof ==
    /\ Child("look")
    /\ ChildGoes(IF child.received = "int" \/ child.line = Delimiter THEN "last"
                 ELSE IF child.line = Eof THEN "read" ELSE "write")
    /\ UNCHANGED << input, status, pipe, ends >> /\ UnchangedByChild

\* The tests of hd_read_loop() after readline().
LookAtLine ==
    /\ Child("look")
    /\ ChildGoes(IF child.received = "int" \/ child.line \in { Eof, Delimiter }
                 THEN "last" ELSE "write")
    /\ UNCHANGED << input, status, pipe, ends >> /\ UnchangedByChild

\* hd_output_line(); write() waits while the pipe is full.
Write ==
    /\ Child("write") /\ ~Full
    /\ pipe' = Append(pipe, child.line)
    /\ ChildGoes("read")
    /\ UNCHANGED << input, status, ends >> /\ UnchangedByChild

\* The end of heredoc_child(): the last look at g_received_signal, exit.
End(s) ==
    /\ ChildGoes("ended")
    /\ status' = s
    /\ ends' = ends \ { << "child", "write" >> }
    /\ UNCHANGED << input, pipe >> /\ UnchangedByChild

\* Mutant: the child ignores an interrupt seen after its last line.
LeaveBlindly == Child("last") /\ End(0)

Leave ==
    /\ Child("last")
    /\ End(IF child.received = "int" THEN EXIT_SIGINT ELSE 0)

-----------------------------------------------------------------------------
(* The signals.                                                             *)


\* sh_sig_hdoc_child() closes stdin; a write() that waits is interrupted and
\* its line is lost.
ChildCatches ==
    /\ child.sigint = "close" /\ child.pc \in { "read", "look", "write", "last" }
    /\ child' = [child EXCEPT !.received = "int", !.stdin = FALSE,
                              !.pc = IF child.pc = "write" /\ Full THEN "read" ELSE @]
    /\ caught' = TRUE

Interrupt ==
    /\ pc # "done" /\ interrupts < MaxInterrupts
    /\ interrupts' = interrupts + 1
    /\ received' = IF sigint = "note" THEN "int" ELSE received
    /\ \/ ChildCatches
       \/ /\ ~(child.sigint = "close" /\ child.pc \in { "read", "look", "write", "last" })
          /\ UNCHANGED << child, caught >>
    /\ UNCHANGED << shell, input, pc, sigint, status, pipe, ends, kills, bodies, before >>

\* SIGTERM keeps the handler of SIGMODE_EVAL in the shell all the time, in the
\* child until it installs the default.
KillShell ==
    /\ pc # "done" /\ kills < MaxKills
    /\ kills' = kills + 1
    /\ received' = "term"
    /\ UNCHANGED << shell, input, pc, sigint, child, status, pipe, ends,
                    interrupts, bodies, before, caught >>

SIGTERM == 15

KillChild ==
    /\ child.pc \notin { "none", "ended" } /\ kills < MaxKills
    /\ kills' = kills + 1
    /\ \/ /\ Child("start")
          /\ child' = [child EXCEPT !.received = "term"]
          /\ UNCHANGED << status, ends >>
       \/ /\ ~Child("start")
          /\ ChildGoes("ended")
          /\ status' = 128 + SIGTERM
          /\ ends' = ends \ { << "child", "write" >> }
    /\ UNCHANGED << shell, input, pc, sigint, received, pipe,
                    interrupts, bodies, before, caught >>

-----------------------------------------------------------------------------
Init ==
    /\ \E l \in CommandLines : delims = l.delims /\ input = l.input /\ before = l.input
    /\ pc = "parse"
    /\ heredoc_index = -1
    /\ evaluating = TRUE
    /\ sigint = "note" /\ received = "none"
    /\ child = None /\ status = 0
    /\ pipe = << >> /\ ends = {}
    /\ code = 0
    /\ interrupts = 0 /\ kills = 0
    /\ bodies = << >> /\ caught = FALSE

ShellStep == Refuse \/ Enter \/ PipeFails \/ Fork \/ ForkFails \/ Wait
             \/ Accept \/ GiveUp \/ Finish

ChildStep == Install \/ ReadLine \/ ReadNothing \/ LookAtLine \/ Write \/ Leave

Next == ShellStep \/ ChildStep \/ Interrupt \/ KillShell \/ KillChild

Spec == Init /\ [][Next]_vars

\* Both processes are scheduled; the user goes on typing or ends the input.
Fairness == WF_vars(ShellStep) /\ WF_vars(ChildStep)

FairSpec == Spec /\ Fairness
-----------------------------------------------------------------------------
(* Properties.                                                              *)

\* Every variable has its type; heredoc_index stays in heredoc_delim[].
TypeOK ==
    /\ delims \in Seq(Text) /\ input \in Seq(Text) /\ before \in Seq(Text)
    /\ pc \in { "parse", "fork", "wait", "result", "done" }
    /\ heredoc_index \in -1 .. MAX_HEREDOCS - 1
    /\ evaluating \in BOOLEAN /\ caught \in BOOLEAN
    /\ sigint \in { "note", "ignore" }
    /\ received \in { "none", "int", "term" }
    /\ child \in [pc : { "none", "start", "read", "look", "write", "last", "ended" },
                  sigint : { "default", "ignore", "close" },
                  received : { "none", "int", "term" },
                  stdin : BOOLEAN, line : Text \cup { Eof }]
    /\ status \in { 0, EXIT_SIGINT, 128 + SIGTERM }
    /\ pipe \in Seq(Text) /\ Len(pipe) <= PipeCapacity
    /\ ends \subseteq { "shell", "child" } \X { "read", "write" }
    /\ code \in { 0, EXIT_SIGINT, EXIT_HEREDOC_ERROR }
    /\ bodies \in Seq(Seq(Text))

\* Once a body is handed over nobody holds the write end of its pipe, so the
\* command that reads it sees its end; and a line given up leaves no pipe.
EndsClosed == pc \in { "parse", "done" } => ends = {}

\* A Ctrl-C that the child's handler catches before its last look gives the
\* line up, at whatever point of the reading it comes.
CancelRespected == caught /\ pc \in { "parse", "done" } => pc = "done" /\ ~evaluating

\* A line that is given up is not executed, has a code that says so, and ends
\* with heredoc_index at the last body that was read.
GivenUpClean ==
    pc = "done" /\ ~evaluating =>
        /\ code \in { EXIT_SIGINT, EXIT_HEREDOC_ERROR }
        /\ heredoc_index = Len(bodies) - 1
        /\ sigint = "note"

Job == INSTANCE HeredocJob
         WITH input <- before, over <- pc = "done",
              Cancelled <- EXIT_SIGINT, Failed <- EXIT_HEREDOC_ERROR

\* Every body is the lines up to its delimiter, in order and whole, whatever
\* the interleaving of the two processes and the signals; nothing else is
\* ever handed to a command.
ImplementsJob == Job!Spec

\* The shell comes back, or the child waits for room in a pipe that no one
\* will read: a body larger than the pipe is the only way to hang.
EndsOrBlocks == <>(pc = "done") \/ <>[](Child("write") /\ Full)


\* "maximum here-document count exceeded" is said of a line with more than
\* MAX_HEREDOCS of them. (It does not hold: exactly MAX_HEREDOCS is refused.)
RefusedAboveMax == [][Refuse => Len(delims) > MAX_HEREDOCS]_vars
==============================================================================
