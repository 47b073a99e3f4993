------------------------------ MODULE Pipeline ------------------------------
(****************************************************************************)
(* exec_pipeline(): the shell runs  c1 | c2 | ... | cN.  For each command   *)
(* it makes a pipe, forks a child, closes its own copies and remembers the  *)
(* read end in tmp_fd; the child moves its ends onto stdin and stdout and   *)
(* runs.  Then the shell waits for every child it forked and takes the      *)
(* status of the last one.                                                  *)
(*                                                                          *)
(* Descriptor tables are kept number by number, so that close() of a number *)
(* the kernel has handed out again does what it does in the program.  The   *)
(* steps of the shell are its system calls; clean_pipe() is one step, since *)
(* other processes can see of it only that ends get closed.                 *)
(****************************************************************************)
EXTENDS Processes, Sequences

CONSTANTS
    CommandTables,  \* the command tables the parser may hand over
    MaxCommands,    \* no table is longer
    MaxPipeFailures,\* how many calls of pipe() may fail with ENFILE
    MaxForkFailures \* how many forks may fail with EAGAIN

Command == [in : Nat, out : Nat, prog : Programs]

\* What parser_cmd_build_many() guarantees of a command table with a pipe in
\* it: two commands or more; every redirection holds a descriptor of its own.
WellFormed(table) ==
    /\ table \in Seq(Command)
    /\ Len(table) >= 2
    /\ Owned(table, OpenMax)

ASSUME PipelineAssumption ==
    /\ \A table \in CommandTables :
         WellFormed(table) /\ Len(table) <= MaxCommands
    /\ MaxCommands \in Nat
    /\ MaxPipeFailures \in Nat
    /\ MaxForkFailures \in Nat

VARIABLES
    cmd,        \* shell->cmd, the command table
    pc,         \* where the shell is in exec_pipe_entry()
    cur,        \* the command exec_pipe() works on
    fds,        \* the shell's descriptor table
    pipe,       \* pipeline->pipe
    tmp_fd,     \* pipeline->tmp_fd
    count,      \* children still to be waited for
    last_child, \* the last child forked, 0 for none
    last_status,\* its wait status, once it was reaped
    code,       \* shell->code, the value of $?
    state,      \* the flags of shell->state
    received,   \* g_received_signal, 0 for none
    proc,       \* state of each command's process
    image,      \* the child's copies of pipe and tmp_fd
    cfds,       \* the child's descriptor table
    wstatus,    \* the child's wait status
    faulty,     \* history: commands whose pipe, fork or dup failed
    unpiped     \* history: those of them whose pipe failed

shellvars == << pc, cur, fds, pipe, tmp_fd, count, last_child, last_status,
                code, state, faulty, unpiped >>
childvars == << proc, image, cfds, wstatus >>
vars == << cmd, shellvars, received, childvars >>

Cmds == DOMAIN cmd
N    == Len(cmd)

NoPipe  == [rd |-> -1, wr |-> -1]
NoImage == [pipe |-> NoPipe, tmp_fd |-> -1]

\* The redirections of a command that hold a descriptor.
Redirs(c) == { c.in, c.out } \ { STDIN, STDOUT }

\* The command whose redirection holds fd.
OpenedIn(table, fd)  == CHOOSE i \in DOMAIN table : table[i].in = fd
OpenedOut(table, fd) == CHOOSE i \in DOMAIN table : table[i].out = fd

\* The shell's table when the parser is done: the terminal on the standard
\* streams, every redirection open.
ParsedFds(table) ==
    [fd \in Fds |->
        IF fd <= STDERR THEN Tty
        ELSE IF \E i \in DOMAIN table : table[i].in = fd
             THEN << "in", OpenedIn(table, fd) >>
        ELSE IF \E i \in DOMAIN table : table[i].out = fd
             THEN << "out", OpenedOut(table, fd) >>
        ELSE Closed]

Init ==
    /\ cmd \in CommandTables
    /\ pc = "pipe" /\ cur = 1
    /\ fds = ParsedFds(cmd)
    /\ pipe = NoPipe /\ tmp_fd = -1
    /\ count = 0 /\ last_child = 0 /\ last_status = Exited(0)
    /\ code = 0 /\ received = 0
    /\ state = { "EVALUATING", "HAS_PIPE" }
    /\ proc = [i \in Cmds |-> "unborn"]
    /\ image = [i \in Cmds |-> NoImage]
    /\ cfds = [i \in Cmds |-> NoFds]
    /\ wstatus = [i \in Cmds |-> Exited(0)]
    /\ faulty = {} /\ unpiped = {}

-----------------------------------------------------------------------------
(* The shell: exec_pipe_entry(), exec_pipe(), clean_pipe().                *)

\* The step of exec_pipe_entry() to the next command, or to the wait.
NextCommand ==
    /\ cur' = cur + 1
    /\ pc' = IF cur < N THEN "pipe" ELSE IF count = 0 THEN "close" ELSE "wait"

\* pipe() gives the two lowest free descriptors.
OpenPipe ==
    /\ pc = "pipe"
    /\ \E rd, wr \in Fds :
         /\ LowestFree(fds, rd)
         /\ LowestFree(Bind(fds, rd, << "rd", cur >>), wr)
         /\ fds' = Bind(Bind(fds, rd, << "rd", cur >>), wr, << "wr", cur >>)
         /\ pipe' = [rd |-> rd, wr |-> wr]
    /\ pc' = "fork"
    /\ UNCHANGED << cmd, cur, tmp_fd, count, last_child, last_status, code,
                    state, received, childvars, faulty, unpiped >>

\* pipe() fails, for want of two descriptors or of files in the system:
\* exec_pipe() returns -1 at once; the command's redirections stay open and
\* tmp_fd stays as the command before left it.
OpenPipeFails ==
    /\ pc = "pipe"
    /\ \/ Cardinality(unpiped) < MaxPipeFailures
       \/ \A rd \in Fds : LowestFree(fds, rd) =>
                              NoneFree(Bind(fds, rd, << "rd", cur >>))
    /\ NextCommand
    /\ faulty' = faulty \cup { cur }
    /\ unpiped' = unpiped \cup { cur }
    /\ UNCHANGED << cmd, fds, pipe, tmp_fd, count, last_child, last_status,
                    code, state, received, childvars >>

Fork ==
    /\ pc = "fork"
    /\ proc' = [proc EXCEPT ![cur] = "forked"]
    /\ image' = [image EXCEPT ![cur] = [pipe |-> pipe, tmp_fd |-> tmp_fd]]
    /\ cfds' = [cfds EXCEPT ![cur] = fds]
    /\ last_child' = cur
    /\ count' = count + 1
    /\ pc' = "clean"
    /\ UNCHANGED << cmd, cur, fds, pipe, tmp_fd, last_status, code, state,
                    received, wstatus, faulty, unpiped >>

\* fork_error(): exec_cleanup_parent() closes the redirections but leaves
\* fd_in and fd_out set; clean_pipe() follows as after a successful fork.
ForkFails ==
    /\ pc = "fork"
    /\ Cardinality({ i \in 1 .. cur - 1 : proc[i] = "unborn" } \ unpiped)
           < MaxForkFailures
    /\ code' = EAGAIN
    /\ fds' = Close(fds, Redirs(cmd[cur]))
    /\ pc' = "clean"
    /\ faulty' = faulty \cup { cur }
    /\ UNCHANGED << cmd, cur, pipe, tmp_fd, count, last_child, last_status,
                    state, received, childvars, unpiped >>

\* Mutant: it returns as soon as dup() has failed, with all that is to be
\* closed still open.
CleanPipeGivesUp ==
    /\ pc = "clean"
    /\ LET old  == Close(fds, { tmp_fd })
           gone == Redirs(cmd[cur]) \cup { pipe.rd, pipe.wr }
       IN \/ \E fd \in Fds :
               /\ IsOpen(old, pipe.rd)
               /\ LowestFree(old, fd)
               /\ tmp_fd' = fd
               /\ fds' = Close(Bind(old, fd, old[pipe.rd]), gone)
               /\ UNCHANGED faulty
          \/ /\ ~IsOpen(old, pipe.rd) \/ NoneFree(old)
             /\ tmp_fd' = -1
             /\ fds' = old
             /\ faulty' = faulty \cup { cur }
    /\ pipe' = NoPipe
    /\ NextCommand
    /\ UNCHANGED << cmd, count, last_child, last_status, code, state,
                    received, childvars, unpiped >>

\* clean_pipe(): the old read end goes, the new one is kept as tmp_fd, the
\* command's redirections and the pipe are closed.
CleanPipe ==
    /\ pc = "clean"
    /\ LET old  == Close(fds, { tmp_fd })
           gone == Redirs(cmd[cur]) \cup { pipe.rd, pipe.wr }
       IN \/ \E fd \in Fds :
               /\ IsOpen(old, pipe.rd)
               /\ LowestFree(old, fd)
               /\ tmp_fd' = fd
               /\ fds' = Close(Bind(old, fd, old[pipe.rd]), gone)
               /\ UNCHANGED faulty
          \/ /\ ~IsOpen(old, pipe.rd) \/ NoneFree(old)
             /\ tmp_fd' = -1
             /\ fds' = Close(old, gone)
             /\ faulty' = faulty \cup { cur }
    /\ pipe' = NoPipe
    /\ NextCommand
    /\ UNCHANGED << cmd, count, last_child, last_status, code, state,
                    received, childvars, unpiped >>

-----------------------------------------------------------------------------
(* The shell: exec_pipeline_wait_and_finalize(), end of exec_pipeline().   *)

\* Mutant: the status of whichever child ended last.
WaitAnyTakesLatest ==
    /\ pc = "wait" /\ count > 0
    /\ \E i \in Cmds : /\ proc[i] = "ended"
                      /\ proc' = [proc EXCEPT ![i] = "reaped"]
                      /\ last_status' = wstatus[i]
    /\ count' = count - 1
    /\ UNCHANGED << cmd, pc, cur, fds, pipe, tmp_fd, last_child, code, state,
                    received, image, cfds, wstatus, faulty, unpiped >>

\* Mutant: the loop stops when the last child has been reaped.
WaitAnyStopsAtLast ==
    /\ pc = "wait" /\ count > 0
    /\ \E i \in Cmds :
         /\ proc[i] = "ended"
         /\ proc' = [proc EXCEPT ![i] = "reaped"]
         /\ last_status' = IF i = last_child THEN wstatus[i] ELSE last_status
         /\ count' = IF i = last_child THEN 0 ELSE count - 1
    /\ UNCHANGED << cmd, pc, cur, fds, pipe, tmp_fd, last_child, code, state,
                    received, image, cfds, wstatus, faulty, unpiped >>

\* waitpid(-1) returns any child that has ended; the status that counts is
\* that of last_child.
WaitAny ==
    /\ pc = "wait" /\ count > 0
    /\ \E i \in Cmds :
         /\ proc[i] = "ended"
         /\ proc' = [proc EXCEPT ![i] = "reaped"]
         /\ last_status' = IF i = last_child THEN wstatus[i] ELSE last_status
    /\ count' = count - 1
    /\ UNCHANGED << cmd, pc, cur, fds, pipe, tmp_fd, last_child, code, state,
                    received, image, cfds, wstatus, faulty, unpiped >>

\* What sh_abort() clears, of the flags a pipeline can have set.
AbortFlags == { "EVALUATING", "HAS_PIPE", "HAS_INPUT_REDIR",
                "HAS_OUTPUT_REDIR", "HAS_QUOTE" }

\* handle_sigint_status() aborts the command line when the last child died
\* of SIGINT; clean_sig_pipe() then closes the read end that is left.
Finalize ==
    /\ pc = "wait" /\ count = 0
    /\ code' = IF last_status = Signaled(SIGINT) THEN EXIT_SIGINT
               ELSE CodeOf(last_status)
    /\ IF last_status = Signaled(SIGINT)
       THEN /\ state' = state \ AbortFlags
            /\ received' = 0
            /\ fds' = Close(fds, { tmp_fd })
            /\ tmp_fd' = -1
       ELSE UNCHANGED << state, received, fds, tmp_fd >>
    /\ pc' = "close"
    /\ UNCHANGED << cmd, cur, pipe, count, last_child, last_status, childvars,
                    faulty, unpiped >>

\* exec_pipeline() closes the read end that is left.
CloseTmp ==
    /\ pc = "close"
    /\ fds' = Close(fds, { tmp_fd })
    /\ tmp_fd' = -1
    /\ pc' = "done"
    /\ UNCHANGED << cmd, cur, pipe, count, last_child, last_status, code,
                    state, received, childvars, faulty, unpiped >>

-----------------------------------------------------------------------------
(* The children: exec_prep(), then the program.                            *)

\* Mutant: the first child keeps its copies of the pipe.
FirstKeepsPipe(t, c, im) ==
    LET in == IF c.in # STDIN THEN Move(t, c.in, STDIN) ELSE t
    IN  IF c.out # STDOUT THEN Move(in, c.out, STDOUT)
        ELSE Dup2(in, im.pipe.wr, STDOUT)

ExecFirstPrep(t, c, im) ==
    LET in  == IF c.in # STDIN THEN Move(t, c.in, STDIN) ELSE t
        out == IF c.out # STDOUT THEN Move(in, c.out, STDOUT)
               ELSE Dup2(in, im.pipe.wr, STDOUT)
    IN  Close(out, { im.pipe.rd, im.pipe.wr })

ExecMidPrep(t, c, im) ==
    LET out == IF c.out # STDOUT THEN Move(t, c.out, STDOUT)
               ELSE Dup2(t, im.pipe.wr, STDOUT)
        in  == IF c.in # STDIN THEN Move(out, c.in, STDIN)
               ELSE Dup2(out, im.tmp_fd, STDIN)
    IN  Close(in, { im.pipe.rd, im.pipe.wr, im.tmp_fd })

\* Mutant: the last child reads from the pipe made for it, not from tmp_fd.
LastReadsOwnPipe(t, c, im) ==
    LET out == IF c.out # STDOUT THEN Move(t, c.out, STDOUT) ELSE t
        in  == IF c.in # STDIN THEN Move(out, c.in, STDIN)
               ELSE Dup2(out, im.pipe.rd, STDIN)
    IN  Close(in, { im.pipe.rd, im.pipe.wr, im.tmp_fd })

ExecLastPrep(t, c, im) ==
    LET out  == IF c.out # STDOUT THEN Move(t, c.out, STDOUT) ELSE t
        shut == Close(out, { im.pipe.rd, im.pipe.wr })
        in   == IF c.in # STDIN THEN Move(shut, c.in, STDIN)
                ELSE Dup2(shut, im.tmp_fd, STDIN)
    IN  Close(in, { im.tmp_fd })

ExecPrep(i) ==
    /\ proc[i] = "forked"
    /\ proc' = [proc EXCEPT ![i] = "running"]
    /\ cfds' = [cfds EXCEPT ![i] =
                   IF i = 1 THEN ExecFirstPrep(@, cmd[i], image[i])
                   ELSE IF i = N THEN ExecLastPrep(@, cmd[i], image[i])
                   ELSE ExecMidPrep(@, cmd[i], image[i])]
    /\ UNCHANGED << cmd, shellvars, received, image, wstatus >>

\* Some process holds a descriptor that refers to d.
Held(d) == \/ \E fd \in Fds : fds[fd] = d
           \/ \E j \in Cmds, fd \in Fds : cfds[j][fd] = d

\* A read of stdin returns no data: a file ends, a pipe without writers ends, a
\* write end cannot be read, the terminal does not end.
AtEof(i) ==
    LET d == cfds[i][STDIN]
    IN  d[1] \in { "in", "wr" } \/ (d[1] = "rd" /\ ~Held(<< "wr", d[2] >>))

\* A write to stdout fails: nobody can read the pipe.
Broken(i) ==
    LET d == cfds[i][STDOUT]
    IN  d[1] = "wr" /\ ~Held(<< "rd", d[2] >>)

MayExit(i) ==
    CASE cmd[i].prog = "filter" -> AtEof(i)
      [] cmd[i].prog = "source" -> Broken(i)
      [] OTHER                  -> TRUE

\* The set K of running children ends, each with the status st gives it.
End(K, st) ==
    /\ proc' = [i \in Cmds |-> IF i \in K THEN "ended" ELSE proc[i]]
    /\ wstatus' = [i \in Cmds |-> IF i \in K THEN st[i] ELSE wstatus[i]]
    /\ cfds' = [i \in Cmds |-> IF i \in K THEN NoFds ELSE cfds[i]]
    /\ UNCHANGED << cmd, shellvars, image >>

Exit(i) ==
    /\ proc[i] = "running"
    /\ MayExit(i)
    /\ \E s \in Outcomes(cmd[i].prog) : End({ i }, [j \in { i } |-> s])
    /\ UNCHANGED received

\* Ctrl-C at the terminal: the shell's handler records it; a child that is
\* still on its way to sig_mode_set() runs the inherited handler and goes on;
\* of the others, those die that do not catch the signal.
Interrupt ==
    /\ pc # "done"
    /\ received' = SIGINT
    /\ \E K \in SUBSET { i \in Cmds : proc[i] = "running" } :
         End(K, [i \in K |-> Signaled(SIGINT)])

-----------------------------------------------------------------------------
Shell ==
    \/ OpenPipe \/ OpenPipeFails \/ Fork \/ ForkFails \/ CleanPipe
    \/ WaitAny \/ Finalize \/ CloseTmp

Child(i) == ExecPrep(i) \/ Exit(i)

\* exec_pipeline() has returned: nothing more happens in this module.
Returned == pc = "done" /\ UNCHANGED vars

Next == Shell \/ (\E i \in Cmds : Child(i)) \/ Interrupt \/ Returned

Spec == Init /\ [][Next]_vars

\* The kernel schedules every process that can run; programs that can end do.
Fairness == WF_vars(Shell) /\ \A i \in 1 .. MaxCommands : WF_vars(i \in Cmds /\ Child(i))

FairSpec == Spec /\ Fairness

-----------------------------------------------------------------------------
(* What the code promises.                                                 *)

Pcs == { "pipe", "fork", "clean", "wait", "close", "done" }
ProcStates == { "unborn", "forked", "running", "ended", "reaped" }
Kinds == { "closed", "tty", "in", "out", "rd", "wr" }

\* Types.  A number is kept in tmp_fd and in pipe only while it is one of
\* the table's.
TypeOK ==
    /\ cmd \in CommandTables
    /\ pc \in Pcs
    /\ cur \in 1 .. N + 1
    /\ fds \in [Fds -> Kinds \X Nat]
    /\ pipe \in [rd : Fds \cup { -1 }, wr : Fds \cup { -1 }]
    /\ tmp_fd \in Fds \cup { -1 }
    /\ count \in Nat
    /\ last_child \in 0 .. N
    /\ last_status \in Statuses
    /\ code \in 0 .. 255
    /\ state \subseteq { "EVALUATING", "HAS_PIPE" }
    /\ received \in { 0, SIGINT }
    /\ proc \in [Cmds -> ProcStates]
    /\ image \in [Cmds -> [pipe : [rd : Fds \cup { -1 }, wr : Fds \cup { -1 }],
                           tmp_fd : Fds \cup { -1 }]]
    /\ cfds \in [Cmds -> [Fds -> Kinds \X Nat]]
    /\ wstatus \in [Cmds -> Statuses]
    /\ unpiped \subseteq faulty /\ faulty \subseteq Cmds

PipeEnd(d) == d[1] \in { "rd", "wr" }

\* What command i must find on its standard streams.
IdealIn(i)  == IF cmd[i].in # STDIN THEN << "in", i >>
               ELSE IF i = 1 THEN Tty ELSE << "rd", i - 1 >>
IdealOut(i) == IF cmd[i].out # STDOUT THEN << "out", i >>
               ELSE IF i = N THEN Tty ELSE << "wr", i >>

\* Of the commands to the left of i that got a pipe, j is the last.
LeftPipe(i, j) ==
    /\ j \in 1 .. i - 1 /\ j \notin unpiped
    /\ \A k \in j + 1 .. i - 1 : k \in unpiped

\* A fork to the left of i failed for a command with redirections: clean_pipe()
\* closed their numbers again, one of them perhaps the new tmp_fd.
ClosedTwice(i) ==
    \E j \in faulty \ unpiped :
        j < i /\ proc[j] = "unborn" /\ Redirs(cmd[j]) # {}

\* What command i may find on stdin if it is to read from a pipe: the output of
\* the last command that got a pipe; the terminal, if nothing was left of it;
\* an end of its own pipe only after a close of a number that was taken again.
MayRead(i, d) ==
    \/ \E j \in 1 .. i - 1 : LeftPipe(i, j) /\ d = << "rd", j >>
    \/ /\ d = Tty
       /\ \/ 1 .. i - 1 \subseteq unpiped
          \/ \E j \in faulty : LeftPipe(i, j)
          \/ ClosedTwice(i)
    \/ d \in { << "rd", i >>, << "wr", i >> } /\ ClosedTwice(i)

\* Whatever failed before it, a program starts with its own redirection or its
\* own pipe on stdout, its own redirection or what its neighbours left of a pipe
\* on stdin, and no other pipe end, so that ends of input and broken pipes are
\* seen where they should be (exec_prep(), clean_pipe()).  If nothing to its
\* left failed that is the pipe of the command before it.
ChildrenWired ==
    \A i \in Cmds :
        proc[i] = "running" =>
            /\ cfds[i][STDOUT] = IdealOut(i)
            /\ IF cmd[i].in # STDIN \/ i = 1 THEN cfds[i][STDIN] = IdealIn(i)
               ELSE MayRead(i, cfds[i][STDIN])
            /\ \A fd \in Fds : fd > STDOUT => ~PipeEnd(cfds[i][fd])

\* Whatever the order in which the children end, and even if forks failed,
\* $? is the status of the last child that was forked
\* (wait_all_and_get_last()).
StatusOfLast ==
    pc \in { "close", "done" } /\ last_child # 0
        => code = CodeOf(wstatus[last_child])

\* When exec_pipeline() returns every child it forked has been reaped: no
\* zombie is left for the waitpid() of the next command line to pick up.
AllReaped == pc = "done" => \A i \in Cmds : proc[i] \in { "unborn", "reaped" }

\* When exec_pipeline() returns the shell holds nothing but its standard
\* streams, and the redirections of commands whose pipe() failed: a fork() or
\* a dup() that fails leaves nothing open (fork_error(), clean_pipe()).
NothingLeftOpen ==
    pc = "done" =>
        Extra(fds) \subseteq UNION { Redirs(cmd[i]) : i \in unpiped }

\* The shell's own standard streams are never touched, whatever fails.
StdStreamsIntact == \A fd \in { STDIN, STDOUT, STDERR } : fds[fd] = Tty

\* What PipelineJob sees of the processes.
StageOf == [i \in Cmds |-> CASE proc[i] = "unborn" -> "unborn"
                             [] proc[i] \in { "forked", "running" } -> "live"
                             [] OTHER -> "ended"]

VerdictOf == [i \in Cmds |-> IF proc[i] \in { "ended", "reaped" }
                             THEN CodeOf(wstatus[i]) ELSE 0]

\* The detailed specification does what PipelineJob promises.
Job == INSTANCE PipelineJob WITH
    table       <- cmd,
    stage       <- StageOf,
    verdict     <- VerdictOf,
    over        <- pc \in { "close", "done" },
    StageCodes  <- [p \in Programs |-> { CodeOf(s) : s \in Outcomes(p) }],
    Interrupted <- EXIT_SIGINT,
    MaxStages   <- MaxCommands

\* Without failures, exec_pipeline() is a pipeline job: stages in order, ends
\* of input and broken pipes seen exactly when they should, the verdict of
\* the last stage, and nothing that stays stuck on a forgotten descriptor.
ImplementsJob == Job!Promise
==============================================================================
