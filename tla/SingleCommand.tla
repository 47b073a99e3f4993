--------------------------- MODULE SingleCommand ---------------------------
(****************************************************************************)
(* Lines without a pipe, one after the other: the parser opens the line's   *)
(* redirections, exec_no_pipe() runs the command and the shell is back at   *)
(* its prompt.  A built-in runs in the shell itself, which lends it its own *)
(* stdin and stdout and takes them back (exec_builtin_with_redirs()); any   *)
(* other command runs in a child.  The descriptors live as long as the      *)
(* shell, so what one line forgets the next ones have to do without.        *)
(****************************************************************************)
EXTENDS Processes

CONSTANTS
    Lines           \* what may be typed: records [in, out, prog]

Builtins == { "builtin", "exit" }

\* The parser hands a command over without words, or with at least one.
LineType == [in : BOOLEAN, out : BOOLEAN,
             prog : Builtins \cup { "any" } \cup DOMAIN ExecFailure]

ASSUME SingleCommandAssumption == Lines \subseteq LineType

VARIABLES
    pc,         \* where the shell is
    cmd,        \* shell->cmd: [in, out, prog], in and out being descriptors
    fds,        \* the shell's descriptor table
    backup,     \* backup_in and backup_out
    child,      \* state of the child process
    cfds,       \* its descriptor table
    status,     \* its wait status
    code,       \* shell->code
    leaked      \* history: descriptors a failed dup() left behind

vars == << pc, cmd, fds, backup, child, cfds, status, code, leaked >>

NoCommand == [in |-> STDIN, out |-> STDOUT, prog |-> "empty"]
NoBackup  == [in |-> -1, out |-> -1]

\* The redirections of a command that hold a descriptor.
Redirs(c) == { c.in, c.out } \ { STDIN, STDOUT }

Init ==
    /\ pc = "prompt" /\ cmd = NoCommand
    /\ fds = [fd \in Fds |-> IF fd <= STDERR THEN Tty ELSE Closed]
    /\ backup = NoBackup
    /\ child = "none" /\ cfds = NoFds /\ status = Exited(0)
    /\ code = 0
    /\ leaked = {}

-----------------------------------------------------------------------------
(* The parser's part, which CommandTable tells in full.                     *)

\* The outcomes of opening a redirection, if there is one: the descriptor
\* the command gets and the table after.
Opens(t, wanted, std, kind) ==
    IF wanted
    THEN { << fd, Bind(t, fd, << kind, 0 >>) >> :
             fd \in { g \in Fds : LowestFree(t, g) } }
    ELSE { << std, t >> }

\* A command without words gives its redirections up again.
Accept ==
    /\ pc = "prompt"
    /\ \E line \in Lines :
       \E in \in Opens(fds, line.in, STDIN, "in") :
       \E out \in Opens(in[2], line.out, STDOUT, "out") :
         IF line.prog = "empty"
         THEN cmd' = NoCommand /\ fds' = fds /\ pc' = "fork"
         ELSE /\ cmd' = [in |-> in[1], out |-> out[1], prog |-> line.prog]
              /\ fds' = out[2]
              /\ pc' = IF line.prog \in Builtins THEN "backup" ELSE "fork"
    /\ UNCHANGED << backup, child, cfds, status, code, leaked >>

\* A file cannot be opened: the parser closes what it opened.
Reject ==
    /\ pc = "prompt"
    /\ code' = 1
    /\ UNCHANGED << pc, cmd, fds, backup, child, cfds, status, leaked >>

-----------------------------------------------------------------------------
(* A built-in: exec_builtin_with_redirs().                                  *)

Backup ==
    /\ pc = "backup"
    /\ \E in, out \in Fds :
         /\ LowestFree(fds, in)
         /\ LowestFree(Bind(fds, in, fds[STDIN]), out)
         /\ backup' = [in |-> in, out |-> out]
         /\ fds' = Bind(Bind(fds, in, fds[STDIN]), out, fds[STDOUT])
    /\ pc' = "builtin"
    /\ UNCHANGED << cmd, child, cfds, status, code, leaked >>

\* One of the two dup() fails: the function returns as it stands, the built-in
\* does not run, and neither a first backup nor the redirections are closed.
BackupFails ==
    /\ pc = "backup"
    /\ \E t \in { fds } \cup { Bind(fds, fd, fds[STDIN]) :
                                 fd \in { g \in Fds : LowestFree(fds, g) } } :
         /\ NoneFree(t)
         /\ fds' = t
         /\ leaked' = Extra(t)
    /\ pc' = "prompt"
    /\ UNCHANGED << cmd, backup, child, cfds, status, code >>

\* Mutant: the descriptor that was moved onto stdout stays open.
ApplyRedirsKeeps(t, c) ==
    LET in == IF c.in # STDIN THEN Move(t, c.in, STDIN) ELSE t
    IN  IF c.out # STDOUT THEN Dup2(in, c.out, STDOUT) ELSE in

\* exec_apply_redirs()
ApplyRedirs(t, c) ==
    LET in == IF c.in # STDIN THEN Move(t, c.in, STDIN) ELSE t
    IN  IF c.out # STDOUT THEN Move(in, c.out, STDOUT) ELSE in

\* The built-in runs with the shell's own streams redirected.
RunBuiltin ==
    /\ pc = "builtin"
    /\ fds' = ApplyRedirs(fds, cmd)
    /\ cmd' = [cmd EXCEPT !.in = STDIN, !.out = STDOUT]
    /\ code' \in ExitCodes
    /\ pc' = "restore"
    /\ UNCHANGED << backup, child, cfds, status, leaked >>

\* Mutant: stdout is restored only after its backup was closed.
RestoreLate(t, b) ==
    Dup2(Close(Dup2(t, b.in, STDIN), { b.in, b.out }), b.out, STDOUT)

\* Mutant: the backup of stdout is not closed.
RestoreForgets(t, b) ==
    Close(Dup2(Dup2(t, b.in, STDIN), b.out, STDOUT), { b.in })

RestoreStreams(t, b) ==
    Close(Dup2(Dup2(t, b.in, STDIN), b.out, STDOUT), { b.in, b.out })

\* The streams come back; "exit" makes this the last line.
Restore ==
    /\ pc = "restore"
    /\ fds' = RestoreStreams(fds, backup)
    /\ backup' = NoBackup
    /\ pc' = IF cmd.prog = "exit" THEN "left" ELSE "prompt"
    /\ UNCHANGED << cmd, child, cfds, status, code, leaked >>

-----------------------------------------------------------------------------
(* Any other command: exec_no_pipe().                                       *)

\* exec_guard() does not keep a command without words from being forked.
Fork ==
    /\ pc = "fork"
    /\ child' = "forked"
    /\ cfds' = fds
    /\ code' = IF cmd.prog = "empty" THEN 0 ELSE code
    /\ pc' = "wait"
    /\ UNCHANGED << cmd, fds, backup, status, leaked >>

\* exec_cleanup_parent()
CleanupParent == fds' = Close(fds, Redirs(cmd))

ForkFails ==
    /\ pc = "fork"
    /\ code' = EAGAIN
    /\ CleanupParent
    /\ pc' = "prompt"
    /\ UNCHANGED << cmd, backup, child, cfds, status, leaked >>

\* waitpid_retry() returns when the child has ended, whatever interrupts it.
Wait ==
    /\ pc = "wait" /\ child = "ended"
    /\ child' = "none"
    /\ code' = CodeOf(status)
    /\ CleanupParent
    /\ pc' = "prompt"
    /\ UNCHANGED << cmd, backup, cfds, status, leaked >>

\* exec_child_prep()
ExecChildPrep ==
    /\ child = "forked"
    /\ cfds' = ApplyRedirs(cfds, cmd)
    /\ child' = "running"
    /\ UNCHANGED << pc, cmd, fds, backup, status, code, leaked >>

\* The child ends by itself, or Ctrl-C ends it.
Exit ==
    /\ child = "running"
    /\ status' \in Outcomes(cmd.prog) \cup { Signaled(SIGINT) }
    /\ child' = "ended"
    /\ cfds' = NoFds
    /\ UNCHANGED << pc, cmd, fds, backup, code, leaked >>

\* After "exit" nothing more happens here.
Left == pc = "left" /\ UNCHANGED vars

Next ==
    \/ Accept \/ Reject
    \/ Backup \/ BackupFails \/ RunBuiltin \/ Restore
    \/ Fork \/ ForkFails \/ Wait \/ ExecChildPrep \/ Exit
    \/ Left

Spec == Init /\ [][Next]_vars

-----------------------------------------------------------------------------
(* What the code promises.                                                  *)

Kinds == { "closed", "tty", "in", "out" }

\* Types.
TypeOK ==
    /\ pc \in { "prompt", "backup", "builtin", "restore", "fork", "wait", "left" }
    /\ cmd \in [in : Fds, out : Fds,
                prog : Builtins \cup { "any" } \cup DOMAIN ExecFailure]
    /\ fds \in [Fds -> Kinds \X { 0 }]
    /\ backup \in [in : Fds \cup { -1 }, out : Fds \cup { -1 }]
    /\ child \in { "none", "forked", "running", "ended" }
    /\ cfds \in [Fds -> Kinds \X { 0 }]
    /\ status \in Statuses
    /\ code \in 0 .. 255
    /\ leaked \subseteq Fds

Idle == pc \in { "prompt", "left" }

\* Between two lines the shell reads from and writes to the terminal again,
\* whatever the line redirected and whatever failed while it ran
\* (exec_builtin_with_redirs(), exec_no_pipe()).
StreamsBack == Idle => \A fd \in { STDIN, STDOUT, STDERR } : fds[fd] = Tty

\* Between two lines the shell holds no descriptor but its standard streams
\* and those that a failed dup() left behind, however many lines went before.
NothingHeld == Idle => Extra(fds) = leaked

\* A child runs with its own redirections on stdin and stdout and holds no
\* other descriptor that is not a leaked one (exec_child_prep()).
ChildWired ==
    child = "running" =>
        /\ cfds[STDIN] = IF cmd.in # STDIN THEN << "in", 0 >> ELSE Tty
        /\ cfds[STDOUT] = IF cmd.out # STDOUT THEN << "out", 0 >> ELSE Tty
        /\ Extra(cfds) = leaked
============================================================================
