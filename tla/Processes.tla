----------------------------- MODULE Processes -----------------------------
(****************************************************************************)
(* What the two executors, exec_pipeline() and exec_no_pipe(), share about  *)
(* the processes they start: how a command that is not a built-in can end,  *)
(* wait statuses, and the exit code the shell makes of a wait status.       *)
(****************************************************************************)
EXTENDS FdTable, FiniteSets

CONSTANTS
    OpenMax,        \* descriptors per process (RLIMIT_NOFILE)
    ExitCodes       \* exit codes programs may return

ASSUME ProcessesAssumption ==
    /\ OpenMax \in Nat /\ OpenMax > STDERR
    /\ ExitCodes \subseteq 0 .. 255

EAGAIN  == 11
SIGINT  == 2
SIGPIPE == 13
EXIT_SIGINT == 128 + SIGINT

Fds   == 0 .. OpenMax - 1
NoFds == [fd \in Fds |-> Closed]

(***************************************************************************)
(* What a command's process does once its streams are in place.  The names *)
(* in ExecFailure are the ways a command ends without running a program;   *)
(* "filter" is a program (or built-in) that ends only when its input is    *)
(* exhausted, "source" one that writes until a write fails, and "any" one  *)
(* that ends by itself.                                                    *)
(***************************************************************************)
ExecFailure == [dot |-> 2, directory |-> 126, empty |-> 0,
                enoent |-> 127, eacces |-> 126]

Programs == DOMAIN ExecFailure \cup { "filter", "source", "any" }

Exited(n)   == << "exited", n >>
Signaled(n) == << "signaled", n >>

Statuses == { Exited(n) : n \in 0 .. 255 } \cup { Signaled(n) : n \in 1 .. 64 }

Outcomes(prog) ==
    IF prog \in DOMAIN ExecFailure THEN { Exited(ExecFailure[prog]) }
    ELSE IF prog = "source" THEN { Signaled(SIGPIPE) }
    ELSE { Exited(n) : n \in ExitCodes }

\* Mutant: the status word is taken for the code.
RawStatus(status) == IF status[1] = "exited" THEN 256 * status[2] ELSE status[2]

\* shell_update_code_from_status()
CodeOf(status) == IF status[1] = "exited" THEN status[2] ELSE 128 + status[2]

\* dup2(fd, std); close(fd)
Move(t, fd, std) == Close(Dup2(t, fd, std), { fd })
============================================================================
