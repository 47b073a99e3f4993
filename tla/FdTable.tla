------------------------------- MODULE FdTable -------------------------------
(****************************************************************************)
(* File-descriptor tables, as POSIX defines the calls the shell makes on    *)
(* them: open, pipe and dup return the lowest free number, dup2 replaces    *)
(* its target, close frees a number and fails harmlessly on one that is not *)
(* open.  A table maps the numbers 0 .. OpenMax - 1 to what they refer to,  *)
(* a pair << kind, index >>.  The kernel is outside the repository: these   *)
(* definitions state what the code relies on.                               *)
(****************************************************************************)
EXTENDS Integers

STDIN  == 0
STDOUT == 1
STDERR == 2

Closed == << "closed", 0 >>
Tty    == << "tty", 0 >>

IsOpen(t, fd) == fd \in DOMAIN t /\ t[fd] # Closed

\* The number the next successful open, pipe or dup returns, if there is one.
LowestFree(t, fd) ==
    /\ fd \in DOMAIN t
    /\ t[fd] = Closed
    /\ \A g \in DOMAIN t : t[g] = Closed => fd <= g

\* No number is left: the call fails with EMFILE.
NoneFree(t) == \A fd \in DOMAIN t : t[fd] # Closed

Bind(t, fd, d) == [t EXCEPT ![fd] = d]

\* close() of every number in S; numbers that are not open are ignored.
Close(t, S) == [fd \in DOMAIN t |-> IF fd \in S THEN Closed ELSE t[fd]]

\* dup2(); a source that is not open leaves the table as it is.
Dup2(t, old, new) == IF IsOpen(t, old) THEN Bind(t, new, t[old]) ELSE t

\* The numbers in use beyond the three standard streams.
Extra(t) == { fd \in DOMAIN t : fd > STDERR /\ t[fd] # Closed }

\* In a sequence of commands, records with fields in and out, a redirection
\* is a descriptor past the standard streams that nothing else holds; the
\* others are the standard stream.
Owned(table, max) ==
    /\ \A i \in DOMAIN table :
         /\ table[i].in = STDIN \/ table[i].in \in STDERR + 1 .. max - 1
         /\ table[i].out = STDOUT \/ table[i].out \in STDERR + 1 .. max - 1
         /\ table[i].in # table[i].out
    /\ \A i, j \in DOMAIN table :
         i # j =>
           /\ table[i].in = table[j].in => table[i].in = STDIN
           /\ table[i].out = table[j].out => table[i].out = STDOUT
           /\ table[i].in # table[j].out
==============================================================================
