------------------------------- MODULE Script -------------------------------
(****************************************************************************)
(* What the shell makes of a script on its standard input: it takes it line *)
(* by line, each character once and in order, whatever pieces read() hands  *)
(* out. A command that reads the standard input takes characters away, but  *)
(* not the first that come after its line: the shell may have up to one     *)
(* buffer less one character of the script with it. Such characters are     *)
(* lines of the script even if they were meant for the command. The script  *)
(* is taken to its end.                                                     *)
(****************************************************************************)
EXTENDS Integers, SequencesExt

CONSTANTS NL, BUFFER_SIZE,
          Readers       \* the first characters of lines that read the input

VARIABLES rest,         \* the script behind the lines taken and characters lent
          line,         \* the line last taken, with its newline if it has one
          state         \* "running", "ended" at the end, or "failed"

scriptvars == << rest, line, state >>

\* The length of the first line of a text, its newline included.
LineLen(text) ==
    IF NL \in ToSet(text)
    THEN CHOOSE n \in DOMAIN text : text[n] = NL /\ NL \notin ToSet(SubSeq(text, 1, n - 1))
    ELSE Len(text)

Drop(text, n) == SubSeq(text, n + 1, Len(text))

Take ==
    /\ rest # << >>
    /\ line' = SubSeq(rest, 1, LineLen(rest))
    /\ rest' = Drop(rest, LineLen(rest))
    /\ UNCHANGED state

Lend ==
    /\ line # << >> /\ line[1] \in Readers
    /\ \E n \in DOMAIN rest : n <= BUFFER_SIZE /\ rest' = RemoveAt(rest, n)
    /\ UNCHANGED << line, state >>

End ==
    /\ rest = << >>
    /\ state' = "ended"
    /\ UNCHANGED << rest, line >>

\* The input could not be read, or memory ran out: the rest is not executed.
GiveUp ==
    /\ state' = "failed"
    /\ \E n \in 0 .. Len(rest) : rest' = Drop(rest, n)
    /\ UNCHANGED line

Next == state = "running" /\ (Take \/ Lend \/ End \/ GiveUp)

Safety == [][Next]_scriptvars

Spec == Safety /\ WF_scriptvars(Next)
==============================================================================
