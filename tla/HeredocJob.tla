----------------------------- MODULE HeredocJob -----------------------------
(****************************************************************************)
(* What reading the here-documents of a command line promises, without      *)
(* processes, pipes or signals: each takes the lines up to its delimiter,   *)
(* or all there are, and the next goes on behind it; or the whole line is   *)
(* given up and none of its commands will run.                              *)
(****************************************************************************)
EXTENDS Integers, Sequences

CONSTANTS Cancelled, Failed     \* the codes of a line that is given up

VARIABLES
    delims, \* the delimiters, in the order of the line
    input,  \* the lines the user has still to type, an end of file after them
    bodies, \* the here-documents read so far
    over,   \* all are read, or the line is given up
    code    \* $?

jobvars == << delims, input, bodies, over, code >>

Init == bodies = << >> /\ over = FALSE

Delimiter == delims[Len(bodies) + 1]

Read ==
    /\ ~over /\ Len(bodies) < Len(delims)
    /\ \/ \E i \in DOMAIN input :
             /\ input[i] = Delimiter
             /\ \A j \in 1 .. i - 1 : input[j] # Delimiter
             /\ bodies' = Append(bodies, SubSeq(input, 1, i - 1))
             /\ input' = SubSeq(input, i + 1, Len(input))
       \/ /\ \A i \in DOMAIN input : input[i] # Delimiter
          /\ bodies' = Append(bodies, input)
          /\ input' = << >>
    /\ UNCHANGED << delims, over, code >>

GiveUp ==
    /\ ~over
    /\ over' = TRUE
    /\ code' \in { Cancelled, Failed }
    /\ UNCHANGED << delims, input, bodies >>

Finish ==
    /\ ~over /\ Len(bodies) = Len(delims)
    /\ over' = TRUE
    /\ UNCHANGED << delims, input, bodies, code >>

Next == Read \/ GiveUp \/ Finish

Spec == Init /\ [][Next]_jobvars
==============================================================================
