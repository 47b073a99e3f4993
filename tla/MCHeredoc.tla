------------------------------ MODULE MCHeredoc ------------------------------
(* Instances of Heredoc for TLC.                                            *)
EXTENDS Heredoc

L(d, i) == [delims |-> d, input |-> i]

\* Bodies that fit the pipe and bodies that do not, two documents one after
\* the other, the same delimiter twice, an end of file before the delimiter,
\* and a line with too many documents. MAX_HEREDOCS is three.
MCLines ==
    { L(<< "D" >>, << "x", "D" >>),
      L(<< "D" >>, << "x", "x", "x", "D" >>),
      L(<< "D" >>, << "x" >>),
      L(<< "D", "E" >>, << "x", "D", "D", "x", "E", "y" >>),
      L(<< "D", "D" >>, << "D", "E", "D" >>),
      L(<< "D", "E" >>, << "D", "x", "x", "x" >>),
      L(<< "D", "E", "D", "E" >>, << "D", "E", "D", "E" >>) }

\* Exactly as many documents as there may be.
MaxLines == { L(<< "D", "E", "D" >>, << "D", "E", "D" >>) }
==============================================================================
