---------------------------- MODULE MCLineReader ----------------------------
(* Instances of LineReader for TLC.                                         *)
EXTENDS LineReader

CONSTANTS h, c, d, newline

Chars == { h, c, d, newline }

\* Every text of up to six characters, and scripts with a here-document: one
\* that the first read may take whole, one whose delimiter is cut short by
\* the end of the input, one with a line too long for command_line.
MCScripts == UNION { [1 .. n -> Chars] : n \in 0 .. 6 }
    \cup { << h, d, newline, d, d, newline, d, newline, c, d >>,
           << d, newline, h, d, newline, c, newline, d >>,
           << d, d, d, d, d, d, newline, h, d, d, d, newline, d, d, newline, c, newline >> }
==============================================================================
