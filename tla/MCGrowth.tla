------------------------------ MODULE MCGrowth ------------------------------
(* Instances of Growth for TLC.                                             *)
EXTENDS Growth, SequencesExt

\* Without room left for a sum: every size a request may have.
SomeSizes == 1 .. 64

Token1(copied, p) == [copied |-> copied, parts |-> p,
                      raw |-> FoldSeq(LAMBDA x, n : n + IF IsValue(x) THEN 2 ELSE 1, 0, p)]
Chars1(n) == [i \in 1 .. n |-> Char]

plain(n) == Token1(FALSE, Chars1(n))

\* An empty string, short and long ones, quoted or not; a lone dollar; values
\* that are empty, that fit the buffer, that make it grow, and that no block
\* can hold.
Tokens == { Token1(TRUE, << >>), plain(1), plain(3), Token1(TRUE, Chars1(7)),
            plain(12), Token1(TRUE, Chars1(16)), Token1(FALSE, << Value(0) >>), Token1(FALSE, << Dollar >>),
            Token1(TRUE, << Value(1), Char >>),
            Token1(FALSE, << Char, Value(3), Char, Value(2) >>),
            Token1(TRUE, << Value(9), Char, Value(9), Value(1) >>),
            Token1(FALSE, << Value(6), Value(6), Value(6), Char >>) }

Words1 == { << t >> : t \in Tokens } \cup { << t, u >> : t, u \in Tokens }

Short == << plain(1) >>

\* The word at hand comes first, second, or where the array grows.
MCCommands == { << << t >> >> : t \in Tokens } \cup { << Short, w >> : w \in Words1 }
              \cup { << << t >>, << u >> >> : t, u \in Tokens }
              \cup { [i \in 1 .. n |-> IF i = 2 THEN w ELSE Short] :
                        n \in { 3, 4, 7, 8 }, w \in { << t >> : t \in Tokens } }

\* A built-in, a name that is no program's, one found in a directory.
MCLookups == { [external |-> FALSE, prefix |-> 0], [external |-> TRUE, prefix |-> 0],
               [external |-> TRUE, prefix |-> 5] }
=============================================================================
