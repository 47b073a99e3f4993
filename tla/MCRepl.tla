------------------------------- MODULE MCRepl -------------------------------
(* Instances of Repl for TLC.                                               *)
EXTENDS Repl

L(kind) == Line(kind, << >>)
Arg(sign, digits) == [sign |-> sign, digits |-> digits, rest |-> ""]
NoNumber == [sign |-> "", digits |-> << 1 >>, rest |-> "x"]

\* Numbers below and above a byte, LLONG_MAX (511), ULLONG_MAX (1023) and
\* what wraps around to something small and to something negative.
Digits == { << >>, << 7 >>, << 2, 5, 5 >>, << 3, 0, 0 >>, << 5, 1, 1 >>, << 5, 1, 2 >>,
            << 1, 0, 2, 3 >>, << 1, 0, 2, 4 >>, << 1, 1, 0, 3 >>, << 1, 7, 0, 0 >>,
            << 1, 0, 2, 4, 0, 9 >> }

Exits == { << Arg(sign, d) >> : sign \in { "", "-", "+" }, d \in Digits }
         \cup { << NoNumber >>, << NoNumber, NoNumber >>, << Arg("", << 7 >>), NoNumber >>,
                << Arg("-", << 5, 1, 2 >>), Arg("", << >>) >> }

\* Three lines of every kind but the last, which shows what they left; every
\* argument of exit.
MCScripts ==
    { << L(a), L(b), L("run") >> : a \in Kinds, b \in Kinds }
    \cup { << L("run"), L("run"), L("run"), L("builtin") >> }
    \cup { << Line("exit", e), L("builtin") >> : e \in Exits }
==============================================================================
