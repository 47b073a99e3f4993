--------------------------- MODULE MCCommandTable ---------------------------
(* Instances of CommandTable for TLC.                                       *)
EXTENDS CommandTable

T(type, wp) == [type |-> type, wp |-> wp, text |-> "other"]

\* A word after a space, a word and a quoted string that are glued to what
\* precedes them, and the operators.
w == T("WORD", TRUE)
v == T("WORD", FALSE)
q == T("DQUOTE", FALSE)
b == [type |-> "WORD", wp |-> FALSE, text |-> "echo"]
p == T("PIPE", FALSE)
i == T("REDIRECT_IN", FALSE)
o == T("REDIRECT_OUT", FALSE)

\* wp of << and >> is not initialised.
A(u) == T("APPEND", u)
H(u) == T("HEREDOC", u)

\* Every line of up to four tokens that the lexer may make.
ShortLines ==
    { l \in UNION { [1 .. n -> { w, v, q, p, i, o, H(TRUE), A(FALSE) }] :
                         n \in 1 .. 4 } : Lexed(l) }

LongLines ==
    { << v >>, << v, w, p, v >>, << b, w, q, w, p, w, w >>,
      \* redirections of both sides, replaced, before and after the words
      << v, o, w, i, v, o, w >>, << i, v, w, p, w, i, w, o, w, w >>,
      << o, w >>, << v, p, w, o, w, p, w, i, w >>,
      \* an argument glued to an operator; the first word glued
      << b, w, q, p, w >>, << b, w, q, o, v >>, << v, q, w >>,
      \* two pipes in arguments, and a here-document read three times
      << b, w, q, p, w, w, q, p, w, w, H(TRUE), v >>,
      \* what the syntax check must refuse
      << p, w >>, << v, p >>, << v, o, p, w >>, << v, p, o, w >>,
      << v, T("INVALID", FALSE) >>, << T("END", TRUE) >> }
    \cup UNION {
        { << v, A(u), w, A(u), w >>, << b, w, q, A(u), v >>,
          << v, H(u), v, q, w, p, w, o, w >>,
          << v, i, w, H(u), w, p, w, H(u), w, q >>,
          << v, H(u), w, i, w >>,
          << v, H(u), w, H(u), w, H(u), w >> } : u \in BOOLEAN }
SomeLines == ShortLines \cup LongLines
=============================================================================
