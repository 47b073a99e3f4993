------------------------------- MODULE Tokens -------------------------------
(****************************************************************************)
(* The types of tokens, and what the parser may assume of a token list.     *)
(* Lexer guarantees it (HandsOver), CommandTable assumes it of its lines.   *)
(****************************************************************************)
EXTENDS Integers, Sequences

WordTypes  == { "WORD", "SQUOTE", "DQUOTE" }
RedirTypes == { "REDIRECT_IN", "REDIRECT_OUT", "APPEND" }
Operators  == RedirTypes \cup { "HEREDOC", "PIPE" }
TokenTypes == WordTypes \cup Operators \cup { "END", "INVALID" }

\* The operators of one character never have wp set; that of << and >> is
\* not initialised and may be anything.  A word ends at a space, a quote or an
\* operator; END is the token of a line of spaces.
Lexed(l) ==
    /\ l # << >>
    /\ \A i \in DOMAIN l :
         /\ l[i].type \in TokenTypes /\ l[i].wp \in BOOLEAN
         /\ l[i].type \in { "PIPE", "REDIRECT_IN", "REDIRECT_OUT" } => ~l[i].wp
         /\ l[i].type = "END" => Len(l) = 1
         /\ l[i].type = "WORD" /\ i < Len(l)
                => l[i + 1].wp \/ l[i + 1].type # "WORD"
=============================================================================
