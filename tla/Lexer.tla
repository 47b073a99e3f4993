------------------------------- MODULE Lexer --------------------------------
(****************************************************************************)
(* build_token_list(): a command line is cut into tokens by a cursor that   *)
(* moves over it once.  One action is one call of get_next_token(), which   *)
(* skips the spaces before a token (trim_left()) and leaves the rest to the *)
(* handler of what it finds.                                                *)
(*                                                                          *)
(* A line is a sequence of characters; a token is its type, wp, and the     *)
(* positions it was copied from.  The arena is a subject of its own         *)
(* (Growth).                                                                *)
(****************************************************************************)
EXTENDS Tokens

CONSTANT
    Texts           \* the command lines

VARIABLES
    content,        \* l->content
    cursor,         \* the position l->cursor, counted from 1
    tokens          \* the list so far

lexvars == << content, cursor, tokens >>

Spaces        == { " ", "\n", "\t", "\r" }
OperatorChars == { "'", "\"", "|", ">", "<", ";", "\\", " ", "\n", "\t" }
NUL           == ""

\* A line ends before the first terminator.
ASSUME LexerAssumption == Texts \subseteq Seq(STRING \ { NUL })

At(i) == IF i \in DOMAIN content THEN content[i] ELSE NUL

\* The first position from i on that is in S; the terminator's if there is none.
FirstIn(i, S) ==
    CHOOSE j \in i .. Len(content) + 1 :
        /\ j <= Len(content) => content[j] \in S
        /\ \A k \in i .. j - 1 : content[k] \notin S

\* trim_left(): where the next token begins, and whether spaces precede it.
Trimmed == CHOOSE j \in cursor .. Len(content) + 1 :
              At(j) \notin Spaces /\ \A k \in cursor .. j - 1 : content[k] \in Spaces
Wp == Trimmed > cursor

\* The first token is built whatever the line is.
Scanning == tokens = << >> \/ cursor <= Len(content)

Emit(type, wp, to) ==
    /\ tokens' = Append(tokens, [type |-> type, wp |-> wp, from |-> Trimmed, to |-> to])
    /\ cursor' = to + 1
    /\ UNCHANGED content

Init ==
    /\ content \in Texts
    /\ cursor = 1
    /\ tokens = << >>

\* Spaces up to the end of the line: an empty token, which is only kept as the
\* head of the list.
HandleEnd ==
    /\ Scanning /\ Trimmed > Len(content)
    /\ \/ tokens = << >> /\ Emit("END", Wp, Len(content))
       \/ tokens # << >> /\ cursor' = Trimmed /\ UNCHANGED << content, tokens >>

\* Mutant: the cursor stops before the closing quote.
HandleQuoteOpen(q, type) ==
    LET close == FirstIn(Trimmed + 1, { q })
    IN  /\ Scanning /\ At(Trimmed) = q
        /\ \/ close <= Len(content) /\ Emit(type, Wp, close - 1)
           \/ close > Len(content) /\ Emit("INVALID", Wp, Len(content))

\* lexer_handle_squote(), lexer_handle_dquote()
HandleQuote(q, type) ==
    LET close == FirstIn(Trimmed + 1, { q })
    IN  /\ Scanning /\ At(Trimmed) = q
        /\ \/ close <= Len(content) /\ Emit(type, Wp, close)
           \/ close > Len(content) /\ Emit("INVALID", Wp, Len(content))

\* lexer_handle_append(), lexer_handle_heredoc(): wp is not assigned.
HandleDouble(c, type) ==
    /\ Scanning /\ At(Trimmed) = c /\ At(Trimmed + 1) = c
    /\ \E any \in BOOLEAN : Emit(type, any, Trimmed + 1)

\* Mutant: a word ends where trim_left() would start.
HandleWordToSpace ==
    /\ Scanning /\ At(Trimmed) \notin OperatorChars \cup { NUL }
    /\ Emit("WORD", Wp, FirstIn(Trimmed, Spaces) - 1)

HandleWord ==
    /\ Scanning /\ At(Trimmed) \notin OperatorChars \cup { NUL }
    /\ Emit("WORD", Wp, FirstIn(Trimmed, OperatorChars) - 1)

\* get_token_type()
TypeOfChar(c) == IF c = "|" THEN "PIPE" ELSE IF c = ">" THEN "REDIRECT_OUT"
                 ELSE IF c = "<" THEN "REDIRECT_IN" ELSE "INVALID"

\* Mutant: wp is set as for words.
HandleOtherWp ==
    /\ Scanning /\ At(Trimmed) \in { "|", ">", "<", ";", "\\" }
    /\ At(Trimmed) \in { ">", "<" } => At(Trimmed + 1) # At(Trimmed)
    /\ Emit(TypeOfChar(At(Trimmed)), Wp, Trimmed)

\* lexer_handle_other_token()
HandleOther ==
    /\ Scanning /\ At(Trimmed) \in { "|", ">", "<", ";", "\\" }
    /\ At(Trimmed) \in { ">", "<" } => At(Trimmed + 1) # At(Trimmed)
    /\ Emit(TypeOfChar(At(Trimmed)), FALSE, Trimmed)

GetNextToken ==
    \/ HandleEnd
    \/ HandleQuote("'", "SQUOTE") \/ HandleQuote("\"", "DQUOTE")
    \/ HandleDouble(">", "APPEND") \/ HandleDouble("<", "HEREDOC")
    \/ HandleWord
    \/ HandleOther

Over == ~Scanning /\ UNCHANGED lexvars

-----------------------------------------------------------------------------
(* What the code promises.                                                  *)

\* A list is handed over only as the parser assumes it (build_token_list();
\* the assumption of CommandTable).
HandsOver == ~Scanning => Lexed(tokens)

\* At every step the tokens are the line up to the cursor, in order, without a
\* gap or an overlap but for spaces; a word or a quoted string has wp exactly
\* when there is such a gap before it, and a word is as long as it can be
\* (get_next_token(), trim_left(), lexer_handle_word()).
EndBefore(k) == IF k = 1 THEN 0 ELSE tokens[k - 1].to

TokensTile ==
    /\ \A k \in DOMAIN tokens :
         LET t == tokens[k]
             gap == EndBefore(k) + 1 .. t.from - 1
         IN  /\ EndBefore(k) < t.from
             /\ t.type = "END" \/ t.from <= t.to
             /\ \A i \in gap : content[i] \in Spaces
             /\ t.type \in WordTypes => (t.wp <=> gap # { })
             /\ t.type = "WORD" =>
                    /\ \A i \in t.from .. t.to : content[i] \notin OperatorChars
                    /\ At(t.to + 1) \in OperatorChars \cup { NUL }
    /\ \A i \in EndBefore(Len(tokens) + 1) + 1 .. cursor - 1 : content[i] \in Spaces

Quotes == { "'", "\"" }

\* The quote that is open after position i, by a scan from the left.
Quoting[i \in 0 .. Len(content)] ==
    IF i = 0 THEN NUL
    ELSE IF Quoting[i - 1] = NUL
         THEN IF content[i] \in Quotes THEN content[i] ELSE NUL
         ELSE IF content[i] = Quoting[i - 1] THEN NUL ELSE Quoting[i - 1]

\* A character that stands between quotes never acts as a space, an operator
\* or a quote, and one that does not always does: quoted positions are those
\* of quoted tokens, and a line is bad exactly when a quote stays open or a
\* character the shell does not know stands outside (lexer_handle_squote(),
\* lexer_handle_dquote(), parser_is_syntax_correct()).
QuotedAt(i) == Quoting[i - 1] # NUL \/ Quoting[i] # NUL

QuotesProtect ==
    ~Scanning =>
        /\ \A i \in DOMAIN content :
             QuotedAt(i) <=> \E k \in DOMAIN tokens :
                                /\ i \in tokens[k].from .. tokens[k].to
                                /\ content[tokens[k].from] \in Quotes
        /\ (\E k \in DOMAIN tokens : tokens[k].type = "INVALID")
             <=> \/ Quoting[Len(content)] # NUL
                 \/ \E i \in DOMAIN content :
                        ~QuotedAt(i) /\ content[i] \in { ";", "\\" }
=============================================================================
