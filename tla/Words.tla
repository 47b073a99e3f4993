-------------------------------- MODULE Words --------------------------------
(****************************************************************************)
(* What the tokens of a line say: rm_quote() takes their quotes off and     *)
(* replaces their variables, a here-document's lines have theirs replaced   *)
(* by a function of its own, and the first word of a command becomes the    *)
(* name of a file (get_path()).                                             *)
(****************************************************************************)
EXTENDS Lexer, SequencesExt

CONSTANTS
    Inputs,         \* pairs of a command line and an environment
    Letters,        \* ft_isalpha() and "_"
    Digits,         \* ft_isdigit()
    Code,           \* $?, as ft_itoa() writes it
    PathName,       \* "PATH"
    Files,          \* the regular files that may be executed
    NULL            \* no name of a file

VARIABLE env        \* the value of each name that is set

vars == << lexvars, env >>

ASSUME WordsAssumption ==
    /\ Texts = { input[1] : input \in Inputs }
    /\ \A input \in Inputs : \A name \in DOMAIN input[2] : input[2][name] \in Seq(STRING)
    /\ Code \in Seq(STRING) /\ NULL \notin Files
    /\ (Letters \cup Digits) \cap (OperatorChars \cup Spaces \cup { "$", "?", NUL }) = {}

CharAt(s, i) == IF i \in DOMAIN s THEN s[i] ELSE NUL

\* The number of characters from i on that are in S.
Run(s, i, S) == Cardinality({ j \in DOMAIN s : i <= j /\ \A k \in i .. j : s[k] \in S })

-----------------------------------------------------------------------------
(* Dollars.                                                                 *)

\* expand_dollar_variable(), get_env_var(): a name that is not set is empty.
ValueOf(name) ==
    IF name = << "?" >> THEN Code
    ELSE IF name \in DOMAIN env THEN env[name] ELSE << >>

\* Mutant: a name may begin with a digit.
VarNameLenAny(s, i) ==
    IF CharAt(s, i) = "?" THEN 1 ELSE Run(s, i, Letters \cup Digits)

\* var_name_len()
VarNameLen(s, i) ==
    IF CharAt(s, i) = "?" THEN 1
    ELSE IF CharAt(s, i) \in Letters THEN Run(s, i, Letters \cup Digits) ELSE 0

\* parse_var_end(): a name may begin with a digit here.
HeredocNameLen(s, i) ==
    IF CharAt(s, i) = "?" THEN 1 ELSE Run(s, i, Letters \cup Digits)

\* The loop that both expansions are, over the characters from the first on,
\* with the length of the name behind each position.
Expand(s, nameLen) ==
    LET From[i \in 1 .. Len(s) + 1] ==
          IF i > Len(s) THEN << >>
          ELSE IF s[i] # "$" THEN << s[i] >> \o From[i + 1]
          ELSE LET n == nameLen[i]
               IN  (IF n = 0 THEN << "$" >> ELSE ValueOf(SubSeq(s, i + 1, i + n)))
                       \o From[i + 1 + n]
    IN  From[1]

\* parser_expand_dollar(), expand_heredoc_line()
ExpandWord(s) == Expand(s, [i \in DOMAIN s |-> VarNameLen(s, i + 1)])
ExpandLine(s) == Expand(s, [i \in DOMAIN s |-> HeredocNameLen(s, i + 1)])

-----------------------------------------------------------------------------
(* Quotes.                                                                  *)

\* unquoate_token()
Unquoted(s) == SubSeq(s, 2, Len(s) - 1)

\* rm_quote()
TextOf(t) ==
    LET s == SubSeq(content, t.from, t.to)
    IN  IF t.type = "SQUOTE" THEN Unquoted(s)
        ELSE IF t.type = "DQUOTE" THEN ExpandWord(Unquoted(s)) ELSE ExpandWord(s)

-----------------------------------------------------------------------------
(* The name of a command.                                                   *)

\* ft_split(path, ':'): from position i on, what stands between colons, empty
\* pieces left out.
Split(path) ==
    LET From[i \in 1 .. Len(path) + 1] ==
          LET first == i + Run(path, i, { ":" })
              n     == Run(path, first, { path[j] : j \in DOMAIN path } \ { ":" })
          IN  IF n = 0 THEN << >>
              ELSE << SubSeq(path, first, first + n - 1) >> \o From[first + n]
    IN  From[1]

\* Mutant: the last directory that has the file is taken.
FullCmdLast(dirs, name) ==
    LET found == { i \in DOMAIN dirs : dirs[i] \o << "/" >> \o name \in Files }
    IN  IF found = {} THEN NULL
        ELSE dirs[CHOOSE i \in found : \A j \in found : j <= i] \o << "/" >> \o name

\* get_full_cmd()
FullCmd(dirs, name) ==
    LET found == { i \in DOMAIN dirs : dirs[i] \o << "/" >> \o name \in Files }
    IN  IF found = {} THEN NULL
        ELSE dirs[CHOOSE i \in found : \A j \in found : i <= j] \o << "/" >> \o name

\* get_path(), exec_get_binary_path(): a name that is not found stays as it is.
GetPath(name) ==
    LET full == IF PathName \in DOMAIN env THEN FullCmd(Split(env[PathName]), name)
                ELSE NULL
    IN  IF name = << >> THEN NULL
        ELSE IF name = << "." >> \/ "/" \in ToSet(name) \/ full = NULL THEN name
        ELSE full

-----------------------------------------------------------------------------
InitWords ==
    \E input \in Inputs :
        /\ content = input[1] /\ env = input[2]
        /\ cursor = 1 /\ tokens = << >>

Next == (GetNextToken \/ Over) /\ UNCHANGED env

Spec == InitWords /\ [][Next]_vars

-----------------------------------------------------------------------------
(* What the code promises.                                                  *)

(***************************************************************************)
(* What each character of a line becomes, by position and without a cursor:*)
(* nothing if it is a quote that counts or belongs to the name after a     *)
(* dollar, the value if it is a dollar with a name, else itself.  first is *)
(* the set of the characters that a name may begin with.                   *)
(***************************************************************************)
NameChars == Letters \cup Digits

InName(s, i, j, first) ==
    \/ j = i + 1 /\ s[j] = "?"
    \/ s[i + 1] \in first /\ \A k \in i + 1 .. j : s[k] \in NameChars

Becomes(s, j, live(_), first) ==
    LET name == { k \in j + 1 .. Len(s) : InName(s, j, k, first) }
    IN  IF s[j] = "$" /\ live(j) /\ name # {}
        THEN ValueOf(SubSeq(s, j + 1, j + Cardinality(name)))
        ELSE IF \E i \in 1 .. j - 1 : s[i] = "$" /\ live(i) /\ InName(s, i, j, first)
             THEN << >> ELSE << s[j] >>

\* A dollar counts outside of single quotes; a quote counts where it opens or
\* closes.
LiveDollar(j) == Quoting[j] # "'"
LiveQuote(j)  == Quoting[j - 1] # Quoting[j]

Meant(t) == FlattenSeq(
    [k \in 1 .. t.to - t.from + 1 |->
        LET j == t.from + k - 1
        IN  IF LiveQuote(j) THEN << >> ELSE Becomes(content, j, LiveDollar, Letters)])

MeantLine == FlattenSeq(
    [j \in DOMAIN content |-> Becomes(content, j, LAMBDA i : TRUE, NameChars)])

\* The text of every word of an accepted line is what its characters mean one
\* by one.  A here-document reads the same line with every dollar live and no
\* quote, and a digit may begin a name there and nowhere else: "$1x" is empty in
\* a document and stays as it is in a word (rm_quote(), parser_expand_dollar(),
\* expand_heredoc_line()).
ExpandedAsMeant ==
    ~Scanning /\ (\A k \in DOMAIN tokens : tokens[k].type # "INVALID") =>
        /\ \A k \in DOMAIN tokens :
             tokens[k].type \in WordTypes => TextOf(tokens[k]) = Meant(tokens[k])
        /\ ExpandLine(content) = MeantLine

\* A command is run from the first directory of PATH that has it, a directory
\* that is not named never counts, and a name that says where the file is, or
\* that no directory has, is left alone (get_path(), ft_split()).
DirAt(path, i, j) ==
    /\ i = 1 \/ path[i - 1] = ":"
    /\ j = Len(path) \/ path[j + 1] = ":"
    /\ \A k \in i .. j : path[k] # ":"

Candidates(path, name) ==
    { d \in (DOMAIN path) \X (DOMAIN path) :
        /\ d[1] <= d[2] /\ DirAt(path, d[1], d[2])
        /\ SubSeq(path, d[1], d[2]) \o << "/" >> \o name \in Files }

FoundAsMeant ==
    ~Scanning /\ tokens[1].type \in WordTypes =>
        LET name == TextOf(tokens[1])
            path == IF PathName \in DOMAIN env THEN env[PathName] ELSE << >>
            found == Candidates(path, name)
        IN  GetPath(name) =
              IF name = << >> THEN NULL
              ELSE IF "/" \in ToSet(name) \/ name = << "." >> \/ found = {} THEN name
              ELSE LET d == CHOOSE d \in found : \A e \in found : d[1] <= e[1]
                   IN  SubSeq(path, d[1], d[2]) \o << "/" >> \o name
=============================================================================
