------------------------------- MODULE Growth -------------------------------
(****************************************************************************)
(* The words of one command on their way into its argument array, byte by   *)
(* byte as far as room goes: the three structures that grow (t_buf, t_str,  *)
(* t_da) with their lengths, capacities and the places they have in the     *)
(* frame arena.  One action is one arena_alloc(), an action of Arena, with  *)
(* the stores up to the next.  Contents are left out: a string is its       *)
(* length.                                                                  *)
(*                                                                          *)
(* No caller of the growing functions learns that the arena had no room.    *)
(* What happens then is in the model: a store through NULL or past the end  *)
(* of a place, after which nothing is known, or an argument that is lost.   *)
(****************************************************************************)
EXTENDS Arena

CONSTANTS
    Commands,       \* the commands: sequences of words
    Lookups,        \* what get_path() may make of a command's name
    StructSize,     \* of t_cmd_table, t_da, t_str
    PointerSize,    \* of an argument
    DaCap, StrCap, BufCap   \* DA_CAP, STR_CAP, 128

VARIABLES
    pc,             \* what comes next, or how it ended
    command,        \* the words of the command
    lookup,         \* whether its name is looked up, and what is put before it
    todo,           \* those still to do, the first with its tokens still to do
    parts,          \* the parts of the token parser_expand_dollar() is at
    item,           \* the string to be appended to str: its length, none for NULL
    buf, str,       \* t_buf and t_str; buf.text is strlen(buf.data)
    da,             \* t_da; done of its items have been copied by ft_realloc()
    refused,        \* history: an arena_alloc() returned NULL
    starved         \* history: the structures whose own last request did

growvars == << vars, pc, command, lookup, todo, parts, item, buf, str, da,
               refused, starved >>

(***************************************************************************)
(* A word is the tokens it is glued from. A token is the length of its     *)
(* text, whether quotes are taken off it, which makes a copy, and its      *)
(* parts: characters, a dollar that begins no name, and values of          *)
(* variables of some length.                                               *)
(***************************************************************************)
Char     == [kind |-> "char", n |-> 1]
Dollar   == [kind |-> "dollar", n |-> 1]
Value(n) == [kind |-> "value", n |-> n]

PartRecords == [kind : { "char", "dollar", "value" }, n : Nat]

IsValue(part) == part.kind = "value"
HasDollar(p)  == \E i \in DOMAIN p : p[i].kind # "char"

\* The sum of the first k numbers, for each k.
Sums(s) == LET Sum[k \in 0 .. Len(s)] == IF k = 0 THEN 0 ELSE Sum[k - 1] + s[k]
           IN  Sum

TextSums(t)   == Sums([i \in DOMAIN t.parts |-> t.parts[i].n])
TextLength(t) == TextSums(t)[Len(t.parts)]
WordSums(w)   == Sums([i \in DOMAIN w |-> TextLength(w[i])])
WordLength(w) == WordSums(w)[Len(w)]

\* A text without a dollar is as long as it was written.
Texts == { t \in [copied : BOOLEAN, raw : Nat, parts : Seq(PartRecords)] :
             ~HasDollar(t.parts) => t.raw = TextLength(t) }

ASSUME GrowthAssumption ==
    /\ { DaCap, StrCap, BufCap, StructSize, PointerSize } \subseteq Nat \ { 0 }
    /\ Commands \subseteq Seq(Seq(Texts) \ { << >> })
    \* handle_word() glues no token to the first.
    /\ \A c \in Commands : c # << >> => Len(c[1]) = 1
    \* Built-ins are not looked up.
    /\ Lookups \subseteq [external : BOOLEAN, prefix : Nat]
    /\ \A l \in Lookups : ~l.external => l.prefix = 0

\* A structure that grows: its place in the arena, none for NULL.
NoPlace == {}
Holds(place, i) == \E p \in place : i < p.size

\* The capacity after the loops that double it until it is past need.
Doubled(cap, need) ==
    LET Rounds[k \in 0 .. need] == IF k = 0 THEN cap ELSE 2 * Rounds[k - 1]
    IN  Rounds[CHOOSE k \in 0 .. need :
                  Rounds[k] > need /\ \A j \in 0 .. k - 1 : Rounds[j] <= need]

\* Every size a request may have is in Sizes, as Arena has it: a run would stop
\* at a request that is not.
Alloc(size) ==
    /\ size \in Sizes
    /\ AllocInBlock(size) \/ AllocInNewBlock(size) \/ AllocFails(size)
    /\ refused' = (refused \/ answer' = {})

NoAlloc == UNCHANGED << vars, refused >>

\* The request was for structure s.
For(s) == starved' = IF answer' = {} THEN starved \cup { s } ELSE starved \ { s }

GrowthInit ==
    /\ Init
    /\ pc = "frame"
    /\ command = << >> /\ todo = << >> /\ parts = << >>
    /\ lookup = [external |-> FALSE, prefix |-> 0]
    /\ item = {}
    /\ buf = [place |-> NoPlace, cap |-> 0, len |-> 0, text |-> 0]
    /\ str = [place |-> NoPlace, cap |-> 0, len |-> 0]
    /\ da  = [place |-> NoPlace, cap |-> 0, items |-> << >>, done |-> 0]
    /\ refused = FALSE /\ starved = {}

\* shell_begin_frame(), and the first command of its line.
Frame ==
    /\ pc = "frame" /\ BeginFrame /\ pc' = "command"
    /\ command' \in Commands /\ todo' = command' /\ lookup' \in Lookups
    /\ UNCHANGED << parts, item, buf, str, da, refused, starved >>

Then == [command |-> "array", array |-> "items", word |-> "chars"]

\* parser_cmd_build_one(), da_cmd_init(), str_init(): the structures.
Struct ==
    /\ pc \in DOMAIN Then
    /\ pc = "word" => todo # << >>
    /\ Alloc(StructSize)
    /\ pc' = IF answer' = {} THEN "given up" ELSE Then[pc]
    /\ UNCHANGED << command, lookup, todo, parts, item, buf, str, da, starved >>

Items ==
    /\ pc = "items"
    /\ Alloc(PointerSize * (DaCap + 1))
    /\ da' = [place |-> answer', cap |-> DaCap, items |-> << >>, done |-> 0]
    /\ pc' = IF answer' = {} THEN "given up" ELSE "word"
    /\ UNCHANGED << command, lookup, todo, parts, item, buf, str, starved >>

Chars ==
    /\ pc = "chars"
    /\ Alloc(StrCap) /\ For("str")
    /\ str' = [place |-> answer', cap |-> StrCap, len |-> 0]
    /\ pc' = IF answer' = {} THEN "given up" ELSE "token"
    /\ UNCHANGED << command, lookup, todo, parts, item, buf, da >>

-----------------------------------------------------------------------------
(* rm_quote(): the text of a token; get_path(): the name of a command.      *)

Token == Head(Head(todo))

AtFirst == Len(todo) = Len(command)

\* The text of the token is there: the name of a command is looked up first.
TextDone(text) ==
    /\ item' = text
    /\ pc' = IF AtFirst /\ lookup.external THEN "path" ELSE "append"

\* unquoate_token(); or no quotes to take off.
Unquote ==
    /\ pc = "token"
    /\ \/ /\ Token.copied
          /\ Alloc(Token.raw + 1) /\ For("text")
          /\ IF answer' = {} THEN TextDone({}) ELSE pc' = "expand" /\ item' = {}
       \/ /\ ~Token.copied
          /\ NoAlloc /\ starved' = starved \ { "text" }
          /\ pc' = "expand" /\ item' = {}
    /\ UNCHANGED << command, lookup, todo, parts, buf, str, da >>

\* parser_expand_dollar(): a text without a dollar stays where it is.
Expand ==
    /\ pc = "expand"
    /\ \/ /\ ~HasDollar(Token.parts)
          /\ NoAlloc
          /\ TextDone({ Token.raw })
          /\ UNCHANGED << parts, buf, starved >>
       \/ /\ HasDollar(Token.parts)
          /\ Alloc(BufCap) /\ For("buf")
          /\ buf' = [place |-> answer', cap |-> BufCap, len |-> 0, text |-> 0]
          /\ parts' = Token.parts /\ pc' = "parts"
          /\ UNCHANGED item
    /\ UNCHANGED << command, lookup, todo, str, da >>

\* The loop over the text: a variable is copied first (expand_dollar_variable()).
Part ==
    /\ pc = "parts"
    /\ \/ /\ parts = << >>
          /\ NoAlloc
          /\ TextDone(IF buf.place = NoPlace THEN {} ELSE { buf.text })
          /\ parts' = parts
       \/ /\ parts # << >> /\ ~IsValue(Head(parts))
          /\ NoAlloc
          /\ pc' = "grow" /\ UNCHANGED << item, parts >>
       \/ /\ parts # << >> /\ IsValue(Head(parts))
          /\ Alloc(Head(parts).n + 1)
          /\ IF answer' = {} \/ Head(parts).n = 0
             THEN pc' = pc /\ parts' = Tail(parts)
             ELSE pc' = "grow" /\ parts' = parts
          /\ UNCHANGED item
    /\ UNCHANGED << command, lookup, todo, buf, str, da, starved >>

\* Mutant: no room is asked for the terminator.
RoomyTight(need) == buf.len + need <= buf.cap

Roomy(need) == buf.len + need + 1 <= buf.cap

\* buf_grow(): no sign when there is no room; what is there is copied.
Grow ==
    LET need == Head(parts).n
        cap  == Doubled(buf.cap, buf.len + need)
    IN  /\ pc = "grow"
        /\ IF Roomy(need) THEN NoAlloc /\ buf' = buf /\ starved' = starved
           ELSE /\ Alloc(cap) /\ For("buf")
                /\ buf' = IF answer' = {} THEN buf
                          ELSE [buf EXCEPT !.place = answer', !.cap = cap]
        /\ pc' = IF buf.place = NoPlace /\ buf'.place # NoPlace THEN "null"
                 ELSE "store"
        /\ UNCHANGED << command, lookup, todo, parts, item, str, da >>

\* Where a store up to position j of a place leads.
After(place, j, next) ==
    IF place = NoPlace THEN "null" ELSE IF Holds(place, j) THEN next ELSE "beyond"

\* buf_putc(), and buf_puts(): ft_strlcpy() cuts the value to the room that is
\* left, len moves by the whole of it. Once len is past cap that room is a
\* difference below zero, which is a very large one.
Store ==
    LET n   == Head(parts).n
        cut == buf.cap - buf.len
        end == IF IsValue(Head(parts)) /\ n >= cut /\ cut >= 0 THEN buf.cap - 1
               ELSE buf.len + n
    IN  /\ pc = "store"
        /\ NoAlloc
        /\ pc' = After(buf.place, end, "parts")
        /\ buf' = [buf EXCEPT !.len = @ + n, !.text = IF @ = buf.len THEN end ELSE @]
        /\ parts' = Tail(parts)
        /\ UNCHANGED << command, lookup, todo, item, str, da, starved >>

\* get_path(), which takes the length of its argument first: the name of a
\* program that a directory of PATH holds is copied, with the directory.
GetPath ==
    /\ pc = "path"
    /\ \/ item = {} /\ NoAlloc /\ pc' = "null" /\ item' = item
       \/ \E n \in item :
            /\ IF n = 0 \/ lookup.prefix = 0 THEN NoAlloc /\ item' = item \ { 0 }
               ELSE /\ Alloc(n + lookup.prefix + 1)
                    /\ item' = IF answer' = {} THEN {} ELSE { n + lookup.prefix }
            /\ pc' = "append"
    /\ UNCHANGED << command, lookup, todo, parts, buf, str, da, starved >>

-----------------------------------------------------------------------------
(* str_append(), da_append()                                                *)

\* The piece is done: the next one of the word, or the array.
PieceDone ==
    /\ todo' = << Tail(Head(todo)) >> \o Tail(todo)
    /\ pc' = IF Len(Head(todo)) > 1 THEN "token" ELSE "full"

\* Mutant: the string grows only when the characters themselves do not fit.
StrGrowsLate(n) == str.len + n > str.cap

StrGrows(n) == str.len + n >= str.cap

\* str_realloc() copies; its caller has doubled cap whatever comes of it.
Append1(n) ==
    LET cap == IF StrGrows(n) THEN Doubled(str.cap, str.len + n) ELSE str.cap
    IN  IF StrGrows(n)
        THEN /\ Alloc(cap) /\ For("str")
             /\ str' = [place |-> answer', cap |-> cap,
                        len |-> IF answer' = {} THEN str.len ELSE str.len + n]
             /\ IF answer' # {} /\ str.place = NoPlace /\ str.len > 0
                THEN pc' = "null" /\ todo' = todo
                ELSE PieceDone
        ELSE /\ NoAlloc /\ starved' = starved
             /\ str' = [str EXCEPT !.len = @ + n]
             /\ IF After(str.place, str.len + n, "fine") = "fine" THEN PieceDone
                ELSE pc' = After(str.place, str.len + n, "fine") /\ todo' = todo

StrAppend ==
    /\ pc = "append"
    /\ \/ item = {} /\ NoAlloc /\ PieceDone /\ UNCHANGED << str, starved >>
       \/ \E n \in item : Append1(n)
    /\ UNCHANGED << command, lookup, parts, item, buf, da >>

Count == Len(da.items)

\* da_append(): the array is one pointer longer than its capacity.
DaGrows == Count + 1 >= da.cap

\* ft_realloc(): the array first. Its result is not tested.
Array ==
    /\ pc = "full"
    /\ IF ~DaGrows THEN NoAlloc /\ pc' = "last" /\ UNCHANGED << da, starved >>
       ELSE LET cap == Doubled(da.cap, Count + 1)
            IN  /\ Alloc(PointerSize * (cap + 1)) /\ For("da")
                /\ da' = [da EXCEPT !.place = answer', !.cap = cap, !.done = 0]
                /\ pc' = IF answer' = {} THEN "null" ELSE "copy"
    /\ UNCHANGED << command, lookup, todo, parts, item, buf, str >>

\* Then the strings, each of which may become NULL.
CopyItem ==
    /\ pc = "copy" /\ da.done < Count
    /\ LET old == da.items[da.done + 1]
       IN  \/ old = {} /\ NoAlloc /\ da' = [da EXCEPT !.done = @ + 1]
           \/ \E n \in old :
                /\ Alloc(n + 1)
                /\ da' = [da EXCEPT !.done = @ + 1,
                             !.items[da.done + 1] = IF answer' = {} THEN {} ELSE old]
    /\ UNCHANGED << pc, command, lookup, todo, parts, item, buf, str, starved >>

Copied ==
    /\ pc = "copy" /\ da.done = Count
    /\ NoAlloc
    /\ pc' = "last"
    /\ UNCHANGED << command, lookup, todo, parts, item, buf, str, da, starved >>

\* The word's string, and NULL behind it.
LastItem ==
    /\ pc = "last"
    /\ \/ /\ str.place = NoPlace /\ NoAlloc
          /\ da' = [da EXCEPT !.items = Append(@, {})]
       \/ /\ str.place # NoPlace
          /\ Alloc(str.len + 1)
          /\ da' = [da EXCEPT !.items =
                       Append(@, IF answer' = {} THEN {} ELSE { str.len })]
    /\ pc' = After(da.place, PointerSize * (Count + 2) - 1, "word")
    /\ todo' = Tail(todo)
    /\ UNCHANGED << command, lookup, parts, item, buf, str, starved >>

\* The command is run or given up, and shell_end_frame() gives all of it back.
LineEnds ==
    /\ pc = "given up" \/ (pc = "word" /\ todo = << >>)
    /\ EndFrame
    /\ pc' = "frame"
    /\ refused' = FALSE /\ starved' = {}
    /\ lookup' = [external |-> FALSE, prefix |-> 0]
    /\ command' = << >> /\ todo' = << >> /\ parts' = << >> /\ item' = {}
    /\ buf' = [buf EXCEPT !.place = NoPlace]
    /\ str' = [str EXCEPT !.place = NoPlace]
    /\ da'  = [da EXCEPT !.place = NoPlace]

\* What happens after a stray store is anybody's guess.
Lost == pc \in { "null", "beyond" } /\ UNCHANGED growvars

GrowthNext ==
    \/ Frame \/ Struct \/ Items \/ Chars \/ Unquote \/ Expand \/ Part \/ Grow
    \/ Store \/ GetPath \/ StrAppend \/ Array \/ CopyItem \/ Copied \/ LastItem \/ LineEnds
    \/ Lost

GrowthSpec == GrowthInit /\ [][GrowthNext]_growvars

-----------------------------------------------------------------------------
(* What the code promises.                                                  *)

\* The structures a step that goes astray may blame: the one it stores into,
\* or, for get_path(), the text it is given.
Blamed == [grow |-> { "buf" }, store |-> { "buf" }, path |-> { "text", "buf" },
           append |-> { "str" }, full |-> { "da" }]

BlamesItsOwn ==
    pc' \in { "null", "beyond" } =>
        /\ pc \in DOMAIN Blamed
        /\ Blamed[pc] \cap (starved \cup starved') # {}

\* No store of the growing functions goes through NULL or past the place it is
\* meant for, whatever the lengths, unless the arena refused that very buffer,
\* string or array its last place: a refusal of anything else, a copy of a
\* value, of a word or of another structure, leads no store astray
\* (buf_grow(), str_append(), da_append(), get_path()).
StoresInside == [][BlamesItsOwn]_growvars

\* How long an argument is: get_path() puts the directory before a name.
ArgumentLength(i) ==
    LET n == WordLength(command[i])
    IN  IF i = 1 /\ n > 0 THEN n + lookup.prefix ELSE n

\* As long as the arena answers, the array holds every word so far at its full
\* length, however often the strings and the array were moved (ft_strlcpy() in
\* buf_grow(), str_realloc(), ft_realloc()).
ArgumentsIntact ==
    ~refused /\ pc = "word" =>
        da.items = [i \in 1 .. Len(command) - Len(todo) |-> { ArgumentLength(i) }]
=============================================================================
