----------------------------- MODULE InputProof -----------------------------
(****************************************************************************)
(* Proofs about what is read: a script is cut into the lines that a reader  *)
(* promises (LineReader), a line into its tokens (Lexer), and the tokens    *)
(* are what their characters mean (Words) -- for texts of any length over   *)
(* any characters, and any environment.                                     *)
(****************************************************************************)
EXTENDS LineReader, Words, SequenceTheorems, FiniteSetTheorems, WellFoundedInduction, TLAPS

TokenRecords == [type : TokenTypes, wp : BOOLEAN, from : 1 .. Len(content) + 1,
                 to : 0 .. Len(content)]

Typed ==
    /\ content \in Seq(STRING \ { NUL })
    /\ cursor \in 1 .. Len(content) + 1
    /\ tokens \in Seq(TokenRecords)

\* Where the last token ends.
LastEnd == EndBefore(Len(tokens) + 1)

\* The cursor stands right behind the last token, or past spaces at the end.
Behind ==
    /\ LastEnd < cursor
    /\ Scanning => cursor = LastEnd + 1
    /\ \A i \in LastEnd + 1 .. cursor - 1 : content[i] \in Spaces

\* Token k, as TokensTile has it.
TileOK(k) ==
    /\ EndBefore(k) < tokens[k].from
    /\ tokens[k].type = "END" \/ tokens[k].from <= tokens[k].to
    /\ \A i \in EndBefore(k) + 1 .. tokens[k].from - 1 : content[i] \in Spaces
    /\ tokens[k].type \in WordTypes
         => (tokens[k].wp <=> EndBefore(k) + 1 .. tokens[k].from - 1 # {})
    /\ tokens[k].type = "WORD" =>
         /\ \A i \in tokens[k].from .. tokens[k].to : content[i] \notin OperatorChars
         /\ At(tokens[k].to + 1) \in OperatorChars \cup { NUL }

\* An operator of one character has no wp; the empty token is alone.
AloneOK(k) ==
    /\ tokens[k].type \in { "PIPE", "REDIRECT_IN", "REDIRECT_OUT" } => tokens[k].wp = FALSE
    /\ tokens[k].type = "END" => Len(tokens) = 1 /\ cursor > Len(content)

LexInv ==
    /\ Typed /\ Behind
    /\ \A k \in 1 .. Len(tokens) : TileOK(k) /\ AloneOK(k)

-----------------------------------------------------------------------------
(* The CHOOSEs choose the first position there is.                          *)

LEMMA LessRelated ==
    ASSUME NEW j \in Nat, NEW k \in Nat, j < k
    PROVE  << j, k >> \in OpToRel(<, Nat)
<1> DEFINE p == << j, k >>
<1>1. p[1] = j /\ p[2] = k /\ p \in Nat \X Nat
  OBVIOUS
<1>2. p[1] < p[2]
  BY <1>1
<1> HIDE DEF p
<1>3. p \in OpToRel(<, Nat)
  BY <1>1, <1>2, Zenon DEF OpToRel
<1> QED BY <1>3 DEF p

LEMMA Least ==
    ASSUME NEW S, S \subseteq Nat, S # {}
    PROVE  \E m \in S : \A k \in S : m <= k
<1>1. PICK m \in S : \A k \in S : ~(<< k, m >> \in OpToRel(<, Nat))
  <2>1. IsWellFoundedOn(OpToRel(<, Nat), Nat)
    BY NatLessThanWellFounded
  <2> QED BY <2>1, WFMin
<1>2. ASSUME NEW k \in S PROVE m <= k
  <2>1. k \in Nat /\ m \in Nat
    OBVIOUS
  <2>2. ~(k < m)
    BY <1>1, <2>1, LessRelated
  <2> QED BY <2>1, <2>2
<1> QED BY <1>2

LEMMA LineLength ==
    ASSUME Typed
    PROVE  /\ Len(content) \in Nat /\ DOMAIN content = 1 .. Len(content)
           /\ Len(tokens) \in Nat /\ DOMAIN tokens = 1 .. Len(tokens)
           /\ \A i \in 1 .. Len(content) : content[i] # NUL
           /\ \A k \in 1 .. Len(tokens) : tokens[k] \in TokenRecords
<1>1. Len(content) \in Nat /\ DOMAIN content = 1 .. Len(content)
      /\ Len(tokens) \in Nat /\ DOMAIN tokens = 1 .. Len(tokens)
  BY LenProperties DEF Typed
<1>2. \A i \in 1 .. Len(content) : content[i] \in STRING \ { NUL }
  BY ElementOfSeq DEF Typed
<1>3. \A k \in 1 .. Len(tokens) : tokens[k] \in TokenRecords
  BY ElementOfSeq DEF Typed
<1> QED BY <1>1, <1>2, <1>3

LEMMA FirstFound ==
    ASSUME Typed, NEW S, NEW i \in 1 .. Len(content) + 1
    PROVE  /\ FirstIn(i, S) \in i .. Len(content) + 1
           /\ FirstIn(i, S) <= Len(content) => content[FirstIn(i, S)] \in S
           /\ \A k \in i .. FirstIn(i, S) - 1 : content[k] \notin S
<1> DEFINE n == Len(content) + 1
           Stop(j) == j <= Len(content) => content[j] \in S
           T == { j \in i .. n : Stop(j) }
           P(j) == Stop(j) /\ \A k \in i .. j - 1 : content[k] \notin S
<1>1. Len(content) \in Nat /\ i \in Nat
  BY LineLength
<1>2. n \in T /\ T \subseteq Nat
  BY <1>1
<1>3. PICK m \in T : \A k \in T : m <= k
  <2> HIDE DEF T
  <2> QED BY <1>2, Least
<1>4. \A k \in i .. m - 1 : content[k] \notin S
  <2> SUFFICES ASSUME NEW k \in i .. m - 1 PROVE content[k] \notin S
    OBVIOUS
  <2>1. k \in i .. n /\ ~(m <= k) /\ k <= Len(content)
    BY <1>1, <1>3
  <2>2. k \notin T
    BY <1>3, <2>1
  <2> QED BY <2>1, <2>2
<1>5. m \in i .. n /\ P(m)
  BY <1>3, <1>4
<1>6. FirstIn(i, S) = CHOOSE j \in i .. n : P(j)
  BY DEF FirstIn
<1>7. FirstIn(i, S) \in i .. n /\ P(FirstIn(i, S))
  <2> HIDE DEF P, n
  <2> QED BY <1>5, <1>6
<1> QED BY <1>7

LEMMA TrimFound ==
    ASSUME Typed
    PROVE  /\ Trimmed \in cursor .. Len(content) + 1
           /\ At(Trimmed) \notin Spaces
           /\ \A k \in cursor .. Trimmed - 1 : content[k] \in Spaces
<1> DEFINE n == Len(content) + 1
           T == { j \in cursor .. n : At(j) \notin Spaces }
           P(j) == At(j) \notin Spaces /\ \A k \in cursor .. j - 1 : content[k] \in Spaces
<1>1. Len(content) \in Nat /\ cursor \in Nat /\ cursor <= n /\ cursor >= 1
      /\ DOMAIN content = 1 .. Len(content)
  BY LineLength DEF Typed
<1>2. n \in T /\ T \subseteq Nat
  <2>1. n \notin DOMAIN content
    BY <1>1
  <2>2. At(n) \notin Spaces
    BY <2>1 DEF At, NUL, Spaces
  <2> QED BY <1>1, <2>2
<1>3. PICK m \in T : \A k \in T : m <= k
  <2> HIDE DEF T
  <2> QED BY <1>2, Least
<1>4. \A k \in cursor .. m - 1 : content[k] \in Spaces
  <2> SUFFICES ASSUME NEW k \in cursor .. m - 1 PROVE content[k] \in Spaces
    OBVIOUS
  <2>1. k \in cursor .. n /\ ~(m <= k) /\ k \in DOMAIN content
    BY <1>1, <1>3
  <2>2. k \notin T
    BY <1>3, <2>1
  <2> QED BY <2>1, <2>2 DEF At
<1>5. m \in cursor .. n /\ P(m)
  BY <1>3, <1>4
<1>6. Trimmed = CHOOSE j \in cursor .. n : P(j)
  BY DEF Trimmed
<1>7. Trimmed \in cursor .. n /\ P(Trimmed)
  <2> HIDE DEF P, n
  <2> QED BY <1>5, <1>6
<1> QED BY <1>7

-----------------------------------------------------------------------------
(* One step.                                                                *)

\* What a handler knows of the token it hands to Emit.
EmitOK(type, wp, to) ==
    /\ type \in TokenTypes /\ wp \in BOOLEAN /\ to \in 0 .. Len(content)
    /\ type = "END" => tokens = << >> /\ to = Len(content)
    /\ type # "END" => Trimmed <= to
    /\ type \in WordTypes => wp = Wp
    /\ type \in { "PIPE", "REDIRECT_IN", "REDIRECT_OUT" } => wp = FALSE
    /\ type = "WORD" =>
         /\ \A i \in Trimmed .. to : content[i] \notin OperatorChars
         /\ At(to + 1) \in OperatorChars \cup { NUL }

LEMMA EmitKeeps ==
    ASSUME LexInv, Scanning, NEW type, NEW wp, NEW to,
           EmitOK(type, wp, to), Emit(type, wp, to)
    PROVE  LexInv'
<1>0. PICK n : n = Len(tokens)
  OBVIOUS
<1> DEFINE t == [type |-> type, wp |-> wp, from |-> Trimmed, to |-> to]
<1>1. /\ Typed /\ n \in Nat /\ DOMAIN content = 1 .. Len(content) /\ Len(content) \in Nat
      /\ tokens \in Seq(TokenRecords) /\ cursor \in 1 .. Len(content) + 1
      /\ \A k \in 1 .. n : tokens[k] \in TokenRecords
  BY <1>0, LineLength DEF LexInv, Typed
<1>2. /\ Trimmed \in cursor .. Len(content) + 1
      /\ \A k \in cursor .. Trimmed - 1 : content[k] \in Spaces
  BY <1>1, TrimFound
<1>3. t \in TokenRecords
  <2>1. type \in TokenTypes /\ wp \in BOOLEAN /\ to \in 0 .. Len(content)
    BY DEF EmitOK
  <2>2. Trimmed \in 1 .. Len(content) + 1
    BY <1>1, <1>2
  <2> QED BY <2>1, <2>2 DEF TokenRecords
<1>4. /\ content' = content /\ cursor' = to + 1 /\ tokens' = Append(tokens, t)
      /\ to \in 0 .. Len(content)
  BY DEF Emit, EmitOK
<1> HIDE DEF t
<1>5. /\ Len(tokens') = n + 1 /\ tokens'[n + 1] = t
      /\ \A k \in 1 .. n : tokens'[k] = tokens[k]
      /\ tokens' \in Seq(TokenRecords)
  BY <1>0, <1>1, <1>3, <1>4, AppendProperties
<1>6. Typed'
  <2>1. TokenRecords' = TokenRecords
    BY <1>4 DEF TokenRecords
  <2> QED BY <1>1, <1>4, <1>5, <2>1 DEF Typed
<1>7. LastEnd + 1 = cursor /\ LastEnd \in Nat
  <2>1. LastEnd \in Int
    <3>1. CASE n = 0
      BY <1>0, <3>1 DEF LastEnd, EndBefore
    <3>2. CASE n # 0
      <4>1. n \in 1 .. n
        BY <1>1, <3>2
      <4>2. tokens[n].to \in 0 .. Len(content)
        BY <1>1, <4>1 DEF TokenRecords
      <4>3. LastEnd = tokens[n].to
        BY <1>0, <1>1, <3>2 DEF LastEnd, EndBefore
      <4> QED BY <1>1, <4>2, <4>3
    <3> QED BY <3>1, <3>2
  <2> QED BY <1>1, <2>1 DEF LexInv, Behind
<1>8. \A k \in 1 .. n + 1 : EndBefore(k)' = EndBefore(k)
  <2> SUFFICES ASSUME NEW k \in 1 .. n + 1 PROVE EndBefore(k)' = EndBefore(k)
    OBVIOUS
  <2>1. CASE k = 1
    BY <2>1 DEF EndBefore
  <2>2. CASE k # 1
    <3>1. k - 1 \in 1 .. n
      BY <1>1, <2>2
    <3> QED BY <1>5, <2>2, <3>1 DEF EndBefore
  <2> QED BY <2>1, <2>2
<1>9. LastEnd' = to
  <2>1. LastEnd' = tokens'[n + 1].to
    BY <1>0, <1>1, <1>5 DEF LastEnd, EndBefore
  <2> QED BY <1>5, <2>1 DEF t
<1>10. Behind'
  BY <1>1, <1>4, <1>9 DEF Behind
<1>11. \A i : At(i)' = At(i)
  BY <1>4 DEF At
<1>12. ASSUME NEW k \in 1 .. n PROVE TileOK(k)' /\ AloneOK(k)'
  <2>1. TileOK(k) /\ AloneOK(k)
    BY <1>0 DEF LexInv
  <2>2. EndBefore(k)' = EndBefore(k) /\ tokens'[k] = tokens[k]
    BY <1>1, <1>5, <1>8
  <2>3. tokens[k].type # "END"
    <3>1. tokens # << >>
      BY <1>0, <1>1
    <3>2. cursor <= Len(content)
      BY <3>1 DEF Scanning
    <3> QED BY <1>1, <2>1, <3>2 DEF AloneOK
  <2>4. TileOK(k)'
    BY <1>4, <1>11, <2>1, <2>2 DEF TileOK
  <2>5. AloneOK(k)'
    BY <2>1, <2>2, <2>3 DEF AloneOK
  <2> QED BY <2>4, <2>5
<1>13. TileOK(n + 1)'
  <2>1. EndBefore(n + 1)' = cursor - 1
    <3>1. n + 1 \in 1 .. n + 1
      BY <1>1
    <3>2. EndBefore(n + 1)' = EndBefore(n + 1)
      BY <1>8, <3>1 DEF EndBefore
    <3> QED BY <1>0, <1>1, <1>7, <3>2 DEF LastEnd
  <2>2. t.type = type /\ t.wp = wp /\ t.from = Trimmed /\ t.to = to
    BY DEF t
  <2>3. cursor - 1 < Trimmed /\ (type = "END" \/ Trimmed <= to)
    <3>1. cursor - 1 < Trimmed
      BY <1>1, <1>2
    <3>2. type = "END" \/ Trimmed <= to
      BY Zenon DEF EmitOK
    <3> QED BY <3>1, <3>2
  <2>4. cursor - 1 + 1 = cursor
    BY <1>1
  <2>5. type \in WordTypes => (wp <=> cursor .. Trimmed - 1 # {})
    <3>1. CASE Trimmed > cursor
      <4>1. cursor \in cursor .. Trimmed - 1
        BY <1>1, <1>2, <3>1
      <4> QED BY <3>1, <4>1 DEF EmitOK, Wp
    <3>2. CASE ~(Trimmed > cursor)
      <4>1. cursor .. Trimmed - 1 = {}
        BY <1>1, <1>2, <3>2
      <4>2. ~Wp
        BY <3>2 DEF Wp
      <4> QED BY <4>1, <4>2 DEF EmitOK
    <3> QED BY <3>1, <3>2
  <2>6. type = "WORD" =>
         /\ \A i \in Trimmed .. to : content[i] \notin OperatorChars
         /\ At(to + 1) \in OperatorChars \cup { NUL }
    BY DEF EmitOK
  <2> DEFINE m == n + 1
             gap == cursor .. Trimmed - 1
  <2>7. /\ tokens'[m].type = type /\ tokens'[m].wp = wp
        /\ tokens'[m].from = Trimmed /\ tokens'[m].to = to
    BY <1>5, <2>2
  <2>8. EndBefore(m)' + 1 .. tokens'[m].from - 1 = gap
    BY <2>1, <2>4, <2>7
  <2>9. EndBefore(m)' < tokens'[m].from /\ (tokens'[m].type = "END" \/ tokens'[m].from <= tokens'[m].to)
    BY <2>1, <2>3, <2>7
  <2>10. \A i \in EndBefore(m)' + 1 .. tokens'[m].from - 1 : content'[i] \in Spaces
    <3> HIDE DEF m
    <3> QED BY <1>2, <1>4, <2>8
  <2>11. tokens'[m].type \in WordTypes
           => (tokens'[m].wp <=> EndBefore(m)' + 1 .. tokens'[m].from - 1 # {})
    <3> HIDE DEF m, gap
    <3>1. type \in WordTypes => (wp <=> gap # {})
      BY <2>5 DEF gap
    <3> QED BY <2>7, <2>8, <3>1, Zenon
  <2>12. tokens'[m].type = "WORD" =>
         /\ \A i \in tokens'[m].from .. tokens'[m].to : content'[i] \notin OperatorChars
         /\ At(to + 1) \in OperatorChars \cup { NUL }
    <3> HIDE DEF m
    <3> QED BY <1>4, <2>6, <2>7
  <2> HIDE DEF m, gap
  <2>13. At(tokens[m].to + 1)' = At(to + 1)
    BY <1>4, <2>7 DEF At
  <2>14. TileOK(m)'
    BY <2>9, <2>10, <2>11, <2>12, <2>13, Zenon DEF TileOK
  <2> QED BY <2>14 DEF m
<1>14. AloneOK(n + 1)'
  <2>1. t.type = type /\ t.wp = wp
    BY DEF t
  <2>2. type = "END" => n = 0 /\ to = Len(content)
    BY <1>0 DEF EmitOK
  <2>3. type \in { "PIPE", "REDIRECT_IN", "REDIRECT_OUT" } => wp = FALSE
    BY DEF EmitOK
  <2>4. type = "END" => Len(tokens') = 1 /\ cursor' > Len(content')
    BY <1>0, <1>1, <1>4, <1>5, <2>2
  <2> QED BY <1>5, <2>1, <2>3, <2>4 DEF AloneOK
<1>15. \A k \in 1 .. n + 1 : TileOK(k)' /\ AloneOK(k)'
  <2>1. \A k \in 1 .. n + 1 : k \in 1 .. n \/ k = n + 1
    BY <1>1
  <2> DEFINE Ok(k) == TileOK(k)' /\ AloneOK(k)'
  <2>2. Ok(n + 1) /\ \A k \in 1 .. n : Ok(k)
    BY <1>12, <1>13, <1>14
  <2> HIDE DEF Ok
  <2>3. \A k \in 1 .. n + 1 : Ok(k)
    BY <2>1, <2>2, Zenon
  <2> QED BY <2>3 DEF Ok
<1> QED BY <1>0, <1>5, <1>6, <1>10, <1>15 DEF LexInv

\* A character that is there is the one the line has.
LEMMA Reads ==
    ASSUME Typed, NEW i, At(i) # NUL
    PROVE  i \in 1 .. Len(content) /\ At(i) = content[i]
BY LineLength DEF At

LEMMA KeptByEnd ==
    ASSUME LexInv, HandleEnd
    PROVE  LexInv'
<1>1. /\ Typed /\ Len(content) \in Nat /\ cursor \in 1 .. Len(content) + 1
      /\ Trimmed \in cursor .. Len(content) + 1 /\ Len(tokens) \in Nat
      /\ \A k \in cursor .. Trimmed - 1 : content[k] \in Spaces
  BY LineLength, TrimFound DEF LexInv, Typed
<1>2. Scanning /\ Trimmed > Len(content)
  BY DEF HandleEnd
<1>3. CASE tokens = << >> /\ Emit("END", Wp, Len(content))
  <2>1. EmitOK("END", Wp, Len(content))
    BY <1>1, <1>3 DEF EmitOK, TokenTypes, WordTypes, Wp
  <2> QED BY <1>2, <1>3, <2>1, EmitKeeps
<1>4. CASE tokens # << >> /\ cursor' = Trimmed /\ UNCHANGED << content, tokens >>
  <2>1. LastEnd' = LastEnd /\ Scanning => LastEnd + 1 = cursor
    BY <1>4 DEF LastEnd, EndBefore, LexInv, Behind
  <2>2. LastEnd' = LastEnd
    BY <1>4 DEF LastEnd, EndBefore
  <2>3. cursor = LastEnd + 1 /\ LastEnd < cursor
    BY <1>2 DEF LexInv, Behind
  <2>4. Behind'
    <3>1. ~Scanning'
      BY <1>1, <1>2, <1>4 DEF Scanning
    <3>2. \A i \in LastEnd + 1 .. Trimmed - 1 : content[i] \in Spaces
      BY <1>1, <2>3
    <3>3. LastEnd < Trimmed
      <4>1. LastEnd \in Int
        <5>1. Len(tokens) \in 1 .. Len(tokens)
          BY <1>1, <1>4, EmptySeq DEF LexInv, Typed
        <5>2. tokens[Len(tokens)] \in TokenRecords
          BY <1>1, <5>1, ElementOfSeq DEF Typed
        <5>3. LastEnd = tokens[Len(tokens)].to
          BY <1>1, <5>1 DEF LastEnd, EndBefore
        <5> QED BY <1>1, <5>2, <5>3 DEF TokenRecords
      <4> QED BY <1>1, <2>3, <4>1
    <3> QED BY <1>4, <2>2, <3>1, <3>2, <3>3 DEF Behind
  <2>5. Typed'
    <3>1. TokenRecords' = TokenRecords
      BY <1>4 DEF TokenRecords
    <3> QED BY <1>1, <1>4, <3>1 DEF Typed
  <2>6. ASSUME NEW k \in 1 .. Len(tokens) PROVE TileOK(k)' /\ AloneOK(k)'
    <3>1. TileOK(k) /\ AloneOK(k)
      BY DEF LexInv
    <3>2. TileOK(k)'
      BY <1>4, <3>1 DEF TileOK, EndBefore, At
    <3>3. AloneOK(k)'
      BY <1>1, <1>4, <3>1 DEF AloneOK
    <3> QED BY <3>2, <3>3
  <2> QED BY <1>4, <2>4, <2>5, <2>6 DEF LexInv
<1> QED BY <1>3, <1>4 DEF HandleEnd

LEMMA KeptByQuote ==
    ASSUME LexInv, NEW q \in Quotes, NEW type \in { "SQUOTE", "DQUOTE" }, HandleQuote(q, type)
    PROVE  LexInv'
<1> DEFINE close == FirstIn(Trimmed + 1, { q })
<1>1. /\ Typed /\ Len(content) \in Nat /\ cursor \in 1 .. Len(content) + 1
      /\ Trimmed \in cursor .. Len(content) + 1
  BY LineLength, TrimFound DEF LexInv, Typed
<1>2. Trimmed \in 1 .. Len(content)
  <2>1. At(Trimmed) # NUL
    BY DEF HandleQuote, Quotes, NUL
  <2> QED BY <1>1, <2>1, Reads
<1>3. close \in Trimmed + 1 .. Len(content) + 1
  <2>1. Trimmed + 1 \in 1 .. Len(content) + 1
    BY <1>1, <1>2
  <2> QED BY <1>1, <2>1, FirstFound
<1> HIDE DEF close
<1>4. Scanning /\ \/ close <= Len(content) /\ Emit(type, Wp, close)
                  \/ close > Len(content) /\ Emit("INVALID", Wp, Len(content))
  BY DEF HandleQuote, close
<1>5. CASE close <= Len(content) /\ Emit(type, Wp, close)
  <2>1. EmitOK(type, Wp, close)
    BY <1>1, <1>2, <1>3, <1>5 DEF EmitOK, TokenTypes, WordTypes, Wp
  <2> QED BY <1>4, <1>5, <2>1, EmitKeeps
<1>6. CASE close > Len(content) /\ Emit("INVALID", Wp, Len(content))
  <2>1. EmitOK("INVALID", Wp, Len(content))
    BY <1>1, <1>2 DEF EmitOK, TokenTypes, WordTypes, Wp
  <2> QED BY <1>4, <1>6, <2>1, EmitKeeps
<1> QED BY <1>4, <1>5, <1>6

LEMMA KeptByDouble ==
    ASSUME LexInv, NEW c \in { ">", "<" }, NEW type \in { "APPEND", "HEREDOC" },
           HandleDouble(c, type)
    PROVE  LexInv'
<1>1. /\ Typed /\ Len(content) \in Nat /\ Trimmed \in Nat
  BY LineLength, TrimFound DEF LexInv, Typed
<1>2. Trimmed \in 1 .. Len(content) /\ Trimmed + 1 \in 1 .. Len(content)
  <2>1. At(Trimmed) # NUL /\ At(Trimmed + 1) # NUL
    BY DEF HandleDouble, NUL
  <2> QED BY <1>1, <2>1, Reads
<1>3. PICK any \in BOOLEAN : Emit(type, any, Trimmed + 1)
  BY DEF HandleDouble
<1>4. EmitOK(type, any, Trimmed + 1)
  BY <1>1, <1>2 DEF EmitOK, TokenTypes, Operators, RedirTypes, WordTypes
<1>5. Scanning
  BY DEF HandleDouble
<1> QED BY <1>3, <1>4, <1>5, EmitKeeps

LEMMA KeptByWord ==
    ASSUME LexInv, HandleWord
    PROVE  LexInv'
<1> DEFINE end == FirstIn(Trimmed, OperatorChars)
<1>1. /\ Typed /\ Len(content) \in Nat /\ cursor \in 1 .. Len(content) + 1
      /\ Trimmed \in cursor .. Len(content) + 1
      /\ DOMAIN content = 1 .. Len(content)
  BY LineLength, TrimFound DEF LexInv, Typed
<1>2. /\ end \in Trimmed .. Len(content) + 1
      /\ end <= Len(content) => content[end] \in OperatorChars
      /\ \A k \in Trimmed .. end - 1 : content[k] \notin OperatorChars
  <2>1. Trimmed \in 1 .. Len(content) + 1
    BY <1>1
  <2> QED BY <1>1, <2>1, FirstFound
<1> HIDE DEF end
<1>3. Trimmed \in 1 .. Len(content) /\ content[Trimmed] \notin OperatorChars
  <2>1. At(Trimmed) # NUL /\ At(Trimmed) \notin OperatorChars
    BY DEF HandleWord
  <2> QED BY <1>1, <2>1, Reads
<1>4. end > Trimmed
  BY <1>1, <1>2, <1>3
<1>5. At(end - 1 + 1) \in OperatorChars \cup { NUL }
  BY <1>1, <1>2 DEF At
<1>6. EmitOK("WORD", Wp, end - 1)
  <2>1. end - 1 \in 0 .. Len(content) /\ Trimmed <= end - 1
    BY <1>1, <1>2, <1>3, <1>4
  <2> QED BY <1>2, <1>5, <2>1 DEF EmitOK, TokenTypes, WordTypes, Wp
<1>7. Scanning /\ Emit("WORD", Wp, end - 1)
  BY DEF HandleWord, end
<1> QED BY <1>6, <1>7, EmitKeeps

LEMMA KeptByOther ==
    ASSUME LexInv, HandleOther
    PROVE  LexInv'
<1>1. /\ Typed /\ Len(content) \in Nat
  BY LineLength DEF LexInv
<1>2. Trimmed \in 1 .. Len(content)
  <2>1. At(Trimmed) # NUL
    BY DEF HandleOther, NUL
  <2> QED BY <1>1, <2>1, Reads
<1>3. TypeOfChar(At(Trimmed)) \in { "PIPE", "REDIRECT_OUT", "REDIRECT_IN", "INVALID" }
  BY DEF TypeOfChar
<1>4. EmitOK(TypeOfChar(At(Trimmed)), FALSE, Trimmed)
  BY <1>1, <1>2, <1>3 DEF EmitOK, TokenTypes, Operators, RedirTypes, WordTypes
<1>5. Scanning /\ Emit(TypeOfChar(At(Trimmed)), FALSE, Trimmed)
  BY DEF HandleOther
<1> QED BY <1>4, <1>5, EmitKeeps

LEMMA KeptByNothing ==
    ASSUME LexInv, UNCHANGED lexvars
    PROVE  LexInv'
BY DEF LexInv, lexvars, Typed, TokenRecords, Behind, LastEnd, Scanning, EndBefore,
       TileOK, AloneOK, At

LEMMA LexInitial ==
    ASSUME content \in Seq(STRING \ { NUL }), cursor = 1, tokens = << >>
    PROVE  LexInv
<1>1. Len(content) \in Nat
  BY LenProperties
<1>2. Len(tokens) = 0 /\ tokens \in Seq(TokenRecords)
  BY EmptySeq
<1>3. LastEnd = 0
  BY <1>2 DEF LastEnd, EndBefore
<1> QED BY <1>1, <1>2, <1>3 DEF LexInv, Typed, Behind

LEMMA InitWordsText ==
    ASSUME InitWords
    PROVE  content \in Texts /\ cursor = 1 /\ tokens = << >>
<1>1. PICK input \in Inputs : content = input[1]
  BY DEF InitWords
<1>2. Texts = { i[1] : i \in Inputs }
  BY WordsAssumption
<1>3. input[1] \in { i[1] : i \in Inputs }
  OBVIOUS
<1> QED BY <1>1, <1>2, <1>3 DEF InitWords

LEMMA LexInvariant == Spec => []LexInv
<1>1. InitWords => LexInv
  <2> SUFFICES ASSUME InitWords PROVE LexInv
    OBVIOUS
  <2>1. content \in Texts /\ cursor = 1 /\ tokens = << >>
    BY InitWordsText
  <2> QED BY <2>1, LexerAssumption, LexInitial
<1>2. LexInv /\ [Next]_vars => LexInv'
  <2> SUFFICES ASSUME LexInv, [Next]_vars PROVE LexInv'
    OBVIOUS
  <2>1. CASE GetNextToken
    <3>1. CASE HandleQuote("'", "SQUOTE")
      BY <3>1, KeptByQuote DEF Quotes
    <3>2. CASE HandleQuote("\"", "DQUOTE")
      BY <3>2, KeptByQuote DEF Quotes
    <3>3. CASE HandleDouble(">", "APPEND") \/ HandleDouble("<", "HEREDOC")
      BY <3>3, KeptByDouble
    <3> QED BY <2>1, <3>1, <3>2, <3>3, KeptByEnd, KeptByWord, KeptByOther DEF GetNextToken
  <2>2. CASE UNCHANGED lexvars
    BY <2>2, KeptByNothing
  <2> QED BY <2>1, <2>2 DEF Next, Over, vars
<1> QED BY <1>1, <1>2, PTL DEF Spec

-----------------------------------------------------------------------------
(* What the code promises.                                                  *)

LEMMA Tiled == LexInv => TokensTile
<1> SUFFICES ASSUME LexInv PROVE TokensTile
  OBVIOUS
<1>1. DOMAIN tokens = 1 .. Len(tokens)
  BY LineLength DEF LexInv
<1>2. \A k \in DOMAIN tokens : TileOK(k)
  BY <1>1 DEF LexInv
<1>3. \A i \in EndBefore(Len(tokens) + 1) + 1 .. cursor - 1 : content[i] \in Spaces
  BY DEF LexInv, Behind, LastEnd
<1> QED BY <1>2, <1>3, Zenon DEF TokensTile, TileOK

LEMMA HandedOver == LexInv => HandsOver
<1> SUFFICES ASSUME LexInv, ~Scanning PROVE Lexed(tokens)
  BY DEF HandsOver
<1>1. /\ Typed /\ DOMAIN tokens = 1 .. Len(tokens) /\ Len(tokens) \in Nat
      /\ Len(content) \in Nat /\ DOMAIN content = 1 .. Len(content)
      /\ \A i \in 1 .. Len(content) : content[i] # NUL
      /\ \A k \in 1 .. Len(tokens) : tokens[k] \in TokenRecords
  <2>1. Typed
    BY DEF LexInv
  <2> QED BY <2>1, LineLength
<1>2. tokens # << >>
  BY DEF Scanning
<1> SUFFICES ASSUME NEW i \in 1 .. Len(tokens)
             PROVE  /\ tokens[i].type \in TokenTypes /\ tokens[i].wp \in BOOLEAN
                    /\ tokens[i].type \in { "PIPE", "REDIRECT_IN", "REDIRECT_OUT" } => ~tokens[i].wp
                    /\ tokens[i].type = "END" => Len(tokens) = 1
                    /\ tokens[i].type = "WORD" /\ i < Len(tokens)
                         => tokens[i + 1].wp \/ tokens[i + 1].type # "WORD"
  BY <1>1, <1>2 DEF Lexed
<1>3. tokens[i] \in TokenRecords /\ TileOK(i) /\ AloneOK(i)
  BY <1>1 DEF LexInv
<1>4. /\ tokens[i].type \in TokenTypes /\ tokens[i].wp \in BOOLEAN
      /\ tokens[i].type \in { "PIPE", "REDIRECT_IN", "REDIRECT_OUT" } => ~tokens[i].wp
      /\ tokens[i].type = "END" => Len(tokens) = 1
  BY <1>3 DEF TokenRecords, AloneOK
<1>5. ASSUME tokens[i].type = "WORD", i < Len(tokens),
             ~tokens[i + 1].wp, tokens[i + 1].type = "WORD"
      PROVE  FALSE
  <2> DEFINE j == i + 1
  <2>1. j \in 1 .. Len(tokens)
    BY <1>1, <1>5
  <2>2. tokens[j] \in TokenRecords /\ TileOK(j) /\ EndBefore(j) = tokens[i].to
    BY <1>1, <2>1 DEF LexInv, EndBefore
  <2> DEFINE a == tokens[i].to
             b == tokens[j].from
             c == tokens[j].to
  <2>3. a \in 0 .. Len(content) /\ b \in 1 .. Len(content) + 1 /\ c \in 0 .. Len(content)
    BY <1>3, <2>2 DEF TokenRecords
  <2>4. a < b /\ b <= c /\ ~(a + 1 .. b - 1 # {})
        /\ \A k \in b .. c : content[k] \notin OperatorChars
    BY <1>5, <2>2 DEF TileOK, WordTypes
  <2>5. At(a + 1) \in OperatorChars \cup { NUL }
    BY <1>3, <1>5 DEF TileOK
  <2> HIDE DEF a, b, c, j
  <2>6. b = a + 1
    <3>1. ~(a + 1 \in a + 1 .. b - 1)
      BY <2>4
    <3> QED BY <2>3, <2>4, <3>1, <1>1
  <2>7. a + 1 \in b .. c /\ a + 1 \in DOMAIN content
    BY <1>1, <2>3, <2>4, <2>6
  <2>8. At(a + 1) = content[a + 1] /\ content[a + 1] # NUL /\ content[a + 1] \notin OperatorChars
    BY <1>1, <2>4, <2>7 DEF At
  <2> QED BY <2>5, <2>8
<1> QED BY <1>4, <1>5

\* get_next_token(), trim_left() and the handlers cut every line without a gap
\* and without an overlap but for spaces; wp tells words apart that were apart,
\* and every word is as long as it can be.
THEOREM TilesCorrect == Spec => []TokensTile
BY LexInvariant, Tiled, PTL

\* build_token_list() hands over what the parser takes for granted: types that
\* are types, no wp on the operators of one character, an empty token only
\* alone, and never two words that touch.
THEOREM HandsOverCorrect == Spec => []HandsOver
BY LexInvariant, HandedOver, PTL

-----------------------------------------------------------------------------
(* Induction, and definition by primitive recursion, stated of sets and of  *)
(* functions.                                                               *)

\* What holds of 0 and of k, if of k - 1, holds up to n.
LEMMA Upto ==
    ASSUME NEW n \in Nat, NEW T,
           0 \in T, \A k \in 1 .. n : k - 1 \in T => k \in T
    PROVE  0 .. n \subseteq T
<1> DEFINE Missing == { k \in 0 .. n : k \notin T }
<1> SUFFICES ASSUME Missing # {} PROVE FALSE
  OBVIOUS
<1>1. Missing \subseteq Nat
  OBVIOUS
<1>2. PICK k \in Missing : \A j \in Missing : ~(<< j, k >> \in OpToRel(<, Nat))
  <2>1. IsWellFoundedOn(OpToRel(<, Nat), Nat)
    BY NatLessThanWellFounded
  <2> HIDE DEF Missing
  <2> QED BY <1>1, <2>1, WFMin
<1>3. k \in 1 .. n /\ k - 1 \in 0 .. n
  OBVIOUS
<1>4. k - 1 \notin Missing
  <2>1. k \in Nat /\ k - 1 \in Nat /\ k - 1 < k
    BY <1>3
  <2>2. << k - 1, k >> \in OpToRel(<, Nat)
    BY <2>1, LessRelated
  <2> QED BY <1>2, <2>2
<1> QED BY <1>3, <1>4

\* g is b at first, and F of what it was before at each k.
Follows(g, b, n, F) ==
    /\ g[0] = b
    /\ \A k \in 1 .. n : g[k] = F[<< g[k - 1], k >>]

\* There is such a function.
LEMMA Recursion ==
    ASSUME NEW A, NEW b \in A, NEW n \in Nat, NEW F \in [A \X (1 .. n) -> A]
    PROVE  \E g \in [0 .. n -> A] : Follows(g, b, n, F)
<1> DEFINE T == { m \in 0 .. n : \E g \in [0 .. m -> A] : Follows(g, b, m, F) }
<1>1. 0 \in T
  <2>1. [k \in 0 .. 0 |-> b] \in [0 .. 0 -> A] /\ Follows([k \in 0 .. 0 |-> b], b, 0, F)
    BY DEF Follows
  <2> QED BY <2>1
<1>2. ASSUME NEW m \in 1 .. n, m - 1 \in T PROVE m \in T
  <2>1. PICK g \in [0 .. m - 1 -> A] : Follows(g, b, m - 1, F)
    BY <1>2
  <2> DEFINE h == [k \in 0 .. m |-> IF k < m THEN g[k] ELSE F[<< g[m - 1], m >>]]
  <2>2. h \in [0 .. m -> A]
    <3>1. g[m - 1] \in A
      OBVIOUS
    <3>2. F[<< g[m - 1], m >>] \in A
      BY <3>1
    <3> QED BY <3>2
  <2>3. h[0] = b
    BY <2>1 DEF Follows
  <2>4. ASSUME NEW k \in 1 .. m PROVE h[k] = F[<< h[k - 1], k >>]
    <3>1. CASE k = m
      BY <3>1
    <3>2. CASE k < m
      BY <2>1, <3>2 DEF Follows
    <3> QED BY <3>1, <3>2
  <2>5. Follows(h, b, m, F)
    BY <2>3, <2>4 DEF Follows
  <2> HIDE DEF h
  <2> QED BY <2>2, <2>5
<1>3. 0 .. n \subseteq T
  <2> HIDE DEF T
  <2> QED BY <1>1, <1>2, Upto
<1> QED BY <1>3

-----------------------------------------------------------------------------
(* The quotes of a line.                                                    *)

Marks == Quotes \cup { NUL }

\* What is open behind a character, from what is open before it.
Turn(open, c) == IF open = NUL THEN IF c \in Quotes THEN c ELSE NUL
                 ELSE IF c = open THEN NUL ELSE open

QuotingIs == /\ Quoting \in [0 .. Len(content) -> Marks]
             /\ Quoting[0] = NUL
             /\ \A k \in 1 .. Len(content) : Quoting[k] = Turn(Quoting[k - 1], content[k])

LEMMA QuotingDef ==
    ASSUME Typed
    PROVE  QuotingIs
<1> DEFINE n == Len(content)
           F == [x \in Marks \X (1 .. n) |-> Turn(x[1], content[x[2]])]
           Def(f) == [k \in 0 .. n |-> IF k = 0 THEN NUL ELSE Turn(f[k - 1], content[k])]
<1>1. n \in Nat
  BY LineLength
<1>2. F \in [Marks \X (1 .. n) -> Marks]
  BY DEF Turn, Marks
<1>3. PICK g \in [0 .. n -> Marks] : Follows(g, NUL, n, F)
  <2>1. NUL \in Marks
    BY DEF Marks
  <2> HIDE DEF F, n
  <2> QED BY <1>1, <1>2, <2>1, Recursion
<1>4. \A k \in 1 .. n : g[k] = Turn(g[k - 1], content[k])
  <2> SUFFICES ASSUME NEW k \in 1 .. n PROVE g[k] = Turn(g[k - 1], content[k])
    OBVIOUS
  <2>1. g[k - 1] \in Marks
    BY <1>1
  <2>2. F[<< g[k - 1], k >>] = Turn(g[k - 1], content[k])
    BY <2>1
  <2> QED BY <1>3, <2>2 DEF Follows
<1>5. g = Def(g)
  <2>1. g[0] = NUL
    BY <1>3 DEF Follows
  <2> HIDE DEF F
  <2> QED BY <1>4, <2>1
<1>6. Quoting = CHOOSE f : f = Def(f)
  BY DEF Quoting, Turn
<1>7. Quoting = Def(Quoting)
  <2> HIDE DEF Def
  <2> QED BY <1>5, <1>6
<1>8. \A k \in 0 .. n : Quoting[k] = IF k = 0 THEN NUL ELSE Turn(Quoting[k - 1], content[k])
  BY <1>7
<1> DEFINE T == { k \in 0 .. n : Quoting[k] \in Marks }
<1>9. 0 \in T
  BY <1>1, <1>8 DEF Marks
<1>10. ASSUME NEW k \in 1 .. n, k - 1 \in T PROVE k \in T
  <2>1. Quoting[k] = Turn(Quoting[k - 1], content[k])
    BY <1>1, <1>8
  <2> QED BY <1>1, <1>10, <2>1 DEF Turn, Marks
<1>11. 0 .. n \subseteq T
  <2> HIDE DEF T, n
  <2> QED BY <1>1, <1>9, <1>10, Upto
<1>12. Quoting \in [0 .. n -> Marks]
  BY <1>7, <1>11
<1> QED BY <1>1, <1>8, <1>12 DEF QuotingIs

\* Where no quote stands, nothing opens.
LEMMA NothingOpens ==
    ASSUME Typed, NEW a \in 1 .. Len(content) + 1, NEW b \in a - 1 .. Len(content),
           Quoting[a - 1] = NUL, \A k \in a .. b : content[k] \notin Quotes
    PROVE  \A k \in a - 1 .. b : Quoting[k] = NUL
<1> DEFINE T == { m \in 0 .. b - (a - 1) : Quoting[a - 1 + m] = NUL }
           w == b - (a - 1)
<1>1. Len(content) \in Nat /\ a \in Nat /\ a >= 1 /\ b \in Int /\ w \in Nat
  BY LineLength
<1>2. 0 \in T
  BY <1>1
<1>3. ASSUME NEW m \in 1 .. w, m - 1 \in T PROVE m \in T
  <2>1. Quoting[a - 1 + m] = Turn(Quoting[a - 1 + m - 1], content[a - 1 + m])
    <3>1. a - 1 + m \in 1 .. Len(content)
      BY <1>1
    <3> QED BY <3>1, QuotingDef DEF QuotingIs
  <2>2. Quoting[a - 1 + m - 1] = NUL /\ a - 1 + m \in a .. b
    <3>1. a - 1 + (m - 1) = a - 1 + m - 1
      BY <1>1
    <3> QED BY <1>1, <1>3, <3>1
  <2> QED BY <2>1, <2>2 DEF Turn
<1>4. 0 .. w \subseteq T
  <2> HIDE DEF T, w
  <2> QED BY <1>1, <1>2, <1>3, Upto
<1> SUFFICES ASSUME NEW k \in a - 1 .. b PROVE Quoting[k] = NUL
  OBVIOUS
<1>5. k - (a - 1) \in 0 .. w /\ a - 1 + (k - (a - 1)) = k
  BY <1>1
<1>6. k - (a - 1) \in T
  BY <1>4, <1>5
<1> QED BY <1>5, <1>6

\* A quote that opened stays open where it does not stand again.
LEMMA StaysOpen ==
    ASSUME Typed, NEW q \in Quotes, NEW a \in 1 .. Len(content), NEW b \in a .. Len(content),
           Quoting[a] = q, \A k \in a + 1 .. b : content[k] # q
    PROVE  \A k \in a .. b : Quoting[k] = q
<1> DEFINE T == { m \in 0 .. b - a : Quoting[a + m] = q }
           w == b - a
<1>1. Len(content) \in Nat /\ a \in Nat /\ b \in Nat /\ w \in Nat
  BY LineLength
<1>2. 0 \in T
  BY <1>1
<1>3. ASSUME NEW m \in 1 .. w, m - 1 \in T PROVE m \in T
  <2>1. Quoting[a + m] = Turn(Quoting[a + m - 1], content[a + m])
    <3>1. a + m \in 1 .. Len(content)
      BY <1>1
    <3> QED BY <3>1, QuotingDef DEF QuotingIs
  <2>2. Quoting[a + m - 1] = q /\ a + m \in a + 1 .. b
    <3>1. a + (m - 1) = a + m - 1
      BY <1>1
    <3> QED BY <1>1, <1>3, <3>1
  <2>3. q # NUL
    BY DEF Quotes, NUL
  <2> QED BY <2>1, <2>2, <2>3 DEF Turn
<1>4. 0 .. w \subseteq T
  <2> HIDE DEF T, w
  <2> QED BY <1>1, <1>2, <1>3, Upto
<1> SUFFICES ASSUME NEW k \in a .. b PROVE Quoting[k] = q
  OBVIOUS
<1>5. k - a \in 0 .. w /\ a + (k - a) = k
  BY <1>1
<1>6. k - a \in T
  BY <1>4, <1>5
<1> QED BY <1>5, <1>6

BadChars == { ";", "\\" }

\* Position i belongs to a token that begins with a quote.
Covered(i) == \E k \in 1 .. Len(tokens) :
                 i \in tokens[k].from .. tokens[k].to /\ content[tokens[k].from] \in Quotes

IsBad == \E k \in 1 .. Len(tokens) : tokens[k].type = "INVALID"

BadIn(a, b) == \E i \in a .. b : ~QuotedAt(i) /\ content[i] \in BadChars

\* QuotesProtect, for the part of the line that has been read.
QuoteInv ==
    /\ \A k \in 1 .. Len(tokens) : tokens[k].to < cursor
    /\ \A i \in 1 .. cursor - 1 : QuotedAt(i) <=> Covered(i)
    /\ Quoting[cursor - 1] # NUL => cursor > Len(content)
    /\ IsBad <=> Quoting[cursor - 1] # NUL \/ BadIn(1, cursor - 1)

\* What a handler makes of the characters its token covers.
QuotesOK(type, to) ==
    /\ to >= cursor - 1
    /\ \A i \in cursor .. to : QuotedAt(i) <=> i >= Trimmed /\ content[Trimmed] \in Quotes
    /\ Quoting[to] # NUL => to = Len(content)
    /\ type = "INVALID" <=> Quoting[to] # NUL \/ BadIn(cursor, to)

LEMMA NoneOpen ==
    ASSUME LexInv, QuoteInv, Scanning
    PROVE  Quoting[cursor - 1] = NUL
<1>1. CASE cursor <= Len(content)
  <2>1. cursor \in 1 .. Len(content) + 1 /\ Len(content) \in Nat
    BY LineLength DEF LexInv, Typed
  <2> QED BY <1>1, <2>1 DEF QuoteInv
<1>2. CASE tokens = << >>
  <2>1. LastEnd = 0
    BY <1>2, EmptySeq DEF LastEnd, EndBefore
  <2>2. cursor = 1
    BY <2>1 DEF LexInv, Behind
  <2>3. Quoting[0] = NUL
    BY QuotingDef DEF LexInv, QuotingIs
  <2> QED BY <2>2, <2>3
<1> QED BY <1>1, <1>2 DEF Scanning

LEMMA EmitQuotes ==
    ASSUME LexInv, QuoteInv, Scanning, NEW type, NEW wp, NEW to,
           EmitOK(type, wp, to), QuotesOK(type, to), Emit(type, wp, to)
    PROVE  QuoteInv'
<1>0. PICK n, c : n = Len(tokens) /\ c = cursor
  OBVIOUS
<1> DEFINE t == [type |-> type, wp |-> wp, from |-> Trimmed, to |-> to]
<1>1. /\ Typed /\ n \in Nat /\ Len(content) \in Nat /\ c \in 1 .. Len(content) + 1
      /\ tokens \in Seq(TokenRecords) /\ to \in 0 .. Len(content)
      /\ \A k \in 1 .. n : tokens[k] \in TokenRecords
      /\ Trimmed \in c .. Len(content) + 1
  <2>1. Typed
    BY DEF LexInv
  <2>2. /\ n \in Nat /\ Len(content) \in Nat
        /\ \A k \in 1 .. n : tokens[k] \in TokenRecords
    BY <1>0, <2>1, LineLength
  <2>3. Trimmed \in c .. Len(content) + 1
    BY <1>0, <2>1, TrimFound
  <2> QED BY <1>0, <2>1, <2>2, <2>3 DEF Typed, EmitOK
<1>2. /\ content' = content /\ cursor' = to + 1 /\ tokens' = Append(tokens, t)
  BY DEF Emit
<1> DEFINE from == Trimmed
<1>3. t \in TokenRecords /\ t.from = from /\ t.to = to /\ t.type = type
  BY <1>1 DEF EmitOK, TokenRecords
<1> HIDE DEF t, from
<1>4. /\ Len(tokens') = n + 1 /\ tokens'[n + 1] = t
      /\ \A k \in 1 .. n : tokens'[k] = tokens[k]
  BY <1>0, <1>1, <1>2, <1>3, AppendProperties
<1>5. Quoting' = Quoting /\ \A i : QuotedAt(i)' = QuotedAt(i)
  BY <1>2 DEF Quoting, QuotedAt
<1>6. to >= c - 1
  BY <1>0 DEF QuotesOK
<1>7. \A k \in 1 .. n + 1 : k \in 1 .. n \/ k = n + 1
  BY <1>1
<1>8. n + 1 \in 1 .. n + 1 /\ \A k \in 1 .. n : k \in 1 .. n + 1
  BY <1>1
<1>9. \A k \in 1 .. n + 1 : tokens'[k].to < cursor'
  <2>1. \A k \in 1 .. n : tokens[k].to < c
    BY <1>0 DEF QuoteInv
  <2>2. \A k \in 1 .. n : tokens[k].to < to + 1
    <3> SUFFICES ASSUME NEW k \in 1 .. n PROVE tokens[k].to < to + 1
      OBVIOUS
    <3>1. tokens[k].to \in 0 .. Len(content) /\ tokens[k].to < c
      BY <1>1, <2>1 DEF TokenRecords
    <3> QED BY <1>1, <1>6, <3>1
  <2>3. t.to < to + 1
    BY <1>1, <1>3
  <2> QED BY <1>2, <1>4, <1>7, <2>2, <2>3, Zenon
<1>10. \A i : Covered(i)' <=> Covered(i) \/ (i \in from .. to /\ content[from] \in Quotes)
  <2> SUFFICES ASSUME NEW i
               PROVE  Covered(i)' <=> Covered(i) \/ (i \in from .. to /\ content[from] \in Quotes)
    OBVIOUS
  <2> DEFINE P(u) == i \in u.from .. u.to /\ content[u.from] \in Quotes
  <2>1. Covered(i)' <=> \E k \in 1 .. n + 1 : P(tokens'[k])
    BY <1>2, <1>4 DEF Covered
  <2>2. Covered(i) <=> \E k \in 1 .. n : P(tokens[k])
    BY <1>0 DEF Covered
  <2>3. P(t) <=> i \in from .. to /\ content[from] \in Quotes
    BY <1>3
  <2> HIDE DEF P
  <2>4. (\E k \in 1 .. n + 1 : P(tokens'[k])) <=> (\E k \in 1 .. n : P(tokens[k])) \/ P(t)
    BY <1>4, <1>7, <1>8, Zenon
  <2> QED BY <2>1, <2>2, <2>3, <2>4
<1>11. \A i : Covered(i) => i < c
  <2> SUFFICES ASSUME NEW i, NEW k \in 1 .. n, i \in tokens[k].from .. tokens[k].to
               PROVE  i < c
    BY <1>0 DEF Covered
  <2>1. tokens[k].from \in Nat /\ tokens[k].to \in Nat /\ tokens[k].to < c
    BY <1>0, <1>1 DEF QuoteInv, TokenRecords
  <2> QED BY <1>1, <2>1
<1>12. ASSUME NEW i \in 1 .. to PROVE QuotedAt(i) <=> Covered(i)'
  <2>1. CASE i < c
    <3>1. QuotedAt(i) <=> Covered(i)
      <4>1. i \in 1 .. cursor - 1
        BY <1>0, <1>1, <2>1
      <4> QED BY <4>1 DEF QuoteInv
    <3>2. ~(i \in from .. to)
      BY <1>1, <2>1 DEF from
    <3> QED BY <1>10, <3>1, <3>2
  <2>2. CASE i >= c
    <3>1. QuotedAt(i) <=> i >= from /\ content[from] \in Quotes
      <4>1. i \in cursor .. to
        BY <1>0, <1>1, <2>2
      <4> QED BY <4>1 DEF QuotesOK, from
    <3>2. i >= from <=> i \in from .. to
      BY <1>1 DEF from
    <3>3. ~Covered(i)
      BY <1>1, <1>11, <2>2
    <3> QED BY <1>10, <3>1, <3>2, <3>3
  <2> QED BY <1>1, <2>1, <2>2
<1>13. Quoting[to] # NUL => to + 1 > Len(content)
  BY <1>1 DEF QuotesOK
<1>14. IsBad' <=> IsBad \/ type = "INVALID"
  <2>1. IsBad' <=> \E k \in 1 .. n + 1 : tokens'[k].type = "INVALID"
    BY <1>4 DEF IsBad
  <2>2. IsBad <=> \E k \in 1 .. n : tokens[k].type = "INVALID"
    BY <1>0 DEF IsBad
  <2> QED BY <1>3, <1>4, <1>7, <1>8, <2>1, <2>2, Zenon
<1>15. BadIn(1, to) <=> BadIn(1, c - 1) \/ BadIn(c, to)
  <2>1. \A i \in 1 .. to : i \in 1 .. c - 1 \/ i \in c .. to
    BY <1>1
  <2>2. \A i \in 1 .. c - 1 : i \in 1 .. to
    BY <1>1, <1>6
  <2>3. \A i \in c .. to : i \in 1 .. to
    BY <1>1
  <2> QED BY <2>1, <2>2, <2>3, Zenon DEF BadIn
<1>16. IsBad' <=> Quoting[to] # NUL \/ BadIn(1, to)
  <2>1. IsBad <=> BadIn(1, c - 1)
    BY <1>0, NoneOpen DEF QuoteInv
  <2>2. type = "INVALID" <=> Quoting[to] # NUL \/ BadIn(c, to)
    BY <1>0 DEF QuotesOK
  <2> QED BY <1>14, <1>15, <2>1, <2>2
<1>17. BadIn(1, cursor - 1)' = BadIn(1, to)
  <2>1. cursor' - 1 = to
    BY <1>1, <1>2
  <2>2. BadIn(1, cursor - 1)' = \E i \in 1 .. cursor' - 1 : ~QuotedAt(i)' /\ content'[i] \in BadChars
    BY DEF BadIn, BadChars
  <2>3. BadIn(1, cursor - 1)' = \E i \in 1 .. to : ~QuotedAt(i) /\ content[i] \in BadChars
    BY <1>2, <1>5, <2>1, <2>2
  <2> QED BY <2>3 DEF BadIn
<1>18. cursor' - 1 = to
  BY <1>1, <1>2
<1>19. \A i \in 1 .. cursor' - 1 : QuotedAt(i)' <=> Covered(i)'
  BY <1>5, <1>12, <1>18
<1> QED BY <1>2, <1>4, <1>5, <1>9, <1>13, <1>16, <1>17, <1>18, <1>19, Zenon DEF QuoteInv

\* A token without quotes, and the spaces before it.
LEMMA PlainOK ==
    ASSUME LexInv, QuoteInv, Scanning, NEW type, NEW to \in cursor - 1 .. Len(content),
           \A i \in cursor .. to : content[i] \notin Quotes,
           type = "INVALID" <=> \E i \in cursor .. to : content[i] \in BadChars
    PROVE  QuotesOK(type, to)
<1>1. /\ Typed /\ Len(content) \in Nat /\ cursor \in 1 .. Len(content) + 1
      /\ Trimmed \in cursor .. Len(content) + 1
  BY LineLength, TrimFound DEF LexInv, Typed
<1>2. \A k \in cursor - 1 .. to : Quoting[k] = NUL
  BY <1>1, NoneOpen, NothingOpens
<1>3. \A i \in cursor .. to : ~QuotedAt(i)
  <2> SUFFICES ASSUME NEW i \in cursor .. to PROVE ~QuotedAt(i)
    OBVIOUS
  <2>1. i \in cursor - 1 .. to /\ i - 1 \in cursor - 1 .. to
    BY <1>1
  <2> QED BY <1>2, <2>1 DEF QuotedAt
<1>4. \A i \in cursor .. to : i >= Trimmed => content[Trimmed] \notin Quotes
  <2> SUFFICES ASSUME NEW i \in cursor .. to, i >= Trimmed PROVE content[Trimmed] \notin Quotes
    OBVIOUS
  <2>1. Trimmed \in cursor .. to
    BY <1>1
  <2> QED BY <2>1
<1>5. to >= cursor - 1 /\ Quoting[to] = NUL
  <2>1. to \in cursor - 1 .. to /\ to >= cursor - 1
    BY <1>1
  <2> QED BY <1>2, <2>1
<1>6. type = "INVALID" <=> Quoting[to] # NUL \/ BadIn(cursor, to)
  BY <1>3, <1>5 DEF BadIn
<1> QED BY <1>3, <1>4, <1>5, <1>6 DEF QuotesOK

LEMMA QuotesKeptByEnd ==
    ASSUME LexInv, QuoteInv, HandleEnd
    PROVE  QuoteInv'
<1>1. /\ Typed /\ Len(content) \in Nat /\ cursor \in 1 .. Len(content) + 1
      /\ Trimmed \in cursor .. Len(content) + 1 /\ Len(tokens) \in Nat
      /\ \A k \in cursor .. Trimmed - 1 : content[k] \in Spaces
      /\ \A k \in 1 .. Len(tokens) : tokens[k] \in TokenRecords
  BY LineLength, TrimFound DEF LexInv, Typed
<1>2. Scanning /\ Trimmed = Len(content) + 1
  BY <1>1 DEF HandleEnd
<1>3. \A k \in cursor .. Len(content) : content[k] \in Spaces
  <2>1. Trimmed - 1 = Len(content)
    BY <1>1, <1>2
  <2> QED BY <1>1, <2>1
<1>4. Len(content) \in cursor - 1 .. Len(content)
  BY <1>1
<1>5. QuotesOK("END", Len(content))
  <2>1. \A i \in cursor .. Len(content) : content[i] \notin Quotes /\ content[i] \notin BadChars
    BY <1>3 DEF Quotes, BadChars, Spaces
  <2> QED BY <1>2, <1>4, <2>1, PlainOK
<1>6. CASE tokens = << >> /\ Emit("END", Wp, Len(content))
  <2>1. EmitOK("END", Wp, Len(content))
    BY <1>1, <1>6 DEF EmitOK, TokenTypes, WordTypes, Wp
  <2> QED BY <1>2, <1>5, <1>6, <2>1, EmitQuotes
<1>7. CASE tokens # << >> /\ cursor' = Trimmed /\ UNCHANGED << content, tokens >>
  <2>0. PICK c, l : c = cursor /\ l = Len(content)
    OBVIOUS
  <2>1. Quoting' = Quoting /\ \A i : QuotedAt(i)' = QuotedAt(i)
    BY <1>7 DEF Quoting, QuotedAt
  <2>2. \A i : Covered(i)' = Covered(i)
    BY <1>7 DEF Covered
  <2>3. cursor' - 1 = l
    BY <1>1, <1>2, <1>7, <2>0
  <2>4. Quoting[l] = NUL /\ ~BadIn(c, l)
    BY <1>5, <2>0 DEF QuotesOK
  <2>5. \A k \in 1 .. Len(tokens) : tokens[k].to < c
    BY <2>0 DEF QuoteInv
  <2>6. \A k \in 1 .. Len(tokens') : tokens'[k].to < cursor'
    <3> SUFFICES ASSUME NEW k \in 1 .. Len(tokens) PROVE tokens[k].to < Trimmed
      BY <1>7
    <3>1. tokens[k].to \in 0 .. Len(content) /\ tokens[k].to < cursor
      BY <1>1, <2>0, <2>5 DEF TokenRecords
    <3> QED BY <1>1, <3>1
  <2>7. ASSUME NEW i \in 1 .. l PROVE QuotedAt(i) <=> Covered(i)
    <3>1. CASE i < c
      <4>1. i \in 1 .. cursor - 1
        BY <1>1, <2>0, <3>1
      <4> QED BY <4>1 DEF QuoteInv
    <3>2. CASE i >= c
      <4>1. ~QuotedAt(i)
        <5>1. i \in cursor .. Len(content) /\ ~(i >= Trimmed)
          BY <1>1, <1>2, <2>0, <3>2
        <5> QED BY <1>5, <5>1 DEF QuotesOK
      <4>2. ~Covered(i)
        <5> SUFFICES ASSUME NEW k \in 1 .. Len(tokens), i \in tokens[k].from .. tokens[k].to
                     PROVE  FALSE
          BY DEF Covered
        <5>1. tokens[k].from \in Nat /\ tokens[k].to \in Nat /\ tokens[k].to < c
          BY <1>1, <2>5 DEF TokenRecords
        <5> QED BY <1>1, <2>0, <3>2, <5>1
      <4> QED BY <4>1, <4>2
    <3> QED BY <1>1, <2>0, <3>1, <3>2
  <2>8. IsBad <=> BadIn(1, l)
    <3>1. IsBad <=> BadIn(1, c - 1)
      BY <1>2, <2>0, NoneOpen DEF QuoteInv
    <3>2. \A i \in 1 .. l : i \in 1 .. c - 1 \/ i \in c .. l
      BY <1>1, <2>0
    <3>3. \A i \in 1 .. c - 1 : i \in 1 .. l
      BY <1>1, <2>0
    <3> QED BY <2>4, <3>1, <3>2, <3>3, Zenon DEF BadIn
  <2>9. IsBad' = IsBad
    BY <1>7 DEF IsBad
  <2>10. BadIn(1, cursor - 1)' = BadIn(1, l)
    <3>1. BadIn(1, cursor - 1)' = \E i \in 1 .. cursor' - 1 : ~QuotedAt(i)' /\ content'[i] \in BadChars
      BY DEF BadIn, BadChars
    <3>2. BadIn(1, cursor - 1)' = \E i \in 1 .. l : ~QuotedAt(i) /\ content[i] \in BadChars
      BY <1>7, <2>1, <2>3, <3>1
    <3> QED BY <3>2 DEF BadIn
  <2>11. \A i \in 1 .. cursor' - 1 : QuotedAt(i)' <=> Covered(i)'
    BY <2>1, <2>2, <2>3, <2>7
  <2>12. Quoting'[cursor' - 1] = NUL
    BY <2>1, <2>3, <2>4
  <2> QED BY <2>6, <2>8, <2>9, <2>10, <2>11, <2>12, Zenon DEF QuoteInv
<1> QED BY <1>6, <1>7 DEF HandleEnd

LEMMA QuotesKeptByDouble ==
    ASSUME LexInv, QuoteInv, NEW c \in { ">", "<" }, NEW type \in { "APPEND", "HEREDOC" },
           HandleDouble(c, type)
    PROVE  QuoteInv'
<1>1. /\ Typed /\ Len(content) \in Nat /\ cursor \in 1 .. Len(content) + 1
      /\ Trimmed \in cursor .. Len(content) + 1
      /\ \A k \in cursor .. Trimmed - 1 : content[k] \in Spaces
  BY LineLength, TrimFound DEF LexInv, Typed
<1>2. /\ Trimmed \in 1 .. Len(content) /\ Trimmed + 1 \in 1 .. Len(content)
      /\ content[Trimmed] = c /\ content[Trimmed + 1] = c
  <2>1. At(Trimmed) # NUL /\ At(Trimmed + 1) # NUL /\ At(Trimmed) = c /\ At(Trimmed + 1) = c
    BY DEF HandleDouble, NUL
  <2> QED BY <1>1, <2>1, Reads
<1>3. PICK any \in BOOLEAN : Emit(type, any, Trimmed + 1)
  BY DEF HandleDouble
<1>4. EmitOK(type, any, Trimmed + 1)
  BY <1>1, <1>2 DEF EmitOK, TokenTypes, Operators, RedirTypes, WordTypes
<1>5. Scanning
  BY DEF HandleDouble
<1>6. \A i \in cursor .. Trimmed + 1 : content[i] \in Spaces \/ content[i] = c
  <2> SUFFICES ASSUME NEW i \in cursor .. Trimmed + 1 PROVE content[i] \in Spaces \/ content[i] = c
    OBVIOUS
  <2>1. i \in cursor .. Trimmed - 1 \/ i = Trimmed \/ i = Trimmed + 1
    BY <1>1
  <2> QED BY <1>1, <1>2, <2>1
<1>7. \A i \in cursor .. Trimmed + 1 : content[i] \notin Quotes /\ content[i] \notin BadChars
  BY <1>6 DEF Quotes, BadChars, Spaces
<1>8. Trimmed + 1 \in cursor - 1 .. Len(content)
  BY <1>1, <1>2
<1>9. QuotesOK(type, Trimmed + 1)
  BY <1>5, <1>7, <1>8, PlainOK
<1> QED BY <1>3, <1>4, <1>5, <1>9, EmitQuotes

LEMMA QuotesKeptByWord ==
    ASSUME LexInv, QuoteInv, HandleWord
    PROVE  QuoteInv'
<1> DEFINE end == FirstIn(Trimmed, OperatorChars)
<1>1. /\ Typed /\ Len(content) \in Nat /\ cursor \in 1 .. Len(content) + 1
      /\ Trimmed \in cursor .. Len(content) + 1
      /\ DOMAIN content = 1 .. Len(content)
      /\ \A k \in cursor .. Trimmed - 1 : content[k] \in Spaces
  BY LineLength, TrimFound DEF LexInv, Typed
<1>2. /\ end \in Trimmed .. Len(content) + 1
      /\ end <= Len(content) => content[end] \in OperatorChars
      /\ \A k \in Trimmed .. end - 1 : content[k] \notin OperatorChars
  <2>1. Trimmed \in 1 .. Len(content) + 1
    BY <1>1
  <2> QED BY <1>1, <2>1, FirstFound
<1> HIDE DEF end
<1>3. Trimmed \in 1 .. Len(content) /\ content[Trimmed] \notin OperatorChars
  <2>1. At(Trimmed) # NUL /\ At(Trimmed) \notin OperatorChars
    BY DEF HandleWord
  <2> QED BY <1>1, <2>1, Reads
<1>4. end > Trimmed
  BY <1>1, <1>2, <1>3
<1>5. At(end - 1 + 1) \in OperatorChars \cup { NUL }
  BY <1>1, <1>2 DEF At
<1>6. EmitOK("WORD", Wp, end - 1)
  <2>1. end - 1 \in 0 .. Len(content) /\ Trimmed <= end - 1
    BY <1>1, <1>2, <1>3, <1>4
  <2> QED BY <1>2, <1>5, <2>1 DEF EmitOK, TokenTypes, WordTypes, Wp
<1>7. Scanning /\ Emit("WORD", Wp, end - 1)
  BY DEF HandleWord, end
<1>8. \A i \in cursor .. end - 1 : content[i] \in Spaces \/ content[i] \notin OperatorChars
  <2> SUFFICES ASSUME NEW i \in cursor .. end - 1
               PROVE  content[i] \in Spaces \/ content[i] \notin OperatorChars
    OBVIOUS
  <2>1. i \in cursor .. Trimmed - 1 \/ i \in Trimmed .. end - 1
    BY <1>1, <1>2
  <2> QED BY <1>1, <1>2, <2>1
<1>9. \A i \in cursor .. end - 1 : content[i] \notin Quotes /\ content[i] \notin BadChars
  BY <1>8 DEF Quotes, BadChars, Spaces, OperatorChars
<1>10. end - 1 \in cursor - 1 .. Len(content)
  BY <1>1, <1>2, <1>4
<1>11. QuotesOK("WORD", end - 1)
  BY <1>7, <1>9, <1>10, PlainOK
<1> QED BY <1>6, <1>7, <1>11, EmitQuotes

LEMMA QuotesKeptByOther ==
    ASSUME LexInv, QuoteInv, HandleOther
    PROVE  QuoteInv'
<1> DEFINE type == TypeOfChar(At(Trimmed))
<1>1. /\ Typed /\ Len(content) \in Nat /\ cursor \in 1 .. Len(content) + 1
      /\ Trimmed \in cursor .. Len(content) + 1
      /\ \A k \in cursor .. Trimmed - 1 : content[k] \in Spaces
  BY LineLength, TrimFound DEF LexInv, Typed
<1>2. Trimmed \in 1 .. Len(content) /\ content[Trimmed] \in { "|", ">", "<", ";", "\\" }
      /\ At(Trimmed) = content[Trimmed]
  <2>1. At(Trimmed) # NUL /\ At(Trimmed) \in { "|", ">", "<", ";", "\\" }
    BY DEF HandleOther, NUL
  <2> QED BY <1>1, <2>1, Reads
<1>3. /\ type \in { "PIPE", "REDIRECT_OUT", "REDIRECT_IN", "INVALID" }
      /\ type = "INVALID" <=> content[Trimmed] \in BadChars
  BY <1>2 DEF TypeOfChar, BadChars
<1>4. Scanning /\ Emit(type, FALSE, Trimmed)
  BY DEF HandleOther
<1> HIDE DEF type
<1>11. Trimmed \in Nat /\ Trimmed \in 0 .. Len(content) /\ Trimmed <= Trimmed
  <2>1. Trimmed \in 1 .. Len(content)
    BY <1>2
  <2> QED BY <1>1, <2>1
<1>5. EmitOK(type, FALSE, Trimmed)
  BY <1>3, <1>11 DEF EmitOK, TokenTypes, Operators, RedirTypes, WordTypes
<1>6. \A i \in cursor .. Trimmed : content[i] \in Spaces \/ i = Trimmed
  <2>1. \A i \in cursor .. Trimmed : i \in cursor .. Trimmed - 1 \/ i = Trimmed
    BY <1>1
  <2> QED BY <1>1, <2>1
<1>7. Trimmed \in cursor .. Trimmed /\ Trimmed \in cursor - 1 .. Len(content)
  <2>1. Trimmed \in cursor .. Len(content) + 1 /\ cursor \in 1 .. Len(content) + 1
    BY <1>1
  <2> QED BY <1>1, <1>11, <2>1
<1>8. \A i \in cursor .. Trimmed : content[i] \notin Quotes
  BY <1>2, <1>6 DEF Quotes, Spaces
<1>9. type = "INVALID" <=> \E i \in cursor .. Trimmed : content[i] \in BadChars
  BY <1>3, <1>6, <1>7 DEF Spaces, BadChars
<1>10. QuotesOK(type, Trimmed)
  BY <1>4, <1>7, <1>8, <1>9, PlainOK
<1> QED BY <1>4, <1>5, <1>10, EmitQuotes

\* What a quoted string is: from the first position of the token to close,
\* where the line ends if the quote does not.
QuoteSpan(q, type, from, close) ==
    /\ from = Trimmed /\ from \in 1 .. Len(content) /\ content[from] = q
    /\ close \in from + 1 .. Len(content) + 1
    /\ close <= Len(content) => content[close] = q /\ Quoting[close] = NUL
    /\ \A k \in cursor - 1 .. from - 1 : Quoting[k] = NUL
    /\ \A k \in from .. close - 1 : Quoting[k] = q
    /\ \/ close <= Len(content) /\ Emit(type, Wp, close)
       \/ close > Len(content) /\ Emit("INVALID", Wp, Len(content))

LEMMA QuoteSpans ==
    ASSUME LexInv, QuoteInv, NEW q \in Quotes, NEW type, HandleQuote(q, type)
    PROVE  \E from, close : QuoteSpan(q, type, from, close)
<1> DEFINE close == FirstIn(Trimmed + 1, { q })
<1>1. /\ Typed /\ Len(content) \in Nat /\ cursor \in 1 .. Len(content) + 1
      /\ Trimmed \in cursor .. Len(content) + 1
      /\ \A k \in cursor .. Trimmed - 1 : content[k] \in Spaces
  BY LineLength, TrimFound DEF LexInv, Typed
<1>2. Trimmed \in 1 .. Len(content) /\ content[Trimmed] = q
  <2>1. At(Trimmed) = q /\ At(Trimmed) # NUL
    BY DEF HandleQuote, Quotes, NUL
  <2> QED BY <1>1, <2>1, Reads
<1>3. /\ close \in Trimmed + 1 .. Len(content) + 1
      /\ close <= Len(content) => content[close] = q
      /\ \A k \in Trimmed + 1 .. close - 1 : content[k] # q
  <2>1. Trimmed + 1 \in 1 .. Len(content) + 1
    BY <1>1, <1>2
  <2>2. /\ close \in Trimmed + 1 .. Len(content) + 1
        /\ close <= Len(content) => content[close] \in { q }
        /\ \A k \in Trimmed + 1 .. close - 1 : content[k] \notin { q }
    BY <1>1, <2>1, FirstFound
  <2> HIDE DEF close
  <2> QED BY <2>2
<1> HIDE DEF close
<1>4. Scanning /\ \/ close <= Len(content) /\ Emit(type, Wp, close)
                  \/ close > Len(content) /\ Emit("INVALID", Wp, Len(content))
  BY DEF HandleQuote, close
<1>5. PICK from : from = Trimmed
  OBVIOUS
<1>6. from \in Nat /\ close \in Nat /\ from >= 1 /\ from < close
  BY <1>1, <1>2, <1>3, <1>5
<1>7. \A k \in cursor - 1 .. from - 1 : Quoting[k] = NUL
  <2>1. \A k \in cursor .. from - 1 : content[k] \notin Quotes
    BY <1>1, <1>5 DEF Quotes, Spaces
  <2>2. from - 1 \in cursor - 1 .. Len(content)
    BY <1>1, <1>5
  <2> QED BY <1>1, <1>4, <2>1, <2>2, NoneOpen, NothingOpens
<1>8. Quoting[from] = q
  <2>1. Quoting[from - 1] = NUL
    <3>1. from - 1 \in cursor - 1 .. from - 1
      BY <1>1, <1>5
    <3> QED BY <1>7, <3>1
  <2>2. Quoting[from] = Turn(Quoting[from - 1], content[from])
    BY <1>1, <1>2, <1>5, QuotingDef DEF QuotingIs
  <2> QED BY <1>2, <1>5, <2>1, <2>2 DEF Turn
<1>9. \A k \in from .. close - 1 : Quoting[k] = q
  <2>1. close - 1 \in from .. Len(content) /\ from \in 1 .. Len(content)
    BY <1>1, <1>2, <1>3, <1>5
  <2>2. \A k \in from + 1 .. close - 1 : content[k] # q
    BY <1>3, <1>5
  <2> QED BY <1>1, <1>8, <2>1, <2>2, StaysOpen
<1>10. close <= Len(content) => Quoting[close] = NUL
  <2> SUFFICES ASSUME close <= Len(content) PROVE Quoting[close] = NUL
    OBVIOUS
  <2>1. Quoting[close] = Turn(Quoting[close - 1], content[close])
    <3>1. close \in 1 .. Len(content)
      BY <1>1, <1>6
    <3> QED BY <1>1, <3>1, QuotingDef DEF QuotingIs
  <2>2. Quoting[close - 1] = q /\ q # NUL
    <3>1. close - 1 \in from .. close - 1
      BY <1>6
    <3> QED BY <1>9, <3>1 DEF Quotes, NUL
  <2> QED BY <1>3, <2>1, <2>2 DEF Turn
<1>11. from \in 1 .. Len(content) /\ content[from] = q /\ close \in from + 1 .. Len(content) + 1
  BY <1>2, <1>3, <1>5
<1> QED BY <1>3, <1>4, <1>5, <1>7, <1>9, <1>10, <1>11 DEF QuoteSpan

LEMMA QuotesKeptByQuote ==
    ASSUME LexInv, QuoteInv, NEW q \in Quotes, NEW type \in { "SQUOTE", "DQUOTE" },
           HandleQuote(q, type)
    PROVE  QuoteInv'
<1>1. /\ Typed /\ Len(content) \in Nat /\ cursor \in 1 .. Len(content) + 1
      /\ Trimmed \in cursor .. Len(content) + 1
      /\ \A k \in cursor .. Trimmed - 1 : content[k] \in Spaces
  BY LineLength, TrimFound DEF LexInv, Typed
<1>2. PICK from, close : QuoteSpan(q, type, from, close)
  BY QuoteSpans
<1>3. /\ close \in Trimmed + 1 .. Len(content) + 1 /\ from = Trimmed
      /\ Trimmed \in 1 .. Len(content) /\ content[Trimmed] = q
      /\ close <= Len(content) => Quoting[close] = NUL
  BY <1>2 DEF QuoteSpan
<1>4. Scanning /\ \/ close <= Len(content) /\ Emit(type, Wp, close)
                  \/ close > Len(content) /\ Emit("INVALID", Wp, Len(content))
  BY <1>2 DEF HandleQuote, QuoteSpan
<1>6. from \in Nat /\ close \in Nat /\ from >= 1 /\ from < close
  BY <1>1, <1>3
<1>7. \A k \in cursor - 1 .. from - 1 : Quoting[k] = NUL
  BY <1>2 DEF QuoteSpan
<1>9. \A k \in from .. close - 1 : Quoting[k] = q
  BY <1>2 DEF QuoteSpan
<1>10. q # NUL /\ q \in Quotes /\ q \notin BadChars
  BY DEF Quotes, NUL, BadChars
<1>11. \A i \in cursor .. from - 1 : ~QuotedAt(i)
  <2> SUFFICES ASSUME NEW i \in cursor .. from - 1 PROVE ~QuotedAt(i)
    OBVIOUS
  <2>1. i \in cursor - 1 .. from - 1 /\ i - 1 \in cursor - 1 .. from - 1
    BY <1>1, <1>6
  <2> QED BY <1>7, <2>1 DEF QuotedAt
<1>12. \A i \in from .. close - 1 : QuotedAt(i)
  BY <1>9, <1>10 DEF QuotedAt
<1>13. QuotedAt(close)
  <2>1. close - 1 \in from .. close - 1
    BY <1>6
  <2> QED BY <1>9, <1>10, <2>1 DEF QuotedAt
\* What holds of a token that ends at the closing quote or before it.
<1>14. ASSUME NEW to \in from .. close, to <= Len(content)
       PROVE  /\ to >= cursor - 1
              /\ \A i \in cursor .. to : QuotedAt(i) <=> i >= Trimmed /\ content[Trimmed] \in Quotes
              /\ ~BadIn(cursor, to)
  <2>1. to >= cursor - 1
    BY <1>1, <1>3, <1>6
  <2>2. ASSUME NEW i \in cursor .. to PROVE QuotedAt(i) <=> i >= from
    <3>1. i \in cursor .. from - 1 \/ i \in from .. close - 1 \/ i = close
      BY <1>1, <1>6
    <3>2. i \in cursor .. from - 1 => ~(i >= from)
      BY <1>1, <1>6
    <3>3. i \in from .. close - 1 \/ i = close => i >= from
      BY <1>6
    <3> QED BY <1>11, <1>12, <1>13, <3>1, <3>2, <3>3
  <2>3. ~BadIn(cursor, to)
    <3> SUFFICES ASSUME NEW i \in cursor .. to, ~QuotedAt(i), content[i] \in BadChars PROVE FALSE
      BY DEF BadIn
    <3>1. i \in cursor .. Trimmed - 1
      BY <1>1, <1>3, <1>6, <2>2
    <3>2. content[i] \in Spaces
      BY <1>1, <3>1
    <3> QED BY <3>2 DEF Spaces, BadChars
  <2> QED BY <1>3, <1>10, <2>1, <2>2, <2>3
<1>15. CASE close <= Len(content) /\ Emit(type, Wp, close)
  <2>1. EmitOK(type, Wp, close)
    BY <1>1, <1>3, <1>15 DEF EmitOK, TokenTypes, WordTypes, Wp
  <2>2. Quoting[close] = NUL
    BY <1>3, <1>15
  <2>3. close \in from .. close /\ type # "INVALID"
    BY <1>6
  <2>4. QuotesOK(type, close)
    BY <1>14, <1>15, <2>2, <2>3 DEF QuotesOK
  <2> QED BY <1>4, <1>15, <2>1, <2>4, EmitQuotes
<1>16. CASE close > Len(content) /\ Emit("INVALID", Wp, Len(content))
  <2>1. EmitOK("INVALID", Wp, Len(content))
    BY <1>1, <1>3 DEF EmitOK, TokenTypes, WordTypes, Wp
  <2>2. Len(content) = close - 1 /\ Len(content) \in from .. close - 1
        /\ Len(content) \in from .. close /\ Len(content) <= Len(content)
    BY <1>1, <1>3, <1>6, <1>16
  <2>3. Quoting[Len(content)] # NUL
    BY <1>9, <1>10, <2>2
  <2>4. QuotesOK("INVALID", Len(content))
    BY <1>14, <2>2, <2>3 DEF QuotesOK
  <2> QED BY <1>4, <1>16, <2>1, <2>4, EmitQuotes
<1> QED BY <1>4, <1>15, <1>16

LEMMA QuotesKeptByNothing ==
    ASSUME LexInv, QuoteInv, UNCHANGED lexvars
    PROVE  QuoteInv'
<1>1. content' = content /\ cursor' = cursor /\ tokens' = tokens
  BY DEF lexvars
<1>2. Quoting' = Quoting
  BY <1>1 DEF Quoting
<1> QED BY <1>1, <1>2 DEF QuoteInv, IsBad, BadIn, Covered, QuotedAt, Quotes, BadChars

LEMMA QuotesInitial ==
    ASSUME LexInv, cursor = 1, tokens = << >>
    PROVE  QuoteInv
<1>1. Quoting[0] = NUL
  BY QuotingDef DEF LexInv, QuotingIs
<1>2. Len(tokens) = 0 /\ cursor - 1 = 0 /\ 1 .. 0 = {} /\ 1 .. Len(tokens) = {}
  BY EmptySeq
<1> QED BY <1>1, <1>2, Zenon DEF QuoteInv, IsBad, BadIn

LEMMA QuoteInvariant == Spec => []QuoteInv
<1>1. InitWords => LexInv
  <2> SUFFICES ASSUME InitWords PROVE LexInv
    OBVIOUS
  <2>1. content \in Texts /\ cursor = 1 /\ tokens = << >>
    BY InitWordsText
  <2> QED BY <2>1, LexerAssumption, LexInitial
<1>2. InitWords => QuoteInv
  BY <1>1, QuotesInitial DEF InitWords
<1>3. LexInv /\ QuoteInv /\ [Next]_vars => QuoteInv'
  <2> SUFFICES ASSUME LexInv, QuoteInv, [Next]_vars PROVE QuoteInv'
    OBVIOUS
  <2>1. CASE GetNextToken
    <3>1. CASE HandleQuote("'", "SQUOTE")
      BY <3>1, QuotesKeptByQuote DEF Quotes
    <3>2. CASE HandleQuote("\"", "DQUOTE")
      BY <3>2, QuotesKeptByQuote DEF Quotes
    <3>3. CASE HandleDouble(">", "APPEND") \/ HandleDouble("<", "HEREDOC")
      BY <3>3, QuotesKeptByDouble
    <3> QED BY <2>1, <3>1, <3>2, <3>3, QuotesKeptByEnd, QuotesKeptByWord,
               QuotesKeptByOther DEF GetNextToken
  <2>2. CASE UNCHANGED lexvars
    BY <2>2, QuotesKeptByNothing
  <2> QED BY <2>1, <2>2 DEF Next, Over, vars
<1> QED BY <1>2, <1>3, LexInvariant, PTL DEF Spec

LEMMA Protected == LexInv /\ QuoteInv => QuotesProtect
<1> SUFFICES ASSUME LexInv, QuoteInv, ~Scanning PROVE QuotesProtect
  BY DEF QuotesProtect
<1>1. /\ Typed /\ Len(content) \in Nat /\ DOMAIN content = 1 .. Len(content)
      /\ DOMAIN tokens = 1 .. Len(tokens) /\ cursor \in 1 .. Len(content) + 1
  <2>1. Typed
    BY DEF LexInv
  <2> QED BY <2>1, LineLength DEF Typed
<1>2. cursor - 1 = Len(content)
  BY <1>1 DEF Scanning
<1>3. \A i \in DOMAIN content : QuotedAt(i) <=> \E k \in DOMAIN tokens :
                                /\ i \in tokens[k].from .. tokens[k].to
                                /\ content[tokens[k].from] \in Quotes
  BY <1>1, <1>2 DEF QuoteInv, Covered
<1>4. (\E k \in DOMAIN tokens : tokens[k].type = "INVALID")
        <=> \/ Quoting[Len(content)] # NUL
            \/ \E i \in DOMAIN content : ~QuotedAt(i) /\ content[i] \in { ";", "\\" }
  BY <1>1, <1>2 DEF QuoteInv, IsBad, BadIn, BadChars
<1> QED BY <1>3, <1>4 DEF QuotesProtect

\* No character between quotes acts as a space, an operator or a quote, every
\* one outside does, and parser_is_syntax_correct() sees a bad token exactly
\* for a quote left open or a ";" or "\" outside of quotes.
THEOREM QuotesCorrect == Spec => []QuotesProtect
BY LexInvariant, QuoteInvariant, Protected, PTL

-----------------------------------------------------------------------------
(* The reading of a script.                                                 *)

TextChars == UNION { ToSet(text) : text \in Scripts }

\* Between two lines the shell has less than a buffer with it; while it looks
\* for the end of a line it has no newline with it.
ReadInv ==
    /\ unread \in Seq(TextChars) /\ remains \in Seq(TextChars)
    /\ pc \in { "call", "read", "run", "ended", "failed" }
    /\ pc = "read" => NL \notin ToSet(remains)
    /\ pc # "read" => Len(remains) < BUFFER_SIZE
    /\ pc = "run" => /\ line # << >> /\ command_line # << >>
                     /\ line[1] = command_line[1]

LEMMA Cut ==
    ASSUME NEW S, NEW s \in Seq(S), NEW n \in 0 .. Len(s)
    PROVE  /\ Len(s) \in Nat
           /\ SubSeq(s, 1, n) \in Seq(S) /\ Len(SubSeq(s, 1, n)) = n
           /\ \A i \in 1 .. n : SubSeq(s, 1, n)[i] = s[i]
           /\ SubSeq(s, n + 1, Len(s)) \in Seq(S)
           /\ Len(SubSeq(s, n + 1, Len(s))) = Len(s) - n
           /\ \A i \in 1 .. Len(s) - n : SubSeq(s, n + 1, Len(s))[i] = s[n + i]
<1>1. Len(s) \in Nat /\ n \in Int /\ n + 1 \in Int
  BY LenProperties
<1>2. \A i \in 1 .. Len(s) : s[i] \in S
  BY ElementOfSeq
<1>3. \A i \in 1 .. n : s[i] \in S
  BY <1>1, <1>2
<1>4. \A i \in n + 1 .. Len(s) : s[i] \in S
  BY <1>1, <1>2
<1>5. /\ SubSeq(s, 1, n) \in Seq(S) /\ Len(SubSeq(s, 1, n)) = n
      /\ \A i \in 1 .. n : SubSeq(s, 1, n)[i] = s[i]
  BY <1>1, <1>3, SubSeqProperties
<1>6. /\ SubSeq(s, n + 1, Len(s)) \in Seq(S)
      /\ Len(SubSeq(s, n + 1, Len(s))) = Len(s) - n
      /\ \A i \in 1 .. Len(s) - n : SubSeq(s, n + 1, Len(s))[i] = s[n + i]
  BY <1>1, <1>4, SubSeqProperties
<1> QED BY <1>1, <1>5, <1>6

\* What is cut from the first of two texts is cut from both.
LEMMA CutFirst ==
    ASSUME NEW S, NEW a \in Seq(S), NEW b \in Seq(S), NEW n \in 0 .. Len(a)
    PROVE  /\ a \o b \in Seq(S) /\ n \in 0 .. Len(a \o b)
           /\ SubSeq(a \o b, 1, n) = SubSeq(a, 1, n)
           /\ SubSeq(a \o b, n + 1, Len(a \o b)) = SubSeq(a, n + 1, Len(a)) \o b
<1> DEFINE ab == a \o b
           rest == SubSeq(a, n + 1, Len(a))
<1>1. /\ Len(a) \in Nat /\ Len(b) \in Nat /\ ab \in Seq(S)
      /\ Len(ab) = Len(a) + Len(b)
      /\ \A i \in 1 .. Len(a) + Len(b) : ab[i] = IF i <= Len(a) THEN a[i] ELSE b[i - Len(a)]
  BY LenProperties, ConcatProperties
<1>2. n \in 0 .. Len(ab)
  BY <1>1
<1>3. /\ SubSeq(a, 1, n) \in Seq(S) /\ Len(SubSeq(a, 1, n)) = n
      /\ \A i \in 1 .. n : SubSeq(a, 1, n)[i] = a[i]
      /\ rest \in Seq(S) /\ Len(rest) = Len(a) - n
      /\ \A i \in 1 .. Len(a) - n : rest[i] = a[n + i]
  BY Cut
<1>4. /\ SubSeq(ab, 1, n) \in Seq(S) /\ Len(SubSeq(ab, 1, n)) = n
      /\ \A i \in 1 .. n : SubSeq(ab, 1, n)[i] = ab[i]
      /\ SubSeq(ab, n + 1, Len(ab)) \in Seq(S)
      /\ Len(SubSeq(ab, n + 1, Len(ab))) = Len(ab) - n
      /\ \A i \in 1 .. Len(ab) - n : SubSeq(ab, n + 1, Len(ab))[i] = ab[n + i]
  <2> HIDE DEF ab
  <2> QED BY <1>1, <1>2, Cut
<1>5. SubSeq(ab, 1, n) = SubSeq(a, 1, n)
  <2> HIDE DEF ab
  <2>1. \A i \in 1 .. n : SubSeq(ab, 1, n)[i] = SubSeq(a, 1, n)[i]
    BY <1>1, <1>3, <1>4
  <2> QED BY <2>1, <1>3, <1>4, SeqEqual
<1>6. /\ rest \o b \in Seq(S) /\ Len(rest \o b) = Len(a) - n + Len(b)
      /\ \A i \in 1 .. Len(a) - n + Len(b) :
           (rest \o b)[i] = IF i <= Len(a) - n THEN rest[i] ELSE b[i - (Len(a) - n)]
  <2> HIDE DEF rest, ab
  <2>1. rest \in Seq(S) /\ Len(rest) = Len(a) - n
    BY <1>3
  <2>2. /\ rest \o b \in Seq(S) /\ Len(rest \o b) = Len(rest) + Len(b)
        /\ \A i \in 1 .. Len(rest) + Len(b) :
             (rest \o b)[i] = IF i <= Len(rest) THEN rest[i] ELSE b[i - Len(rest)]
    BY <2>1, ConcatProperties
  <2> QED BY <2>1, <2>2
<1>7. SubSeq(ab, n + 1, Len(ab)) = rest \o b
  <2> HIDE DEF ab, rest
  <2>1. Len(ab) - n = Len(a) - n + Len(b)
    BY <1>1
  <2>2. \A i \in 1 .. Len(a) - n + Len(b) : SubSeq(ab, n + 1, Len(ab))[i] = (rest \o b)[i]
    BY <2>1, <1>1, <1>3, <1>4, <1>6
  <2> DEFINE x == SubSeq(ab, n + 1, Len(ab))
             y == rest \o b
  <2>3. /\ x \in Seq(S) /\ y \in Seq(S) /\ Len(x) = Len(y)
        /\ \A i \in 1 .. Len(x) : x[i] = y[i]
    BY <1>4, <1>6, <2>1, <2>2
  <2> HIDE DEF x, y
  <2>4. x = y
    BY <2>3, SeqEqual
  <2> QED BY <2>4 DEF x, y
<1> QED BY <1>1, <1>2, <1>5, <1>7

\* A piece that is taken over leaves the whole as it was.
LEMMA TakenOver ==
    ASSUME NEW S, NEW a \in Seq(S), NEW b \in Seq(S), NEW n \in 0 .. Len(b)
    PROVE  (a \o SubSeq(b, 1, n)) \o SubSeq(b, n + 1, Len(b)) = a \o b
<1>1. SubSeq(b, 1, n) \in Seq(S) /\ SubSeq(b, n + 1, Len(b)) \in Seq(S)
  BY Cut
<1>2. SubSeq(b, 1, n) \o SubSeq(b, n + 1, Len(b)) = b
  <2>1. Len(b) \in Nat
    BY LenProperties
  <2>2. 1 \in 1 .. Len(b) + 1 /\ n \in 1 - 1 .. Len(b) /\ Len(b) \in n .. Len(b)
    BY <2>1
  <2>3. SubSeq(b, 1, Len(b)) = b
    BY SubSeqFull
  <2> QED BY <2>2, <2>3, ConcatAdjacentSubSeq
<1> DEFINE x == SubSeq(b, 1, n)
           y == SubSeq(b, n + 1, Len(b))
<1>3. x \in Seq(S) /\ y \in Seq(S)
  BY <1>1
<1>4. (a \o x) \o y = a \o (x \o y)
  <2> HIDE DEF x, y
  <2> QED BY <1>3, ConcatAssociative
<1> QED BY <1>2, <1>4

LEMMA FirstNewline ==
    ASSUME NEW S, NEW text \in Seq(S), HasLine(text),
           NEW n, n = SelectInSeq(text, LAMBDA c : c = NL)
    PROVE  /\ n \in 1 .. Len(text) /\ text[n] = NL
           /\ \A k \in 1 .. n - 1 : text[k] # NL
<1> DEFINE I == { i \in 1 .. Len(text) : text[i] = NL }
<1>1. Len(text) \in Nat /\ DOMAIN text = 1 .. Len(text)
  BY LenProperties
<1>2. I \subseteq Nat /\ I # {}
  BY <1>1 DEF HasLine, ToSet
<1>3. n = CHOOSE x \in I : \A y \in I : x <= y
  BY <1>2 DEF SelectInSeq, Min
<1>4. n \in I /\ \A y \in I : n <= y
  <2> HIDE DEF I
  <2>1. PICK m \in I : \A y \in I : m <= y
    BY <1>2, Least
  <2> QED BY <1>3, <2>1
<1>5. \A k \in 1 .. n - 1 : text[k] # NL
  <2> SUFFICES ASSUME NEW k \in 1 .. n - 1 PROVE text[k] # NL
    OBVIOUS
  <2>1. k \in 1 .. Len(text) /\ ~(n <= k)
    BY <1>1, <1>4
  <2> QED BY <2>1, <1>4
<1> QED BY <1>4, <1>5

LEMMA LineEnds ==
    ASSUME NEW S, NEW text \in Seq(S), NEW n \in 1 .. Len(text), text[n] = NL,
           \A k \in 1 .. n - 1 : text[k] # NL
    PROVE  Text!LineLen(text) = n
<1> DEFINE P(m) == text[m] = NL /\ NL \notin ToSet(SubSeq(text, 1, m - 1))
<1>1. Len(text) \in Nat /\ DOMAIN text = 1 .. Len(text)
  BY LenProperties
<1>2. ASSUME NEW m \in 1 .. Len(text)
      PROVE  ToSet(SubSeq(text, 1, m - 1)) = { text[k] : k \in 1 .. m - 1 }
  <2> DEFINE piece == SubSeq(text, 1, m - 1)
  <2>1. m - 1 \in 0 .. Len(text)
    BY <1>1
  <2>2. /\ piece \in Seq(S) /\ Len(piece) = m - 1
        /\ \A i \in 1 .. m - 1 : piece[i] = text[i]
    BY <2>1, Cut
  <2> HIDE DEF piece
  <2>3. DOMAIN piece = 1 .. m - 1
    BY <2>2, LenProperties
  <2>4. ToSet(piece) = { text[k] : k \in 1 .. m - 1 }
    BY <2>2, <2>3 DEF ToSet
  <2> QED BY <2>4 DEF piece
<1>3. P(n)
  BY <1>2
<1>4. ASSUME NEW m \in 1 .. Len(text), P(m) PROVE m = n
  <2>1. ~(m < n) /\ ~(n < m)
    BY <1>1, <1>2, <1>4
  <2> QED BY <1>1, <2>1
<1>5. NL \in ToSet(text)
  BY <1>1 DEF ToSet
<1>6. Text!LineLen(text) = CHOOSE m \in DOMAIN text : P(m)
  BY <1>5 DEF Text!LineLen, ToSet, Text!ToSet
<1> HIDE DEF P
<1>7. \A m \in DOMAIN text : P(m) <=> m = n
  BY <1>1, <1>3, <1>4
<1>8. n \in DOMAIN text
  BY <1>1
<1> QED BY <1>6, <1>7, <1>8

\* The first line of what the shell holds is the first line of the script.
Taken(a, b, S) ==
    /\ a \o b # << >>
    /\ FirstLine(a) = SubSeq(a \o b, 1, Text!LineLen(a \o b))
    /\ AfterLine(a) \o b = Text!Drop(a \o b, Text!LineLen(a \o b))
    /\ FirstLine(a) \in Seq(S) /\ FirstLine(a) # << >>
    /\ AfterLine(a) \in Seq(S)
    /\ \E n \in 1 .. Len(a) : a[n] = NL /\ Len(AfterLine(a)) = Len(a) - n

LEMMA LineTaken ==
    ASSUME NEW S, NEW a \in Seq(S), NEW b \in Seq(S), HasLine(a)
    PROVE  Taken(a, b, S)
<1> DEFINE n == SelectInSeq(a, LAMBDA c : c = NL)
           ab == a \o b
<1>1. FirstLine(a) = SubSeq(a, 1, n) /\ AfterLine(a) = SubSeq(a, n + 1, Len(a))
  BY DEF FirstLine, AfterLine
<1>2. n \in 1 .. Len(a) /\ a[n] = NL /\ \A k \in 1 .. n - 1 : a[k] # NL
  BY FirstNewline
<1> HIDE DEF n
<1>3. Len(a) \in Nat /\ Len(b) \in Nat /\ n \in 0 .. Len(a)
  BY <1>2, LenProperties
<1>4. /\ ab \in Seq(S) /\ Len(ab) = Len(a) + Len(b)
      /\ \A i \in 1 .. Len(a) : ab[i] = a[i]
  BY <1>3, ConcatProperties
<1>5. /\ SubSeq(ab, 1, n) = SubSeq(a, 1, n)
      /\ SubSeq(ab, n + 1, Len(ab)) = SubSeq(a, n + 1, Len(a)) \o b
  BY <1>3, CutFirst
<1> HIDE DEF ab
<1>6. n \in 1 .. Len(ab) /\ ab[n] = NL /\ \A k \in 1 .. n - 1 : ab[k] # NL
  BY <1>2, <1>3, <1>4
<1>7. Text!LineLen(ab) = n
  BY <1>4, <1>6, LineEnds
<1>8. ab # << >>
  BY <1>4, <1>6, EmptySeq
<1>9. /\ SubSeq(a, 1, n) \in Seq(S) /\ Len(SubSeq(a, 1, n)) = n
      /\ SubSeq(a, n + 1, Len(a)) \in Seq(S)
      /\ Len(SubSeq(a, n + 1, Len(a))) = Len(a) - n
  BY <1>3, Cut
<1>10. SubSeq(a, 1, n) # << >>
  BY <1>2, <1>9, EmptySeq
<1> QED BY <1>1, <1>2, <1>5, <1>7, <1>8, <1>9, <1>10 DEF ab, Text!Drop, Taken

\* A command begins as its line does.
LEMMA Begins ==
    ASSUME NEW S, NEW text \in Seq(S), text # << >>, Command(text) # << >>
    PROVE  Command(text)[1] = text[1]
<1> DEFINE bare == IF Last(text) = NL THEN Front(text) ELSE text
           m == IF Len(bare) < ARG_MAX - 2 THEN Len(bare) ELSE ARG_MAX - 2
<1>1. Len(text) \in Nat \ { 0 } /\ Len(text) - 1 \in 0 .. Len(text)
  BY LenProperties, EmptySeq
<1>2. /\ Front(text) \in Seq(S) /\ Len(Front(text)) = Len(text) - 1
      /\ \A i \in 1 .. Len(text) - 1 : Front(text)[i] = text[i]
  BY <1>1, Cut DEF Front
<1>3. bare \in Seq(S) /\ Len(bare) \in Nat /\ \A i \in 1 .. Len(bare) : bare[i] = text[i]
  BY <1>1, <1>2
<1>4. Command(text) = SubSeq(bare, 1, m)
  BY DEF Command
<1>5. ARG_MAX \in Nat /\ ARG_MAX > 3
  BY LineReaderAssumption
<1> HIDE DEF bare
<1>6. m \in 0 .. Len(bare)
  BY <1>3, <1>5
<1> HIDE DEF m
<1>7. /\ SubSeq(bare, 1, m) \in Seq(S) /\ Len(SubSeq(bare, 1, m)) = m
      /\ \A i \in 1 .. m : SubSeq(bare, 1, m)[i] = bare[i]
  BY <1>3, <1>6, Cut
<1>8. m # 0
  BY <1>4, <1>7, EmptySeq
<1>9. 1 \in 1 .. m /\ 1 \in 1 .. Len(bare)
  BY <1>3, <1>6, <1>8
<1> QED BY <1>3, <1>4, <1>7, <1>9

\* get_next_line() has the first line of what it holds in a, with b unread.
LEMMA ReturnTakes ==
    ASSUME NEW a \in Seq(TextChars), NEW b \in Seq(TextChars), HasLine(a),
           remains \o unread = a \o b, unread' = b, remains' = AfterLine(a),
           \A n \in 1 .. Len(a) : a[n] = NL => Len(a) - n < BUFFER_SIZE,
           pc \in { "call", "read" }, Return(FirstLine(a))
    PROVE  Text!Take /\ Text!Next /\ ReadInv'
<1> DEFINE ab == a \o b
<1>0. Taken(a, b, TextChars)
  BY LineTaken
<1>1. /\ ab # << >> /\ FirstLine(a) = SubSeq(ab, 1, Text!LineLen(ab))
      /\ AfterLine(a) \o b = Text!Drop(ab, Text!LineLen(ab))
      /\ FirstLine(a) \in Seq(TextChars) /\ FirstLine(a) # << >>
      /\ AfterLine(a) \in Seq(TextChars)
  BY <1>0 DEF Taken
<1>2. PICK n \in 1 .. Len(a) : a[n] = NL /\ Len(AfterLine(a)) = Len(a) - n
  BY <1>0 DEF Taken
<1>3. /\ line' = FirstLine(a) /\ command_line' = Command(FirstLine(a))
      /\ pc' = IF command_line' = << >> THEN "call" ELSE "run"
  BY DEF Return
<1>4. Text!Take
  BY <1>1, <1>3 DEF Text!Take
<1>5. Command(FirstLine(a)) # << >> => Command(FirstLine(a))[1] = FirstLine(a)[1]
  BY <1>1, Begins
<1>6. Len(AfterLine(a)) < BUFFER_SIZE
  BY <1>2
<1>7. ReadInv'
  BY <1>1, <1>3, <1>5, <1>6 DEF ReadInv
<1> QED BY <1>4, <1>7 DEF Text!Next

LEMMA CallLines ==
    ASSUME ReadInv, Call
    PROVE  ReadInv' /\ (Text!Next \/ UNCHANGED Text!scriptvars)
<1>1. /\ unread \in Seq(TextChars) /\ remains \in Seq(TextChars)
      /\ pc = "call" /\ unread' = unread /\ Len(remains) < BUFFER_SIZE
  BY DEF ReadInv, Call
<1>2. CASE HasLine(remains)
  <2>1. Return(FirstLine(remains)) /\ remains' = AfterLine(remains)
    BY <1>2 DEF Call
  <2>2. \A n \in 1 .. Len(remains) : remains[n] = NL => Len(remains) - n < BUFFER_SIZE
    BY <1>1, LenProperties, LineReaderAssumption
  <2>3. remains \o unread = remains \o unread /\ pc \in { "call", "read" }
    BY <1>1
  <2> QED BY <1>1, <1>2, <2>1, <2>2, <2>3, ReturnTakes
<1>3. CASE ~HasLine(remains)
  BY <1>1, <1>3 DEF Call, ReadInv, HasLine, Text!scriptvars
<1> QED BY <1>2, <1>3

LEMMA ReadLines ==
    ASSUME ReadInv, Read
    PROVE  ReadInv' /\ (Text!Next \/ UNCHANGED Text!scriptvars)
<1>1. /\ unread \in Seq(TextChars) /\ remains \in Seq(TextChars)
      /\ pc = "read" /\ NL \notin ToSet(remains)
      /\ Len(unread) \in Nat /\ Len(remains) \in Nat
      /\ BUFFER_SIZE \in Nat
  BY LenProperties, LineReaderAssumption DEF ReadInv, Read
<1>2. PICK n \in 1 .. BUFFER_SIZE :
        LET text == remains \o SubSeq(unread, 1, n) IN
        /\ n <= Len(unread)
        /\ unread' = SubSeq(unread, n + 1, Len(unread))
        /\ \/ /\ HasLine(text)
              /\ Return(FirstLine(text))
              /\ remains' = AfterLine(text)
           \/ /\ ~HasLine(text)
              /\ remains' = text
              /\ UNCHANGED << pc, line, command_line, typed >>
  BY DEF Read
<1> DEFINE piece == SubSeq(unread, 1, n)
           left == SubSeq(unread, n + 1, Len(unread))
           text == remains \o piece
<1>3. n \in 0 .. Len(unread)
  BY <1>1, <1>2
<1>4. /\ piece \in Seq(TextChars) /\ Len(piece) = n
      /\ left \in Seq(TextChars)
  BY <1>1, <1>3, Cut
<1>5. text \o left = remains \o unread
  BY <1>1, <1>3, TakenOver
<1>6. unread' = left
  BY <1>2
<1> HIDE DEF left
<1>7. \/ /\ HasLine(text) /\ Return(FirstLine(text)) /\ remains' = AfterLine(text)
      \/ /\ ~HasLine(text) /\ remains' = text
         /\ UNCHANGED << pc, line, command_line, typed >>
  BY <1>2
<1> HIDE DEF piece
<1>8. /\ text \in Seq(TextChars) /\ Len(text) = Len(remains) + n
      /\ \A i \in 1 .. Len(remains) : text[i] = remains[i]
  <2>1. /\ text \in Seq(TextChars) /\ Len(text) = Len(remains) + Len(piece)
        /\ \A i \in 1 .. Len(remains) + Len(piece) :
             text[i] = IF i <= Len(remains) THEN remains[i] ELSE piece[i - Len(remains)]
    BY <1>1, <1>4, ConcatProperties
  <2> HIDE DEF text
  <2> QED BY <1>1, <1>4, <2>1
<1> HIDE DEF text
<1>9. CASE HasLine(text) /\ Return(FirstLine(text)) /\ remains' = AfterLine(text)
  <2>1. \A i \in 1 .. Len(remains) : remains[i] # NL
    BY <1>1, LenProperties DEF ToSet
  <2>2. \A i \in 1 .. Len(text) : text[i] = NL => Len(text) - i < BUFFER_SIZE
    BY <2>1, <1>1, <1>8
  <2>3. remains \o unread = text \o left /\ pc \in { "call", "read" }
    BY <1>1, <1>5
  <2> QED BY <1>4, <1>6, <1>8, <1>9, <2>2, <2>3, ReturnTakes
<1>10. CASE /\ ~HasLine(text) /\ remains' = text
            /\ UNCHANGED << pc, line, command_line, typed >>
  <2>1. ReadInv'
    BY <1>1, <1>4, <1>6, <1>8, <1>10 DEF ReadInv, HasLine
  <2>2. UNCHANGED Text!scriptvars
    BY <1>5, <1>6, <1>10 DEF Text!scriptvars
  <2> QED BY <2>1, <2>2
<1> QED BY <1>7, <1>9, <1>10

LEMMA EofLines ==
    ASSUME ReadInv, ReadEof
    PROVE  ReadInv' /\ (Text!Next \/ UNCHANGED Text!scriptvars)
<1>1. /\ remains \in Seq(TextChars) /\ pc = "read" /\ NL \notin ToSet(remains)
      /\ unread = << >> /\ unread' = << >>
      /\ << >> \in Seq(TextChars) /\ Len(<< >>) = 0
      /\ BUFFER_SIZE \in Nat \ { 0 }
  BY EmptySeq, LineReaderAssumption DEF ReadInv, ReadEof
<1>2. remains \o << >> = remains /\ << >> \o << >> = << >>
  BY <1>1, ConcatEmptySeq
<1>3. CASE remains # << >> /\ Return(remains) /\ remains' = << >>
  <2>1. /\ line' = remains /\ command_line' = Command(remains)
        /\ pc' = IF command_line' = << >> THEN "call" ELSE "run"
    BY <1>3 DEF Return
  <2>2. Text!LineLen(remains) = Len(remains)
    BY <1>1 DEF Text!LineLen, ToSet, Text!ToSet
  <2>3. SubSeq(remains, 1, Len(remains)) = remains
    BY <1>1, SubSeqFull
  <2>4. Text!Drop(remains, Len(remains)) = << >>
    BY <1>1, SubSeqEmpty, LenProperties DEF Text!Drop
  <2>5. Text!Take
    BY <1>1, <1>2, <1>3, <2>1, <2>2, <2>3, <2>4 DEF Text!Take
  <2>6. Command(remains) # << >> => Command(remains)[1] = remains[1]
    BY <1>1, <1>3, Begins
  <2>7. ReadInv'
    BY <1>1, <1>3, <2>1, <2>6 DEF ReadInv
  <2> QED BY <1>1, <2>5, <2>7 DEF Text!Next
<1>4. CASE remains = << >> /\ pc' = "ended" /\ UNCHANGED << remains, line, command_line, typed >>
  <2>1. Text!End
    BY <1>1, <1>2, <1>4 DEF Text!End
  <2>2. ReadInv'
    BY <1>1, <1>4 DEF ReadInv
  <2> QED BY <1>1, <2>1, <2>2 DEF Text!Next
<1> QED BY <1>3, <1>4 DEF ReadEof

LEMMA FailsLines ==
    ASSUME ReadInv, Fails
    PROVE  ReadInv' /\ (Text!Next \/ UNCHANGED Text!scriptvars)
<1>1. /\ unread \in Seq(TextChars) /\ remains \in Seq(TextChars)
      /\ pc \in { "call", "read" } /\ pc' = "failed"
      /\ remains' = << >> /\ UNCHANGED << line, command_line, typed >>
      /\ << >> \in Seq(TextChars) /\ Len(<< >>) = 0
      /\ BUFFER_SIZE \in Nat \ { 0 }
      /\ Len(unread) \in Nat /\ Len(remains) \in Nat
  BY EmptySeq, LenProperties, LineReaderAssumption DEF ReadInv, Fails
<1>2. PICK n \in 0 .. IF pc = "read" THEN BUFFER_SIZE ELSE 0 :
        n <= Len(unread) /\ unread' = SubSeq(unread, n + 1, Len(unread))
  BY DEF Fails
<1> DEFINE left == SubSeq(unread, n + 1, Len(unread))
           rest == remains \o unread
           m == Len(remains) + n
<1>3. n \in 0 .. Len(unread) /\ n \in Nat
  BY <1>1, <1>2
<1>4. /\ left \in Seq(TextChars) /\ Len(left) = Len(unread) - n
      /\ \A i \in 1 .. Len(unread) - n : left[i] = unread[n + i]
  BY <1>1, <1>3, Cut
<1>5. /\ rest \in Seq(TextChars) /\ Len(rest) = Len(remains) + Len(unread)
      /\ \A i \in 1 .. Len(unread) : rest[Len(remains) + i] = unread[i]
  BY <1>1, ConcatProperties
<1>6. m \in 0 .. Len(rest)
  BY <1>1, <1>3, <1>5
<1>7. << >> \o left = left
  BY <1>4, ConcatEmptySeq
<1>8. Text!Drop(rest, m) = left
  <2> HIDE DEF rest, left, m
  <2>1. /\ SubSeq(rest, m + 1, Len(rest)) \in Seq(TextChars)
        /\ Len(SubSeq(rest, m + 1, Len(rest))) = Len(rest) - m
        /\ \A i \in 1 .. Len(rest) - m : SubSeq(rest, m + 1, Len(rest))[i] = rest[m + i]
    BY <1>5, <1>6, Cut
  <2>2. Len(rest) - m = Len(unread) - n
    BY <1>1, <1>3, <1>5 DEF m
  <2>3. \A i \in 1 .. Len(unread) - n : rest[m + i] = left[i]
    <3> SUFFICES ASSUME NEW i \in 1 .. Len(unread) - n PROVE rest[m + i] = left[i]
      OBVIOUS
    <3>1. n + i \in 1 .. Len(unread) /\ m + i = Len(remains) + (n + i)
      BY <1>1, <1>3 DEF m
    <3> QED BY <3>1, <1>4, <1>5
  <2>4. SubSeq(rest, m + 1, Len(rest)) = left
    BY <1>4, <2>1, <2>2, <2>3, SeqEqual
  <2> QED BY <2>4 DEF Text!Drop
<1>9. unread' = left
  BY <1>2
<1> HIDE DEF left, m
<1>10. Text!GiveUp
  BY <1>1, <1>6, <1>7, <1>8, <1>9 DEF Text!GiveUp
<1>11. ReadInv'
  BY <1>1, <1>4, <1>9 DEF ReadInv
<1> QED BY <1>1, <1>10, <1>11 DEF Text!Next

\* A command that takes a character of the input takes one that the shell has
\* not got.
LEMMA ByteLent ==
    ASSUME ReadInv, pc = "run", TakeByte, pc' \in { "run", "call" },
           HereDocument \/ Program, UNCHANGED << remains, line, command_line >>
    PROVE  ReadInv' /\ Text!Next
<1>1. /\ unread \in Seq(TextChars) /\ remains \in Seq(TextChars)
      /\ Len(remains) < BUFFER_SIZE
      /\ line # << >> /\ line[1] = command_line[1] /\ command_line # << >>
      /\ unread # << >> /\ unread' = Tail(unread)
      /\ Len(unread) \in Nat \ { 0 } /\ Len(remains) \in Nat
      /\ BUFFER_SIZE \in Nat
  BY LenProperties, EmptySeq, LineReaderAssumption DEF ReadInv, TakeByte
<1> DEFINE rest == remains \o unread
           n == Len(remains) + 1
<1>2. Tail(unread) = SubSeq(unread, 2, Len(unread)) /\ Tail(unread) \in Seq(TextChars)
  BY <1>1, TailIsSubSeq, HeadTailProperties
<1>3. /\ rest \in Seq(TextChars) /\ Len(rest) = Len(remains) + Len(unread)
      /\ DOMAIN rest = 1 .. Len(rest)
      /\ \A i \in 1 .. Len(remains) : rest[i] = remains[i]
      /\ \A i \in 1 .. Len(unread) : rest[Len(remains) + i] = unread[i]
  <2>1. /\ rest \in Seq(TextChars) /\ Len(rest) = Len(remains) + Len(unread)
        /\ \A i \in 1 .. Len(remains) + Len(unread) :
             rest[i] = IF i <= Len(remains) THEN remains[i] ELSE unread[i - Len(remains)]
    BY <1>1, ConcatProperties
  <2> HIDE DEF rest
  <2>2. DOMAIN rest = 1 .. Len(rest)
    BY <2>1, LenProperties
  <2>3. \A i \in 1 .. Len(unread) : rest[Len(remains) + i] = unread[i]
    <3> SUFFICES ASSUME NEW i \in 1 .. Len(unread)
                 PROVE  rest[Len(remains) + i] = unread[i]
      OBVIOUS
    <3>1. /\ Len(remains) + i \in 1 .. Len(remains) + Len(unread)
          /\ ~(Len(remains) + i <= Len(remains))
          /\ (Len(remains) + i) - Len(remains) = i
      BY <1>1
    <3> QED BY <3>1, <2>1
  <2> QED BY <2>1, <2>2, <2>3, <1>1
<1>4. n \in DOMAIN rest /\ n <= BUFFER_SIZE /\ n \in 0 .. Len(rest) /\ n - 1 \in 0 .. Len(rest)
  BY <1>1, <1>3
<1>5. RemoveAt(rest, n) = remains \o Tail(unread)
  <2>1. SubSeq(rest, 1, n - 1) = SubSeq(remains, 1, Len(remains))
    BY <1>1, CutFirst
  <2>2. SubSeq(remains, 1, Len(remains)) = remains
    BY <1>1, SubSeqFull
  <2>3. SubSeq(rest, n + 1, Len(rest)) = Tail(unread)
    <3>1. /\ SubSeq(rest, n + 1, Len(rest)) \in Seq(TextChars)
          /\ Len(SubSeq(rest, n + 1, Len(rest))) = Len(rest) - n
          /\ \A i \in 1 .. Len(rest) - n : SubSeq(rest, n + 1, Len(rest))[i] = rest[n + i]
      <4> HIDE DEF rest, n
      <4> QED BY <1>3, <1>4, Cut
    <3>2. 1 \in 0 .. Len(unread)
      BY <1>1
    <3>3. /\ Len(SubSeq(unread, 1 + 1, Len(unread))) = Len(unread) - 1
          /\ \A i \in 1 .. Len(unread) - 1 : SubSeq(unread, 1 + 1, Len(unread))[i] = unread[1 + i]
      BY <1>1, <3>2, Cut
    <3>4. /\ Len(Tail(unread)) = Len(unread) - 1
          /\ \A i \in 1 .. Len(unread) - 1 : Tail(unread)[i] = unread[1 + i]
      BY <1>2, <3>3
    <3> HIDE DEF rest
    <3>5. Len(rest) - n = Len(unread) - 1
      BY <1>1, <1>3
    <3>6. \A i \in 1 .. Len(unread) - 1 : rest[n + i] = unread[1 + i]
      <4> SUFFICES ASSUME NEW i \in 1 .. Len(unread) - 1 PROVE rest[n + i] = unread[1 + i]
        OBVIOUS
      <4>1. 1 + i \in 1 .. Len(unread) /\ n + i = Len(remains) + (1 + i)
        BY <1>1
      <4> QED BY <4>1, <1>3
    <3> QED BY <1>2, <3>1, <3>4, <3>5, <3>6, SeqEqual
  <2> QED BY <2>1, <2>2, <2>3 DEF RemoveAt
<1>6. line[1] \in { HereChar, ProgramChar }
  BY <1>1 DEF HereDocument, Program
<1>7. Text!Lend
  <2> HIDE DEF rest, n
  <2>1. \E k \in DOMAIN rest : k <= BUFFER_SIZE /\ remains' \o unread' = RemoveAt(rest, k)
    BY <1>1, <1>4, <1>5
  <2>2. UNCHANGED << line, IF pc \in { "ended", "failed" } THEN pc ELSE "running" >>
    OBVIOUS
  <2> QED BY <1>1, <1>6, <2>1, <2>2 DEF Text!Lend, rest, RemoveAt, Text!RemoveAt
<1>8. ReadInv'
  BY <1>1, <1>2 DEF ReadInv
<1> QED BY <1>7, <1>8 DEF Text!Next

LEMMA DoneLines ==
    ASSUME ReadInv, Done \/ UNCHANGED readervars
    PROVE  ReadInv' /\ UNCHANGED Text!scriptvars
BY DEF ReadInv, Done, readervars, Text!scriptvars

LEMMA LinesKept ==
    ReadInv /\ [ReaderNext]_readervars => ReadInv' /\ (Text!Next \/ UNCHANGED Text!scriptvars)
<1> SUFFICES ASSUME ReadInv, [ReaderNext]_readervars
             PROVE  ReadInv' /\ (Text!Next \/ UNCHANGED Text!scriptvars)
  OBVIOUS
<1>1. CASE HereByte
  <2>1. /\ pc = "run" /\ HereDocument /\ TakeByte /\ pc' \in { "run", "call" }
        /\ UNCHANGED << remains, line, command_line >>
    BY <1>1 DEF HereByte
  <2> QED BY <2>1, ByteLent
<1>2. CASE ProgramByte
  <2>1. /\ pc = "run" /\ Program /\ TakeByte /\ pc' \in { "run", "call" }
        /\ UNCHANGED << remains, line, command_line >>
    BY <1>2 DEF ProgramByte
  <2> QED BY <2>1, ByteLent
<1> QED BY <1>1, <1>2, CallLines, ReadLines, EofLines, FailsLines, DoneLines DEF ReaderNext

\* Whatever the pieces in which the script is read and whatever the commands
\* read of it, the shell executes its lines, each once and in order, or gives
\* the rest up: the safety of RefinesScript (get_next_line()).
THEOREM ImplementsScript == ReaderSpec => Text!Safety
<1>1. ReaderInit => ReadInv
  <2> SUFFICES ASSUME ReaderInit PROVE ReadInv
    OBVIOUS
  <2>1. unread \in Seq(TextChars)
    BY LineReaderAssumption DEF ReaderInit, TextChars
  <2>2. << >> \in Seq(TextChars) /\ Len(<< >>) = 0 /\ BUFFER_SIZE \in Nat \ { 0 }
    BY EmptySeq, LineReaderAssumption
  <2> QED BY <2>1, <2>2 DEF ReaderInit, ReadInv
<1>2. ReadInv /\ [ReaderNext]_readervars => ReadInv'
  BY LinesKept
<1>3. ReadInv /\ [ReaderNext]_readervars => [Text!Next]_(Text!scriptvars)
  BY LinesKept
<1> QED BY <1>1, <1>2, <1>3, PTL DEF ReaderSpec, Text!Safety

-----------------------------------------------------------------------------
(* Recursion that jumps, and what is joined piece by piece.                 *)

\* g is b at first, and F of one of its earlier values at each k.
Leaps(g, b, n, F, J) ==
    /\ g[0] = b
    /\ \A k \in 1 .. n : g[k] = F[<< g[J[k]], k >>]

LEMMA LeapingRecursion ==
    ASSUME NEW A, NEW b \in A, NEW n \in Nat, NEW F \in [A \X (1 .. n) -> A],
           NEW J, \A k \in 1 .. n : J[k] \in 0 .. k - 1
    PROVE  \E g \in [0 .. n -> A] : Leaps(g, b, n, F, J)
<1> DEFINE T == { m \in 0 .. n : \E g \in [0 .. m -> A] : Leaps(g, b, m, F, J) }
<1>1. 0 \in T
  <2>1. [k \in 0 .. 0 |-> b] \in [0 .. 0 -> A] /\ Leaps([k \in 0 .. 0 |-> b], b, 0, F, J)
    BY DEF Leaps
  <2> QED BY <2>1
<1>2. ASSUME NEW m \in 1 .. n, m - 1 \in T PROVE m \in T
  <2>1. PICK g \in [0 .. m - 1 -> A] : Leaps(g, b, m - 1, F, J)
    BY <1>2
  <2> DEFINE h == [k \in 0 .. m |-> IF k < m THEN g[k] ELSE F[<< g[J[m]], m >>]]
  <2>2. h \in [0 .. m -> A]
    <3>1. g[J[m]] \in A
      OBVIOUS
    <3>2. F[<< g[J[m]], m >>] \in A
      BY <3>1
    <3> QED BY <3>2
  <2>3. h[0] = b
    BY <2>1 DEF Leaps
  <2>4. ASSUME NEW k \in 1 .. m PROVE h[k] = F[<< h[J[k]], k >>]
    <3>1. J[k] \in 0 .. k - 1 /\ J[k] < m /\ J[k] \in 0 .. m
      OBVIOUS
    <3>2. h[J[k]] = g[J[k]]
      BY <3>1
    <3>3. CASE k = m
      <4>1. h[m] = F[<< g[J[m]], m >>]
        OBVIOUS
      <4>2. h[J[m]] = g[J[m]]
        BY <3>2, <3>3
      <4> QED BY <3>3, <4>1, <4>2
    <3>4. CASE k < m
      BY <2>1, <3>2, <3>4 DEF Leaps
    <3> QED BY <3>3, <3>4
  <2>5. Leaps(h, b, m, F, J)
    BY <2>3, <2>4 DEF Leaps
  <2> HIDE DEF h
  <2> QED BY <2>2, <2>5
<1>3. 0 .. n \subseteq T
  <2> HIDE DEF T
  <2> QED BY <1>1, <1>2, Upto
<1> QED BY <1>3

\* g[k] is the first k of the pieces, joined.
Joins(g, pieces, n) ==
    /\ g[0] = << >>
    /\ \A k \in 1 .. n : g[k] = g[k - 1] \o pieces[k]

LEMMA Joined ==
    ASSUME NEW A, NEW n \in Nat, NEW pieces \in [1 .. n -> Seq(A)]
    PROVE  \E g \in [0 .. n -> Seq(A)] : Joins(g, pieces, n) /\ FlattenSeq(pieces) = g[n]
<1> DEFINE F == [x \in Seq(A) \X (1 .. n) |-> x[1] \o pieces[x[2]]]
           Def(f) == [i \in 1 .. n |-> IF i = 1 THEN pieces[i] ELSE f[i - 1] \o pieces[i]]
<1>1. pieces \in Seq(Seq(A)) /\ Len(pieces) = n
  OBVIOUS
<1>2. \A x \in Seq(A), k \in 1 .. n : x \o pieces[k] \in Seq(A)
  BY ConcatProperties
<1>3. F \in [Seq(A) \X (1 .. n) -> Seq(A)]
  BY <1>2
<1>4. PICK g \in [0 .. n -> Seq(A)] : Follows(g, << >>, n, F)
  <2>1. << >> \in Seq(A)
    BY EmptySeq
  <2> HIDE DEF F
  <2> QED BY <1>3, <2>1, Recursion
<1>5. Joins(g, pieces, n)
  <2>1. \A k \in 1 .. n : g[k - 1] \in Seq(A)
    OBVIOUS
  <2>2. \A k \in 1 .. n : F[<< g[k - 1], k >>] = g[k - 1] \o pieces[k]
    BY <2>1
  <2> QED BY <1>4, <2>2 DEF Follows, Joins
<1>6. CASE n = 0
  <2>1. pieces = << >> /\ FlattenSeq(pieces) = pieces
    BY <1>1, <1>6 DEF FlattenSeq
  <2>2. FlattenSeq(pieces) = g[n]
    BY <1>5, <1>6, <2>1 DEF Joins
  <2> QED BY <1>5, <2>2
<1>7. CASE n # 0
  <2> DEFINE flatten == CHOOSE f : f = Def(f)
             h == [i \in 1 .. n |-> g[i]]
  <2>1. FlattenSeq(pieces) = flatten[n]
    BY <1>1, <1>7 DEF FlattenSeq
  <2>2. h = Def(h)
    <3>1. ASSUME NEW i \in 1 .. n PROVE h[i] = Def(h)[i]
      <4>1. CASE i = 1
        <5>1. g[1] = << >> \o pieces[1] /\ pieces[1] \in Seq(A)
          <6>1. 1 \in 1 .. n /\ 1 - 1 = 0
            BY <4>1
          <6> QED BY <1>5, <6>1 DEF Joins
        <5> QED BY <4>1, <5>1, ConcatEmptySeq
      <4>2. CASE i # 1
        <5>1. i - 1 \in 1 .. n
          BY <4>2
        <5> QED BY <1>5, <4>2, <5>1 DEF Joins
      <4> QED BY <4>1, <4>2
    <3> QED BY <3>1
  <2>3. flatten = Def(flatten)
    <3> HIDE DEF Def, h
    <3> QED BY <2>2
  <2>4. \A i \in 1 .. n : flatten[i] = IF i = 1 THEN pieces[i] ELSE flatten[i - 1] \o pieces[i]
    <3> HIDE DEF flatten
    <3> QED BY <2>3
  <2> HIDE DEF flatten
  <2> DEFINE T == { k \in 0 .. n : k # 0 => flatten[k] = g[k] }
  <2>5. 0 \in T
    OBVIOUS
  <2>6. ASSUME NEW k \in 1 .. n, k - 1 \in T PROVE k \in T
    <3>1. CASE k = 1
      <4>1. g[1] = << >> \o pieces[1] /\ pieces[1] \in Seq(A)
        <5>1. 1 \in 1 .. n /\ 1 - 1 = 0
          BY <3>1
        <5> QED BY <1>5, <5>1 DEF Joins
      <4>2. flatten[1] = pieces[1]
        BY <2>4, <3>1
      <4> QED BY <3>1, <4>1, <4>2, ConcatEmptySeq
    <3>2. CASE k # 1
      <4>1. flatten[k] = flatten[k - 1] \o pieces[k]
        BY <2>4, <3>2
      <4>2. flatten[k - 1] = g[k - 1]
        BY <2>6, <3>2
      <4>3. flatten[k] = g[k]
        BY <1>5, <4>1, <4>2 DEF Joins
      <4> QED BY <4>3
    <3> QED BY <3>1, <3>2
  <2>7. 0 .. n \subseteq T
    <3> HIDE DEF T
    <3> QED BY <2>5, <2>6, Upto
  <2>8. flatten[n] = g[n]
    BY <1>7, <2>7
  <2> QED BY <1>5, <2>1, <2>8
<1> QED BY <1>6, <1>7

Regroups(x, y, z) == (x \o y) \o z = x \o (y \o z)

LEMMA Regroup ==
    ASSUME NEW A, NEW x \in Seq(A), NEW y \in Seq(A), NEW z \in Seq(A)
    PROVE  Regroups(x, y, z)
BY ConcatAssociative DEF Regroups

\* From[i] is V[i] and what From has behind the L[i] positions that follow.
Steps(From, N, L, V) ==
    /\ From[N + 1] = << >>
    /\ \A i \in 1 .. N : From[i] = V[i] \o From[i + 1 + L[i]]

PartsOK(N, L, V, A) == \A i \in 1 .. N : V[i] \in Seq(A) /\ L[i] \in 0 .. N - i

LEMMA StepsExist ==
    ASSUME NEW A, NEW N \in Nat, NEW V, NEW L, PartsOK(N, L, V, A)
    PROVE  \E f \in [1 .. N + 1 -> Seq(A)] : Steps(f, N, L, V)
<1> DEFINE J == [k \in 1 .. N |-> k - 1 - L[N + 1 - k]]
           F == [x \in Seq(A) \X (1 .. N) |-> V[N + 1 - x[2]] \o x[1]]
<1>0. \A i \in 1 .. N : V[i] \in Seq(A) /\ L[i] \in 0 .. N - i
  BY DEF PartsOK
<1>1. \A k \in 1 .. N : N + 1 - k \in 1 .. N
  OBVIOUS
<1>2. \A k \in 1 .. N : J[k] \in 0 .. k - 1
  <2> SUFFICES ASSUME NEW k \in 1 .. N PROVE J[k] \in 0 .. k - 1
    OBVIOUS
  <2>1. L[N + 1 - k] \in 0 .. N - (N + 1 - k)
    BY <1>0, <1>1
  <2>2. N - (N + 1 - k) = k - 1
    OBVIOUS
  <2> QED BY <2>1, <2>2
<1>3. F \in [Seq(A) \X (1 .. N) -> Seq(A)]
  <2>1. \A x \in Seq(A), k \in 1 .. N : V[N + 1 - k] \o x \in Seq(A)
    BY <1>0, <1>1, ConcatProperties
  <2> QED BY <2>1
<1>4. PICK g \in [0 .. N -> Seq(A)] : Leaps(g, << >>, N, F, J)
  <2>1. << >> \in Seq(A)
    BY EmptySeq
  <2> HIDE DEF F, J
  <2> QED BY <1>2, <1>3, <2>1, LeapingRecursion
<1> DEFINE f == [i \in 1 .. N + 1 |-> g[N + 1 - i]]
<1>5. \A i \in 1 .. N + 1 : N + 1 - i \in 0 .. N
  OBVIOUS
<1>6. f \in [1 .. N + 1 -> Seq(A)]
  BY <1>5
<1>7. f[N + 1] = << >>
  BY <1>4 DEF Leaps
<1>8. ASSUME NEW i \in 1 .. N PROVE f[i] = V[i] \o f[i + 1 + L[i]]
  <2> DEFINE k == N + 1 - i
  <2>1. k \in 1 .. N /\ N + 1 - k = i
    OBVIOUS
  <2>2. L[i] \in 0 .. N - i
    BY <1>0
  <2>3. J[k] = N - i - L[i] /\ J[k] \in 0 .. N
    BY <2>1, <2>2
  <2>4. i + 1 + L[i] \in 1 .. N + 1 /\ N + 1 - (i + 1 + L[i]) = N - i - L[i]
    BY <2>2
  <2>5. f[i + 1 + L[i]] = g[J[k]]
    BY <2>3, <2>4
  <2>6. g[k] = F[<< g[J[k]], k >>]
    <3> HIDE DEF F, J, k
    <3> QED BY <1>4, <2>1 DEF Leaps
  <2>7. F[<< g[J[k]], k >>] = V[i] \o g[J[k]]
    <3>1. g[J[k]] \in Seq(A)
      BY <2>3
    <3> HIDE DEF J
    <3> QED BY <2>1, <3>1
  <2>8. f[i] = g[k]
    <3>1. i \in 1 .. N + 1
      OBVIOUS
    <3> QED BY <3>1
  <2> HIDE DEF f, F, J, k
  <2> QED BY <2>5, <2>6, <2>7, <2>8
<1> HIDE DEF f
<1> QED BY <1>6, <1>7, <1>8 DEF Steps

LEMMA StepsUnique ==
    ASSUME NEW A, NEW N \in Nat, NEW V, NEW L, PartsOK(N, L, V, A),
           NEW f, NEW h, Steps(f, N, L, V), Steps(h, N, L, V)
    PROVE  f[1] = h[1]
<1> DEFINE Wrong == { r \in 0 .. N : f[N + 1 - r] # h[N + 1 - r] }
<1>1. ASSUME Wrong # {} PROVE FALSE
  <2>1. Wrong \subseteq Nat
    OBVIOUS
  <2>2. PICK r \in Wrong : \A k \in Wrong : r <= k
    <3> HIDE DEF Wrong
    <3> QED BY <1>1, <2>1, Least
  <2>3. r \in 0 .. N /\ f[N + 1 - r] # h[N + 1 - r]
    OBVIOUS
  <2>4. r # 0
    BY <2>3 DEF Steps
  <2> DEFINE i == N + 1 - r
             q == r - 1 - L[i]
  <2>5. i \in 1 .. N /\ L[i] \in 0 .. N - i
    BY <2>3, <2>4 DEF PartsOK
  <2>6. q \in 0 .. N /\ ~(r <= q) /\ N + 1 - q = i + 1 + L[i]
    BY <2>3, <2>5
  <2>7. f[i + 1 + L[i]] = h[i + 1 + L[i]]
    <3>1. q \notin Wrong
      BY <2>2, <2>6
    <3> QED BY <2>6, <3>1
  <2>8. f[i] = h[i]
    BY <2>5, <2>7 DEF Steps
  <2> QED BY <2>3, <2>8
<1>2. ASSUME NEW i \in 1 .. N + 1 PROVE f[i] = h[i]
  <2>1. N + 1 - i \in 0 .. N /\ N + 1 - (N + 1 - i) = i
    OBVIOUS
  <2> QED BY <1>1, <2>1
<1>3. 1 \in 1 .. N + 1
  OBVIOUS
<1> QED BY <1>2, <1>3

\* The pieces M, of which those at o + 1 to o + N are the V[i] at the positions
\* where From stops, and nothing at the ones it leaps over.
LeapsOver(N, o, L, V, D, M) ==
    /\ 1 \notin D
    /\ \A i \in 1 .. N : i \notin D =>
         /\ M[o + i] = V[i] /\ i + 1 + L[i] \notin D
         /\ \A k \in i + 1 .. i + L[i] : M[o + k] = << >>

\* g joins the pieces M, and N of them are behind the first o, which are empty.
Gathers(g, M, m, o, N, A) ==
    /\ m \in Nat /\ o \in Nat /\ N \in Nat /\ o + N <= m
    /\ g \in [0 .. m -> Seq(A)] /\ Joins(g, M, m) /\ g[o] = << >>

WalkGathers(g, M, m, o, N, L, V, D, From, A) ==
    /\ Gathers(g, M, m, o, N, A) /\ PartsOK(N, L, V, A)
    /\ From \in [1 .. N + 1 -> Seq(A)] /\ Steps(From, N, L, V)
    /\ LeapsOver(N, o, L, V, D, M)

LEMMA LeapsJoin ==
    ASSUME NEW A, NEW N, NEW o, NEW m, NEW M, NEW g, NEW V, NEW L, NEW From, NEW D,
           WalkGathers(g, M, m, o, N, L, V, D, From, A)
    PROVE  g[o + N] = From[1]
<1>g. /\ m \in Nat /\ o \in Nat /\ N \in Nat /\ o + N <= m
      /\ g \in [0 .. m -> Seq(A)] /\ Joins(g, M, m) /\ g[o] = << >>
      /\ From \in [1 .. N + 1 -> Seq(A)] /\ Steps(From, N, L, V)
      /\ PartsOK(N, L, V, A) /\ LeapsOver(N, o, L, V, D, M)
  BY DEF Gathers, WalkGathers
<1> USE <1>g
<1> DEFINE Stop(i) == i \notin D /\ g[o + i - 1] \o From[i] = From[1]
           Left == { r \in 0 .. N : Stop(N + 1 - r) }
<1> HIDE DEF Stop
<1>1. \A i \in 1 .. N + 1 : From[i] \in Seq(A) /\ g[o + i - 1] \in Seq(A)
  OBVIOUS
<1>2. N \in Left
  <2>1. N + 1 - N = 1 /\ o + 1 - 1 = o /\ 1 \in 1 .. N + 1
    OBVIOUS
  <2>2. << >> \o From[1] = From[1]
    BY <1>1, <2>1, ConcatEmptySeq
  <2>3. Stop(1)
    BY <2>1, <2>2 DEF LeapsOver, Stop
  <2> QED BY <2>1, <2>3
<1>3. PICK r \in Left : \A k \in Left : r <= k
  <2>1. Left \subseteq Nat
    OBVIOUS
  <2> HIDE DEF Left
  <2> QED BY <1>2, <2>1, Least
<1>4. r \in 0 .. N /\ Stop(N + 1 - r)
  BY DEF Left
<1> HIDE DEF Left
<1>5. ASSUME r # 0 PROVE FALSE
  <2>0. PICK i, l : i = N + 1 - r /\ l = L[i]
    OBVIOUS
  <2>1. i \in 1 .. N /\ l \in Nat /\ i + l <= N
    <3>1. r \in 0 .. N
      BY <1>4
    <3>2. i \in 1 .. N
      BY <1>5, <2>0, <3>1
    <3>3. l \in 0 .. N - i
      BY <2>0, <3>2 DEF PartsOK
    <3> QED BY <3>2, <3>3
  <2>2. /\ i \notin D /\ N + 1 - r = i /\ r = N + 1 - i
        /\ g[o + i - 1] \o From[i] = From[1]
    <3>1. r \in 0 .. N /\ Stop(i)
      BY <1>4, <2>0
    <3>2. N + 1 - r = i /\ r = N + 1 - i
      BY <2>0, <2>1, <3>1
    <3> QED BY <3>1, <3>2 DEF Stop
  <2>3. /\ M[o + i] = V[i] /\ i + 1 + l \notin D
        /\ \A k \in i + 1 .. i + l : M[o + k] = << >>
    BY <2>0, <2>1, <2>2 DEF LeapsOver
  <2> DEFINE T == { k \in 0 .. l : g[o + i + k] = g[o + i] }
  <2>4. ASSUME NEW k \in 1 .. l, k - 1 \in T PROVE k \in T
    <3>1. o + i + k \in 1 .. m /\ o + i + k - 1 \in 0 .. m
      <4> HIDE DEF T
      <4> QED BY <2>1
    <3>2. g[o + i + k] = g[o + i + k - 1] \o M[o + i + k]
      <4>1. PICK q : q = o + i + k
        OBVIOUS
      <4>2. q \in 1 .. m /\ q - 1 = o + i + k - 1
        <5> HIDE DEF T
        <5> QED BY <2>1, <3>1, <4>1
      <4>3. g[q] = g[q - 1] \o M[q]
        BY <4>2 DEF Joins
      <4> QED BY <4>1, <4>2, <4>3
    <3>3. M[o + i + k] = << >>
      <4>1. i + k \in i + 1 .. i + l /\ o + (i + k) = o + i + k
        BY <2>1
      <4> QED BY <2>3, <4>1
    <3>4. g[o + i + k - 1] = g[o + i]
      <4>1. o + i + (k - 1) = o + i + k - 1
        BY <2>1
      <4> QED BY <2>4, <4>1
    <3>5. g[o + i + k - 1] \in Seq(A)
      BY <3>1
    <3>6. g[o + i + k - 1] \o << >> = g[o + i + k - 1]
      BY <3>5, ConcatEmptySeq
    <3>7. g[o + i + k] = g[o + i]
      BY <3>2, <3>3, <3>4, <3>6
    <3> QED BY <3>7
  <2>5. 0 \in T
    <3>1. o + i + 0 = o + i
      BY <2>1
    <3> QED BY <2>1, <3>1
  <2>6. g[o + i + l] = g[o + i]
    <3>1. 0 .. l \subseteq T
      <4>1. l \in Nat /\ \A k \in 1 .. l : k - 1 \in T => k \in T
        BY <2>1, <2>4
      <4> HIDE DEF T
      <4> QED BY <2>5, <4>1, Upto
    <3>2. l \in 0 .. l
      BY <2>1
    <3> QED BY <3>1, <3>2
  <2> HIDE DEF T
  <2>7. g[o + i] = g[o + i - 1] \o V[i]
    <3>1. PICK q : q = o + i
      OBVIOUS
    <3>2. q \in 1 .. m /\ q - 1 = o + i - 1
      BY <2>1, <3>1
    <3>3. g[q] = g[q - 1] \o M[q]
      BY <3>2 DEF Joins
    <3> QED BY <2>3, <3>1, <3>2, <3>3
  <2>8. From[i] = V[i] \o From[i + 1 + l]
    BY <2>0, <2>1 DEF Steps
  <2>9. PICK x, y, z : x = g[o + i - 1] /\ y = V[i] /\ z = From[i + 1 + l]
    OBVIOUS
  <2>10. x \in Seq(A) /\ y \in Seq(A) /\ z \in Seq(A)
    <3>1. i \in 1 .. N + 1 /\ i + 1 + l \in 1 .. N + 1
      BY <2>1
    <3> QED BY <1>1, <2>1, <2>9, <3>1 DEF PartsOK
  <2>11. (x \o y) \o z = x \o (y \o z)
    <3>1. Regroups(x, y, z)
      BY <2>10, Regroup
    <3> QED BY <3>1 DEF Regroups
  <2>12. x \o (y \o z) = From[1]
    BY <2>2, <2>8, <2>9
  <2>13. PICK n : n = i + 1 + l
    OBVIOUS
  <2>14. n \in 1 .. N + 1 /\ o + n - 1 = o + i + l
    BY <2>1, <2>13
  <2>15. Stop(n)
    BY <2>3, <2>6, <2>7, <2>9, <2>11, <2>12, <2>13, <2>14 DEF Stop
  <2>16. N + 1 - n \in 0 .. N /\ N + 1 - (N + 1 - n) = n /\ ~(r <= N + 1 - n)
    BY <2>1, <2>2, <2>13
  <2>17. N + 1 - n \in Left
    BY <2>15, <2>16 DEF Left
  <2> QED BY <1>3, <2>16, <2>17
<1>6. N + 1 - r = N + 1 /\ o + (N + 1) - 1 = o + N
  BY <1>4, <1>5
<1>7. g[o + N] \o From[N + 1] = From[1] /\ From[N + 1] = << >>
  BY <1>4, <1>6 DEF Steps, Stop
<1>8. g[o + N] \in Seq(A)
  OBVIOUS
<1>9. g[o + N] \o << >> = g[o + N]
  BY <1>8, ConcatEmptySeq
<1> QED BY <1>7, <1>9

-----------------------------------------------------------------------------
(* Names behind dollars.                                                    *)

\* The run of characters in S from i on ends at e.
RunTo(s, i, S, e) ==
    /\ e \in i - 1 .. Len(s)
    /\ { j \in DOMAIN s : i <= j /\ \A k \in i .. j : s[k] \in S } = i .. e
    /\ \A k \in i .. e : s[k] \in S
    /\ e < Len(s) => s[e + 1] \notin S
    /\ Run(s, i, S) = e - i + 1

LEMMA RunIs ==
    ASSUME NEW A, NEW s \in Seq(A), NEW i \in 1 .. Len(s) + 1, NEW S
    PROVE  \E e : RunTo(s, i, S, e)
<1> DEFINE n == Len(s)
           Stop == { j \in i .. n + 1 : j <= n => s[j] \notin S }
           I == { j \in DOMAIN s : i <= j /\ \A k \in i .. j : s[k] \in S }
<1>1. n \in Nat /\ DOMAIN s = 1 .. n /\ i \in Nat /\ i >= 1 /\ i <= n + 1
  BY LenProperties
<1> HIDE DEF n
<1>2. n + 1 \in Stop /\ Stop \subseteq Nat
  BY <1>1
<1>3. PICK p \in Stop : \A j \in Stop : p <= j
  <2> HIDE DEF Stop
  <2> QED BY <1>2, Least
<1>4. p \in i .. n + 1 /\ (p <= n => s[p] \notin S)
  OBVIOUS
<1>5. \A k \in i .. p - 1 : s[k] \in S
  <2> SUFFICES ASSUME NEW k \in i .. p - 1, s[k] \notin S PROVE FALSE
    OBVIOUS
  <2>1. k \in Stop /\ ~(p <= k)
    BY <1>1, <1>4
  <2> QED BY <1>3, <2>1
<1> HIDE DEF Stop
<1>6. I = i .. p - 1
  <2>1. ASSUME NEW j \in I PROVE j \in i .. p - 1
    <3>1. j \in 1 .. n /\ i <= j /\ \A k \in i .. j : s[k] \in S
      BY <1>1
    <3>2. ~(p <= j)
      <4> SUFFICES ASSUME p <= j PROVE FALSE
        OBVIOUS
      <4>1. p \in i .. j /\ p <= n
        BY <1>1, <1>4, <3>1
      <4> QED BY <1>4, <3>1, <4>1
    <3> QED BY <1>1, <1>4, <3>1, <3>2
  <2>2. ASSUME NEW j \in i .. p - 1 PROVE j \in I
    <3>1. j \in 1 .. n /\ \A k \in i .. j : k \in i .. p - 1
      BY <1>1, <1>4
    <3> QED BY <1>1, <1>5, <3>1
  <2> HIDE DEF I
  <2> QED BY <2>1, <2>2
<1>7. Run(s, i, S) = Cardinality(i .. p - 1)
  BY <1>6 DEF Run
<1>8. Cardinality(i .. p - 1) = p - 1 - i + 1
  <2>1. i \in Int /\ p - 1 \in Int
    BY <1>1, <1>4
  <2>2. Cardinality(i .. p - 1) = IF i > p - 1 THEN 0 ELSE p - 1 - i + 1
    BY <2>1, FS_Interval
  <2> QED BY <1>1, <1>4, <2>2
<1>9. RunTo(s, i, S, p - 1)
  <2>1. p - 1 \in i - 1 .. n /\ (p - 1 < n => s[(p - 1) + 1] \notin S)
    <3>1. (p - 1) + 1 = p
      BY <1>1, <1>4
    <3> QED BY <1>1, <1>4, <3>1
  <2> QED BY <2>1, <1>5, <1>6, <1>7, <1>8 DEF RunTo, n
<1> QED BY <1>9

\* What the characters of s are to an expansion: the lengths L of the names
\* behind its dollars, and V, what comes of each.
Parts(s, L, V) ==
    \A i \in 1 .. Len(s) :
        V[i] = IF s[i] # "$" THEN << s[i] >>
               ELSE IF L[i] = 0 THEN << "$" >> ELSE ValueOf(SubSeq(s, i + 1, i + L[i]))

Expands(s, L, V, text) ==
    \E f \in [1 .. Len(s) + 1 -> Seq(STRING)] : Steps(f, Len(s), L, V) /\ text = f[1]

NoLength(s, L) == \A i \in 1 .. Len(s) : s[i] # "$" => L[i] = 0

LEMMA TextExpands ==
    ASSUME NEW s \in Seq(STRING), NEW len, NEW L, NEW V, Parts(s, L, V), NoLength(s, L),
           PartsOK(Len(s), L, V, STRING),
           \A i \in 1 .. Len(s) : s[i] = "$" => L[i] = len[i]
    PROVE  Expands(s, L, V, Expand(s, len))
<1> DEFINE n == Len(s)
           Def(f) == [i \in 1 .. n + 1 |->
                        IF i > n THEN << >>
                        ELSE IF s[i] # "$" THEN << s[i] >> \o f[i + 1]
                        ELSE LET l == len[i]
                             IN  (IF l = 0 THEN << "$" >> ELSE ValueOf(SubSeq(s, i + 1, i + l)))
                                     \o f[i + 1 + l]]
           From == CHOOSE f : f = Def(f)
<1>1. n \in Nat
  BY LenProperties
<1>2. ASSUME NEW f, NEW i \in 1 .. n
      PROVE  Def(f)[i] = V[i] \o f[i + 1 + L[i]]
  <2>1. i \in 1 .. n + 1 /\ ~(i > n)
    BY <1>1
  <2>2. CASE s[i] # "$"
    <3>1. L[i] = 0 /\ V[i] = << s[i] >>
      BY <2>2 DEF NoLength, Parts
    <3>2. i + 1 + L[i] = i + 1
      BY <3>1
    <3> HIDE DEF n
    <3>3. Def(f)[i] = << s[i] >> \o f[i + 1]
      BY <2>1, <2>2
    <3> QED BY <3>1, <3>2, <3>3
  <2>3. CASE s[i] = "$"
    <3>1. L[i] = len[i]
      BY <2>3
    <3>2. V[i] = IF L[i] = 0 THEN << "$" >> ELSE ValueOf(SubSeq(s, i + 1, i + L[i]))
      BY <2>3 DEF Parts
    <3> HIDE DEF n
    <3>3. Def(f)[i] = (IF L[i] = 0 THEN << "$" >> ELSE ValueOf(SubSeq(s, i + 1, i + L[i])))
                         \o f[i + 1 + L[i]]
      BY <2>1, <2>3, <3>1
    <3> QED BY <3>2, <3>3
  <2> QED BY <2>2, <2>3
<1>3. \A f : Def(f)[n + 1] = << >>
  BY <1>1
<1>4. PICK g \in [1 .. n + 1 -> Seq(STRING)] : Steps(g, n, L, V)
  BY <1>1, StepsExist
<1>5. g = Def(g)
  <2>1. ASSUME NEW i \in 1 .. n + 1 PROVE g[i] = Def(g)[i]
    <3>1. CASE i \in 1 .. n
      <4>1. g[i] = V[i] \o g[i + 1 + L[i]]
        BY <1>4, <3>1 DEF Steps
      <4> HIDE DEF Def
      <4> QED BY <1>2, <3>1, <4>1
    <3>2. CASE i = n + 1
      <4> HIDE DEF Def
      <4> QED BY <1>3, <1>4, <3>2 DEF Steps
    <3> HIDE DEF Def
    <3> QED BY <1>1, <3>1, <3>2
  <2>2. Def(g) = [i \in 1 .. n + 1 |-> Def(g)[i]]
    OBVIOUS
  <2>3. g = [i \in 1 .. n + 1 |-> g[i]]
    OBVIOUS
  <2> HIDE DEF Def, n
  <2> QED BY <2>1, <2>2, <2>3
<1>6. From = Def(From)
  <2> HIDE DEF Def
  <2> QED BY <1>5
<1>7. Expand(s, len) = From[1]
  BY DEF Expand
<1> HIDE DEF From, Def
<1>8. Steps(From, n, L, V)
  <2>1. From[n + 1] = << >>
    BY <1>3, <1>6
  <2>2. \A i \in 1 .. n : From[i] = V[i] \o From[i + 1 + L[i]]
    BY <1>2, <1>6
  <2> QED BY <2>1, <2>2 DEF Steps
<1>9. From[1] = g[1]
  <2> HIDE DEF n
  <2>1. PartsOK(n, L, V, STRING)
    BY DEF n
  <2> QED BY <1>1, <1>4, <1>8, <2>1, StepsUnique
<1> QED BY <1>4, <1>7, <1>9 DEF Expands

-----------------------------------------------------------------------------
(* Texts within the line, by position.                                      *)

EnvTyped == \A name \in DOMAIN env : env[name] \in Seq(STRING)

LEMMA ValueTyped ==
    ASSUME EnvTyped, NEW name
    PROVE  ValueOf(name) \in Seq(STRING)
<1>1. Code \in Seq(STRING) /\ << >> \in Seq(STRING)
  BY WordsAssumption, EmptySeq
<1> QED BY <1>1 DEF EnvTyped, ValueOf

LEMMA NamesApart ==
    /\ "$" \notin NameChars /\ "?" \notin NameChars /\ NUL \notin NameChars
    /\ Letters \subseteq NameChars /\ Digits \subseteq NameChars
    /\ \A c \in OperatorChars \cup Spaces : c \notin NameChars /\ c # "$" /\ c # "?"
<1>1. NameChars \cap (OperatorChars \cup Spaces \cup { "$", "?", NUL }) = {}
  BY WordsAssumption DEF NameChars
<1>2. \A c \in OperatorChars \cup Spaces : c # "$" /\ c # "?"
  BY DEF OperatorChars, Spaces
<1> QED BY <1>1, <1>2 DEF NameChars

\* F is the set of the characters that a name may begin with.
NameSet(j, F) == { k \in j + 1 .. Len(content) : InName(content, j, k, F) }

Some(j, Live, F) ==
    \E i \in 1 .. j - 1 : content[i] = "$" /\ i \in Live /\ InName(content, i, j, F)

PieceAt(j, Live, F) ==
    IF content[j] = "$" /\ j \in Live /\ NameSet(j, F) # {}
    THEN ValueOf(SubSeq(content, j + 1, j + Cardinality(NameSet(j, F))))
    ELSE IF Some(j, Live, F) THEN << >> ELSE << content[j] >>

\* No name reaches into the positions from a to b, and none out of them.
Apart(a, b) ==
    /\ a \in 1 .. Len(content) + 1 /\ b \in a - 1 .. Len(content)
    /\ a > 1 => content[a - 1] \notin NameChars /\ content[a - 1] # "$"
    /\ b < Len(content) => content[b + 1] \notin NameChars /\ content[b + 1] # "?"

\* L and V are right for position j, which is the p-th of N.
SpanOK(j, p, N, Live, L, V, F) ==
    IF content[j] = "$" /\ j \in Live
    THEN /\ L[p] \in 0 .. N - p
         /\ NameSet(j, F) = j + 1 .. j + L[p]
         /\ V[p] = IF L[p] = 0 THEN << content[j] >>
                   ELSE ValueOf(SubSeq(content, j + 1, j + L[p]))
    ELSE L[p] = 0 /\ V[p] = << content[j] >>

SpansOK(a, N, Live, L, V, F) == \A p \in 1 .. N : SpanOK(a - 1 + p, p, N, Live, L, V, F)

PiecesAt(a, N, o, M, Live, F) == \A p \in 1 .. N : M[o + p] = PieceAt(a - 1 + p, Live, F)

LEMMA Stretch ==
    ASSUME NEW j \in Nat, NEW l \in Nat \ { 0 }
    PROVE  Cardinality(j + 1 .. j + l) = l /\ j + 1 .. j + l # {}
<1>1. PICK a, b : a = j + 1 /\ b = j + l
  OBVIOUS
<1>2. a \in Int /\ b \in Int /\ ~(a > b) /\ b - a + 1 = l
  BY <1>1
<1>3. Cardinality(a .. b) = b - a + 1
  <2>1. Cardinality(a .. b) = IF a > b THEN 0 ELSE b - a + 1
    BY <1>2, FS_Interval
  <2> QED BY <1>2, <2>1
<1>4. a \in a .. b
  BY <1>2
<1> QED BY <1>1, <1>2, <1>3, <1>4

LEMMA SpansLeap ==
    ASSUME Typed, NEW a, NEW b, Apart(a, b), NEW N, N = b - a + 1, NEW Live, NEW F, NEW L, NEW V,
           SpansOK(a, N, Live, L, V, F), NEW o \in Nat, NEW M, PiecesAt(a, N, o, M, Live, F),
           NEW D, D = { p \in 1 .. N : Some(a - 1 + p, Live, F) }
    PROVE  LeapsOver(N, o, L, V, D, M)
<1>0. /\ Len(content) \in Nat /\ a \in Nat /\ b \in Int /\ N \in Nat /\ a >= 1
      /\ b <= Len(content) /\ b = a - 1 + N
  BY LineLength DEF Apart
<1>1. ASSUME 1 \in D PROVE FALSE
  <2>1. Some(a, Live, F)
    BY <1>0, <1>1
  <2>2. PICK i \in 1 .. a - 1 : content[i] = "$" /\ InName(content, i, a, F)
    BY <2>1 DEF Some
  <2>3. content[a - 1] \notin NameChars /\ content[a - 1] # "$"
    BY <1>0, <2>2 DEF Apart
  <2>4. i # a - 1
    BY <2>2, <2>3
  <2>5. a - 1 \in i + 1 .. a /\ a # i + 1
    BY <1>0, <2>4
  <2> QED BY <2>2, <2>3, <2>5 DEF InName
<1>2. ASSUME NEW p \in 1 .. N, p \notin D
      PROVE  /\ M[o + p] = V[p] /\ p + 1 + L[p] \notin D
             /\ \A k \in p + 1 .. p + L[p] : M[o + k] = << >>
  <2>0. PICK j, l : j = a - 1 + p /\ l = L[p]
    OBVIOUS
  <2>1. j \in 1 .. Len(content) /\ j \in Nat /\ j >= a
    BY <1>0, <2>0
  <2>2. SpanOK(j, p, N, Live, L, V, F)
    BY <2>0 DEF SpansOK
  <2>3. M[o + p] = PieceAt(j, Live, F)
    BY <2>0 DEF PiecesAt
  <2>4. ~Some(j, Live, F)
    BY <1>2, <2>0
  <2>5. CASE ~(content[j] = "$" /\ j \in Live)
    <3>1. l = 0 /\ V[p] = << content[j] >>
      BY <2>0, <2>2, <2>5 DEF SpanOK
    <3>2. M[o + p] = V[p]
      BY <2>3, <2>4, <2>5, <3>1 DEF PieceAt
    <3>3. ASSUME p + 1 \in D PROVE FALSE
      <4>1. Some(j + 1, Live, F)
        <5>1. Some(a - 1 + (p + 1), Live, F)
          BY <3>3
        <5>2. a - 1 + (p + 1) = j + 1
          BY <1>0, <2>0
        <5> QED BY <5>1, <5>2
      <4>2. PICK i \in 1 .. j : /\ content[i] = "$" /\ i \in Live
                                /\ InName(content, i, j + 1, F)
        <5>1. PICK q : q = j + 1
          OBVIOUS
        <5>2. PICK i \in 1 .. q - 1 : content[i] = "$" /\ i \in Live /\ InName(content, i, q, F)
          BY <4>1, <5>1 DEF Some
        <5>3. i \in 1 .. j
          BY <2>1, <5>1
        <5> QED BY <5>1, <5>2, <5>3
      <4>3. i # j
        BY <2>5, <4>2
      <4>4. i \in 1 .. j - 1 /\ i + 1 # j + 1 /\ i + 1 .. j \subseteq i + 1 .. j + 1
        BY <2>1, <4>3
      <4>5. InName(content, i, j, F)
        BY <4>2, <4>4 DEF InName
      <4> QED BY <2>4, <4>2, <4>4, <4>5 DEF Some
    <3>4. p + 1 + l = p + 1 /\ p + 1 .. p + l = {}
      BY <3>1
    <3> QED BY <2>0, <3>2, <3>3, <3>4
  <2>6. CASE content[j] = "$" /\ j \in Live
    <3>1. /\ l \in 0 .. N - p /\ NameSet(j, F) = j + 1 .. j + l
          /\ V[p] = IF l = 0 THEN << content[j] >>
                    ELSE ValueOf(SubSeq(content, j + 1, j + l))
      BY <2>0, <2>2, <2>6 DEF SpanOK
    <3>2. l \in Nat /\ j + l <= b /\ p + l <= N
      BY <1>0, <2>0, <3>1
    <3>3. M[o + p] = V[p]
      <4>1. CASE l = 0
        <5>1. NameSet(j, F) = {}
          BY <2>1, <3>1, <4>1
        <5> QED BY <2>3, <2>4, <3>1, <4>1, <5>1 DEF PieceAt
      <4>2. CASE l # 0
        <5>1. Cardinality(j + 1 .. j + l) = l /\ j + 1 .. j + l # {}
          BY <2>1, <3>2, <4>2, Stretch
        <5> QED BY <2>3, <2>6, <3>1, <4>2, <5>1 DEF PieceAt
      <4> QED BY <4>1, <4>2
    <3>4. \A k \in j + 1 .. j + l : InName(content, j, k, F) /\ content[k] # "$"
      <4> SUFFICES ASSUME NEW k \in j + 1 .. j + l
                   PROVE  InName(content, j, k, F) /\ content[k] # "$"
        OBVIOUS
      <4>1. k \in NameSet(j, F)
        BY <3>1
      <4>2. InName(content, j, k, F)
        BY <4>1 DEF NameSet
      <4>3. content[k] = "?" \/ content[k] \in NameChars
        <5>1. k \in j + 1 .. k
          BY <2>1
        <5> QED BY <4>2, <5>1 DEF InName
      <4>4. content[k] # "$"
        BY <4>3, NamesApart
      <4> QED BY <4>2, <4>4
    <3>5. ASSUME NEW k \in p + 1 .. p + l PROVE M[o + k] = << >>
      <4>1. PICK q : q = a - 1 + k
        OBVIOUS
      <4>2. q \in j + 1 .. j + l /\ k \in 1 .. N /\ j \in 1 .. q - 1
        BY <1>0, <2>0, <2>1, <3>2, <4>1
      <4>3. M[o + k] = PieceAt(q, Live, F)
        BY <4>1, <4>2 DEF PiecesAt
      <4>4. content[q] # "$" /\ InName(content, j, q, F)
        BY <3>4, <4>2
      <4>5. Some(q, Live, F)
        BY <2>6, <4>2, <4>4 DEF Some
      <4> QED BY <4>3, <4>4, <4>5 DEF PieceAt
    <3>6. ASSUME p + 1 + l \in D PROVE FALSE
      <4>1. PICK q : q = j + 1 + l
        OBVIOUS
      <4>2. q \in Nat /\ q <= Len(content) /\ q > j + l
        <5>1. p + 1 + l \in 1 .. N
          BY <3>6
        <5>2. p + 1 + l <= N
          BY <5>1
        <5>3. j + 1 + l <= b
          BY <1>0, <2>0, <3>2, <5>2
        <5> QED BY <1>0, <2>1, <3>2, <4>1, <5>3
      <4>3. Some(q, Live, F)
        <5>1. Some(a - 1 + (p + 1 + l), Live, F)
          BY <3>6
        <5>2. a - 1 + (p + 1 + l) = q
          <6>1. p \in Nat /\ l \in Nat
            BY <3>2
          <6> QED BY <1>0, <2>0, <4>1, <6>1
        <5> QED BY <5>1, <5>2
      <4>4. PICK i \in 1 .. q - 1 : content[i] = "$" /\ i \in Live /\ InName(content, i, q, F)
        BY <4>3 DEF Some
      <4>5. CASE i = j
        <5>1. q \in NameSet(j, F)
          BY <2>1, <3>2, <4>1, <4>2, <4>4, <4>5 DEF NameSet
        <5> QED BY <2>1, <3>1, <3>2, <4>2, <5>1
      <4>6. CASE i < j
        <5>1. i \in 1 .. j - 1 /\ q # i + 1 /\ i + 1 .. j \subseteq i + 1 .. q
          BY <2>1, <3>2, <4>1, <4>6
        <5>2. InName(content, i, j, F)
          BY <4>4, <5>1 DEF InName
        <5> QED BY <2>4, <4>4, <5>1, <5>2 DEF Some
      <4>7. CASE i > j
        <5>1. i \in j + 1 .. j + l
          BY <2>1, <3>2, <4>1, <4>7
        <5> QED BY <3>4, <4>4, <5>1
      <4> QED BY <2>1, <4>5, <4>6, <4>7
    <3> QED BY <2>0, <3>3, <3>5, <3>6
  <2> QED BY <2>5, <2>6
<1> QED BY <1>1, <1>2 DEF LeapsOver

\* s is the part of the line from a to b.
Within(s, a, b) ==
    /\ s \in Seq(STRING) /\ Len(s) = b - a + 1 /\ DOMAIN s = 1 .. Len(s)
    /\ \A p \in 1 .. Len(s) : s[p] = content[a - 1 + p]
    /\ \A p \in 1 .. Len(s) : \A q \in p .. Len(s) :
         SubSeq(s, p, q) = SubSeq(content, a - 1 + p, a - 1 + q)

\* A part of a part of a text.
LEMMA PartOfPart ==
    ASSUME NEW s \in Seq(STRING), NEW i \in 1 .. Len(s), NEW j \in 1 .. Len(s),
           NEW m \in 1 .. j - i + 1, NEW n \in 1 .. j - i + 1
    PROVE  SubSeq(SubSeq(s, i, j), m, n) = SubSeq(s, i + m - 1, i + n - 1)
<1>1. PICK t : t = s
  OBVIOUS
<1> QED BY <1>1, SubSeqOfSubSeq

LEMMA IsWithin ==
    ASSUME Typed, NEW a, NEW b, Apart(a, b), NEW s, s = SubSeq(content, a, b)
    PROVE  Within(s, a, b)
<1>0. /\ Len(content) \in Nat /\ a \in 1 .. Len(content) + 1 /\ b \in a - 1 .. Len(content)
      /\ a \in Int /\ b \in Int
  BY LineLength DEF Apart
<1>1. content \in Seq(STRING) /\ \A i \in 1 .. Len(content) : content[i] \in STRING
  <2>1. content \in Seq(STRING \ { NUL })
    BY DEF Typed
  <2>2. \A i \in 1 .. Len(content) : content[i] \in STRING
    BY <2>1, ElementOfSeq
  <2> QED BY <2>1, <2>2
<1>2. \A i \in a .. b : content[i] \in STRING
  BY <1>0, <1>1
<1>3. /\ s \in Seq(STRING) /\ Len(s) = (IF a <= b THEN b - a + 1 ELSE 0)
      /\ \A p \in 1 .. b - a + 1 : s[p] = content[a + p - 1]
  BY <1>0, <1>2, SubSeqProperties
<1>4. Len(s) = b - a + 1 /\ DOMAIN s = 1 .. Len(s) /\ Len(s) \in Nat
  BY <1>0, <1>3
<1>5. \A p \in 1 .. Len(s) : s[p] = content[a - 1 + p]
  <2> SUFFICES ASSUME NEW p \in 1 .. Len(s) PROVE s[p] = content[a - 1 + p]
    OBVIOUS
  <2>1. a + p - 1 = a - 1 + p
    BY <1>0, <1>4
  <2> QED BY <1>3, <1>4, <2>1
<1>6. ASSUME NEW p \in 1 .. Len(s), NEW q \in p .. Len(s)
      PROVE  SubSeq(s, p, q) = SubSeq(content, a - 1 + p, a - 1 + q)
  <2>1. a \in 1 .. Len(content) /\ b \in 1 .. Len(content)
    BY <1>0, <1>4
  <2>2. p \in 1 .. b - a + 1 /\ q \in 1 .. b - a + 1
    BY <1>4
  <2>3. SubSeq(SubSeq(content, a, b), p, q) = SubSeq(content, a + p - 1, a + q - 1)
    BY <1>1, <2>1, <2>2, PartOfPart
  <2>4. a + p - 1 = a - 1 + p /\ a + q - 1 = a - 1 + q
    BY <1>0, <1>4
  <2> QED BY <2>3, <2>4
<1> QED BY <1>3, <1>4, <1>5, <1>6 DEF Within

NameEnds(s, a, p, l, F) ==
    /\ l \in 0 .. Len(s) - p
    /\ NameSet(a - 1 + p, F) = a - 1 + p + 1 .. a - 1 + p + l

\* What both kinds of expansion take for a name.
NameLen(s, i, F) ==
    IF CharAt(s, i) = "?" THEN 1
    ELSE IF CharAt(s, i) \in F THEN Run(s, i, NameChars) ELSE 0

LEMMA NameSpan ==
    ASSUME Typed, NEW a, NEW b, Apart(a, b), NEW s, Within(s, a, b), NEW p \in 1 .. Len(s),
           NEW F \in SUBSET NameChars
    PROVE  NameEnds(s, a, p, NameLen(s, p + 1, F), F)
<1>0. PICK j, n, N, l, c : /\ j = a - 1 + p /\ n = Len(content) /\ N = Len(s)
                           /\ l = NameLen(s, p + 1, F) /\ c = CharAt(s, p + 1)
  OBVIOUS
<1>1. /\ n \in Nat /\ a \in Nat /\ a >= 1 /\ b \in Int /\ b <= n /\ N = b - a + 1
      /\ N \in Nat /\ p \in 1 .. N /\ j \in a .. b /\ j \in Nat /\ b = a - 1 + N
  BY <1>0, LineLength DEF Apart, Within
<1>2. \A q \in 1 .. N : s[q] = content[a - 1 + q]
  BY <1>0 DEF Within
<1>3. \A k : k \in NameSet(j, F) <=> k \in j + 1 .. n /\ InName(content, j, k, F)
  BY <1>0 DEF NameSet
<1>4. p < N => c = s[p + 1] /\ c = content[j + 1]
  <2> SUFFICES ASSUME p < N PROVE c = s[p + 1] /\ c = content[j + 1]
    OBVIOUS
  <2>1. p + 1 \in 1 .. N /\ a - 1 + (p + 1) = j + 1
    BY <1>0, <1>1
  <2>2. p + 1 \in DOMAIN s
    BY <1>0, <2>1 DEF Within
  <2> QED BY <1>0, <1>2, <2>1, <2>2 DEF CharAt
<1>5. p = N => c = NUL
  <2>1. p = N => p + 1 \notin DOMAIN s
    BY <1>0, <1>1 DEF Within
  <2> QED BY <1>0, <2>1 DEF CharAt
<1>6. p = N => NameSet(j, F) = {}
  <2> SUFFICES ASSUME p = N, NEW k \in NameSet(j, F) PROVE FALSE
    OBVIOUS
  <2>1. k \in j + 1 .. n /\ InName(content, j, k, F)
    BY <1>3
  <2>2. j = b /\ b < n /\ j + 1 \in j + 1 .. k
    BY <1>0, <1>1, <2>1
  <2>3. content[j + 1] \notin NameChars /\ content[j + 1] # "?"
    BY <1>0, <2>2 DEF Apart
  <2> QED BY <2>1, <2>2, <2>3 DEF InName
<1>7. "?" \notin F /\ NUL \notin F /\ NUL # "?" /\ F \subseteq NameChars
  BY NamesApart DEF NUL
<1>8. CASE c = "?"
  <2>1. l = 1 /\ p < N
    BY <1>0, <1>1, <1>5, <1>7, <1>8 DEF NameLen
  <2>2. content[j + 1] = "?" /\ j + 1 \in j + 1 .. n
    BY <1>0, <1>1, <1>4, <1>8, <2>1
  <2>3. \A k : k \in NameSet(j, F) <=> k = j + 1
    <3>1. \A k \in j + 1 .. n : InName(content, j, k, F) <=> k = j + 1
      BY <1>7, <2>2 DEF InName
    <3> QED BY <1>3, <2>2, <3>1
  <2>4. NameSet(j, F) = j + 1 .. j + l
    <3>1. \A k : k \in j + 1 .. j + l <=> k = j + 1
      BY <1>1, <2>1
    <3> QED BY <2>3, <3>1
  <2> QED BY <1>0, <1>1, <2>1, <2>4 DEF NameEnds
<1>9. CASE c \in F
  <2>1. p < N
    BY <1>1, <1>5, <1>7, <1>9
  <2>2. l = Run(s, p + 1, NameChars)
    BY <1>0, <1>7, <1>9 DEF NameLen
  <2>3. PICK e : RunTo(s, p + 1, NameChars, e)
    <3>1. s \in Seq(STRING)
      BY DEF Within
    <3>2. p + 1 \in 1 .. N + 1
      BY <1>1
    <3>3. p + 1 \in 1 .. Len(s) + 1
      BY <1>0, <3>2
    <3> QED BY <3>1, <3>3, RunIs
  <2>4. /\ e \in p .. N /\ l = e - p
        /\ \A k \in p + 1 .. e : s[k] \in NameChars
        /\ e < N => s[e + 1] \notin NameChars
    <3>1. /\ e \in p + 1 - 1 .. N /\ l = e - (p + 1) + 1
          /\ \A k \in p + 1 .. e : s[k] \in NameChars
          /\ e < N => s[e + 1] \notin NameChars
      BY <1>0, <2>2, <2>3 DEF RunTo
    <3> QED BY <1>1, <3>1
  <2>5. \A k \in j + 1 .. j + l : content[k] \in NameChars
    <3> SUFFICES ASSUME NEW k \in j + 1 .. j + l PROVE content[k] \in NameChars
      OBVIOUS
    <3>1. PICK q : q = k - (a - 1)
      OBVIOUS
    <3>2. q \in p + 1 .. e /\ q \in 1 .. N /\ a - 1 + q = k
      BY <1>0, <1>1, <2>4, <3>1
    <3> QED BY <1>2, <2>4, <3>2
  <2>6. j + l + 1 <= n => content[j + l + 1] \notin NameChars
    <3> SUFFICES ASSUME j + l + 1 <= n PROVE content[j + l + 1] \notin NameChars
      OBVIOUS
    <3>1. CASE e < N
      <4>1. e + 1 \in 1 .. N /\ a - 1 + (e + 1) = j + l + 1
        BY <1>0, <1>1, <2>4, <3>1
      <4> QED BY <1>2, <2>4, <3>1, <4>1
    <3>2. CASE e = N
      <4>1. j + l = b /\ b < n
        BY <1>0, <1>1, <2>4, <3>2
      <4> QED BY <1>0, <4>1 DEF Apart
    <3> QED BY <1>1, <2>4, <3>1, <3>2
  <2>7. content[j + 1] \in F /\ content[j + 1] # "?" /\ j + l <= n
    BY <1>0, <1>1, <1>4, <1>7, <1>9, <2>1, <2>4
  <2>8. ASSUME NEW k \in NameSet(j, F) PROVE k \in j + 1 .. j + l
    <3>1. k \in j + 1 .. n /\ \A q \in j + 1 .. k : content[q] \in NameChars
      BY <1>3, <2>7 DEF InName
    <3>2. ~(k > j + l)
      <4> SUFFICES ASSUME k > j + l PROVE FALSE
        OBVIOUS
      <4>1. j + l + 1 \in j + 1 .. k /\ j + l + 1 <= n
        BY <1>1, <2>4, <3>1
      <4> QED BY <2>6, <3>1, <4>1
    <3> QED BY <1>1, <2>4, <3>1, <3>2
  <2>9. ASSUME NEW k \in j + 1 .. j + l PROVE k \in NameSet(j, F)
    <3>1. k \in j + 1 .. n /\ \A q \in j + 1 .. k : q \in j + 1 .. j + l
      BY <1>1, <2>4, <2>7
    <3>2. InName(content, j, k, F)
      BY <2>5, <2>7, <3>1 DEF InName
    <3> QED BY <1>3, <3>1, <3>2
  <2>10. NameSet(j, F) = j + 1 .. j + l /\ l \in 0 .. N - p
    <3>1. l \in 0 .. N - p
      BY <1>1, <2>4
    <3> QED BY <2>8, <2>9, <3>1
  <2> QED BY <1>0, <2>10 DEF NameEnds
<1>10. CASE c # "?" /\ c \notin F
  <2>1. l = 0
    BY <1>0, <1>10 DEF NameLen
  <2>2. NameSet(j, F) = {}
    <3>1. CASE p < N
      <4> SUFFICES ASSUME NEW k \in NameSet(j, F) PROVE FALSE
        OBVIOUS
      <4>1. InName(content, j, k, F)
        BY <1>3
      <4>2. content[j + 1] # "?" /\ content[j + 1] \notin F
        BY <1>4, <1>10, <3>1
      <4> QED BY <4>1, <4>2 DEF InName
    <3> QED BY <1>1, <1>6, <3>1
  <2>3. j + 1 .. j + l = {} /\ l \in 0 .. N - p
    BY <1>1, <2>1
  <2> QED BY <1>0, <2>2, <2>3 DEF NameEnds
<1> QED BY <1>8, <1>9, <1>10

\* The length that a word, and a here-document, take.
LEMMA WordLen ==
    ASSUME NEW s, NEW i
    PROVE  VarNameLen(s, i) = NameLen(s, i, Letters)
BY DEF VarNameLen, NameLen, NameChars

LEMMA LineLen ==
    ASSUME NEW s \in Seq(STRING), NEW i \in 1 .. Len(s) + 1
    PROVE  HeredocNameLen(s, i) = NameLen(s, i, NameChars)
<1>1. CASE CharAt(s, i) = "?" \/ CharAt(s, i) \in NameChars
  BY <1>1 DEF HeredocNameLen, NameLen, NameChars
<1>2. CASE CharAt(s, i) # "?" /\ CharAt(s, i) \notin NameChars
  <2>1. NameLen(s, i, NameChars) = 0 /\ HeredocNameLen(s, i) = Run(s, i, NameChars)
    BY <1>2 DEF HeredocNameLen, NameLen, NameChars
  <2>2. PICK e : RunTo(s, i, NameChars, e)
    BY RunIs
  <2>3. /\ e \in i - 1 .. Len(s) /\ \A k \in i .. e : s[k] \in NameChars
        /\ Run(s, i, NameChars) = e - i + 1 /\ Len(s) \in Nat /\ DOMAIN s = 1 .. Len(s)
    BY <2>2, LenProperties DEF RunTo
  <2>4. e = i - 1
    <3> SUFFICES ASSUME e # i - 1 PROVE FALSE
      OBVIOUS
    <3>1. i \in i .. e /\ i \in DOMAIN s
      BY <2>3
    <3>2. s[i] \in NameChars
      BY <2>3, <3>1
    <3>3. CharAt(s, i) = s[i]
      BY <3>1 DEF CharAt
    <3> QED BY <1>2, <3>2, <3>3
  <2> QED BY <2>1, <2>3, <2>4
<1> QED BY <1>1, <1>2

\* s, the line from a to b, in the pieces of M behind the first o, which g joins.
TextAt(s, a, b, Live, g, M, m, o, F) ==
    /\ Apart(a, b) /\ Within(s, a, b) /\ Gathers(g, M, m, o, Len(s), STRING)
    /\ PiecesAt(a, Len(s), o, M, Live, F)

LensOK(s, len, F) == \A p \in 1 .. Len(s) : s[p] = "$" => len[p] = NameLen(s, p + 1, F)

AllLive(a, b, Live) == \A j \in a .. b : j \in Live

\* The pieces of a text in which dollars count, joined, are its expansion.
LEMMA TextJoins ==
    ASSUME Typed, EnvTyped, NEW a, NEW b, NEW s, NEW Live, NEW len, NEW o, NEW m, NEW M, NEW g,
           NEW F \in SUBSET NameChars,
           TextAt(s, a, b, Live, g, M, m, o, F), AllLive(a, b, Live), LensOK(s, len, F)
    PROVE  g[o + Len(s)] = Expand(s, len)
<1>t. /\ Apart(a, b) /\ Within(s, a, b) /\ Gathers(g, M, m, o, Len(s), STRING)
      /\ PiecesAt(a, Len(s), o, M, Live, F)
  BY DEF TextAt
<1>l. \A j \in a .. b : j \in Live
  BY DEF AllLive
<1>n. \A p \in 1 .. Len(s) : s[p] = "$" => len[p] = NameLen(s, p + 1, F)
  BY DEF LensOK
<1> USE <1>t
<1>0. PICK N : N = Len(s)
  OBVIOUS
<1>1. /\ N \in Nat /\ N = b - a + 1 /\ s \in Seq(STRING) /\ a \in Nat /\ b \in Int
      /\ \A p \in 1 .. N : a - 1 + p \in a .. b
      /\ \A p \in 1 .. N : s[p] = content[a - 1 + p] /\ s[p] \in STRING
  <2>1. s \in Seq(STRING) /\ N = b - a + 1 /\ a \in Nat /\ b \in Int
    BY <1>0, LineLength DEF Within, Apart
  <2>2. N \in Nat
    BY <1>0, <2>1, LenProperties
  <2>3. \A p \in 1 .. N : a - 1 + p \in a .. b
    BY <2>1, <2>2
  <2>4. \A p \in 1 .. N : s[p] \in STRING
    BY <1>0, <2>1, ElementOfSeq
  <2>5. \A p \in 1 .. N : s[p] = content[a - 1 + p]
    BY <1>0 DEF Within
  <2> QED BY <2>1, <2>2, <2>3, <2>4, <2>5
<1> DEFINE L == [p \in 1 .. N |-> IF s[p] = "$" THEN NameLen(s, p + 1, F) ELSE 0]
           V == [p \in 1 .. N |->
                   IF s[p] # "$" THEN << s[p] >>
                   ELSE IF L[p] = 0 THEN << "$" >> ELSE ValueOf(SubSeq(s, p + 1, p + L[p]))]
           D == { p \in 1 .. N : Some(a - 1 + p, Live, F) }
<1>2. \A p \in 1 .. N : /\ s[p] = "$" => L[p] = NameLen(s, p + 1, F)
                        /\ s[p] # "$" => L[p] = 0
  OBVIOUS
<1>3. \A p \in 1 .. N : V[p] = IF s[p] # "$" THEN << s[p] >>
                               ELSE IF L[p] = 0 THEN << "$" >>
                               ELSE ValueOf(SubSeq(s, p + 1, p + L[p]))
  <2> HIDE DEF L
  <2> QED OBVIOUS
<1> HIDE DEF L, V
<1>4. ASSUME NEW p \in 1 .. N, s[p] = "$"
      PROVE  /\ L[p] \in 0 .. N - p
             /\ NameSet(a - 1 + p, F) = a - 1 + p + 1 .. a - 1 + p + L[p]
  <2>1. NameEnds(s, a, p, NameLen(s, p + 1, F), F)
    BY <1>0, NameSpan
  <2> QED BY <1>0, <1>2, <1>4, <2>1 DEF NameEnds
<1>5. \A p \in 1 .. N : L[p] \in 0 .. N - p
  <2> SUFFICES ASSUME NEW p \in 1 .. N PROVE L[p] \in 0 .. N - p
    OBVIOUS
  <2>1. CASE s[p] = "$"
    BY <1>4, <2>1
  <2>2. CASE s[p] # "$"
    BY <1>1, <1>2, <2>2
  <2> QED BY <2>1, <2>2
<1>6. \A p \in 1 .. N : V[p] \in Seq(STRING)
  <2> SUFFICES ASSUME NEW p \in 1 .. N PROVE V[p] \in Seq(STRING)
    OBVIOUS
  <2>1. << s[p] >> \in Seq(STRING)
    BY <1>1
  <2>2. CASE s[p] # "$" \/ L[p] = 0
    BY <1>3, <2>1, <2>2
  <2>3. CASE s[p] = "$" /\ L[p] # 0
    BY <1>3, <2>3, ValueTyped
  <2> QED BY <2>2, <2>3
<1>7. PartsOK(N, L, V, STRING)
  BY <1>5, <1>6 DEF PartsOK
<1>8. SpansOK(a, N, Live, L, V, F)
  <2> SUFFICES ASSUME NEW p \in 1 .. N PROVE SpanOK(a - 1 + p, p, N, Live, L, V, F)
    BY DEF SpansOK
  <2>0. PICK j : j = a - 1 + p
    OBVIOUS
  <2>1. j \in a .. b /\ j \in Live /\ s[p] = content[j]
    BY <1>1, <1>l, <2>0
  <2>2. CASE s[p] # "$"
    BY <1>2, <1>3, <2>0, <2>1, <2>2 DEF SpanOK
  <2>3. CASE s[p] = "$"
    <3>1. L[p] \in 0 .. N - p /\ NameSet(j, F) = j + 1 .. j + L[p]
      BY <1>4, <2>0, <2>3
    <3>2. L[p] # 0 => SubSeq(s, p + 1, p + L[p]) = SubSeq(content, j + 1, j + L[p])
      <4> SUFFICES ASSUME L[p] # 0
                   PROVE  SubSeq(s, p + 1, p + L[p]) = SubSeq(content, j + 1, j + L[p])
        OBVIOUS
      <4>1. PICK x, y, l : x = p + 1 /\ y = p + l /\ l = L[p]
        OBVIOUS
      <4>2. l \in Nat /\ l # 0 /\ p + l <= N /\ p \in Nat /\ p >= 1
        BY <1>1, <3>1, <4>1
      <4>3. x \in 1 .. N /\ y \in x .. N /\ a - 1 + x = j + 1 /\ a - 1 + y = j + l
        BY <1>1, <2>0, <4>1, <4>2
      <4>4. SubSeq(s, x, y) = SubSeq(content, a - 1 + x, a - 1 + y)
        BY <1>0, <4>3 DEF Within
      <4> QED BY <4>1, <4>3, <4>4
    <3>3. V[p] = IF L[p] = 0 THEN << content[j] >>
                 ELSE ValueOf(SubSeq(content, j + 1, j + L[p]))
      BY <1>3, <2>1, <2>3, <3>2
    <3> QED BY <2>0, <2>1, <2>3, <3>1, <3>3 DEF SpanOK
  <2> QED BY <2>2, <2>3
<1>9. LeapsOver(N, o, L, V, D, M)
  <2> HIDE DEF D
  <2>1. D = { p \in 1 .. N : Some(a - 1 + p, Live, F) }
    BY DEF D
  <2>2. PiecesAt(a, N, o, M, Live, F) /\ o \in Nat
    BY <1>0 DEF Gathers
  <2> QED BY <1>1, <1>8, <2>1, <2>2, SpansLeap
<1>10. Expands(s, L, V, Expand(s, len))
  <2>1. Parts(s, L, V)
    BY <1>0, <1>3 DEF Parts
  <2>2. NoLength(s, L)
    BY <1>0, <1>2 DEF NoLength
  <2>3. \A i \in 1 .. Len(s) : s[i] = "$" => L[i] = len[i]
    BY <1>0, <1>2, <1>n
  <2>4. PartsOK(Len(s), L, V, STRING)
    BY <1>0, <1>7
  <2> QED BY <1>1, <2>1, <2>2, <2>3, <2>4, TextExpands
<1>11. PICK f : /\ f \in [1 .. N + 1 -> Seq(STRING)] /\ Steps(f, N, L, V)
                /\ Expand(s, len) = f[1]
  BY <1>0, <1>10 DEF Expands
<1> HIDE DEF D
<1>12. g[o + N] = f[1]
  <2>1. Gathers(g, M, m, o, N, STRING)
    BY <1>0
  <2>2. WalkGathers(g, M, m, o, N, L, V, D, f, STRING)
    BY <1>7, <1>9, <1>11, <2>1 DEF WalkGathers
  <2> QED BY <2>2, LeapsJoin
<1> QED BY <1>0, <1>11, <1>12

\* The pieces of a text in which no dollar counts, joined, are the text.
LEMMA PlainJoins ==
    ASSUME Typed, NEW a, NEW b, NEW s, NEW Live, NEW o, NEW m, NEW M, NEW g, NEW F,
           TextAt(s, a, b, Live, g, M, m, o, F), \A j \in a .. b : j \notin Live
    PROVE  g[o + Len(s)] = s
<1>t. /\ Apart(a, b) /\ Within(s, a, b) /\ Gathers(g, M, m, o, Len(s), STRING)
      /\ PiecesAt(a, Len(s), o, M, Live, F)
  BY DEF TextAt
<1> USE <1>t
<1>0. PICK N : N = Len(s)
  OBVIOUS
<1>1. /\ N \in Nat /\ N = b - a + 1 /\ s \in Seq(STRING) /\ a \in Nat /\ b \in Int
      /\ \A p \in 1 .. N : a - 1 + p \in a .. b
      /\ \A p \in 1 .. N : s[p] = content[a - 1 + p] /\ s[p] \in STRING
  <2>1. s \in Seq(STRING) /\ N = b - a + 1 /\ a \in Nat /\ b \in Int
    BY <1>0, LineLength DEF Within, Apart
  <2>2. N \in Nat
    BY <1>0, <2>1, LenProperties
  <2>3. \A p \in 1 .. N : a - 1 + p \in a .. b
    BY <2>1, <2>2
  <2>4. \A p \in 1 .. N : s[p] \in STRING
    BY <1>0, <2>1, ElementOfSeq
  <2>5. \A p \in 1 .. N : s[p] = content[a - 1 + p]
    BY <1>0 DEF Within
  <2> QED BY <2>1, <2>2, <2>3, <2>4, <2>5
<1> DEFINE L == [p \in 1 .. N |-> 0]
           V == [p \in 1 .. N |-> << s[p] >>]
           f == [p \in 1 .. N + 1 |-> SubSeq(s, p, N)]
           D == { p \in 1 .. N : Some(a - 1 + p, Live, F) }
<1>2. \A p \in 1 .. N : L[p] = 0 /\ V[p] = << s[p] >>
  OBVIOUS
<1> HIDE DEF L, V
<1>3. PartsOK(N, L, V, STRING)
  <2>1. \A p \in 1 .. N : << s[p] >> \in Seq(STRING) /\ 0 \in 0 .. N - p
    BY <1>1
  <2> QED BY <1>2, <2>1 DEF PartsOK
<1>4. SpansOK(a, N, Live, L, V, F)
  <2> SUFFICES ASSUME NEW p \in 1 .. N PROVE SpanOK(a - 1 + p, p, N, Live, L, V, F)
    BY DEF SpansOK
  <2>1. a - 1 + p \notin Live /\ s[p] = content[a - 1 + p]
    BY <1>1
  <2> QED BY <1>2, <2>1 DEF SpanOK
<1>5. LeapsOver(N, o, L, V, D, M)
  <2> HIDE DEF D
  <2>1. D = { p \in 1 .. N : Some(a - 1 + p, Live, F) }
    BY DEF D
  <2>2. PiecesAt(a, N, o, M, Live, F) /\ o \in Nat
    BY <1>0 DEF Gathers
  <2> QED BY <1>1, <1>4, <2>1, <2>2, SpansLeap
<1>6. f \in [1 .. N + 1 -> Seq(STRING)]
  <2>1. \A p \in 1 .. N + 1 : SubSeq(s, p, N) \in Seq(STRING)
    <3> SUFFICES ASSUME NEW p \in 1 .. N + 1 PROVE SubSeq(s, p, N) \in Seq(STRING)
      OBVIOUS
    <3>1. \A i \in p .. N : s[i] \in STRING
      BY <1>1
    <3> QED BY <1>1, <3>1, SubSeqProperties
  <2> QED BY <2>1
<1>7. Steps(f, N, L, V)
  <2>1. f[N + 1] = << >>
    <3>1. SubSeq(s, N + 1, N) = << >>
      BY <1>1, SubSeqEmpty
    <3> QED BY <1>1, <3>1
  <2>2. ASSUME NEW p \in 1 .. N PROVE f[p] = V[p] \o f[p + 1 + L[p]]
    <3>1. p + 1 + L[p] = p + 1 /\ p + 1 \in 1 .. N + 1 /\ p \in 1 .. N + 1
      <4>1. L[p] = 0
        BY <1>2
      <4> HIDE DEF f, D
      <4> QED BY <1>1, <4>1
    <3>2. SubSeq(s, p, N) = << s[p] >> \o SubSeq(s, p + 1, N)
      <4>1. p \in 1 .. Len(s) /\ N \in p .. Len(s)
        BY <1>0, <1>1
      <4> QED BY <1>1, <4>1, SubSeqRecursiveFirst
    <3>3. f[p] = SubSeq(s, p, N) /\ f[p + 1] = SubSeq(s, p + 1, N)
      BY <3>1
    <3> QED BY <1>2, <3>1, <3>2, <3>3
  <2> QED BY <2>1, <2>2 DEF Steps
<1>8. f[1] = s
  <2>1. SubSeq(s, 1, N) = s
    BY <1>0, <1>1, SubSeqFull
  <2>2. 1 \in 1 .. N + 1
    BY <1>1
  <2> QED BY <2>1, <2>2
<1>9. g[o + N] = f[1]
  <2>1. Gathers(g, M, m, o, N, STRING)
    BY <1>0
  <2> HIDE DEF D, f
  <2>2. WalkGathers(g, M, m, o, N, L, V, D, f, STRING)
    BY <1>3, <1>5, <1>6, <1>7, <2>1 DEF WalkGathers
  <2> QED BY <2>2, LeapsJoin
<1> QED BY <1>0, <1>8, <1>9

-----------------------------------------------------------------------------
(* Words and quoted strings among the quotes of the line.                   *)

QuoteOf(type) == IF type = "SQUOTE" THEN "'" ELSE "\""

\* No quote is open where a word begins; a quoted string is what stands from
\* one quote to the next; the other tokens end with an operator.
TextOK(type, from, to) ==
    /\ type = "WORD" => Quoting[from - 1] = NUL
    /\ type \in { "SQUOTE", "DQUOTE" } =>
         /\ from < to /\ content[from] = QuoteOf(type) /\ content[to] = QuoteOf(type)
         /\ Quoting[from - 1] = NUL /\ Quoting[to] = NUL
         /\ \A i \in from .. to - 1 : Quoting[i] = QuoteOf(type)
    /\ type \notin { "WORD", "END", "INVALID" } => content[to] \in OperatorChars

TextInv == \A k \in 1 .. Len(tokens) : TextOK(tokens[k].type, tokens[k].from, tokens[k].to)

LEMMA EmitText ==
    ASSUME LexInv, TextInv, NEW type, NEW wp, NEW to, EmitOK(type, wp, to),
           Emit(type, wp, to), TextOK(type, Trimmed, to)
    PROVE  TextInv'
<1> DEFINE t == [type |-> type, wp |-> wp, from |-> Trimmed, to |-> to]
<1>1. /\ tokens \in Seq(TokenRecords) /\ Len(tokens) \in Nat
      /\ Trimmed \in 1 .. Len(content) + 1 /\ to \in 0 .. Len(content)
  <2>1. Typed
    BY DEF LexInv
  <2>2. Trimmed \in cursor .. Len(content) + 1
    BY <2>1, TrimFound
  <2>3. cursor \in 1 .. Len(content) + 1 /\ tokens \in Seq(TokenRecords)
        /\ Len(content) \in Nat /\ Len(tokens) \in Nat
    BY <2>1, LineLength DEF Typed
  <2>4. to \in 0 .. Len(content)
    BY DEF EmitOK
  <2> QED BY <2>2, <2>3, <2>4
<1>2. content' = content /\ tokens' = Append(tokens, t)
  BY DEF Emit
<1>3. t \in TokenRecords /\ t.from = Trimmed /\ t.to = to /\ t.type = type
  BY <1>1 DEF EmitOK, TokenRecords
<1> HIDE DEF t
<1>4. /\ Len(tokens') = Len(tokens) + 1 /\ tokens'[Len(tokens) + 1] = t
      /\ \A k \in 1 .. Len(tokens) : tokens'[k] = tokens[k]
  BY <1>1, <1>2, <1>3, AppendProperties
<1>5. Quoting' = Quoting
  BY <1>2 DEF Quoting
<1>6. \A k \in 1 .. Len(tokens) :
        TextOK(tokens'[k].type, tokens'[k].from, tokens'[k].to)
  BY <1>4 DEF TextInv
<1>7. TextOK(tokens'[Len(tokens) + 1].type, tokens'[Len(tokens) + 1].from,
             tokens'[Len(tokens) + 1].to)
  BY <1>3, <1>4
<1>8. \A k \in 1 .. Len(tokens) + 1 : k \in 1 .. Len(tokens) \/ k = Len(tokens) + 1
  BY <1>1
<1>9. \A k \in 1 .. Len(tokens') : TextOK(tokens'[k].type, tokens'[k].from, tokens'[k].to)
  BY <1>4, <1>6, <1>7, <1>8
<1>10. content' = content
  BY <1>2
<1>11. ASSUME NEW x, NEW y, NEW z, TextOK(x, y, z) PROVE TextOK(x, y, z)'
  BY <1>5, <1>10, <1>11 DEF TextOK, QuoteOf, OperatorChars
<1>12. PICK u : u = tokens'
  OBVIOUS
<1>13. \A k \in 1 .. Len(u) : TextOK(u[k].type, u[k].from, u[k].to)'
  BY <1>9, <1>11, <1>12
<1> QED BY <1>12, <1>13 DEF TextInv

LEMMA TextByWord ==
    ASSUME LexInv, QuoteInv, TextInv, HandleWord
    PROVE  TextInv'
<1> DEFINE end == FirstIn(Trimmed, OperatorChars)
<1>1. /\ Typed /\ Len(content) \in Nat /\ cursor \in 1 .. Len(content) + 1
      /\ Trimmed \in cursor .. Len(content) + 1
      /\ DOMAIN content = 1 .. Len(content)
      /\ \A k \in cursor .. Trimmed - 1 : content[k] \in Spaces
  BY LineLength, TrimFound DEF LexInv, Typed
<1>2. /\ end \in Trimmed .. Len(content) + 1
      /\ end <= Len(content) => content[end] \in OperatorChars
      /\ \A k \in Trimmed .. end - 1 : content[k] \notin OperatorChars
  <2>1. Trimmed \in 1 .. Len(content) + 1
    BY <1>1
  <2> QED BY <1>1, <2>1, FirstFound
<1> HIDE DEF end
<1>3. Trimmed \in 1 .. Len(content) /\ content[Trimmed] \notin OperatorChars
  <2>1. At(Trimmed) # NUL /\ At(Trimmed) \notin OperatorChars
    BY DEF HandleWord
  <2> QED BY <1>1, <2>1, Reads
<1>4. end > Trimmed
  BY <1>1, <1>2, <1>3
<1>5. At(end - 1 + 1) \in OperatorChars \cup { NUL }
  BY <1>1, <1>2 DEF At
<1>6. EmitOK("WORD", Wp, end - 1)
  <2>1. end - 1 \in 0 .. Len(content) /\ Trimmed <= end - 1
    BY <1>1, <1>2, <1>3, <1>4
  <2> QED BY <1>2, <1>5, <2>1 DEF EmitOK, TokenTypes, WordTypes, Wp
<1>7. Scanning /\ Emit("WORD", Wp, end - 1)
  BY DEF HandleWord, end
<1>8. Quoting[Trimmed - 1] = NUL
  <2>1. \A k \in cursor .. Trimmed - 1 : content[k] \notin Quotes
    BY <1>1 DEF Quotes, Spaces
  <2>2. Trimmed - 1 \in cursor - 1 .. Len(content)
        /\ Trimmed - 1 \in cursor - 1 .. Trimmed - 1
    BY <1>1
  <2>3. \A k \in cursor - 1 .. Trimmed - 1 : Quoting[k] = NUL
    BY <1>1, <1>7, <2>1, <2>2, NoneOpen, NothingOpens
  <2> QED BY <2>2, <2>3
<1>9. TextOK("WORD", Trimmed, end - 1)
  BY <1>8 DEF TextOK
<1> QED BY <1>6, <1>7, <1>9, EmitText

LEMMA TextByQuote ==
    ASSUME LexInv, QuoteInv, TextInv, NEW type \in { "SQUOTE", "DQUOTE" },
           HandleQuote(QuoteOf(type), type)
    PROVE  TextInv'
<1>0. PICK q : q = QuoteOf(type)
  OBVIOUS
<1>1. q \in Quotes /\ HandleQuote(q, type)
  BY <1>0 DEF QuoteOf, Quotes
<1>2. PICK from, close : QuoteSpan(q, type, from, close)
  BY <1>1, QuoteSpans
<1>3. /\ Len(content) \in Nat /\ from = Trimmed /\ from \in 1 .. Len(content)
      /\ close \in from + 1 .. Len(content) + 1 /\ cursor \in 1 .. Len(content) + 1
      /\ Trimmed \in cursor .. Len(content) + 1
  BY <1>2, LineLength, TrimFound DEF LexInv, Typed, QuoteSpan
<1>4. CASE close <= Len(content) /\ Emit(type, Wp, close)
  <2>1. EmitOK(type, Wp, close)
    BY <1>3, <1>4 DEF EmitOK, TokenTypes, WordTypes, Wp
  <2>2. /\ content[from] = q /\ content[close] = q /\ Quoting[close] = NUL
        /\ \A k \in from .. close - 1 : Quoting[k] = q
        /\ \A k \in cursor - 1 .. from - 1 : Quoting[k] = NUL
    BY <1>2, <1>4 DEF QuoteSpan
  <2>3. Quoting[from - 1] = NUL /\ from < close
    <3>1. from - 1 \in cursor - 1 .. from - 1 /\ from < close
      BY <1>3
    <3> QED BY <2>2, <3>1
  <2>4. q \in OperatorChars
    BY <1>1 DEF Quotes, OperatorChars
  <2>5. TextOK(type, from, close)
    BY <1>0, <2>2, <2>3, <2>4 DEF TextOK
  <2> QED BY <1>3, <1>4, <2>1, <2>5, EmitText
<1>5. CASE close > Len(content) /\ Emit("INVALID", Wp, Len(content))
  <2>1. EmitOK("INVALID", Wp, Len(content))
    BY <1>3 DEF EmitOK, TokenTypes, WordTypes, Wp
  <2>2. TextOK("INVALID", Trimmed, Len(content))
    BY DEF TextOK
  <2> QED BY <1>5, <2>1, <2>2, EmitText
<1> QED BY <1>2, <1>4, <1>5 DEF QuoteSpan

LEMMA TextByDouble ==
    ASSUME LexInv, TextInv, NEW c \in { ">", "<" }, NEW type \in { "APPEND", "HEREDOC" },
           HandleDouble(c, type)
    PROVE  TextInv'
<1>1. /\ Typed /\ Len(content) \in Nat /\ Trimmed \in Nat
  BY LineLength, TrimFound DEF LexInv, Typed
<1>2. /\ Trimmed \in 1 .. Len(content) /\ Trimmed + 1 \in 1 .. Len(content)
      /\ content[Trimmed + 1] = c
  <2>1. At(Trimmed) # NUL /\ At(Trimmed + 1) # NUL /\ At(Trimmed + 1) = c
    BY DEF HandleDouble, NUL
  <2> QED BY <1>1, <2>1, Reads
<1>3. PICK any \in BOOLEAN : Emit(type, any, Trimmed + 1)
  BY DEF HandleDouble
<1>4. EmitOK(type, any, Trimmed + 1)
  BY <1>1, <1>2 DEF EmitOK, TokenTypes, Operators, RedirTypes, WordTypes
<1>5. TextOK(type, Trimmed, Trimmed + 1)
  BY <1>2 DEF TextOK, OperatorChars
<1> QED BY <1>3, <1>4, <1>5, EmitText

LEMMA TextByOther ==
    ASSUME LexInv, TextInv, HandleOther
    PROVE  TextInv'
<1>1. /\ Typed /\ Len(content) \in Nat
  BY LineLength DEF LexInv
<1>2. Trimmed \in 1 .. Len(content) /\ content[Trimmed] \in OperatorChars
  <2>1. At(Trimmed) # NUL /\ At(Trimmed) \in OperatorChars
    BY DEF HandleOther, NUL, OperatorChars
  <2> QED BY <1>1, <2>1, Reads
<1>3. PICK type : type = TypeOfChar(At(Trimmed))
  OBVIOUS
<1>4. type \in { "PIPE", "REDIRECT_OUT", "REDIRECT_IN", "INVALID" }
  BY <1>3 DEF TypeOfChar
<1>5. EmitOK(type, FALSE, Trimmed)
  BY <1>1, <1>2, <1>4 DEF EmitOK, TokenTypes, Operators, RedirTypes, WordTypes
<1>6. Emit(type, FALSE, Trimmed)
  BY <1>3 DEF HandleOther
<1>7. TextOK(type, Trimmed, Trimmed)
  BY <1>2, <1>4 DEF TextOK
<1> QED BY <1>5, <1>6, <1>7, EmitText

LEMMA TextByNothing ==
    ASSUME TextInv, content' = content, tokens' = tokens
    PROVE  TextInv'
<1>1. Quoting' = Quoting
  BY DEF Quoting
<1> QED BY <1>1 DEF TextInv, TextOK

LEMMA TextByEnd ==
    ASSUME LexInv, TextInv, HandleEnd
    PROVE  TextInv'
<1>1. CASE tokens = << >> /\ Emit("END", Wp, Len(content))
  <2>1. Typed /\ Len(content) \in Nat /\ Len(content) \in 0 .. Len(content)
    BY LineLength DEF LexInv
  <2>2. EmitOK("END", Wp, Len(content))
    BY <1>1, <2>1 DEF EmitOK, TokenTypes, WordTypes, Wp
  <2>3. TextOK("END", Trimmed, Len(content))
    BY DEF TextOK
  <2> QED BY <1>1, <2>2, <2>3, EmitText
<1>2. CASE UNCHANGED << content, tokens >>
  BY <1>2, TextByNothing
<1> QED BY <1>1, <1>2 DEF HandleEnd

LEMMA TextInvariant == Spec => []TextInv
<1>1. InitWords => TextInv
  BY EmptySeq DEF InitWords, TextInv
<1>2. LexInv /\ QuoteInv /\ TextInv /\ [Next]_vars => TextInv'
  <2> SUFFICES ASSUME LexInv, QuoteInv, TextInv, [Next]_vars PROVE TextInv'
    OBVIOUS
  <2>1. CASE GetNextToken
    <3>1. CASE HandleQuote("'", "SQUOTE")
      <4>1. HandleQuote(QuoteOf("SQUOTE"), "SQUOTE")
        BY <3>1 DEF QuoteOf
      <4> QED BY <4>1, TextByQuote
    <3>2. CASE HandleQuote("\"", "DQUOTE")
      <4>1. HandleQuote(QuoteOf("DQUOTE"), "DQUOTE")
        BY <3>2 DEF QuoteOf
      <4> QED BY <4>1, TextByQuote
    <3>3. CASE HandleDouble(">", "APPEND") \/ HandleDouble("<", "HEREDOC")
      BY <3>3, TextByDouble
    <3> QED BY <2>1, <3>1, <3>2, <3>3, TextByEnd, TextByWord, TextByOther DEF GetNextToken
  <2>2. CASE UNCHANGED lexvars
    BY <2>2, TextByNothing DEF lexvars
  <2> QED BY <2>1, <2>2 DEF Next, Over, vars
<1> QED BY <1>1, <1>2, LexInvariant, QuoteInvariant, PTL DEF Spec

\* The positions at which a dollar counts.
LiveAt == { i \in 1 .. Len(content) : Quoting[i] # "'" }

MeantAt(j) == IF LiveQuote(j) THEN << >> ELSE PieceAt(j, LiveAt, Letters)

LEMMA PieceTyped ==
    ASSUME Typed, EnvTyped, NEW j \in 1 .. Len(content), NEW Live, NEW F
    PROVE  PieceAt(j, Live, F) \in Seq(STRING)
<1>1. content[j] \in STRING
  BY ElementOfSeq DEF Typed
<1>2. << >> \in Seq(STRING) /\ << content[j] >> \in Seq(STRING)
  BY <1>1, EmptySeq
<1> QED BY <1>2, ValueTyped DEF PieceAt

\* t is n characters of the line.
SpanOf(t, n) ==
    t.from \in 1 .. Len(content) /\ t.to \in t.from .. Len(content) /\ n = t.to - t.from + 1

\* g joins the pieces M that the characters of t mean.
MeantJoined(t, n, M, g) ==
    /\ Gathers(g, M, n, 0, n, STRING) /\ Meant(t) = g[n]
    /\ \A k \in 1 .. n : M[k] = MeantAt(t.from - 1 + k)

LEMMA MeantPieces ==
    ASSUME Typed, EnvTyped, NEW t, NEW n, SpanOf(t, n)
    PROVE  \E M, g : MeantJoined(t, n, M, g)
<1>0. PICK from, to : /\ from = t.from /\ to = t.to /\ n = to - from + 1
                      /\ from \in 1 .. Len(content) /\ to \in from .. Len(content)
  BY DEF SpanOf
<1>1. /\ Len(content) \in Nat /\ DOMAIN content = 1 .. Len(content)
      /\ from \in Nat /\ n \in Nat /\ from - 1 + n = to /\ to <= Len(content) /\ from >= 1
  <2>1. Len(content) \in Nat /\ DOMAIN content = 1 .. Len(content)
    BY LineLength
  <2> QED BY <1>0, <2>1
<1>2. ASSUME NEW j \in 1 .. Len(content)
      PROVE  (IF LiveQuote(j) THEN << >> ELSE Becomes(content, j, LiveDollar, Letters)) = MeantAt(j)
  <2>1. \A i \in 1 .. Len(content) : i \in LiveAt <=> LiveDollar(i)
    BY DEF LiveAt, LiveDollar
  <2>2. \A i \in 1 .. j - 1 : i \in 1 .. Len(content)
    BY <1>1
  <2>3. Some(j, LiveAt, Letters) <=> \E i \in 1 .. j - 1 : content[i] = "$" /\ LiveDollar(i)
                                                  /\ InName(content, i, j, Letters)
    BY <2>1, <2>2 DEF Some
  <2>4. Becomes(content, j, LiveDollar, Letters) = PieceAt(j, LiveAt, Letters)
    BY <2>1, <2>3 DEF Becomes, PieceAt, NameSet
  <2> QED BY <2>4 DEF MeantAt
<1> DEFINE M == [k \in 1 .. n |-> MeantAt(from - 1 + k)]
<1>3. \A k \in 1 .. n : from + k - 1 = from - 1 + k /\ from - 1 + k \in 1 .. Len(content)
  BY <1>1
<1>4. Meant(t) = FlattenSeq(M)
  <2>1. Meant(t) = FlattenSeq([k \in 1 .. n |->
                      IF LiveQuote(from + k - 1) THEN << >>
                      ELSE Becomes(content, from + k - 1, LiveDollar, Letters)])
    BY <1>0 DEF Meant
  <2>2. [k \in 1 .. n |-> IF LiveQuote(from + k - 1) THEN << >>
                          ELSE Becomes(content, from + k - 1, LiveDollar, Letters)] = M
    BY <1>2, <1>3
  <2> QED BY <2>1, <2>2
<1>5. \A k \in 1 .. n : MeantAt(from - 1 + k) \in Seq(STRING)
  BY <1>3, PieceTyped, EmptySeq DEF MeantAt
<1>6. M \in [1 .. n -> Seq(STRING)]
  BY <1>5
<1>7. \A k \in 1 .. n : M[k] = MeantAt(from - 1 + k)
  OBVIOUS
<1> HIDE DEF M
<1>8. PICK g \in [0 .. n -> Seq(STRING)] : Joins(g, M, n) /\ FlattenSeq(M) = g[n]
  BY <1>1, <1>6, Joined
<1>9. Gathers(g, M, n, 0, n, STRING)
  <2>1. 0 + n <= n /\ 0 \in Nat
    BY <1>1
  <2>2. g[0] = << >>
    BY <1>8 DEF Joins
  <2> QED BY <1>1, <1>8, <2>1, <2>2 DEF Gathers
<1>10. MeantJoined(t, n, M, g)
  BY <1>0, <1>4, <1>7, <1>8, <1>9 DEF MeantJoined
<1> QED BY <1>10

\* What stands on both sides of a word.
LEMMA WordApart ==
    ASSUME LexInv, TextInv, ~IsBad, NEW k \in 1 .. Len(tokens), tokens[k].type = "WORD",
           NEW from, NEW to, from = tokens[k].from, to = tokens[k].to
    PROVE  /\ Apart(from, to) /\ from \in 1 .. Len(content) /\ to \in from .. Len(content)
           /\ \A i \in from - 1 .. to : Quoting[i] = NUL
<1>1. /\ Typed /\ Len(content) \in Nat /\ DOMAIN content = 1 .. Len(content)
      /\ Len(tokens) \in Nat /\ \A i \in 1 .. Len(content) : content[i] # NUL
      /\ \A i \in 1 .. Len(tokens) : tokens[i] \in TokenRecords
  BY LineLength DEF LexInv
<1>2. from \in 1 .. Len(content) + 1 /\ to \in 0 .. Len(content)
  BY <1>1 DEF TokenRecords
<1>3. /\ EndBefore(k) < from /\ from <= to
      /\ \A i \in EndBefore(k) + 1 .. from - 1 : content[i] \in Spaces
      /\ \A i \in from .. to : content[i] \notin OperatorChars
      /\ At(to + 1) \in OperatorChars \cup { NUL }
  BY DEF LexInv, TileOK
<1>4. from \in 1 .. Len(content) /\ to \in from .. Len(content) /\ from \in from .. to
  BY <1>1, <1>2, <1>3
<1>5. \A i \in from - 1 .. to : Quoting[i] = NUL
  <2>1. Quoting[from - 1] = NUL
    BY DEF TextInv, TextOK
  <2>2. \A i \in from .. to : content[i] \notin Quotes
    BY <1>3 DEF Quotes, OperatorChars
  <2>3. from \in 1 .. Len(content) + 1 /\ to \in from - 1 .. Len(content)
    BY <1>1, <1>4
  <2> QED BY <1>1, <2>1, <2>2, <2>3, NothingOpens
<1>6. to < Len(content) => content[to + 1] \notin NameChars /\ content[to + 1] # "?"
  <2> SUFFICES ASSUME to < Len(content)
               PROVE  content[to + 1] \notin NameChars /\ content[to + 1] # "?"
    OBVIOUS
  <2>1. to + 1 \in 1 .. Len(content)
    BY <1>1, <1>4
  <2>2. content[to + 1] \in OperatorChars
    BY <1>1, <1>3, <2>1 DEF At
  <2> QED BY <2>2, NamesApart
<1>7. from > 1 => content[from - 1] \notin NameChars /\ content[from - 1] # "$"
  <2> SUFFICES ASSUME from > 1
               PROVE  content[from - 1] \notin NameChars /\ content[from - 1] # "$"
    OBVIOUS
  <2>1. content[from - 1] \in OperatorChars \cup Spaces
    <3>1. CASE k = 1
      <4>1. from - 1 \in EndBefore(k) + 1 .. from - 1
        BY <1>4, <3>1 DEF EndBefore
      <4> QED BY <1>3, <4>1
    <3>2. CASE k # 1
      <4>0. PICK j, e : j = k - 1 /\ e = tokens[j].to
        OBVIOUS
      <4>1. /\ j \in 1 .. Len(tokens) /\ tokens[j] \in TokenRecords
            /\ EndBefore(k) = e /\ e \in 0 .. Len(content)
        <5>1. j \in 1 .. Len(tokens)
          BY <1>1, <3>2, <4>0
        <5> QED BY <1>1, <3>2, <4>0, <5>1 DEF EndBefore, TokenRecords
      <4>2. CASE e < from - 1
        <5>1. from - 1 \in EndBefore(k) + 1 .. from - 1
          BY <1>4, <4>1, <4>2
        <5> QED BY <1>3, <5>1
      <4>3. CASE ~(e < from - 1)
        <5>1. e = from - 1 /\ e + 1 = from
          BY <1>3, <1>4, <4>1, <4>3
        <5>2. tokens[j].type # "END"
          <6>1. tokens[j].type = "END" => Len(tokens) = 1
            BY <4>1 DEF LexInv, AloneOK
          <6> QED BY <1>1, <3>2, <6>1
        <5>3. tokens[j].type # "INVALID"
          BY <4>1 DEF IsBad
        <5>4. tokens[j].type # "WORD"
          <6> SUFFICES ASSUME tokens[j].type = "WORD" PROVE FALSE
            OBVIOUS
          <6>1. At(from) \in OperatorChars \cup { NUL }
            BY <4>0, <4>1, <5>1 DEF LexInv, TileOK
          <6> QED BY <1>1, <1>3, <1>4, <6>1 DEF At
        <5>5. TextOK(tokens[j].type, tokens[j].from, e)
          BY <4>0, <4>1 DEF TextInv
        <5> QED BY <5>1, <5>2, <5>3, <5>4, <5>5 DEF TextOK
      <4> QED BY <4>2, <4>3
    <3> QED BY <3>1, <3>2
  <2> QED BY <2>1, NamesApart
<1>8. Apart(from, to)
  <2>1. from \in 1 .. Len(content) + 1 /\ to \in from - 1 .. Len(content)
    BY <1>1, <1>4
  <2> QED BY <1>6, <1>7, <2>1 DEF Apart
<1> QED BY <1>4, <1>5, <1>8

LEMMA WordMeant ==
    ASSUME LexInv, TextInv, EnvTyped, ~IsBad,
           NEW k \in 1 .. Len(tokens), tokens[k].type = "WORD"
    PROVE  TextOf(tokens[k]) = Meant(tokens[k])
<1>0. PICK t, from, to, n : t = tokens[k] /\ from = t.from /\ to = t.to /\ n = to - from + 1
  OBVIOUS
<1>1. /\ Apart(from, to) /\ from \in 1 .. Len(content) /\ to \in from .. Len(content)
      /\ \A i \in from - 1 .. to : Quoting[i] = NUL
  BY <1>0, WordApart
<1>2. Typed /\ Len(content) \in Nat /\ from \in Nat /\ to \in Nat /\ n \in Nat
  BY <1>0, <1>1, LineLength DEF LexInv
<1>3. PICK s : s = SubSeq(content, from, to)
  OBVIOUS
<1>4. Within(s, from, to)
  BY <1>1, <1>2, <1>3, IsWithin
<1>5. s \in Seq(STRING) /\ Len(s) = n /\ DOMAIN s = 1 .. n
  BY <1>0, <1>4 DEF Within
<1>6. PICK M, g : /\ Gathers(g, M, n, 0, n, STRING) /\ Meant(t) = g[n]
                  /\ \A i \in 1 .. n : M[i] = MeantAt(from - 1 + i)
  <2>1. SpanOf(t, n)
    BY <1>0, <1>1 DEF SpanOf
  <2>2. PICK M, g : MeantJoined(t, n, M, g)
    BY <1>2, <2>1, MeantPieces
  <2> QED BY <1>0, <2>2 DEF MeantJoined
<1>7. \A j \in from .. to : j \in LiveAt /\ ~LiveQuote(j)
  <2> SUFFICES ASSUME NEW j \in from .. to PROVE j \in LiveAt /\ ~LiveQuote(j)
    OBVIOUS
  <2>1. j \in from - 1 .. to /\ j - 1 \in from - 1 .. to /\ j \in 1 .. Len(content)
    BY <1>1, <1>2
  <2>2. Quoting[j] = NUL /\ Quoting[j - 1] = NUL /\ NUL # "'"
    BY <1>1, <2>1 DEF NUL
  <2> QED BY <2>1, <2>2 DEF LiveAt, LiveQuote
<1>8. PiecesAt(from, n, 0, M, LiveAt, Letters)
  <2> SUFFICES ASSUME NEW p \in 1 .. n PROVE M[0 + p] = PieceAt(from - 1 + p, LiveAt, Letters)
    BY DEF PiecesAt
  <2>1. from - 1 + p \in from .. to /\ 0 + p = p
    BY <1>0, <1>2
  <2> QED BY <1>6, <1>7, <2>1 DEF MeantAt
<1>9. PICK len : len = [i \in DOMAIN s |-> VarNameLen(s, i + 1)]
  OBVIOUS
<1>10. LensOK(s, len, Letters)
  BY <1>5, <1>9, WordLen DEF LensOK
<1>11. g[0 + Len(s)] = Expand(s, len)
  <2>1. TextAt(s, from, to, LiveAt, g, M, n, 0, Letters)
    BY <1>1, <1>4, <1>5, <1>6, <1>8 DEF TextAt
  <2>2. AllLive(from, to, LiveAt)
    BY <1>7 DEF AllLive
  <2> QED BY <1>2, <1>10, <2>1, <2>2, TextJoins, NamesApart
<1>12. TextOf(t) = Expand(s, len)
  BY <1>0, <1>3, <1>9 DEF TextOf, ExpandWord
<1>13. 0 + Len(s) = n
  BY <1>2, <1>5
<1> QED BY <1>0, <1>6, <1>11, <1>12, <1>13

LEMMA QuotedMeant ==
    ASSUME LexInv, TextInv, EnvTyped,
           NEW k \in 1 .. Len(tokens), tokens[k].type \in { "SQUOTE", "DQUOTE" }
    PROVE  TextOf(tokens[k]) = Meant(tokens[k])
<1>0. PICK t, from, to, n, a, b, N, q :
          /\ t = tokens[k] /\ from = t.from /\ to = t.to /\ n = to - from + 1
          /\ a = from + 1 /\ b = to - 1 /\ N = b - a + 1 /\ q = QuoteOf(t.type)
  OBVIOUS
<1>p. n = to - from + 1 /\ a = from + 1 /\ b = to - 1 /\ N = b - a + 1
  BY <1>0
<1>1. /\ Typed /\ Len(content) \in Nat /\ from \in 1 .. Len(content) + 1
      /\ to \in 0 .. Len(content)
  BY <1>0, LineLength DEF LexInv, TokenRecords
<1>2. /\ from < to /\ content[from] = q /\ content[to] = q
      /\ Quoting[from - 1] = NUL /\ Quoting[to] = NUL
      /\ \A i \in from .. to - 1 : Quoting[i] = q
  BY <1>0 DEF TextInv, TextOK
<1>3. /\ from \in Nat /\ from >= 1 /\ to \in Nat /\ to <= Len(content) /\ n \in Nat /\ n >= 2
      /\ a \in 1 .. Len(content) + 1 /\ b \in a - 1 .. Len(content)
      /\ N \in Nat /\ n = N + 2 /\ a - 1 = from /\ b + 1 = to
      /\ from \in 1 .. Len(content) /\ to \in from .. Len(content)
  BY <1>p, <1>1, <1>2
<1>4. q \in OperatorChars /\ q # NUL
  BY <1>0 DEF QuoteOf, OperatorChars, NUL
<1>5. Apart(a, b)
  BY <1>2, <1>3, <1>4, NamesApart DEF Apart
<1>6. PICK s : s = SubSeq(content, a, b)
  OBVIOUS
<1>7. Within(s, a, b)
  BY <1>1, <1>5, <1>6, IsWithin
<1>8. Len(s) = N /\ DOMAIN s = 1 .. N /\ s \in Seq(STRING)
  BY <1>0, <1>7 DEF Within
<1>9. Unquoted(SubSeq(content, from, to)) = s
  <2>1. PICK r : r = SubSeq(content, from, to)
    OBVIOUS
  <2>2. content \in Seq(STRING)
    <3>1. content \in Seq(STRING \ { NUL })
      BY <1>1 DEF Typed
    <3> QED BY <3>1
  <2>3. Len(r) = n
    <3>1. \A i \in from .. to : content[i] \in STRING
      <4>1. \A i \in from .. to : i \in 1 .. Len(content)
        BY <1>1, <1>3
      <4> QED BY <2>2, <4>1, ElementOfSeq
    <3>2. Len(r) = IF from <= to THEN to - from + 1 ELSE 0
      BY <1>3, <2>1, <3>1, SubSeqProperties
    <3> QED BY <1>p, <1>2, <1>3, <3>2
  <2>4. SubSeq(SubSeq(content, from, to), 2, n - 1)
          = SubSeq(content, from + 2 - 1, from + (n - 1) - 1)
    <3>1. PICK x, y : x = 2 /\ y = n - 1
      OBVIOUS
    <3>2. x \in 1 .. to - from + 1 /\ y \in 1 .. to - from + 1
      BY <1>p, <1>3, <3>1
    <3>3. from \in 1 .. Len(content) /\ to \in 1 .. Len(content)
      BY <1>1, <1>3
    <3>4. SubSeq(SubSeq(content, from, to), x, y)
            = SubSeq(content, from + x - 1, from + y - 1)
      BY <2>2, <3>2, <3>3, PartOfPart
    <3> QED BY <3>1, <3>4
  <2>5. from + 2 - 1 = a /\ from + (n - 1) - 1 = b
    BY <1>p, <1>3
  <2> QED BY <1>6, <2>1, <2>3, <2>4, <2>5 DEF Unquoted
<1>m. t.from = from /\ t.to = to /\ n = to - from + 1
  BY <1>0
<1>10. PICK M, g : /\ Gathers(g, M, n, 0, n, STRING) /\ Meant(t) = g[n]
                   /\ \A i \in 1 .. n : M[i] = MeantAt(from - 1 + i)
  <2>1. SpanOf(t, n)
    BY <1>m, <1>3 DEF SpanOf
  <2>2. PICK M, g : MeantJoined(t, n, M, g)
    BY <1>1, <2>1, MeantPieces
  <2> QED BY <1>m, <2>2 DEF MeantJoined
<1>11. M[1] = << >> /\ M[n] = << >>
  <2>1. LiveQuote(from) /\ LiveQuote(to)
    <3>1. from \in from .. to - 1 /\ to - 1 \in from .. to - 1
      BY <1>2, <1>3
    <3> QED BY <1>2, <1>4, <3>1 DEF LiveQuote
  <2>2. 1 \in 1 .. n /\ n \in 1 .. n /\ from - 1 + 1 = from /\ from - 1 + n = to
    BY <1>p, <1>3
  <2> QED BY <1>10, <2>1, <2>2 DEF MeantAt
<1>12. \A j \in a .. b : ~LiveQuote(j) /\ Quoting[j] = q /\ j \in 1 .. Len(content)
  <2> SUFFICES ASSUME NEW j \in a .. b
               PROVE  ~LiveQuote(j) /\ Quoting[j] = q /\ j \in 1 .. Len(content)
    OBVIOUS
  <2>1. j \in from .. to - 1 /\ j - 1 \in from .. to - 1 /\ j \in 1 .. Len(content)
    BY <1>p, <1>1, <1>3
  <2> QED BY <1>2, <2>1 DEF LiveQuote
<1>13. PiecesAt(a, N, 1, M, LiveAt, Letters)
  <2> SUFFICES ASSUME NEW p \in 1 .. N PROVE M[1 + p] = PieceAt(a - 1 + p, LiveAt, Letters)
    BY DEF PiecesAt
  <2>1. a - 1 + p \in a .. b /\ 1 + p \in 1 .. n /\ from - 1 + (1 + p) = a - 1 + p
    BY <1>p, <1>3
  <2> QED BY <1>10, <1>12, <2>1 DEF MeantAt
<1>14. /\ n \in Nat /\ g \in [0 .. n -> Seq(STRING)] /\ g[0] = << >>
       /\ \A i \in 1 .. n : g[i] = g[i - 1] \o M[i]
  BY <1>10 DEF Gathers, Joins
<1>15. g[1] = << >>
  <2>1. 1 \in 1 .. n /\ 1 - 1 = 0
    BY <1>3
  <2>2. g[1] = << >> \o << >>
    BY <1>11, <1>14, <2>1
  <2> QED BY <2>2
<1>16. g[n] = g[1 + N]
  <2>1. n \in 1 .. n /\ n - 1 = 1 + N /\ 1 + N \in 0 .. n
    BY <1>3
  <2>2. g[n] = g[1 + N] \o << >> /\ g[1 + N] \in Seq(STRING)
    BY <1>11, <1>14, <2>1
  <2> QED BY <2>2, ConcatEmptySeq
<1>17. Gathers(g, M, n, 1, N, STRING)
  <2>1. 1 + N <= n /\ 1 \in Nat
    BY <1>3
  <2>2. Joins(g, M, n)
    BY <1>10 DEF Gathers
  <2> QED BY <1>3, <1>14, <1>15, <2>1, <2>2 DEF Gathers
<1>18. TextAt(s, a, b, LiveAt, g, M, n, 1, Letters)
  BY <1>5, <1>7, <1>8, <1>13, <1>17 DEF TextAt
<1>19. 1 + Len(s) = 1 + N
  BY <1>8
<1>20. CASE t.type = "SQUOTE"
  <2>1. q = "'"
    BY <1>0, <1>20 DEF QuoteOf
  <2>2. \A j \in a .. b : j \notin LiveAt
    BY <1>12, <2>1 DEF LiveAt
  <2>3. g[1 + Len(s)] = s
    BY <1>1, <1>18, <2>2, PlainJoins
  <2>4. TextOf(t) = s
    BY <1>0, <1>9, <1>20 DEF TextOf
  <2> QED BY <1>0, <1>10, <1>16, <1>19, <2>3, <2>4
<1>21. CASE t.type = "DQUOTE"
  <2>1. q # "'"
    BY <1>0, <1>21 DEF QuoteOf
  <2>2. AllLive(a, b, LiveAt)
    BY <1>12, <2>1 DEF LiveAt, AllLive
  <2>3. PICK len : len = [i \in DOMAIN s |-> VarNameLen(s, i + 1)]
    OBVIOUS
  <2>4. LensOK(s, len, Letters)
    BY <1>8, <2>3, WordLen DEF LensOK
  <2>5. g[1 + Len(s)] = Expand(s, len)
    BY <1>1, <1>18, <2>2, <2>4, TextJoins, NamesApart
  <2>6. TextOf(t) = Expand(s, len)
    BY <1>0, <1>9, <1>21, <2>3 DEF TextOf, ExpandWord
  <2> QED BY <1>0, <1>10, <1>16, <1>19, <2>5, <2>6
<1> QED BY <1>0, <1>20, <1>21

LEMMA LineMeant ==
    ASSUME Typed, EnvTyped
    PROVE  ExpandLine(content) = MeantLine
<1>0. PICK s, n : s = content /\ n = Len(content)
  OBVIOUS
<1>1. n \in Nat /\ DOMAIN content = 1 .. n /\ s \in Seq(STRING) /\ Len(s) = n
  <2>1. content \in Seq(STRING \ { NUL })
    BY DEF Typed
  <2>2. content \in Seq(STRING)
    BY <2>1
  <2> QED BY <1>0, <2>2, LineLength
<1>2. Apart(1, n)
  BY <1>0, <1>1 DEF Apart
<1>3. Within(s, 1, n)
  <2>1. s = SubSeq(content, 1, n)
    BY <1>0, <1>1, SubSeqFull
  <2> QED BY <1>2, <2>1, IsWithin
<1>4. PICK Live : Live = 1 .. n
  OBVIOUS
<1>5. \A j \in 1 .. n : Becomes(content, j, LAMBDA i : TRUE, NameChars)
                            = PieceAt(j, Live, NameChars)
  <2> SUFFICES ASSUME NEW j \in 1 .. n
               PROVE  Becomes(content, j, LAMBDA i : TRUE, NameChars)
                        = PieceAt(j, Live, NameChars)
    OBVIOUS
  <2>1. \A i \in 1 .. j - 1 : i \in Live
    BY <1>1, <1>4
  <2>2. Some(j, Live, NameChars) <=>
          \E i \in 1 .. j - 1 : content[i] = "$" /\ InName(content, i, j, NameChars)
    BY <2>1 DEF Some
  <2> QED BY <1>4, <2>2 DEF Becomes, PieceAt, NameSet
<1>m. PICK M : M = [j \in 1 .. n |-> PieceAt(j, Live, NameChars)]
  OBVIOUS
<1>6. MeantLine = FlattenSeq(M)
  <2>1. [j \in DOMAIN content |-> Becomes(content, j, LAMBDA i : TRUE, NameChars)] = M
    BY <1>1, <1>5, <1>m
  <2> QED BY <2>1 DEF MeantLine
<1>7. M \in [1 .. n -> Seq(STRING)]
  <2>1. \A j \in 1 .. n : PieceAt(j, Live, NameChars) \in Seq(STRING)
    BY <1>0, PieceTyped
  <2> QED BY <1>m, <2>1
<1>8. \A j \in 1 .. n : M[j] = PieceAt(j, Live, NameChars)
  BY <1>m
<1>9. PICK g : /\ g \in [0 .. n -> Seq(STRING)] /\ Joins(g, M, n) /\ FlattenSeq(M) = g[n]
  BY <1>1, <1>7, Joined
<1>10. Gathers(g, M, n, 0, Len(s), STRING)
  <2>1. 0 + Len(s) <= n /\ 0 \in Nat /\ Len(s) \in Nat
    BY <1>1
  <2>2. g[0] = << >>
    BY <1>9 DEF Joins
  <2> QED BY <1>1, <1>9, <2>1, <2>2 DEF Gathers
<1>11. PiecesAt(1, Len(s), 0, M, Live, NameChars)
  <2> SUFFICES ASSUME NEW p \in 1 .. n PROVE M[0 + p] = PieceAt(1 - 1 + p, Live, NameChars)
    BY <1>1 DEF PiecesAt
  <2>1. 0 + p = p /\ 1 - 1 + p = p
    BY <1>1
  <2> QED BY <1>8, <2>1
<1>12. PICK len : len = [i \in DOMAIN s |-> HeredocNameLen(s, i + 1)]
  OBVIOUS
<1>13. ASSUME NEW p \in 1 .. Len(s), s[p] = "$" PROVE len[p] = NameLen(s, p + 1, NameChars)
  <2>1. len[p] = HeredocNameLen(s, p + 1)
    BY <1>0, <1>1, <1>12
  <2>2. p + 1 \in 1 .. Len(s) + 1
    BY <1>1
  <2> QED BY <1>1, <2>1, <2>2, LineLen
<1>14. g[0 + Len(s)] = Expand(s, len)
  <2>1. AllLive(1, n, Live)
    BY <1>4 DEF AllLive
  <2>2. LensOK(s, len, NameChars)
    BY <1>13 DEF LensOK
  <2>3. TextAt(s, 1, n, Live, g, M, n, 0, NameChars)
    BY <1>2, <1>3, <1>10, <1>11 DEF TextAt
  <2> QED BY <2>1, <2>2, <2>3, TextJoins, NamesApart
<1>15. ExpandLine(content) = Expand(s, len)
  BY <1>0, <1>12 DEF ExpandLine
<1>16. 0 + Len(s) = n
  BY <1>1
<1> QED BY <1>6, <1>9, <1>14, <1>15, <1>16

LEMMA Expanded ==
    ASSUME LexInv, TextInv, EnvTyped
    PROVE  ExpandedAsMeant
<1> SUFFICES ASSUME \A k \in DOMAIN tokens : tokens[k].type # "INVALID"
             PROVE  /\ \A k \in DOMAIN tokens :
                         tokens[k].type \in WordTypes => TextOf(tokens[k]) = Meant(tokens[k])
                    /\ ExpandLine(content) = MeantLine
  BY DEF ExpandedAsMeant
<1>1. Typed /\ DOMAIN tokens = 1 .. Len(tokens)
  BY LineLength DEF LexInv
<1>2. ~IsBad
  BY <1>1 DEF IsBad
<1>3. ASSUME NEW k \in DOMAIN tokens, tokens[k].type \in WordTypes
      PROVE  TextOf(tokens[k]) = Meant(tokens[k])
  <2>1. k \in 1 .. Len(tokens)
    BY <1>1
  <2> QED BY <1>2, <1>3, <2>1, WordMeant, QuotedMeant DEF WordTypes
<1> QED BY <1>1, <1>3, LineMeant

LEMMA EnvInvariant == Spec => []EnvTyped
<1>1. InitWords => EnvTyped
  BY WordsAssumption DEF InitWords, EnvTyped
<1>2. EnvTyped /\ [Next]_vars => EnvTyped'
  BY DEF EnvTyped, Next, vars
<1> QED BY <1>1, <1>2, PTL DEF Spec

\* rm_quote() and parser_expand_dollar() make of every word of an accepted line
\* what its characters mean one by one: the quotes that count are gone, the
\* variables outside of single quotes replaced and nothing else touched.
\* expand_heredoc_line() makes of the line what its characters mean with every
\* dollar live and with names that a digit may begin.
THEOREM ExpandedCorrect == Spec => []ExpandedAsMeant
BY LexInvariant, TextInvariant, EnvInvariant, Expanded, PTL

-----------------------------------------------------------------------------
(* The name of a command.                                                   *)

\* What the pieces of a path are found in, from position i on.
Starts(path, i) == i + Run(path, i, { ":" })
NotColons(path) == { path[j] : j \in DOMAIN path } \ { ":" }
PieceLen(path, i) == Run(path, Starts(path, i), NotColons(path))

\* From i on, colons stand up to e; from e + 1 on, other characters up to f.
PieceIs(path, i, e, f) ==
    /\ e \in i - 1 .. Len(path) /\ f \in e .. Len(path)
    /\ \A k \in i .. e : path[k] = ":"
    /\ \A k \in e + 1 .. f : path[k] # ":"
    /\ f < Len(path) => path[f + 1] = ":"
    /\ e < Len(path) => f > e
    /\ Starts(path, i) = e + 1 /\ PieceLen(path, i) = f - e

LEMMA PieceFound ==
    ASSUME NEW path \in Seq(STRING), NEW i \in 1 .. Len(path) + 1
    PROVE  \E e, f : PieceIs(path, i, e, f)
<1>0. PICK N, S : N = Len(path) /\ S = NotColons(path)
  OBVIOUS
<1>1. N \in Nat /\ DOMAIN path = 1 .. N
  BY <1>0, LenProperties
<1>2. \A k \in 1 .. N : path[k] \in S <=> path[k] # ":"
  BY <1>0, <1>1 DEF NotColons
<1>3. PICK e : RunTo(path, i, { ":" }, e)
  BY RunIs
<1>4. /\ e \in i - 1 .. N /\ \A k \in i .. e : path[k] = ":"
      /\ e < N => path[e + 1] # ":"
      /\ Run(path, i, { ":" }) = e - i + 1
  BY <1>0, <1>3 DEF RunTo
<1>5. /\ Starts(path, i) = e + 1 /\ e + 1 \in 1 .. N + 1
      /\ i \in 1 .. N + 1 /\ i \in Int /\ e \in Int
  BY <1>0, <1>1, <1>4 DEF Starts
<1>6. PICK x : x = e + 1
  OBVIOUS
<1>7. x \in 1 .. Len(path) + 1
  BY <1>0, <1>5, <1>6
<1>71. PICK f : RunTo(path, x, S, f)
  BY <1>7, RunIs
<1>72. /\ f \in x - 1 .. N /\ \A k \in x .. f : path[k] \in S
       /\ f < N => path[f + 1] \notin S
       /\ Run(path, x, S) = f - x + 1
  BY <1>0, <1>71 DEF RunTo
<1>8. f \in e .. N /\ f - x + 1 = f - e /\ f \in Int /\ e >= 0 /\ x = e + 1
  BY <1>1, <1>4, <1>5, <1>6, <1>72
<1>9. \A k \in e + 1 .. f : path[k] # ":"
  <2>1. \A k \in e + 1 .. f : k \in 1 .. N
    BY <1>1, <1>5, <1>8
  <2> QED BY <1>2, <1>8, <1>72, <2>1
<1>10. f < N => path[f + 1] = ":"
  <2>1. f < N => f + 1 \in 1 .. N
    BY <1>1, <1>5, <1>8
  <2> QED BY <1>2, <1>72, <2>1
<1>11. e < N => f > e
  <2> SUFFICES ASSUME e < N, f = e PROVE FALSE
    BY <1>1, <1>4, <1>8
  <2> QED BY <1>4, <1>10
<1>12. PieceLen(path, i) = f - e
  BY <1>0, <1>5, <1>72, <1>8 DEF PieceLen
<1> QED BY <1>0, <1>4, <1>5, <1>8, <1>9, <1>10, <1>11, <1>12 DEF PieceIs

\* Dirs[i] is what ft_split() makes of the path from i on.
Splits(path, Dirs) ==
    /\ Dirs \in [1 .. Len(path) + 1 -> Seq(Seq(STRING))]
    /\ \A i \in 1 .. Len(path) + 1 :
         LET first == Starts(path, i)
             n     == PieceLen(path, i)
         IN  Dirs[i] = IF n = 0 THEN << >>
                       ELSE << SubSeq(path, first, first + n - 1) >> \o Dirs[first + n]

LEMMA SplitIs ==
    ASSUME NEW path \in Seq(STRING)
    PROVE  \E Dirs : Splits(path, Dirs) /\ Split(path) = Dirs[1]
<1>0. PICK N : N = Len(path)
  OBVIOUS
<1>1. N \in Nat /\ \A k \in 1 .. N : path[k] \in STRING
  BY <1>0, LenProperties, ElementOfSeq
<1> DEFINE V == [i \in 1 .. N |->
                   IF PieceLen(path, i) = 0 THEN << >>
                   ELSE << SubSeq(path, Starts(path, i),
                                  Starts(path, i) + PieceLen(path, i) - 1) >>]
           L == [i \in 1 .. N |->
                   IF PieceLen(path, i) = 0 THEN N - i
                   ELSE Starts(path, i) + PieceLen(path, i) - i - 1]
           Def(f) == [i \in 1 .. N + 1 |->
                        IF PieceLen(path, i) = 0 THEN << >>
                        ELSE << SubSeq(path, Starts(path, i),
                                       Starts(path, i) + PieceLen(path, i) - 1) >>
                               \o f[Starts(path, i) + PieceLen(path, i)]]
<1>2. ASSUME NEW i \in 1 .. N
      PROVE  /\ L[i] \in 0 .. N - i /\ V[i] \in Seq(Seq(STRING))
             /\ PieceLen(path, i) # 0
                  => i + 1 + L[i] = Starts(path, i) + PieceLen(path, i)
             /\ PieceLen(path, i) = 0 => i + 1 + L[i] = N + 1
  <2>1. PICK e, f : PieceIs(path, i, e, f)
    <3>1. i \in 1 .. Len(path) + 1
      BY <1>0, <1>1
    <3> QED BY <3>1, PieceFound
  <2>2. /\ e \in i - 1 .. N /\ f \in e .. N /\ Starts(path, i) = e + 1
        /\ PieceLen(path, i) = f - e
    BY <1>0, <2>1 DEF PieceIs
  <2>3. CASE PieceLen(path, i) = 0
    <3>1. L[i] = N - i /\ V[i] = << >>
      BY <2>3
    <3> HIDE DEF L, V, Def
    <3>2. << >> \in Seq(Seq(STRING))
      BY EmptySeq
    <3> QED BY <1>1, <2>3, <3>1, <3>2
  <2>4. CASE PieceLen(path, i) # 0
    <3>1. PICK x, y : x = Starts(path, i) /\ y = Starts(path, i) + PieceLen(path, i) - 1
      OBVIOUS
    <3>2. L[i] = Starts(path, i) + PieceLen(path, i) - i - 1 /\ V[i] = << SubSeq(path, x, y) >>
      BY <2>4, <3>1
    <3> HIDE DEF L, V, Def
    <3>3. x = e + 1 /\ y = f /\ f > e /\ L[i] = f - i
      BY <1>1, <2>2, <2>4, <3>1, <3>2
    <3>4. \A k \in x .. y : path[k] \in STRING
      <4>1. \A k \in x .. y : k \in 1 .. N
        BY <1>1, <2>2, <3>3
      <4> QED BY <1>1, <4>1
    <3>5. SubSeq(path, x, y) \in Seq(STRING)
      <4>1. x \in Int /\ y \in Int
        BY <1>1, <2>2, <3>3
      <4> QED BY <3>4, <4>1, SubSeqProperties
    <3>6. L[i] \in 0 .. N - i /\ i + 1 + L[i] = Starts(path, i) + PieceLen(path, i)
      BY <1>1, <2>2, <3>3
    <3> QED BY <2>4, <3>2, <3>5, <3>6
  <2> QED BY <2>3, <2>4
<1>3. \A i \in 1 .. N : V[i] = IF PieceLen(path, i) = 0 THEN << >>
                   ELSE << SubSeq(path, Starts(path, i),
                                  Starts(path, i) + PieceLen(path, i) - 1) >>
  OBVIOUS
<1>4. PieceLen(path, N + 1) = 0
  <2>1. N + 1 \in 1 .. Len(path) + 1
    BY <1>0, <1>1
  <2>2. PICK e, f : PieceIs(path, N + 1, e, f)
    BY <2>1, PieceFound
  <2> QED BY <1>0, <1>1, <2>2 DEF PieceIs
<1>5. \A f : /\ Def(f)[N + 1] = << >>
             /\ \A i \in 1 .. N + 1 : PieceLen(path, i) = 0 => Def(f)[i] = << >>
             /\ \A i \in 1 .. N + 1 : PieceLen(path, i) # 0 =>
                  Def(f)[i] = << SubSeq(path, Starts(path, i),
                                        Starts(path, i) + PieceLen(path, i) - 1) >>
                               \o f[Starts(path, i) + PieceLen(path, i)]
  <2>1. N + 1 \in 1 .. N + 1
    BY <1>1
  <2> HIDE DEF L, V
  <2> QED BY <1>4, <2>1
<1> HIDE DEF L, V
<1>6. PartsOK(N, L, V, Seq(STRING))
  BY <1>2 DEF PartsOK
<1>7. PICK g : g \in [1 .. N + 1 -> Seq(Seq(STRING))] /\ Steps(g, N, L, V)
  BY <1>1, <1>6, StepsExist
<1> HIDE DEF Def
\* What is right by steps is right by the definition, and the other way round.
<1>8. ASSUME NEW f, f[N + 1] = << >>, NEW i \in 1 .. N,
             Def(f)[i] \in Seq(Seq(STRING)) \/ V[i] \o f[i + 1 + L[i]] \in Seq(Seq(STRING))
      PROVE  Def(f)[i] = V[i] \o f[i + 1 + L[i]]
  <2>1. i \in 1 .. N + 1
    BY <1>1
  <2>2. CASE PieceLen(path, i) = 0
    <3>1. V[i] = << >> /\ f[i + 1 + L[i]] = << >>
      BY <1>2, <1>3, <1>8, <2>2
    <3>2. << >> \o << >> = << >>
      BY ConcatEmptySeq, EmptySeq
    <3> QED BY <1>5, <2>1, <2>2, <3>1, <3>2
  <2>3. CASE PieceLen(path, i) # 0
    BY <1>2, <1>3, <1>5, <2>1, <2>3
  <2> QED BY <2>2, <2>3
<1>9. g = Def(g)
  <2>1. ASSUME NEW i \in 1 .. N + 1 PROVE g[i] = Def(g)[i]
    <3>1. CASE i \in 1 .. N
      <4>1. g[i] = V[i] \o g[i + 1 + L[i]] /\ g[N + 1] = << >>
        BY <1>7, <3>1 DEF Steps
      <4>2. g[i] \in Seq(Seq(STRING))
        BY <1>7
      <4> QED BY <1>8, <3>1, <4>1, <4>2
    <3>2. CASE i = N + 1
      BY <1>5, <1>7, <3>2 DEF Steps
    <3> QED BY <1>1, <3>1, <3>2
  <2>2. Def(g) = [i \in 1 .. N + 1 |-> Def(g)[i]]
    BY DEF Def
  <2>3. g = [i \in 1 .. N + 1 |-> g[i]]
    BY <1>7
  <2> QED BY <2>1, <2>2, <2>3
<1> DEFINE From == CHOOSE f : f = Def(f)
<1>10. From = Def(From)
  BY <1>9
<1>11. Split(path) = From[1]
  <2>1. Split(path) = (CHOOSE f : f = Def(f))[1]
    BY <1>0 DEF Split, Def, Starts, NotColons, PieceLen
  <2> QED BY <2>1
<1> HIDE DEF From
<1>12. Steps(From, N, L, V)
  <2>1. From[N + 1] = << >>
    BY <1>5, <1>10
  <2>2. ASSUME NEW i \in 1 .. N PROVE From[i] = V[i] \o From[i + 1 + L[i]]
    <3>1. i \in 1 .. N + 1
      BY <1>1
    <3>2. CASE PieceLen(path, i) = 0
      <4>1. V[i] = << >> /\ From[i + 1 + L[i]] = << >> /\ From[i] = << >>
        BY <1>2, <1>3, <1>5, <1>10, <2>1, <3>1, <3>2
      <4>2. << >> \o << >> = << >>
        BY ConcatEmptySeq, EmptySeq
      <4> QED BY <4>1, <4>2
    <3>3. CASE PieceLen(path, i) # 0
      BY <1>2, <1>3, <1>5, <1>10, <3>1, <3>3
    <3> QED BY <3>2, <3>3
  <2> QED BY <2>1, <2>2 DEF Steps
<1>13. From[1] = g[1]
  BY <1>1, <1>6, <1>7, <1>12, StepsUnique
<1>14. Splits(path, g)
  <2>1. ASSUME NEW i \in 1 .. N + 1
        PROVE  g[i] = IF PieceLen(path, i) = 0 THEN << >>
                      ELSE << SubSeq(path, Starts(path, i),
                                     Starts(path, i) + PieceLen(path, i) - 1) >>
                             \o g[Starts(path, i) + PieceLen(path, i)]
    <3>1. g[i] = Def(g)[i]
      BY <1>9
    <3> QED BY <1>5, <3>1
  <2> QED BY <1>0, <1>7, <2>1 DEF Splits
<1> QED BY <1>11, <1>13, <1>14

\* get_full_cmd() takes the first directory if it has the file, and looks
\* through the rest if it has not.
FirstOrRest(d, rest, name, full) ==
    full = IF d \o << "/" >> \o name \in Files THEN d \o << "/" >> \o name
           ELSE FullCmd(rest, name)

LEMMA LeastChosen ==
    ASSUME NEW S, S \subseteq Nat, NEW m \in S, \A j \in S : m <= j
    PROVE  (CHOOSE i \in S : \A j \in S : i <= j) = m
<1>1. \A i \in S : (\A j \in S : i <= j) => i = m
  <2> SUFFICES ASSUME NEW i \in S, \A j \in S : i <= j PROVE i = m
    OBVIOUS
  <2>1. i <= m /\ m <= i /\ i \in Nat /\ m \in Nat
    OBVIOUS
  <2> QED BY <2>1
<1> QED BY <1>1

LEMMA NoneNamed ==
    ASSUME NEW name
    PROVE  FullCmd(<< >>, name) = NULL
BY EmptySeq DEF FullCmd

LEMMA FirstNamed ==
    ASSUME NEW d, NEW rest \in Seq(Seq(STRING)), d \in Seq(STRING), NEW name
    PROVE  FirstOrRest(d, rest, name, FullCmd(<< d >> \o rest, name))
<1> DEFINE dirs == << d >> \o rest
           Has(x) == x \o << "/" >> \o name \in Files
           R == { i \in DOMAIN rest : Has(rest[i]) }
           F == { i \in DOMAIN dirs : Has(dirs[i]) }
<1>0. PICK n : n = Len(rest)
  OBVIOUS
<1>1. n \in Nat /\ DOMAIN rest = 1 .. n
  BY <1>0, LenProperties
<1>2. << d >> \in Seq(Seq(STRING)) /\ Len(<< d >>) = 1
  OBVIOUS
<1>3. /\ DOMAIN dirs = 1 .. n + 1 /\ dirs[1] = d
      /\ \A i \in 1 .. n : dirs[i + 1] = rest[i]
  <2>1. dirs \in Seq(Seq(STRING)) /\ Len(dirs) = 1 + n
    BY <1>0, <1>2, ConcatProperties
  <2>2. DOMAIN dirs = 1 .. 1 + n
    BY <2>1, LenProperties
  <2>3. dirs[1] = << d >>[1]
    <3>1. 1 \in 1 .. Len(<< d >>) + Len(rest) /\ 1 <= Len(<< d >>)
      BY <1>0, <1>1, <1>2
    <3> QED BY <1>2, <3>1, ConcatProperties
  <2>4. ASSUME NEW i \in 1 .. n PROVE dirs[i + 1] = rest[i]
    <3>1. PICK x : x = i + 1
      OBVIOUS
    <3>2. x \in 1 .. Len(<< d >>) + Len(rest) /\ ~(x <= Len(<< d >>)) /\ x - Len(<< d >>) = i
      BY <1>0, <1>1, <1>2, <3>1
    <3>3. dirs[x] = rest[x - Len(<< d >>)]
      BY <1>2, <3>2, ConcatProperties
    <3> QED BY <3>1, <3>2, <3>3
  <2> QED BY <1>1, <2>2, <2>3, <2>4
<1>4. FullCmd(dirs, name) = IF F = {} THEN NULL
                            ELSE dirs[CHOOSE i \in F : \A j \in F : i <= j] \o << "/" >> \o name
  BY DEF FullCmd
<1>5. FullCmd(rest, name) = IF R = {} THEN NULL
                            ELSE rest[CHOOSE i \in R : \A j \in R : i <= j] \o << "/" >> \o name
  BY DEF FullCmd
<1>6. \A i : i \in F <=> i \in 1 .. n + 1 /\ Has(dirs[i])
  BY <1>3
<1>7. \A i : i \in R <=> i \in 1 .. n /\ Has(rest[i])
  BY <1>1
<1>8. F \subseteq Nat /\ R \subseteq Nat
  BY <1>1, <1>6, <1>7
<1>h. Has(d) <=> d \o << "/" >> \o name \in Files
  OBVIOUS
<1> HIDE DEF dirs, F, R, Has
<1>9. CASE Has(d)
  <2>1. 1 \in F
    BY <1>1, <1>3, <1>6, <1>9
  <2>2. \A j \in F : 1 <= j
    BY <1>6
  <2>3. (CHOOSE i \in F : \A j \in F : i <= j) = 1
    BY <1>8, <2>1, <2>2, LeastChosen
  <2>4. FullCmd(dirs, name) = d \o << "/" >> \o name
    BY <1>3, <1>4, <2>1, <2>3
  <2> QED BY <1>9, <1>h, <2>4 DEF FirstOrRest, dirs
<1>10. CASE ~Has(d)
  <2>1. \A j \in F : j # 1 /\ j - 1 \in R
    <3> SUFFICES ASSUME NEW j \in F PROVE j # 1 /\ j - 1 \in R
      OBVIOUS
    <3>1. j \in 1 .. n + 1 /\ Has(dirs[j]) /\ j # 1
      BY <1>3, <1>6, <1>10
    <3>2. PICK k : k = j - 1
      OBVIOUS
    <3>3. k \in 1 .. n /\ k + 1 = j
      BY <1>1, <3>1, <3>2
    <3>4. dirs[j] = rest[k]
      BY <1>3, <3>3
    <3> QED BY <1>7, <3>1, <3>2, <3>3, <3>4
  <2>2. CASE R = {}
    <3>1. F = {}
      BY <2>1, <2>2
    <3>2. FullCmd(dirs, name) = FullCmd(rest, name)
      BY <1>4, <1>5, <2>2, <3>1
    <3> QED BY <1>10, <1>h, <3>2 DEF FirstOrRest, dirs
  <2>3. CASE R # {}
    <3>1. PICK m \in R : \A j \in R : m <= j
      BY <1>8, <2>3, Least
    <3>2. PICK x : x = m + 1
      OBVIOUS
    <3>3. m \in 1 .. n /\ x \in 1 .. n + 1 /\ dirs[x] = rest[m]
      BY <1>1, <1>3, <1>7, <3>1, <3>2
    <3>4. x \in F
      BY <1>6, <1>7, <3>1, <3>3
    <3>5. \A j \in F : x <= j
      <4> SUFFICES ASSUME NEW j \in F PROVE x <= j
        OBVIOUS
      <4>1. m <= j - 1 /\ j \in Nat /\ m \in Nat
        BY <1>8, <2>1, <3>1
      <4> QED BY <3>2, <4>1
    <3>6. (CHOOSE i \in F : \A j \in F : i <= j) = x
      BY <1>8, <3>4, <3>5, LeastChosen
    <3>7. (CHOOSE i \in R : \A j \in R : i <= j) = m
      BY <1>8, <3>1, LeastChosen
    <3>8. FullCmd(dirs, name) = rest[m] \o << "/" >> \o name
      BY <1>4, <3>3, <3>4, <3>6
    <3>9. FullCmd(rest, name) = rest[m] \o << "/" >> \o name
      BY <1>5, <2>3, <3>7
    <3> QED BY <1>10, <1>h, <3>8, <3>9 DEF FirstOrRest, dirs
  <2> QED BY <2>2, <2>3
<1> QED BY <1>9, <1>10

\* full is the file in the first candidate from position i on.
FoundFrom(path, name, i, full) ==
    \/ full = NULL /\ \A c \in Candidates(path, name) : c[1] < i
    \/ \E c \in Candidates(path, name) :
         /\ c[1] >= i /\ full = SubSeq(path, c[1], c[2]) \o << "/" >> \o name
         /\ \A b \in Candidates(path, name) : b[1] >= i => c[1] <= b[1]

\* No directory reaches over position i.
Clean(path, i) ==
    \/ i = 1 \/ i = Len(path) + 1 \/ path[i - 1] = ":" \/ path[i] = ":"

\* A candidate, by its ends.
IsCandidate(path, name, x, y) ==
    /\ x \in 1 .. Len(path) /\ y \in x .. Len(path) /\ DirAt(path, x, y)
    /\ SubSeq(path, x, y) \o << "/" >> \o name \in Files

LEMMA CandidateEnds ==
    ASSUME NEW path \in Seq(STRING), NEW name
    PROVE  /\ \A c \in Candidates(path, name) : IsCandidate(path, name, c[1], c[2])
           /\ \A x, y : IsCandidate(path, name, x, y) => << x, y >> \in Candidates(path, name)
<1>1. Len(path) \in Nat /\ DOMAIN path = 1 .. Len(path)
  BY LenProperties
<1>2. ASSUME NEW c \in Candidates(path, name) PROVE IsCandidate(path, name, c[1], c[2])
  <2>1. /\ c[1] \in 1 .. Len(path) /\ c[2] \in 1 .. Len(path) /\ c[1] <= c[2]
        /\ DirAt(path, c[1], c[2])
        /\ SubSeq(path, c[1], c[2]) \o << "/" >> \o name \in Files
    BY <1>1 DEF Candidates
  <2> QED BY <1>1, <2>1 DEF IsCandidate
<1>3. ASSUME NEW x, NEW y, IsCandidate(path, name, x, y)
      PROVE  << x, y >> \in Candidates(path, name)
  <2>1. PICK c : c = << x, y >>
    OBVIOUS
  <2>2. c[1] = x /\ c[2] = y
    BY <2>1
  <2>3. x \in 1 .. Len(path) /\ y \in 1 .. Len(path) /\ x <= y
    BY <1>1, <1>3 DEF IsCandidate
  <2>4. c \in (DOMAIN path) \X (DOMAIN path)
    BY <1>1, <2>1, <2>3
  <2> QED BY <1>3, <2>1, <2>2, <2>3, <2>4 DEF IsCandidate, Candidates
<1> QED BY <1>2, <1>3

\* Two directories that begin at the same place are the same.
LEMMA SameDirectory ==
    ASSUME NEW path \in Seq(STRING), NEW x \in 1 .. Len(path),
           NEW y \in x .. Len(path), NEW z \in x .. Len(path),
           DirAt(path, x, y), DirAt(path, x, z)
    PROVE  y = z
<1>1. Len(path) \in Nat
  BY LenProperties
<1>2. ASSUME NEW u \in x .. Len(path), NEW v \in x .. Len(path), u < v,
             DirAt(path, x, u), DirAt(path, x, v)
      PROVE  FALSE
  <2>1. u + 1 \in x .. v /\ u # Len(path)
    BY <1>1, <1>2
  <2> QED BY <1>2, <2>1 DEF DirAt
<1>3. ~(y < z) /\ ~(z < y)
  BY <1>2
<1> QED BY <1>1, <1>3

LEMMA PathSearched ==
    ASSUME NEW path \in Seq(STRING), NEW name
    PROVE  FoundFrom(path, name, 1, FullCmd(Split(path), name))
<1>0. PICK N : N = Len(path)
  OBVIOUS
<1>1. N \in Nat /\ \A k \in 1 .. N : path[k] \in STRING
  BY <1>0, LenProperties, ElementOfSeq
<1>2. PICK Dirs : Splits(path, Dirs) /\ Split(path) = Dirs[1]
  BY SplitIs
<1>3. /\ \A i \in 1 .. N + 1 : Dirs[i] \in Seq(Seq(STRING))
      /\ \A i \in 1 .. N + 1 :
           Dirs[i] = IF PieceLen(path, i) = 0 THEN << >>
                     ELSE << SubSeq(path, Starts(path, i),
                                    Starts(path, i) + PieceLen(path, i) - 1) >>
                            \o Dirs[Starts(path, i) + PieceLen(path, i)]
  BY <1>0, <1>2 DEF Splits
<1> DEFINE Right(i) == Clean(path, i) => FoundFrom(path, name, i, FullCmd(Dirs[i], name))
           Wrong == { k \in 0 .. N : ~Right(N + 1 - k) }
<1>c. /\ \A c \in Candidates(path, name) : IsCandidate(path, name, c[1], c[2])
      /\ \A x, y : IsCandidate(path, name, x, y) => << x, y >> \in Candidates(path, name)
  BY CandidateEnds
<1>4. ASSUME NEW i \in 1 .. N + 1, Clean(path, i),
             \A j \in i + 1 .. N + 1 : Right(j)
      PROVE  FoundFrom(path, name, i, FullCmd(Dirs[i], name))
  <2>1. PICK e, f : PieceIs(path, i, e, f)
    <3>1. i \in 1 .. Len(path) + 1
      BY <1>0
    <3> QED BY <3>1, PieceFound
  <2>2. /\ e \in i - 1 .. N /\ f \in e .. N
        /\ \A k \in i .. e : path[k] = ":"
        /\ \A k \in e + 1 .. f : path[k] # ":"
        /\ f < N => path[f + 1] = ":"
        /\ e < N => f > e
        /\ Starts(path, i) = e + 1 /\ PieceLen(path, i) = f - e
    BY <1>0, <2>1 DEF PieceIs
  <2>3. e \in Int /\ f \in Int /\ e >= 0 /\ i >= 1 /\ i \in Int
    BY <1>1, <2>2
  \* A candidate behind the colons begins behind e.
  <2>4. ASSUME NEW x, NEW y, IsCandidate(path, name, x, y), x >= i PROVE x >= e + 1
    <3>1. x \in 1 .. N /\ x \in x .. y
      BY <1>0, <1>1, <2>4 DEF IsCandidate
    <3>2. path[x] # ":"
      BY <2>4, <3>1 DEF IsCandidate, DirAt
    <3>3. x \notin i .. e
      BY <2>2, <3>2
    <3> QED BY <1>1, <2>3, <2>4, <3>1, <3>3
  <2>5. CASE f = e
    <3>1. e = N /\ PieceLen(path, i) = 0
      BY <1>1, <2>2, <2>3, <2>5
    <3>2. FullCmd(Dirs[i], name) = NULL
      BY <1>3, <3>1, NoneNamed
    <3>3. \A c \in Candidates(path, name) : c[1] < i
      <4> SUFFICES ASSUME NEW c \in Candidates(path, name) PROVE c[1] < i
        OBVIOUS
      <4>1. IsCandidate(path, name, c[1], c[2]) /\ c[1] \in 1 .. N
        BY <1>0, <1>c DEF IsCandidate
      <4>2. ~(c[1] >= i)
        <5> SUFFICES ASSUME c[1] >= i PROVE FALSE
          OBVIOUS
        <5>1. c[1] >= e + 1
          BY <2>4, <4>1
        <5> QED BY <1>1, <3>1, <4>1, <5>1
      <4> QED BY <2>3, <4>1, <4>2
    <3> QED BY <3>2, <3>3 DEF FoundFrom
  <2>6. CASE f > e
    <3>0. PICK first, next, d : first = e + 1 /\ next = f + 1 /\ d = SubSeq(path, first, f)
      OBVIOUS
    <3>1. /\ first \in i .. N /\ first \in 1 .. N /\ f \in first .. N
          /\ next \in i + 1 .. N + 1 /\ next \in 1 .. N + 1
      BY <1>1, <2>2, <2>3, <2>6, <3>0
    <3>2. /\ first + (f - e) - 1 = f /\ first + (f - e) = next /\ f - e # 0
      BY <2>3, <2>6, <3>0
    <3>3. Dirs[i] = << d >> \o Dirs[next]
      <4>1. Dirs[i] = << SubSeq(path, first, first + (f - e) - 1) >> \o Dirs[first + (f - e)]
        BY <1>3, <2>2, <3>0, <3>2
      <4> QED BY <3>0, <3>2, <4>1
    <3>4. d \in Seq(STRING) /\ Dirs[next] \in Seq(Seq(STRING))
      <4>1. \A k \in first .. f : path[k] \in STRING
        <5>1. \A k \in first .. f : k \in 1 .. N
          BY <1>1, <3>1
        <5> QED BY <1>1, <5>1
      <4>2. first \in Int /\ f \in Int
        BY <2>3, <3>1
      <4> QED BY <1>3, <3>0, <3>1, <4>1, <4>2, SubSeqProperties
    <3>5. Clean(path, next)
      <4>1. f < N \/ next = Len(path) + 1
        BY <1>0, <1>1, <2>2, <2>3, <3>0
      <4>2. path[next] = ":" \/ next = Len(path) + 1
        BY <2>2, <3>0, <4>1
      <4> QED BY <4>2 DEF Clean
    <3>6. FoundFrom(path, name, next, FullCmd(Dirs[next], name))
      BY <1>4, <3>1, <3>5
    <3>7. DirAt(path, first, f)
      <4>1. first = 1 \/ path[first - 1] = ":"
        <5>1. first - 1 = e
          BY <2>3, <3>0
        <5>2. CASE e >= i
          <6>1. e \in i .. e
            BY <2>3, <5>2
          <6> QED BY <2>2, <5>1, <6>1
        <5>3. CASE e = i - 1
          <6>1. first = i /\ i # N + 1
            BY <1>1, <2>3, <3>0, <3>1, <5>3
          <6>2. path[i] # ":"
            BY <2>2, <3>0, <3>1, <6>1
          <6> QED BY <1>0, <1>4, <6>1, <6>2 DEF Clean
        <5> QED BY <2>2, <2>3, <5>2, <5>3
      <4>2. f = Len(path) \/ path[f + 1] = ":"
        BY <1>0, <1>1, <2>2, <2>3
      <4> QED BY <2>2, <3>0, <4>1, <4>2 DEF DirAt
    <3>8. FirstOrRest(d, Dirs[next], name, FullCmd(Dirs[i], name))
      BY <3>3, <3>4, FirstNamed
    <3>9. CASE d \o << "/" >> \o name \in Files
      <4>1. PICK c : c = << first, f >>
        OBVIOUS
      <4>2. c[1] = first /\ c[2] = f
        BY <4>1
      <4>3. c \in Candidates(path, name)
        <5>1. IsCandidate(path, name, first, f)
          BY <1>0, <3>0, <3>1, <3>7, <3>9 DEF IsCandidate
        <5> QED BY <1>c, <4>1, <5>1
      <4>4. FullCmd(Dirs[i], name) = SubSeq(path, c[1], c[2]) \o << "/" >> \o name
        BY <3>0, <3>8, <3>9, <4>2 DEF FirstOrRest
      <4>5. \A b \in Candidates(path, name) : b[1] >= i => c[1] <= b[1]
        <5> SUFFICES ASSUME NEW b \in Candidates(path, name), b[1] >= i PROVE c[1] <= b[1]
          OBVIOUS
        <5>1. IsCandidate(path, name, b[1], b[2]) /\ b[1] \in 1 .. N
          BY <1>0, <1>c DEF IsCandidate
        <5>2. b[1] >= e + 1
          BY <2>4, <5>1
        <5> QED BY <2>3, <3>0, <4>2, <5>1, <5>2
      <4>6. c[1] >= i
        BY <1>1, <2>3, <3>1, <4>2
      <4> QED BY <4>3, <4>4, <4>5, <4>6 DEF FoundFrom
    <3>10. CASE d \o << "/" >> \o name \notin Files
      <4>1. FullCmd(Dirs[i], name) = FullCmd(Dirs[next], name)
        BY <3>8, <3>10 DEF FirstOrRest
      <4>2. \A b \in Candidates(path, name) : b[1] >= i => b[1] >= next
        <5> SUFFICES ASSUME NEW b \in Candidates(path, name), b[1] >= i PROVE b[1] >= next
          OBVIOUS
        <5>1. PICK x, y : x = b[1] /\ y = b[2]
          OBVIOUS
        <5>2. IsCandidate(path, name, x, y)
          BY <1>c, <5>1
        <5>3. /\ x \in 1 .. N /\ y \in x .. N /\ DirAt(path, x, y)
              /\ SubSeq(path, x, y) \o << "/" >> \o name \in Files
          BY <1>0, <5>2 DEF IsCandidate
        <5>4. x >= first
          BY <2>4, <3>0, <5>1, <5>2
        <5>5. x # first
          <6> SUFFICES ASSUME x = first PROVE FALSE
            OBVIOUS
          <6>1. y = f
            <7>1. first \in 1 .. Len(path) /\ y \in first .. Len(path) /\ f \in first .. Len(path)
              BY <1>0, <3>1, <5>3
            <7> QED BY <3>7, <5>3, <7>1, SameDirectory
          <6> QED BY <3>0, <3>10, <5>3, <6>1
        <5>6. ~(x <= f)
          <6> SUFFICES ASSUME x <= f PROVE FALSE
            OBVIOUS
          <6>1. x - 1 \in e + 1 .. f /\ x # 1
            BY <1>1, <2>3, <3>0, <3>1, <5>3, <5>4, <5>5
          <6> QED BY <2>2, <5>3, <6>1 DEF DirAt
        <5> QED BY <2>3, <3>0, <5>1, <5>3, <5>6
      <4>3. \A b \in Candidates(path, name) :
              b[1] \in 1 .. N /\ (b[1] >= next <=> b[1] >= i) /\ (b[1] < next <=> b[1] < i)
        <5> SUFFICES ASSUME NEW b \in Candidates(path, name)
                     PROVE  /\ b[1] \in 1 .. N /\ (b[1] >= next <=> b[1] >= i)
                            /\ (b[1] < next <=> b[1] < i)
          OBVIOUS
        <5>1. b[1] \in 1 .. N
          BY <1>0, <1>c DEF IsCandidate
        <5>2. b[1] >= i => b[1] >= next
          BY <4>2
        <5> QED BY <1>1, <2>3, <3>1, <5>1, <5>2
      <4> QED BY <3>6, <4>1, <4>3 DEF FoundFrom
    <3> QED BY <3>9, <3>10
  <2> QED BY <2>2, <2>3, <2>5, <2>6
<1> HIDE DEF Right
<1>5. Wrong = {}
  <2> SUFFICES ASSUME Wrong # {} PROVE FALSE
    OBVIOUS
  <2>1. Wrong \subseteq Nat
    OBVIOUS
  <2>2. PICK k \in Wrong : \A j \in Wrong : k <= j
    <3> HIDE DEF Wrong
    <3> QED BY <2>1, Least
  <2>3. PICK i : i = N + 1 - k
    OBVIOUS
  <2>4. k \in 0 .. N /\ ~Right(i)
    BY <2>3
  <2>5. i \in 1 .. N + 1
    BY <1>1, <2>3, <2>4
  <2>6. \A j \in i + 1 .. N + 1 : Right(j)
    <3> SUFFICES ASSUME NEW j \in i + 1 .. N + 1, ~Right(j) PROVE FALSE
      OBVIOUS
    <3>1. PICK l : l = N + 1 - j
      OBVIOUS
    <3>2. l \in 0 .. N /\ N + 1 - l = j /\ ~(k <= l)
      BY <1>1, <2>3, <2>4, <2>5, <3>1
    <3>3. l \in Wrong
      BY <3>2
    <3> QED BY <2>2, <3>2, <3>3
  <2> QED BY <1>4, <2>4, <2>5, <2>6 DEF Right
<1>6. Right(1)
  <2>1. N \in 0 .. N /\ N + 1 - N = 1
    BY <1>1
  <2> QED BY <1>5, <2>1
<1> QED BY <1>2, <1>6 DEF Right, Clean

LEMMA Found ==
    ASSUME EnvTyped
    PROVE  FoundAsMeant
<1> SUFFICES ASSUME ~Scanning
             PROVE  LET name == TextOf(tokens[1])
                        path == IF PathName \in DOMAIN env THEN env[PathName] ELSE << >>
                        found == Candidates(path, name)
                    IN  GetPath(name) =
                          IF name = << >> THEN NULL
                          ELSE IF "/" \in ToSet(name) \/ name = << "." >> \/ found = {}
                               THEN name
                          ELSE LET d == CHOOSE d \in found : \A e \in found : d[1] <= e[1]
                               IN  SubSeq(path, d[1], d[2]) \o << "/" >> \o name
  BY DEF FoundAsMeant
<1>0. PICK name, path, found :
         /\ name = TextOf(tokens[1])
         /\ path = IF PathName \in DOMAIN env THEN env[PathName] ELSE << >>
         /\ found = Candidates(path, name)
  OBVIOUS
<1>2. path \in Seq(STRING)
  BY <1>0, EmptySeq DEF EnvTyped
<1>3. PICK full : full = IF PathName \in DOMAIN env
                         THEN FullCmd(Split(env[PathName]), name) ELSE NULL
  OBVIOUS
<1>4. GetPath(name) = IF name = << >> THEN NULL
                      ELSE IF name = << "." >> \/ "/" \in ToSet(name) \/ full = NULL
                           THEN name ELSE full
  BY <1>3 DEF GetPath
<1>5. /\ \A c \in found : IsCandidate(path, name, c[1], c[2])
      /\ \A x, y : IsCandidate(path, name, x, y) => << x, y >> \in found
  BY <1>0, <1>2, CandidateEnds
<1>6. FoundFrom(path, name, 1, full)
  <2>1. CASE PathName \in DOMAIN env
    BY <1>0, <1>2, <1>3, <2>1, PathSearched
  <2>2. CASE PathName \notin DOMAIN env
    <3>1. path = << >> /\ full = NULL /\ Len(path) = 0
      BY <1>0, <1>3, <2>2
    <3>2. \A c \in found : FALSE
      BY <1>5, <3>1 DEF IsCandidate
    <3> QED BY <1>0, <3>1, <3>2 DEF FoundFrom
  <2> QED BY <2>1, <2>2
<1>7. \A c \in found : /\ c[1] \in 1 .. Len(path) /\ c[2] \in c[1] .. Len(path)
                       /\ DirAt(path, c[1], c[2]) /\ c[1] \in Int /\ c[2] \in Int
                       /\ c[1] >= 1 /\ c[2] <= Len(path)
  <2>1. Len(path) \in Nat
    BY <1>2, LenProperties
  <2> QED BY <1>5, <2>1 DEF IsCandidate
<1>8. CASE found = {}
  <2>1. full = NULL
    BY <1>0, <1>6, <1>8 DEF FoundFrom
  <2>2. GetPath(name) = IF name = << >> THEN NULL ELSE name
    BY <1>4, <2>1
  <2> QED BY <1>0, <1>8, <2>2
<1>9. CASE found # {}
  <2>1. PICK c \in found : /\ full = SubSeq(path, c[1], c[2]) \o << "/" >> \o name
                           /\ \A b \in found : c[1] <= b[1]
    <3>1. ~(\A c \in found : c[1] < 1)
      BY <1>7, <1>9
    <3>2. \A b \in found : b[1] >= 1
      BY <1>7
    <3> QED BY <1>0, <1>6, <3>1, <3>2 DEF FoundFrom
  <2>2. full # NULL
    <3>1. full \in Files
      BY <1>5, <2>1 DEF IsCandidate
    <3> QED BY <3>1, WordsAssumption
  <2>3. PICK d : d = CHOOSE b \in found : \A e \in found : b[1] <= e[1]
    OBVIOUS
  <2>4. d \in found /\ \A e \in found : d[1] <= e[1]
    BY <2>1, <2>3
  <2>5. d[1] = c[1]
    <3>1. d[1] <= c[1] /\ c[1] <= d[1]
      BY <2>1, <2>4
    <3>2. d[1] \in Int /\ c[1] \in Int
      BY <1>7, <2>1, <2>4
    <3> QED BY <3>1, <3>2
  <2>6. d[2] = c[2]
    <3>1. PICK x, y, z : x = c[1] /\ y = d[2] /\ z = c[2]
      OBVIOUS
    <3>2. /\ x \in 1 .. Len(path) /\ y \in x .. Len(path) /\ z \in x .. Len(path)
          /\ DirAt(path, x, y) /\ DirAt(path, x, z)
      BY <1>7, <2>1, <2>4, <2>5, <3>1
    <3> QED BY <1>2, <3>1, <3>2, SameDirectory
  <2>7. full = SubSeq(path, d[1], d[2]) \o << "/" >> \o name
    BY <2>1, <2>5, <2>6
  <2>8. GetPath(name) = IF name = << >> THEN NULL
                        ELSE IF "/" \in ToSet(name) \/ name = << "." >> THEN name
                        ELSE SubSeq(path, d[1], d[2]) \o << "/" >> \o name
    BY <1>4, <2>2, <2>7
  <2> QED BY <1>0, <1>9, <2>3, <2>8
<1> QED BY <1>8, <1>9

\* exec_get_binary_path() runs a command from the first directory of PATH that
\* has it: an empty piece of PATH is no directory, and a name that says where the
\* file is, or that no directory has, stays as it is.
THEOREM FoundCorrect == Spec => []FoundAsMeant
BY EnvInvariant, Found, PTL
=============================================================================
