-------------------------- MODULE CommandTableProof --------------------------
(****************************************************************************)
(* Proofs about CommandTable, for token lists of any length, any number of  *)
(* descriptors and here-documents, and every call that may fail.            *)
(****************************************************************************)
EXTENDS CommandTable, SequenceTheorems, FiniteSetTheorems, WellFoundedInduction, TLAPS

\* The descriptors past the standard streams.
Files == STDERR + 1 .. OpenMax - 1

Commands == [in : Fds \cup { -1 }, out : Fds \cup { -1 },
             type : Builtins \cup { "EXTERNAL" }, args : Seq(Seq(1 .. Len(line)))]

\* Which variables mean something where, and where the flags and the code are.
Places ==
    /\ pc \notin { "scan", "rejected" } => SyntaxCorrect /\ heredoc_count = CountHeredocs(line)
    /\ pc \notin { "fail", "rejected" } => "EVALUATING" \in state
    /\ pc \in { "fail", "rejected" } => code # 0 \/ starved
    /\ pc = "rejected" => state = {}
    /\ pc \notin { "build", "fail" } => cmd = NoCommand
    /\ pc \in { "scan", "rejected" } => table = << >>
    /\ pc = "scan" => start = 1 /\ heredoc_index = -1
    /\ pc = "build" => start <= tok

\* One side of the command under construction: the standard stream, or a
\* descriptor that no command before it holds; -1 once open() has failed.
SideHeld(fd, std) ==
    \/ fd = std
    \/ fd \in Files /\ fd \notin AllRedirs
    \/ fd = -1 /\ pc = "fail"

\* The open descriptors are those of the commands, and no two share one.
Descriptors ==
    /\ \A fd \in 0 .. STDERR : fds[fd] # Closed
    /\ SideHeld(cmd.in, STDIN) /\ SideHeld(cmd.out, STDOUT)
    /\ cmd.in # cmd.out
    /\ Owned(table, OpenMax)
    /\ Extra(fds) = AllRedirs \cup (Redirs(cmd) \ { -1 })

\* The here-document tokens before position i.
Docs(i) == { j \in DOMAIN line : j < i /\ Type(j) = "HEREDOC" }

\* Without a swallowed pipe no here-document is read twice.
Index ==
    PipesApart =>
        /\ heredoc_index < MaxHeredocs
        /\ pc = "begin" => heredoc_index + 1 <= Cardinality(Docs(start))
        /\ pc = "build" =>
             /\ heredoc_index + 1 <= Cardinality(Docs(tok))
             /\ \A j \in start .. tok - 1 : Type(j) # "PIPE"

\* The types but for the commands.
Core ==
    /\ line \in Lines
    /\ pc \in { "scan", "begin", "build", "fail", "finish", "handed", "rejected" }
    /\ start \in 1 .. Len(line) /\ tok \in 1 .. Len(line) + 1
    /\ fds \in [Fds -> { "closed", "tty", "file", "doc" } \X (0 .. Len(line))]
    /\ state \subseteq { "EVALUATING", "HAS_PIPE" }
    /\ code \in { 0, 1, 2, 112, 130 }
    /\ heredoc_count \in 0 .. Len(line)
    /\ heredoc_index \in Nat \cup { -1 }
    /\ starved \in BOOLEAN

Typed == TypeOK /\ Core /\ cmd \in Commands /\ table \in Seq(Commands)

TableInv == Typed /\ Places /\ Descriptors /\ Index

-----------------------------------------------------------------------------
(* The CHOOSEs of the parser choose: each looks for a least position.       *)

LEMMA LessRelated ==
    ASSUME NEW j \in Nat, NEW k \in Nat, j < k
    PROVE  << j, k >> \in OpToRel(<, Nat)
<1> DEFINE p == << j, k >>
<1>1. p[1] = j /\ p[2] = k /\ p \in Nat \X Nat
  OBVIOUS
<1>2. p[1] < p[2]
  BY <1>1
<1> HIDE DEF p
<1>3. p \in OpToRel(<, Nat)
  BY <1>1, <1>2, Zenon DEF OpToRel
<1> QED BY <1>3 DEF p

LEMMA Least ==
    ASSUME NEW S, S \subseteq Nat, S # {}
    PROVE  \E m \in S : \A k \in S : m <= k
<1>1. PICK m \in S : \A k \in S : ~(<< k, m >> \in OpToRel(<, Nat))
  <2>1. IsWellFoundedOn(OpToRel(<, Nat), Nat)
    BY NatLessThanWellFounded
  <2> QED BY <2>1, WFMin
<1>2. ASSUME NEW k \in S PROVE m <= k
  <2>1. k \in Nat /\ m \in Nat
    OBVIOUS
  <2>2. ~(k < m)
    BY <1>1, <2>1, LessRelated
  <2> QED BY <2>1, <2>2
<1> QED BY <1>2

\* The tokens of the line.
LEMMA LineIsTokens ==
    ASSUME TypeOK
    PROVE  /\ line \in Seq(Token) /\ Len(line) \in Nat \ { 0 }
           /\ DOMAIN line = 1 .. Len(line)
           /\ \A i \in 1 .. Len(line) :
                line[i] \in Token /\ Type(i) \in TokenTypes /\ line[i].wp \in BOOLEAN
<1>1. line \in Seq(Token) /\ Lexed(line)
  BY CommandTableAssumption DEF TypeOK
<1>2. line # << >>
  BY <1>1 DEF Lexed
<1>3. Len(line) \in Nat /\ DOMAIN line = 1 .. Len(line) /\ Len(line) \in Nat \ { 0 }
  BY <1>1, <1>2, LenProperties, EmptySeq
<1>4. ASSUME NEW i \in 1 .. Len(line)
      PROVE  line[i] \in Token /\ Type(i) \in TokenTypes /\ line[i].wp \in BOOLEAN
  <2>1. line[i] \in Token
    BY <1>1, ElementOfSeq
  <2> QED BY <2>1 DEF Token, Type
<1> QED BY <1>1, <1>3, <1>4

LEMMA DelimiterEnds ==
    ASSUME TypeOK, NEW i \in 1 .. Len(line)
    PROVE  /\ DelimiterEnd(i) \in i .. Len(line)
           /\ \A k \in i .. DelimiterEnd(i) - 1 : NextGlued(k) /\ Type(k + 1) \in WordTypes
           /\ ~NextGlued(DelimiterEnd(i)) \/ Type(DelimiterEnd(i) + 1) \notin WordTypes
<1> DEFINE Stop(j) == ~NextGlued(j) \/ Type(j + 1) \notin WordTypes
           Goes(k) == NextGlued(k) /\ Type(k + 1) \in WordTypes
           S == { j \in i .. Len(line) : Stop(j) }
           P(j) == (\A k \in i .. j - 1 : NextGlued(k) /\ Type(k + 1) \in WordTypes) /\ Stop(j)
<1>1. Len(line) \in Nat /\ i \in Nat
  BY LineIsTokens
<1>2. Len(line) \in S
  BY <1>1 DEF NextGlued, HasNext
<1>3. S \subseteq Nat
  BY <1>1
<1>4. PICK m \in S : \A k \in S : m <= k
  <2> HIDE DEF S
  <2> QED BY <1>2, <1>3, Least
<1>5. \A k \in i .. m - 1 : NextGlued(k) /\ Type(k + 1) \in WordTypes
  <2> SUFFICES ASSUME NEW k \in i .. m - 1 PROVE NextGlued(k) /\ Type(k + 1) \in WordTypes
    OBVIOUS
  <2>1. k \in i .. Len(line) /\ ~(m <= k)
    BY <1>1, <1>4
  <2>2. k \notin S
    BY <1>4, <2>1
  <2> QED BY <2>1, <2>2
<1>6. m \in i .. Len(line) /\ P(m)
  BY <1>4, <1>5
<1>7. DelimiterEnd(i) = CHOOSE j \in i .. Len(line) : P(j)
  BY DEF DelimiterEnd
<1>8. DelimiterEnd(i) \in i .. Len(line) /\ P(DelimiterEnd(i))
  <2> HIDE DEF P
  <2> QED BY <1>6, <1>7
<1> QED BY <1>8

LEMMA GluedEnds ==
    ASSUME TypeOK, NEW i \in 1 .. Len(line)
    PROVE  /\ GluedEnd(i) \in i .. Len(line)
           /\ \A k \in i .. GluedEnd(i) - 1 : NextGlued(k)
           /\ ~NextGlued(GluedEnd(i))
<1> DEFINE S == { j \in i .. Len(line) : ~NextGlued(j) }
           P(j) == (\A k \in i .. j - 1 : NextGlued(k)) /\ ~NextGlued(j)
<1>1. Len(line) \in Nat /\ i \in Nat
  BY LineIsTokens
<1>2. Len(line) \in S
  BY <1>1 DEF NextGlued, HasNext
<1>3. S \subseteq Nat
  BY <1>1
<1>4. PICK m \in S : \A k \in S : m <= k
  <2> HIDE DEF S
  <2> QED BY <1>2, <1>3, Least
<1>5. \A k \in i .. m - 1 : NextGlued(k)
  <2> SUFFICES ASSUME NEW k \in i .. m - 1 PROVE NextGlued(k)
    OBVIOUS
  <2>1. k \in i .. Len(line) /\ ~(m <= k)
    BY <1>1, <1>4
  <2>2. k \notin S
    BY <1>4, <2>1
  <2> QED BY <2>1, <2>2
<1>6. m \in i .. Len(line) /\ P(m)
  BY <1>4, <1>5
<1>7. GluedEnd(i) = CHOOSE j \in i .. Len(line) : P(j)
  BY DEF GluedEnd
<1>8. GluedEnd(i) \in i .. Len(line) /\ P(GluedEnd(i))
  <2> HIDE DEF P
  <2> QED BY <1>6, <1>7
<1> QED BY <1>8

LEMMA NextPipes ==
    ASSUME TypeOK, NEW i \in 1 .. Len(line), Pipes(i) # {}
    PROVE  /\ NextPipe(i) \in i .. Len(line) /\ Type(NextPipe(i)) = "PIPE"
           /\ \A k \in Pipes(i) : NextPipe(i) <= k
<1> DEFINE P(j) == \A k \in Pipes(i) : j <= k
<1>1. Pipes(i) \subseteq Nat
  BY LineIsTokens DEF Pipes
<1>2. \E m \in Pipes(i) : P(m)
  BY <1>1, Least
<1>3. NextPipe(i) = CHOOSE j \in Pipes(i) : P(j)
  BY DEF NextPipe
<1>4. NextPipe(i) \in Pipes(i) /\ P(NextPipe(i))
  <2> HIDE DEF P
  <2> QED BY <1>2, <1>3
<1> QED BY <1>4 DEF Pipes

\* A word ends where it begins or further on, within the line.
LEMMA WordEnds ==
    ASSUME TypeOK, NEW i \in 1 .. Len(line), NEW first \in BOOLEAN
    PROVE  WordEnd(i, first) \in i .. Len(line)
<1>1. i \in i .. Len(line)
  BY LineIsTokens
<1> QED BY <1>1, GluedEnds DEF WordEnd

\* It takes no pipe from a line that keeps its pipes apart.
LEMMA WordKeepsPipes ==
    ASSUME TypeOK, PipesApart, NEW i \in 1 .. Len(line), NEW first \in BOOLEAN,
           Type(i) \notin Operators
    PROVE  \A j \in i .. WordEnd(i, first) : Type(j) # "PIPE"
<1> SUFFICES ASSUME NEW j \in i .. WordEnd(i, first), Type(j) = "PIPE" PROVE FALSE
  OBVIOUS
<1>1. Len(line) \in Nat /\ i \in Nat /\ j \in Nat /\ j # i
  BY LineIsTokens DEF Operators
<1>2. /\ line[i].wp /\ Type(i + 1) \notin Operators /\ WordEnd(i, first) = GluedEnd(i)
  BY <1>1 DEF WordEnd
<1>3. /\ GluedEnd(i) \in i .. Len(line)
      /\ \A k \in i .. GluedEnd(i) - 1 : NextGlued(k)
  BY GluedEnds
<1>4. j # i + 1
  BY <1>2 DEF Operators
<1>5. i \in DOMAIN line /\ j \in i + 2 .. Len(line)
  BY <1>1, <1>2, <1>3, <1>4, LineIsTokens
<1>6. PICK k \in i + 1 .. j : line[k].wp
  BY <1>2, <1>5 DEF PipesApart
<1>7. k - 1 \in i .. GluedEnd(i) - 1 /\ (k - 1) + 1 = k
  BY <1>1, <1>2, <1>3
<1>8. NextGlued(k - 1)
  BY <1>3, <1>7
<1> QED BY <1>6, <1>7, <1>8 DEF NextGlued

-----------------------------------------------------------------------------
(* Descriptors.                                                             *)

LEMMA Numbers ==
    /\ STDIN = 0 /\ STDOUT = 1 /\ STDERR = 2
    /\ 0 .. STDERR \subseteq Fds /\ Files \subseteq Fds
    /\ \A fd \in Fds : fd \in 0 .. STDERR \/ fd \in Files
    /\ \A fd \in Files : fd \in Nat /\ fd > STDERR /\ fd # STDIN /\ fd # STDOUT /\ fd # -1
    /\ -1 \notin Files /\ -1 # STDIN /\ -1 # STDOUT
BY CommandTableAssumption DEF STDIN, STDOUT, STDERR, Fds, Files

\* What a descriptor may be.
Objects == { "closed", "tty", "file", "doc" } \X (0 .. Len(line))

LEMMA TableOfFds ==
    ASSUME TypeOK
    PROVE  /\ fds \in [Fds -> Objects] /\ DOMAIN fds = Fds
           /\ \A fd : fd \in Extra(fds) <=> fd \in Files /\ fds[fd] # Closed
<1>1. fds \in [Fds -> Objects]
  BY DEF TypeOK, Objects
<1> QED BY <1>1, Numbers, CommandTableAssumption DEF Extra, Fds, Files

LEMMA CommandFields ==
    ASSUME NEW c \in Commands
    PROVE  c.in \in Fds \cup { -1 } /\ c.out \in Fds \cup { -1 }
BY DEF Commands

\* Every redirection in the table is a descriptor past the standard streams.
LEMMA TableHolds ==
    ASSUME table \in Seq(Commands), Owned(table, OpenMax)
    PROVE  /\ AllRedirs \subseteq Files
           /\ \A i \in DOMAIN table :
                /\ table[i].in \in Files => table[i].in \in AllRedirs
                /\ table[i].out \in Files => table[i].out \in AllRedirs
<1>1. ASSUME NEW i \in DOMAIN table PROVE Redirs(table[i]) \subseteq Files
  BY DEF Owned, Redirs, Files
<1>2. AllRedirs \subseteq Files
  BY <1>1 DEF AllRedirs
<1>3. ASSUME NEW i \in DOMAIN table
      PROVE  /\ table[i].in \in Files => table[i].in \in AllRedirs
             /\ table[i].out \in Files => table[i].out \in AllRedirs
  BY Numbers DEF AllRedirs, Redirs
<1> QED BY <1>2, <1>3

LEMMA Shut ==
    ASSUME TypeOK, NEW S, S \cap 0 .. STDERR = {}
    PROVE  /\ Close(fds, S) \in [Fds -> Objects]
           /\ \A fd \in 0 .. STDERR : Close(fds, S)[fd] = fds[fd]
           /\ Extra(Close(fds, S)) = Extra(fds) \ S
<1>1. Closed \in Objects
  BY LineIsTokens DEF Closed, Objects
<1>2. fds \in [Fds -> Objects] /\ DOMAIN fds = Fds
  BY TableOfFds
<1>3. Close(fds, S) = [fd \in Fds |-> IF fd \in S THEN Closed ELSE fds[fd]]
  BY <1>2 DEF Close
<1>4. Close(fds, S) \in [Fds -> Objects]
  BY <1>1, <1>2, <1>3
<1>5. \A fd \in 0 .. STDERR : Close(fds, S)[fd] = fds[fd]
  BY <1>3, Numbers
<1>6. Extra(Close(fds, S)) = Extra(fds) \ S
  BY <1>2, <1>3 DEF Extra
<1> QED BY <1>4, <1>5, <1>6

\* What is left open once the descriptor of one side is closed.
LEMMA ReplacedLeaves ==
    ASSUME TypeOK, Descriptors, cmd \in Commands, pc = "build", NEW side \in { "in", "out" }
    PROVE  /\ Replaced(side) \in [Fds -> Objects]
           /\ \A fd \in 0 .. STDERR : Replaced(side)[fd] # Closed
           /\ Extra(Replaced(side)) = AllRedirs \cup (Redirs(cmd) \ { cmd[side] })
<1> DEFINE S == { cmd[side] } \cap Files
<1>1. S \cap 0 .. STDERR = {}
  BY Numbers
<1>2. Replaced(side) = Close(fds, S)
  BY DEF Replaced, Files
<1>3. Extra(Replaced(side)) = Extra(fds) \ S
  <2> HIDE DEF S
  <2> QED BY <1>1, <1>2, Shut
<1>4. cmd[side] = IF side = "in" THEN cmd.in ELSE cmd.out
  OBVIOUS
<1>5. /\ cmd.in = STDIN \/ (cmd.in \in Files /\ cmd.in \notin AllRedirs)
      /\ cmd.out = STDOUT \/ (cmd.out \in Files /\ cmd.out \notin AllRedirs)
      /\ Extra(fds) = AllRedirs \cup (Redirs(cmd) \ { -1 })
  BY DEF Descriptors, SideHeld
<1>6. -1 \notin Redirs(cmd) /\ Redirs(cmd) = { cmd.in, cmd.out } \ { STDIN, STDOUT }
  BY <1>5, Numbers DEF Redirs
<1>7. /\ cmd[side] \in Files => cmd[side] \notin AllRedirs
      /\ cmd[side] \notin Files => cmd[side] \notin Redirs(cmd)
  <2>1. CASE cmd[side] = cmd.in
    BY <1>5, <1>6, <2>1, Numbers
  <2>2. CASE cmd[side] = cmd.out
    BY <1>5, <1>6, <2>2, Numbers
  <2> QED BY <1>4, <2>1, <2>2
<1>8. Extra(fds) \ S = AllRedirs \cup (Redirs(cmd) \ { cmd[side] })
  <2>1. CASE cmd[side] \in Files
    BY <1>5, <1>6, <1>7, <2>1
  <2>2. CASE cmd[side] \notin Files
    <3>1. S = {} /\ Redirs(cmd) \ { cmd[side] } = Redirs(cmd) /\ Redirs(cmd) \ { -1 } = Redirs(cmd)
      BY <1>6, <1>7, <2>2
    <3> QED BY <1>5, <3>1
  <2> QED BY <2>1, <2>2
<1>9. \A fd \in 0 .. STDERR : fds[fd] # Closed
  BY DEF Descriptors
<1>10. Replaced(side) \in [Fds -> Objects] /\ \A fd \in 0 .. STDERR : Replaced(side)[fd] # Closed
  <2> HIDE DEF S
  <2> QED BY <1>1, <1>2, <1>9, Shut
<1> QED BY <1>3, <1>8, <1>10

\* open() or pipe() gives the side a descriptor of its own.
LEMMA Reopened ==
    ASSUME TypeOK, Descriptors, cmd \in Commands, table \in Seq(Commands), pc = "build",
           UNCHANGED << line, table, pc >>,
           NEW side \in { "in", "out" }, NEW fd \in Fds, LowestFree(Replaced(side), fd),
           NEW d \in { "file", "doc" } \X (0 .. Len(line)),
           fds' = Bind(Replaced(side), fd, d), cmd' = [cmd EXCEPT ![side] = fd]
    PROVE  Descriptors' /\ cmd' \in Commands /\ fds' \in [Fds -> Objects] /\ fd \in Files
<1> DEFINE t == Replaced(side)
<1>1. /\ t \in [Fds -> Objects] /\ \A g \in 0 .. STDERR : t[g] # Closed
      /\ Extra(t) = AllRedirs \cup (Redirs(cmd) \ { cmd[side] })
  BY ReplacedLeaves
<1>2. LowestFree(t, fd) /\ fds' = Bind(t, fd, d)
  OBVIOUS
<1>3. d \in Objects /\ d # Closed
  BY DEF Objects, Closed
<1> HIDE DEF t
<1>4. t[fd] = Closed /\ DOMAIN t = Fds
  BY <1>1, <1>2 DEF LowestFree
<1>5. fd \in Files
  BY <1>1, <1>4, Numbers
<1>6. fd \notin Extra(t)
  BY <1>4 DEF Extra
<1>7. fds' = [t EXCEPT ![fd] = d] /\ fds' \in [Fds -> Objects]
  BY <1>1, <1>2, <1>3 DEF Bind
<1>8. Extra(fds)' = Extra(t) \cup { fd }
  <2>1. DOMAIN fds' = Fds /\ fds'[fd] = d /\ \A g \in Fds : g # fd => fds'[g] = t[g]
    BY <1>1, <1>7
  <2>2. \A g : g \in Extra(fds)' <=> g \in Fds /\ g > STDERR /\ fds'[g] # Closed
    BY <2>1 DEF Extra
  <2>3. \A g : g \in Extra(t) <=> g \in Fds /\ g > STDERR /\ t[g] # Closed
    BY <1>4 DEF Extra
  <2>4. fd \in Fds /\ fd > STDERR
    BY <1>5, Numbers
  <2> QED BY <1>3, <2>1, <2>2, <2>3, <2>4
<1>9. \A g \in 0 .. STDERR : fds'[g] # Closed
  BY <1>1, <1>3, <1>7, Numbers
<1>10. AllRedirs' = AllRedirs /\ (Owned(table, OpenMax))' = Owned(table, OpenMax)
  BY DEF AllRedirs, Owned, Redirs
<1>11. /\ cmd.in = STDIN \/ (cmd.in \in Files /\ cmd.in \notin AllRedirs)
       /\ cmd.out = STDOUT \/ (cmd.out \in Files /\ cmd.out \notin AllRedirs)
       /\ cmd.in # cmd.out /\ Owned(table, OpenMax)
  BY DEF Descriptors, SideHeld
<1>12. cmd' \in Commands
  BY DEF Commands
<1>13. CASE side = "in"
  <2>1. cmd'.in = fd /\ cmd'.out = cmd.out /\ cmd[side] = cmd.in
    BY <1>13 DEF Commands
  <2>2. Redirs(cmd) \ { cmd.in } = { cmd.out } \ { STDOUT }
    BY <1>11, Numbers DEF Redirs
  <2>3. Redirs(cmd)' = { fd } \cup ({ cmd.out } \ { STDOUT })
    BY <1>5, <1>11, <2>1, Numbers DEF Redirs
  <2>4. fd \notin AllRedirs /\ fd # cmd.out
    BY <1>1, <1>5, <1>6, <1>11, <2>1, <2>2, Numbers
  <2>5. Extra(fds)' = AllRedirs' \cup (Redirs(cmd)' \ { -1 })
    BY <1>1, <1>5, <1>8, <1>10, <1>11, <2>1, <2>2, <2>3, Numbers
  <2>6. SideHeld(cmd.in, STDIN)' /\ SideHeld(cmd.out, STDOUT)'
    BY <1>5, <1>10, <1>11, <2>1, <2>4 DEF SideHeld
  <2>7. cmd'.in # cmd'.out
    BY <2>1, <2>4
  <2> QED BY <1>5, <1>7, <1>9, <1>10, <1>11, <1>12, <2>5, <2>6, <2>7 DEF Descriptors
<1>14. CASE side = "out"
  <2>1. cmd'.out = fd /\ cmd'.in = cmd.in /\ cmd[side] = cmd.out
    BY <1>14 DEF Commands
  <2>2. Redirs(cmd) \ { cmd.out } = { cmd.in } \ { STDIN }
    BY <1>11, Numbers DEF Redirs
  <2>3. Redirs(cmd)' = { fd } \cup ({ cmd.in } \ { STDIN })
    BY <1>5, <1>11, <2>1, Numbers DEF Redirs
  <2>4. fd \notin AllRedirs /\ fd # cmd.in
    BY <1>1, <1>5, <1>6, <1>11, <2>1, <2>2, Numbers
  <2>5. Extra(fds)' = AllRedirs' \cup (Redirs(cmd)' \ { -1 })
    BY <1>1, <1>5, <1>8, <1>10, <1>11, <2>1, <2>2, <2>3, Numbers
  <2>6. SideHeld(cmd.in, STDIN)' /\ SideHeld(cmd.out, STDOUT)'
    BY <1>5, <1>10, <1>11, <2>1, <2>4 DEF SideHeld
  <2>7. cmd'.in # cmd'.out
    BY <2>1, <2>4
  <2> QED BY <1>5, <1>7, <1>9, <1>10, <1>11, <1>12, <2>5, <2>6, <2>7 DEF Descriptors
<1> QED BY <1>13, <1>14

\* It fails: the side holds -1.
LEMMA NotReopened ==
    ASSUME TypeOK, Descriptors, cmd \in Commands, table \in Seq(Commands), pc = "build",
           UNCHANGED << line, table >>, pc' = "fail", NEW side \in { "in", "out" },
           fds' = Replaced(side), cmd' = [cmd EXCEPT ![side] = -1]
    PROVE  Descriptors' /\ cmd' \in Commands /\ fds' \in [Fds -> Objects]
<1>1. /\ fds' \in [Fds -> Objects] /\ \A g \in 0 .. STDERR : fds'[g] # Closed
      /\ Extra(fds)' = AllRedirs \cup (Redirs(cmd) \ { cmd[side] })
  <2>1. Extra(fds)' = Extra(fds')
    BY DEF Extra
  <2> QED BY <2>1, ReplacedLeaves
<1>2. AllRedirs' = AllRedirs /\ (Owned(table, OpenMax))' = Owned(table, OpenMax)
  BY DEF AllRedirs, Owned, Redirs
<1>3. /\ cmd.in = STDIN \/ (cmd.in \in Files /\ cmd.in \notin AllRedirs)
      /\ cmd.out = STDOUT \/ (cmd.out \in Files /\ cmd.out \notin AllRedirs)
      /\ cmd.in # cmd.out /\ Owned(table, OpenMax)
  BY DEF Descriptors, SideHeld
<1>4. cmd' \in Commands
  BY DEF Commands
<1>5. CASE side = "in"
  <2>1. cmd'.in = -1 /\ cmd'.out = cmd.out /\ cmd[side] = cmd.in
    BY <1>5 DEF Commands
  <2>2. Redirs(cmd) \ { cmd.in } = { cmd.out } \ { STDOUT }
    BY <1>3, Numbers DEF Redirs
  <2>3. Redirs(cmd)' \ { -1 } = { cmd.out } \ { STDOUT }
    BY <1>3, <2>1, Numbers DEF Redirs
  <2>4. cmd.out # -1
    BY <1>3, Numbers
  <2>5. SideHeld(cmd.in, STDIN)' /\ SideHeld(cmd.out, STDOUT)'
    BY <1>2, <1>3, <2>1 DEF SideHeld
  <2>6. cmd'.in # cmd'.out
    BY <2>1, <2>4
  <2>7. Extra(fds)' = AllRedirs' \cup (Redirs(cmd)' \ { -1 })
    BY <1>1, <1>2, <2>1, <2>2, <2>3
  <2> QED BY <1>1, <1>2, <1>3, <1>4, <2>5, <2>6, <2>7 DEF Descriptors
<1>6. CASE side = "out"
  <2>1. cmd'.out = -1 /\ cmd'.in = cmd.in /\ cmd[side] = cmd.out
    BY <1>6 DEF Commands
  <2>2. Redirs(cmd) \ { cmd.out } = { cmd.in } \ { STDIN }
    BY <1>3, Numbers DEF Redirs
  <2>3. Redirs(cmd)' \ { -1 } = { cmd.in } \ { STDIN }
    BY <1>3, <2>1, Numbers DEF Redirs
  <2>4. cmd.in # -1
    BY <1>3, Numbers
  <2>5. SideHeld(cmd.in, STDIN)' /\ SideHeld(cmd.out, STDOUT)'
    BY <1>2, <1>3, <2>1 DEF SideHeld
  <2>6. cmd'.in # cmd'.out
    BY <2>1, <2>4
  <2>7. Extra(fds)' = AllRedirs' \cup (Redirs(cmd)' \ { -1 })
    BY <1>1, <1>2, <2>1, <2>2, <2>3
  <2> QED BY <1>1, <1>2, <1>3, <1>4, <2>5, <2>6, <2>7 DEF Descriptors
<1> QED BY <1>5, <1>6

\* Whoever neither opens nor closes leaves them.
LEMMA SameDescriptors ==
    ASSUME Descriptors, UNCHANGED << line, table, fds >>,
           cmd'.in = cmd.in, cmd'.out = cmd.out, pc = "fail" => pc' = "fail"
    PROVE  Descriptors'
<1>1. AllRedirs' = AllRedirs /\ Redirs(cmd)' = Redirs(cmd) /\ Extra(fds)' = Extra(fds)
      /\ (Owned(table, OpenMax))' = Owned(table, OpenMax)
  BY DEF AllRedirs, Owned, Redirs, Extra
<1> QED BY <1>1 DEF Descriptors, SideHeld

\* A command joins the table.
LEMMA Appended ==
    ASSUME table \in Seq(Commands), Owned(table, OpenMax), NEW c \in Commands,
           c.in = STDIN \/ (c.in \in Files /\ c.in \notin AllRedirs),
           c.out = STDOUT \/ (c.out \in Files /\ c.out \notin AllRedirs),
           c.in # c.out, table' = Append(table, c)
    PROVE  /\ Owned(table, OpenMax)'
           /\ AllRedirs' = AllRedirs \cup Redirs(c)
<1>1. /\ DOMAIN table = 1 .. Len(table) /\ Len(table) \in Nat
      /\ DOMAIN table' = 1 .. Len(table) + 1
      /\ \A i \in 1 .. Len(table) : table'[i] = table[i]
      /\ table'[Len(table) + 1] = c
  BY AppendProperties, LenProperties
<1>2. /\ AllRedirs \subseteq Files
      /\ \A i \in DOMAIN table :
           /\ table[i].in \in Files => table[i].in \in AllRedirs
           /\ table[i].out \in Files => table[i].out \in AllRedirs
  BY TableHolds
<1>3. \A i \in DOMAIN table :
        /\ table[i].in = STDIN \/ table[i].in \in Files
        /\ table[i].out = STDOUT \/ table[i].out \in Files
        /\ table[i].in # table[i].out
  BY DEF Owned, Files
<1>4. ASSUME NEW i \in DOMAIN table'
      PROVE  /\ table'[i].in = STDIN \/ table'[i].in \in Files
             /\ table'[i].out = STDOUT \/ table'[i].out \in Files
             /\ table'[i].in # table'[i].out
  BY <1>1, <1>3
<1>5. ASSUME NEW i \in DOMAIN table
      PROVE  /\ table[i].in = c.in => c.in = STDIN
             /\ table[i].out = c.out => c.out = STDOUT
             /\ table[i].in # c.out /\ c.in # table[i].out
  <2>1. table[i].in = STDIN \/ table[i].in \in AllRedirs
    BY <1>2, <1>3
  <2>2. table[i].out = STDOUT \/ table[i].out \in AllRedirs
    BY <1>2, <1>3
  <2> QED BY <1>2, <2>1, <2>2, Numbers
<1>6. ASSUME NEW i \in DOMAIN table', NEW j \in DOMAIN table', i # j
      PROVE  /\ table'[i].in = table'[j].in => table'[i].in = STDIN
             /\ table'[i].out = table'[j].out => table'[i].out = STDOUT
             /\ table'[i].in # table'[j].out
  <2>1. CASE i \in DOMAIN table /\ j \in DOMAIN table
    BY <1>1, <1>6, <2>1 DEF Owned
  <2>2. CASE i \in DOMAIN table /\ j = Len(table) + 1
    BY <1>1, <1>5, <2>2
  <2>3. CASE j \in DOMAIN table /\ i = Len(table) + 1
    BY <1>1, <1>5, <2>3
  <2> QED BY <1>1, <1>6, <2>1, <2>2, <2>3
<1>7. Owned(table, OpenMax)'
  BY <1>4, <1>6 DEF Owned, Files
<1>8. AllRedirs' = AllRedirs \cup Redirs(c)
  <2>1. AllRedirs' = UNION { Redirs(table'[i]) : i \in DOMAIN table' }
    BY DEF AllRedirs, Redirs
  <2>2. \A x : x \in AllRedirs' <=> \E i \in DOMAIN table' : x \in Redirs(table'[i])
    BY <2>1
  <2>3. \A x : x \in AllRedirs <=> \E i \in DOMAIN table : x \in Redirs(table[i])
    BY DEF AllRedirs
  <2>4. \A x : (\E i \in DOMAIN table' : x \in Redirs(table'[i]))
               <=> (\E i \in DOMAIN table : x \in Redirs(table[i])) \/ x \in Redirs(c)
    BY <1>1
  <2> QED BY <2>2, <2>3, <2>4
<1> QED BY <1>7, <1>8

-----------------------------------------------------------------------------
(* The steps.                                                               *)

LEMMA SameLine ==
    ASSUME line' = line
    PROVE  /\ PipesApart' <=> PipesApart
           /\ \A i : Docs(i)' = Docs(i)
           /\ SyntaxCorrect' <=> SyntaxCorrect
           /\ CountHeredocs(line)' = CountHeredocs(line)
           /\ Commands' = Commands
BY DEF PipesApart, Docs, SyntaxCorrect, CountHeredocs, Commands, Type

LEMMA CoreTypes ==
    Core /\ cmd \in Commands /\ table \in Seq(Commands) /\ Index => Typed
<1> SUFFICES ASSUME Core, cmd \in Commands, table \in Seq(Commands), Index PROVE Typed
  OBVIOUS
<1>1. ASSUME NEW c \in Commands PROVE CommandOK(c)
  BY DEF Commands, CommandOK
<1>2. CommandOK(cmd) /\ \A i \in DOMAIN table : CommandOK(table[i])
  BY <1>1, LenProperties, ElementOfSeq
<1>3. PipesApart => heredoc_index < MaxHeredocs
  BY DEF Index
<1> QED BY <1>2, <1>3 DEF Typed, TypeOK, Core

\* Counting here-documents from the left.
LEMMA DocsCount ==
    ASSUME TypeOK, NEW i \in Nat, NEW j \in Nat, i <= j
    PROVE  /\ Cardinality(Docs(i)) \in Nat /\ Cardinality(Docs(j)) \in Nat
           /\ Cardinality(Docs(i)) <= Cardinality(Docs(j))
           /\ Cardinality(Docs(j)) <= CountHeredocs(line)
           /\ CountHeredocs(line) \in 0 .. Len(line)
           /\ i \in DOMAIN line /\ Type(i) = "HEREDOC" /\ i < j
                => Cardinality(Docs(i)) + 1 <= Cardinality(Docs(j))
<1> DEFINE All == { k \in DOMAIN line : line[k].type = "HEREDOC" }
<1>1. Len(line) \in Nat /\ DOMAIN line = 1 .. Len(line)
  BY LineIsTokens
<1>2. IsFiniteSet(1 .. Len(line)) /\ Cardinality(1 .. Len(line)) = Len(line)
  <2>1. 1 \in Int /\ Len(line) \in Int
    BY <1>1
  <2>2. /\ IsFiniteSet(1 .. Len(line))
        /\ Cardinality(1 .. Len(line)) = IF 1 > Len(line) THEN 0 ELSE Len(line) - 1 + 1
    BY <2>1, FS_Interval
  <2> QED BY <1>1, <2>2
<1>3. Docs(i) \subseteq Docs(j) /\ Docs(j) \subseteq All /\ All \subseteq 1 .. Len(line)
  BY <1>1 DEF Docs, Type
<1>4. IsFiniteSet(All) /\ Cardinality(All) <= Len(line) /\ Cardinality(All) \in Nat
  <2> HIDE DEF All
  <2>1. All \subseteq 1 .. Len(line)
    BY <1>3
  <2>2. IsFiniteSet(All) /\ Cardinality(All) <= Cardinality(1 .. Len(line))
    BY <1>2, <2>1, FS_Subset
  <2> QED BY <1>2, <2>2, FS_CardinalityType
<1>5. IsFiniteSet(Docs(j)) /\ Cardinality(Docs(j)) <= Cardinality(All) /\ Cardinality(Docs(j)) \in Nat
  <2> HIDE DEF All
  <2> QED BY <1>3, <1>4, FS_Subset, FS_CardinalityType
<1>6. IsFiniteSet(Docs(i)) /\ Cardinality(Docs(i)) <= Cardinality(Docs(j)) /\ Cardinality(Docs(i)) \in Nat
  BY <1>3, <1>5, FS_Subset, FS_CardinalityType
<1>7. ASSUME i \in DOMAIN line, Type(i) = "HEREDOC", i < j
      PROVE  Cardinality(Docs(i)) + 1 <= Cardinality(Docs(j))
  <2>1. i \notin Docs(i) /\ i \in Docs(j)
    BY <1>7 DEF Docs
  <2>a. Docs(i) \cup { i } \subseteq Docs(j)
    BY <1>3, <2>1
  <2>2. Cardinality(Docs(i) \cup { i }) = Cardinality(Docs(i)) + 1
    BY <1>6, <2>1, FS_AddElement
  <2>3. Cardinality(Docs(i) \cup { i }) <= Cardinality(Docs(j))
    BY <1>5, <2>a, FS_Subset
  <2> QED BY <2>2, <2>3
<1>8. CountHeredocs(line) = Cardinality(All)
  BY DEF CountHeredocs
<1> HIDE DEF All
<1>9. CountHeredocs(line) \in 0 .. Len(line) /\ Cardinality(Docs(j)) <= CountHeredocs(line)
  BY <1>1, <1>4, <1>5, <1>8
<1> QED BY <1>5, <1>6, <1>7, <1>9

\* An operator is not the last token, and what follows is a word.
LEMMA AfterOperator ==
    ASSUME TypeOK, SyntaxCorrect, NEW i \in 1 .. Len(line), Type(i) \in Operators
    PROVE  /\ i + 1 \in 1 .. Len(line)
           /\ Type(i) # "PIPE" => Type(i + 1) \in WordTypes
<1>1. Len(line) \in Nat \ { 0 } /\ DOMAIN line = 1 .. Len(line)
  BY LineIsTokens
<1>2. i # Len(line)
  BY DEF SyntaxCorrect
<1>a. i \in Nat /\ i <= Len(line) /\ i >= 1
  BY <1>1
<1>b. i < Len(line) \/ i = Len(line)
  <2>1. \A m, n \in Nat : m <= n => m < n \/ m = n
    OBVIOUS
  <2>2. i \in Nat /\ Len(line) \in Nat /\ i <= Len(line)
    BY <1>1, <1>a
  <2> QED BY <2>1, <2>2, Zenon
<1>c. i < Len(line)
  BY <1>2, <1>b, Zenon
<1>3. i + 1 \in 1 .. Len(line)
  BY <1>1, <1>a, <1>c
<1>4. Type(i) # "PIPE" => Type(i) \in RedirTypes \cup { "HEREDOC" }
  BY DEF Operators
<1>5. Type(i) # "PIPE" => Type(i + 1) \in WordTypes
  BY <1>1, <1>4 DEF SyntaxCorrect
<1> QED BY <1>3, <1>5

LEMMA InitTable == Init => TableInv
<1> SUFFICES ASSUME Init PROVE TableInv
  OBVIOUS
<1>1. line \in Seq(Token) /\ Lexed(line)
  BY CommandTableAssumption DEF Init
<1>2. Len(line) \in Nat \ { 0 }
  BY <1>1, LenProperties, EmptySeq DEF Lexed
<1>3. fds \in [Fds -> { "closed", "tty", "file", "doc" } \X (0 .. Len(line))]
  <2>1. Tty \in { "closed", "tty", "file", "doc" } \X (0 .. Len(line))
    BY <1>2 DEF Tty
  <2>2. Closed \in { "closed", "tty", "file", "doc" } \X (0 .. Len(line))
    BY <1>2 DEF Closed
  <2> QED BY <2>1, <2>2 DEF Init
<1>a. start \in 1 .. Len(line) /\ tok \in 1 .. Len(line) + 1 /\ heredoc_count \in 0 .. Len(line)
  BY <1>2 DEF Init
<1>b. heredoc_index \in Nat \cup { -1 }
  BY DEF Init
<1>c. /\ line \in Lines /\ pc = "scan" /\ state = { "EVALUATING" } /\ code = 0 /\ starved = FALSE
  BY DEF Init
<1>4. Core
  BY <1>3, <1>a, <1>b, <1>c DEF Core
<1>5. cmd \in Commands
  <2>1. << >> \in Seq(Seq(1 .. Len(line)))
    BY EmptySeq
  <2> QED BY <2>1, Numbers DEF Init, NoCommand, Commands
<1>6. table \in Seq(Commands) /\ table = << >> /\ DOMAIN table = {}
  <2>1. << >> \in Seq(Commands) /\ Len(<< >>) = 0
    BY EmptySeq
  <2> QED BY <2>1, LenProperties DEF Init
<1>7. Index
  BY CommandTableAssumption DEF Init, Index
<1>8. Places
  BY DEF Init, Places
<1>9. Descriptors
  <2>1. AllRedirs = {} /\ Owned(table, OpenMax)
    BY <1>6 DEF AllRedirs, Owned
  <2>2. cmd.in = STDIN /\ cmd.out = STDOUT /\ Redirs(cmd) = {}
    BY DEF Init, NoCommand, Redirs
  <2>3. DOMAIN fds = Fds /\ \A fd \in Fds : fds[fd] = IF fd <= STDERR THEN Tty ELSE Closed
    BY DEF Init
  <2>4. \A fd \in 0 .. STDERR : fd \in Fds /\ fd <= STDERR
    BY Numbers
  <2>5. \A fd \in 0 .. STDERR : fds[fd] # Closed
    BY <2>3, <2>4 DEF Tty, Closed
  <2>6. Extra(fds) = {}
    <3> SUFFICES ASSUME NEW fd \in Fds, fd > STDERR PROVE fds[fd] = Closed
      BY <2>3 DEF Extra
    <3>1. ~(fd <= STDERR)
      BY Numbers DEF Fds
    <3> QED BY <2>3, <3>1
  <2> QED BY <2>1, <2>2, <2>5, <2>6, Numbers DEF Descriptors, SideHeld
<1>10. Typed
  BY <1>4, <1>5, <1>6, <1>7, CoreTypes
<1> QED BY <1>7, <1>8, <1>9, <1>10 DEF TableInv

\* Steps that leave the tables of descriptors and of commands alone.
LEMMA QuietStep ==
    ASSUME TableInv, UNCHANGED << line, table, fds >>, Core', cmd' \in Commands,
           cmd'.in = cmd.in, cmd'.out = cmd.out, pc = "fail" => pc' = "fail",
           Places', Index'
    PROVE  TableInv'
<1>1. Descriptors'
  BY SameDescriptors DEF TableInv
<1>2. (Core /\ cmd \in Commands /\ table \in Seq(Commands) /\ Index)'
  BY SameLine DEF TableInv, Typed
<1>3. Typed'
  BY <1>2, CoreTypes, PTL
<1> QED BY <1>1, <1>3 DEF TableInv

LEMMA ScanStep == TableInv /\ Scan => TableInv'
<1> SUFFICES ASSUME TableInv, Scan PROVE TableInv'
  OBVIOUS
<1>1. TypeOK /\ Core /\ Places /\ Index /\ cmd \in Commands
  BY DEF TableInv, Typed
<1>2. /\ pc = "scan" /\ UNCHANGED << line, start, tok, cmd, table, fds, heredoc_index, starved >>
      /\ heredoc_count' = CountHeredocs(line)
  BY DEF Scan
<1>3. start = 1 /\ heredoc_index = -1 /\ cmd = NoCommand /\ table = << >> /\ "EVALUATING" \in state
  BY <1>1, <1>2 DEF Places
<1>4. CountHeredocs(line) \in 0 .. Len(line) /\ Cardinality(Docs(start)) \in Nat
  <2>1. start \in Nat
    BY <1>3
  <2> QED BY <1>1, <2>1, DocsCount
<1>5. CASE /\ SyntaxCorrect /\ pc' = "begin" /\ code' = code
           /\ state' = state \cup { "HAS_PIPE" : i \in Pipes(1) }
  <2>1. state' \subseteq { "EVALUATING", "HAS_PIPE" } /\ "EVALUATING" \in state'
    BY <1>1, <1>3, <1>5 DEF Core
  <2>2. Core'
    BY <1>1, <1>2, <1>4, <1>5, <2>1 DEF Core
  <2>3. Places'
    BY <1>2, <1>3, <1>5, <2>1, SameLine DEF Places
  <2>4. Index'
    <3>1. heredoc_index + 1 <= Cardinality(Docs(start)) /\ heredoc_index < MaxHeredocs
      BY <1>3, <1>4, CommandTableAssumption
    <3>2. Docs(start)' = Docs(start) /\ heredoc_index' = heredoc_index
      BY <1>2 DEF Docs, Type
    <3> QED BY <1>5, <3>1, <3>2 DEF Index
  <2> QED BY <1>1, <1>2, <1>5, <2>2, <2>3, <2>4, QuietStep
<1>6. CASE code' = 2 /\ state' = {} /\ pc' = "rejected"
  <2>1. Core'
    BY <1>1, <1>2, <1>4, <1>6 DEF Core
  <2>2. Places'
    BY <1>2, <1>3, <1>6 DEF Places
  <2>3. Index'
    BY <1>2, <1>3, <1>6, CommandTableAssumption DEF Index
  <2> QED BY <1>1, <1>2, <1>6, <2>1, <2>2, <2>3, QuietStep
<1> QED BY <1>5, <1>6 DEF Scan, Abort

LEMMA BeginStep == TableInv /\ Begin => TableInv'
<1> SUFFICES ASSUME TableInv, Begin PROVE TableInv'
  OBVIOUS
<1>1. TypeOK /\ Core /\ Places /\ Index /\ cmd \in Commands
  BY DEF TableInv, Typed
<1>2. /\ pc = "begin" /\ pc' = "build" /\ tok' = start
      /\ UNCHANGED << line, start, table, fds, state, code, heredoc_count, heredoc_index, starved >>
  BY DEF Begin
<1>3. cmd = NoCommand /\ SyntaxCorrect /\ start \in Nat
  BY <1>1, <1>2, LineIsTokens DEF Places, Core
<1>4. CommandType(line[start]) \in Builtins \cup { "EXTERNAL" }
  BY DEF CommandType
<1>5. cmd' \in Commands /\ cmd'.in = cmd.in /\ cmd'.out = cmd.out
  BY <1>1, <1>3, <1>4 DEF Begin, NoCommand, Commands
<1>6. Core'
  BY <1>1, <1>2, LineIsTokens DEF Core
<1>7. Places'
  BY <1>1, <1>2, <1>3, SameLine DEF Places
<1>8. Index'
  <2>1. PipesApart' <=> PipesApart
    BY <1>2, SameLine
  <2>2. Docs(tok)' = Docs(start)
    BY <1>2 DEF Docs, Type
  <2>3. \A j \in start' .. tok' - 1 : FALSE
    BY <1>2, <1>3
  <2> QED BY <1>1, <1>2, <2>1, <2>2, <2>3 DEF Index
<1> QED BY <1>2, <1>5, <1>6, <1>7, <1>8, QuietStep

LEMMA NoMemoryStep == TableInv /\ NoMemory => TableInv'
<1> SUFFICES ASSUME TableInv, NoMemory PROVE TableInv'
  OBVIOUS
<1>1. TypeOK /\ Core /\ Places /\ Index /\ cmd \in Commands
  BY DEF TableInv, Typed
<1>2. /\ pc \in { "begin", "build" } /\ pc' = "fail" /\ starved' = TRUE
      /\ UNCHANGED << line, start, tok, table, fds, state, code, heredoc_count, heredoc_index >>
  BY DEF NoMemory
<1>3. cmd' = cmd
  BY <1>1 DEF NoMemory, Places
<1>4. Core'
  BY <1>1, <1>2 DEF Core
<1>5. Places'
  BY <1>1, <1>2, SameLine DEF Places
<1>6. Index'
  BY <1>1, <1>2, SameLine DEF Index
<1> QED BY <1>1, <1>2, <1>3, <1>4, <1>5, <1>6, QuietStep

LEMMA WordStep == TableInv /\ Word => TableInv'
<1> SUFFICES ASSUME TableInv, Word PROVE TableInv'
  OBVIOUS
<1>1. TypeOK /\ Core /\ Places /\ Index /\ cmd \in Commands
  BY DEF TableInv, Typed
<1>2. /\ pc = "build" /\ tok <= Len(line) /\ Type(tok) \notin Operators
      /\ UNCHANGED << line, pc, start, table, fds, state, code, heredoc_count, heredoc_index, starved >>
  BY DEF Word
<1> DEFINE first == (cmd.args = << >>)
           last == WordEnd(tok, first)
           piece == [k \in 1 .. last - tok + 1 |-> tok + k - 1]
<1>3. /\ cmd' = [cmd EXCEPT !.args = Append(@, piece)] /\ tok' = last + 1
  BY DEF Word
<1>4. tok \in 1 .. Len(line) /\ Len(line) \in Nat /\ tok \in Nat /\ first \in BOOLEAN
  BY <1>1, <1>2, LineIsTokens DEF Core
<1> HIDE DEF first
<1>5. last \in tok .. Len(line) /\ last \in Nat
  <2>1. WordEnd(tok, first) \in tok .. Len(line)
    BY <1>1, <1>4, WordEnds
  <2> QED BY <1>4, <2>1
<1>6. PipesApart => \A j \in tok .. last : Type(j) # "PIPE"
  BY <1>1, <1>2, <1>4, WordKeepsPipes
<1> HIDE DEF last
<1>7. piece \in Seq(1 .. Len(line))
  <2>1. last - tok + 1 \in Nat
    BY <1>4, <1>5
  <2>2. \A k \in 1 .. last - tok + 1 : tok + k - 1 \in 1 .. Len(line)
    BY <1>4, <1>5
  <2> QED BY <2>1, <2>2, IsASeq
<1> HIDE DEF piece
<1>8. cmd' \in Commands /\ cmd'.in = cmd.in /\ cmd'.out = cmd.out
  <2>1. cmd.args \in Seq(Seq(1 .. Len(line)))
    BY <1>1 DEF Commands
  <2>2. Append(cmd.args, piece) \in Seq(Seq(1 .. Len(line)))
    BY <1>7, <2>1, AppendProperties
  <2> QED BY <1>1, <1>3, <2>2 DEF Commands
<1>9. tok' \in 1 .. Len(line) + 1 /\ tok <= tok' /\ tok' \in Nat
  BY <1>3, <1>4, <1>5
<1>10. Core'
  BY <1>1, <1>2, <1>9 DEF Core
<1>11. Places'
  <2>1. start' <= tok'
    BY <1>1, <1>2, <1>4, <1>9 DEF Places, Core
  <2> QED BY <1>1, <1>2, <2>1, SameLine DEF Places
<1>12. Index'
  <2> SUFFICES ASSUME PipesApart PROVE Index'
    BY <1>2, SameLine DEF Index
  <2>1. Cardinality(Docs(tok)) <= Cardinality(Docs(tok')) /\ Cardinality(Docs(tok)) \in Nat /\ Cardinality(Docs(tok')) \in Nat
    BY <1>1, <1>4, <1>9, DocsCount
  <2>2. heredoc_index + 1 <= Cardinality(Docs(tok)) /\ heredoc_index < MaxHeredocs
        /\ \A j \in start .. tok - 1 : Type(j) # "PIPE"
    BY <1>1, <1>2 DEF Index
  <2>3. heredoc_index + 1 <= Cardinality(Docs(tok'))
    BY <1>1, <2>1, <2>2 DEF Core
  <2>4. Docs(tok)' = Docs(tok')
    BY <1>2 DEF Docs, Type
  <2>5. \A j \in start .. tok' - 1 : Type(j) # "PIPE"
    <3> SUFFICES ASSUME NEW j \in start .. tok' - 1 PROVE Type(j) # "PIPE"
      OBVIOUS
    <3>1. start \in Nat /\ (j \in start .. tok - 1 \/ j \in tok .. last)
      BY <1>1, <1>3, <1>4, <1>5 DEF Core
    <3> QED BY <1>6, <2>2, <3>1
  <2>6. \A j : Type(j)' = line[j].type /\ Type(j) = line[j].type
    BY <1>2 DEF Type
  <2> QED BY <1>2, <2>2, <2>3, <2>4, <2>5, <2>6 DEF Index, Type
<1> QED BY <1>2, <1>8, <1>10, <1>11, <1>12, QuietStep

LEMMA HandOverStep == TableInv /\ HandOver => TableInv'
<1> SUFFICES ASSUME TableInv, HandOver PROVE TableInv'
  OBVIOUS
<1>1. TypeOK /\ Core /\ Places /\ Index /\ cmd \in Commands
  BY DEF TableInv, Typed
<1>2. /\ pc = "finish" /\ pc' = "handed"
      /\ UNCHANGED << line, start, tok, cmd, table, fds, state, code, heredoc_count, heredoc_index, starved >>
  BY DEF HandOver
<1>3. Core'
  BY <1>1, <1>2 DEF Core
<1>4. Places'
  BY <1>1, <1>2, SameLine DEF Places
<1>5. Index'
  BY <1>1, <1>2, SameLine DEF Index
<1> QED BY <1>1, <1>2, <1>3, <1>4, <1>5, QuietStep

\* Behind the tokens of a redirection or a here-document.
LEMMA IndexMoves ==
    ASSUME TableInv, pc = "build", tok <= Len(line), UNCHANGED << line, start, pc >>,
           tok' \in Nat, tok < tok',
           \A j \in tok .. tok' - 1 : Type(j) # "PIPE",
           \/ heredoc_index' = heredoc_index
           \/ Type(tok) = "HEREDOC" /\ heredoc_index' = heredoc_index + 1
              /\ heredoc_count < MaxHeredocs
    PROVE  Index'
<1>1. TypeOK /\ Core /\ Places /\ Index
  BY DEF TableInv, Typed
<1> SUFFICES ASSUME PipesApart PROVE Index'
  BY SameLine DEF Index
<1>2. tok \in Nat /\ tok \in DOMAIN line /\ start \in Nat /\ tok <= tok' /\ heredoc_index \in Int
  BY <1>1, LineIsTokens DEF Core
<1>3. heredoc_index + 1 <= Cardinality(Docs(tok)) /\ heredoc_index < MaxHeredocs
      /\ \A j \in start .. tok - 1 : Type(j) # "PIPE"
  BY <1>1 DEF Index
<1>4. /\ Cardinality(Docs(tok)) \in Nat /\ Cardinality(Docs(tok')) \in Nat
      /\ Cardinality(Docs(tok)) <= Cardinality(Docs(tok'))
      /\ Cardinality(Docs(tok')) <= CountHeredocs(line)
      /\ Type(tok) = "HEREDOC" => Cardinality(Docs(tok)) + 1 <= Cardinality(Docs(tok'))
  BY <1>1, <1>2, DocsCount
<1>5. heredoc_count = CountHeredocs(line) /\ heredoc_count \in Nat /\ MaxHeredocs \in Nat
  BY <1>1, CommandTableAssumption DEF Places, Core
<1>6. heredoc_index' + 1 <= Cardinality(Docs(tok')) /\ heredoc_index' < MaxHeredocs
  <2>1. CASE heredoc_index' = heredoc_index
    BY <1>2, <1>3, <1>4, <2>1
  <2>2. CASE Type(tok) = "HEREDOC" /\ heredoc_index' = heredoc_index + 1 /\ heredoc_count < MaxHeredocs
    <3>1. heredoc_index' + 1 <= Cardinality(Docs(tok'))
      BY <1>2, <1>3, <1>4, <2>2
    <3>2. heredoc_index' + 1 <= heredoc_count
      BY <1>2, <1>4, <1>5, <2>2, <3>1
    <3> QED BY <1>2, <1>5, <2>2, <3>1, <3>2
  <2> QED BY <2>1, <2>2
<1>7. Docs(tok)' = Docs(tok')
  BY DEF Docs, Type
<1>8. \A j \in start .. tok' - 1 : Type(j) # "PIPE"
  <2> SUFFICES ASSUME NEW j \in start .. tok' - 1 PROVE Type(j) # "PIPE"
    OBVIOUS
  <2> DEFINE n == tok'
  <2>0. n \in Nat /\ j \in start .. n - 1
    OBVIOUS
  <2> HIDE DEF n
  <2>a. j \in start .. tok - 1 \/ j \in tok .. n - 1
    BY <1>2, <2>0
  <2>1. j \in start .. tok - 1 \/ j \in tok .. tok' - 1
    BY <2>a DEF n
  <2> QED BY <1>3, <2>1
<1> QED BY <1>6, <1>7, <1>8 DEF Index, Type

LEMMA RedirectStep == TableInv /\ Redirect => TableInv'
<1> SUFFICES ASSUME TableInv, Redirect PROVE TableInv'
  OBVIOUS
<1>1. TypeOK /\ Core /\ Places /\ Index /\ Descriptors /\ cmd \in Commands /\ table \in Seq(Commands)
  BY DEF TableInv, Typed
<1>2. /\ pc = "build" /\ tok <= Len(line) /\ Type(tok) \in RedirTypes /\ tok' = tok + 2
      /\ UNCHANGED << line, pc, start, table, state, code, heredoc_count, heredoc_index, starved >>
  BY DEF Redirect
<1>3. tok \in 1 .. Len(line) /\ tok \in Nat /\ Len(line) \in Nat
  BY <1>1, <1>2, LineIsTokens DEF Core
<1>4. tok + 1 \in 1 .. Len(line) /\ Type(tok + 1) \in WordTypes
  <2>1. SyntaxCorrect
    BY <1>1, <1>2 DEF Places
  <2>2. Type(tok) \in Operators /\ Type(tok) # "PIPE"
    BY <1>2 DEF Operators, RedirTypes
  <2> QED BY <1>1, <1>3, <2>1, <2>2, AfterOperator
<1>5. PICK side \in { "in", "out" }, fd \in Fds :
        /\ LowestFree(Replaced(side), fd)
        /\ fds' = Bind(Replaced(side), fd, << "file", tok >>)
        /\ cmd' = [cmd EXCEPT ![side] = fd]
  <2>1. Side(Type(tok)) \in { "in", "out" }
    BY DEF Side
  <2> QED BY <2>1 DEF Redirect
<1>6. << "file", tok >> \in { "file", "doc" } \X (0 .. Len(line))
  BY <1>3
<1>7. Descriptors' /\ cmd' \in Commands /\ fds' \in [Fds -> Objects]
  <2> DEFINE d == << "file", tok >>
  <2>1. d \in { "file", "doc" } \X (0 .. Len(line)) /\ fds' = Bind(Replaced(side), fd, d)
    BY <1>5, <1>6
  <2> HIDE DEF d
  <2> QED BY <1>1, <1>2, <1>5, <2>1, Reopened
<1>8. tok' \in 1 .. Len(line) + 1 /\ tok' \in Nat /\ tok < tok'
  BY <1>2, <1>3, <1>4
<1>9. Core'
  BY <1>1, <1>2, <1>7, <1>8 DEF Core, Objects
<1>10. Places'
  <2>1. start' <= tok'
    BY <1>1, <1>2, <1>3, <1>8 DEF Places, Core
  <2> QED BY <1>1, <1>2, <2>1, SameLine DEF Places
<1>11. Index'
  <2>1. \A j \in tok .. tok' - 1 : Type(j) # "PIPE"
    <3>1. \A j \in tok .. tok' - 1 : j = tok \/ j = tok + 1
      BY <1>2, <1>3
    <3> QED BY <1>2, <1>4, <3>1 DEF RedirTypes, WordTypes
  <2> QED BY <1>2, <1>8, <2>1, IndexMoves
<1>12. (Core /\ cmd \in Commands /\ table \in Seq(Commands) /\ Index)'
  BY <1>1, <1>2, <1>7, <1>9, <1>11, SameLine
<1>13. Typed'
  BY <1>12, CoreTypes, PTL
<1> QED BY <1>7, <1>10, <1>11, <1>13 DEF TableInv

LEMMA RedirectFailsStep == TableInv /\ RedirectFails => TableInv'
<1> SUFFICES ASSUME TableInv, RedirectFails PROVE TableInv'
  OBVIOUS
<1>1. TypeOK /\ Core /\ Places /\ Index /\ Descriptors /\ cmd \in Commands /\ table \in Seq(Commands)
  BY DEF TableInv, Typed
<1>2. /\ pc = "build" /\ pc' = "fail" /\ code' = 1 /\ state' = {}
      /\ UNCHANGED << line, start, tok, table, heredoc_count, heredoc_index, starved >>
  BY DEF RedirectFails, Abort
<1>3. PICK side \in { "in", "out" } : fds' = Replaced(side) /\ cmd' = [cmd EXCEPT ![side] = -1]
  <2>1. Side(Type(tok)) \in { "in", "out" }
    BY DEF Side
  <2> QED BY <2>1 DEF RedirectFails
<1>4. Descriptors' /\ cmd' \in Commands /\ fds' \in [Fds -> Objects]
  BY <1>1, <1>2, <1>3, NotReopened
<1>5. Core'
  BY <1>1, <1>2, <1>4 DEF Core, Objects
<1>6. Places'
  BY <1>1, <1>2, SameLine DEF Places
<1>7. Index'
  BY <1>1, <1>2, SameLine DEF Index
<1>8. (Core /\ cmd \in Commands /\ table \in Seq(Commands) /\ Index)'
  BY <1>1, <1>2, <1>4, <1>5, <1>7, SameLine
<1>9. Typed'
  BY <1>8, CoreTypes, PTL
<1> QED BY <1>4, <1>6, <1>7, <1>9 DEF TableInv

\* The delimiter of the here-document the parser looks at.
LEMMA Delimiters ==
    ASSUME TypeOK, Core, Places, pc = "build", tok <= Len(line), Type(tok) = "HEREDOC"
    PROVE  /\ tok \in 1 .. Len(line) /\ tok \in Nat /\ Len(line) \in Nat
           /\ DelimiterEnd(tok + 1) \in tok + 1 .. Len(line)
           /\ DelimiterEnd(tok + 1) \in Nat
           /\ \A j \in tok .. DelimiterEnd(tok + 1) : Type(j) # "PIPE"
<1>1. tok \in 1 .. Len(line) /\ tok \in Nat /\ Len(line) \in Nat
  BY LineIsTokens DEF Core
<1>2. tok + 1 \in 1 .. Len(line) /\ Type(tok + 1) \in WordTypes
  <2>1. SyntaxCorrect
    BY DEF Places
  <2>2. Type(tok) \in Operators /\ Type(tok) # "PIPE"
    BY DEF Operators
  <2> QED BY <1>1, <2>1, <2>2, AfterOperator
<1> DEFINE i == tok + 1
           e == DelimiterEnd(i)
<1>3. e \in i .. Len(line) /\ \A k \in i .. e - 1 : Type(k + 1) \in WordTypes
  <2>1. i \in 1 .. Len(line)
    BY <1>2
  <2> HIDE DEF i
  <2> QED BY <2>1, DelimiterEnds
<1>4. Type(tok) # "PIPE"
  OBVIOUS
<1> HIDE DEF e
<1>5. ASSUME NEW j \in tok .. e PROVE Type(j) # "PIPE"
  <2>1. CASE j = tok
    BY <1>4, <2>1
  <2>2. CASE j = tok + 1
    BY <1>2, <2>2 DEF WordTypes
  <2>3. CASE j \in tok + 2 .. e
    <3>1. j - 1 \in i .. e - 1 /\ (j - 1) + 1 = j
      BY <1>1, <1>3, <2>3
    <3>2. Type((j - 1) + 1) \in WordTypes
      BY <1>3, <3>1
    <3> QED BY <3>1, <3>2 DEF WordTypes
  <2>4. e \in Nat
    BY <1>1, <1>3
  <2> QED BY <1>1, <2>1, <2>2, <2>3, <2>4
<1>6. e \in Nat
  BY <1>1, <1>3
<1> QED BY <1>1, <1>3, <1>5, <1>6 DEF e

LEMMA HereDocumentStep == TableInv /\ HereDocument => TableInv'
<1> SUFFICES ASSUME TableInv, HereDocument PROVE TableInv'
  OBVIOUS
<1>1. TypeOK /\ Core /\ Places /\ Index /\ Descriptors /\ cmd \in Commands /\ table \in Seq(Commands)
  BY DEF TableInv, Typed
<1> DEFINE e == DelimiterEnd(tok + 1)
<1>2. /\ pc = "build" /\ tok <= Len(line) /\ Type(tok) = "HEREDOC" /\ tok' = e + 1
      /\ heredoc_count < MaxHeredocs /\ heredoc_index' = heredoc_index + 1
      /\ UNCHANGED << line, pc, start, table, state, code, heredoc_count, starved >>
  BY DEF HereDocument
<1>3. /\ tok \in 1 .. Len(line) /\ tok \in Nat /\ Len(line) \in Nat
      /\ e \in tok + 1 .. Len(line) /\ e \in Nat
      /\ \A j \in tok .. e : Type(j) # "PIPE"
  BY <1>1, <1>2, Delimiters
<1> HIDE DEF e
<1>4. PICK fd \in Fds :
        /\ LowestFree(Replaced("in"), fd)
        /\ fds' = Bind(Replaced("in"), fd, << "doc", tok >>)
        /\ cmd' = [cmd EXCEPT !["in"] = fd]
  BY DEF HereDocument
<1>5. Descriptors' /\ cmd' \in Commands /\ fds' \in [Fds -> Objects]
  <2> DEFINE d == << "doc", tok >>
  <2>1. d \in { "file", "doc" } \X (0 .. Len(line)) /\ fds' = Bind(Replaced("in"), fd, d)
    BY <1>3, <1>4
  <2>2. "in" \in { "in", "out" }
    OBVIOUS
  <2> HIDE DEF d
  <2> QED BY <1>1, <1>2, <1>4, <2>1, <2>2, Reopened
<1>6. tok' \in 1 .. Len(line) + 1 /\ tok' \in Nat /\ tok < tok' /\ tok' - 1 = e
  BY <1>2, <1>3
<1>7. heredoc_index' \in Nat \cup { -1 }
  BY <1>1, <1>2 DEF Core
<1>8. Core'
  BY <1>1, <1>2, <1>5, <1>6, <1>7 DEF Core, Objects
<1>9. Places'
  <2>1. start' <= tok'
    BY <1>1, <1>2, <1>3, <1>6 DEF Places, Core
  <2> QED BY <1>1, <1>2, <2>1, SameLine DEF Places
<1>10. Index'
  <2>1. \A j \in tok .. tok' - 1 : Type(j) # "PIPE"
    BY <1>3, <1>6
  <2> QED BY <1>2, <1>6, <2>1, IndexMoves
<1>11. (Core /\ cmd \in Commands /\ table \in Seq(Commands) /\ Index)'
  BY <1>1, <1>2, <1>5, <1>8, <1>10, SameLine
<1>12. Typed'
  BY <1>11, CoreTypes, PTL
<1> QED BY <1>5, <1>9, <1>10, <1>12 DEF TableInv

LEMMA HereDocumentFailsStep == TableInv /\ HereDocumentFails => TableInv'
<1> SUFFICES ASSUME TableInv, HereDocumentFails PROVE TableInv'
  OBVIOUS
<1>1. TypeOK /\ Core /\ Places /\ Index /\ Descriptors /\ cmd \in Commands /\ table \in Seq(Commands)
  BY DEF TableInv, Typed
<1>2. /\ pc = "build" /\ tok <= Len(line) /\ Type(tok) = "HEREDOC" /\ tok' = DelimiterEnd(tok + 1)
      /\ pc' = "fail" /\ code' \in { 112, 130 } /\ state' = {}
      /\ UNCHANGED << line, start, table, heredoc_count, heredoc_index, starved >>
  BY DEF HereDocumentFails, Abort
<1>3. /\ fds' = Replaced("in") /\ cmd' = [cmd EXCEPT !["in"] = -1] /\ "in" \in { "in", "out" }
  BY DEF HereDocumentFails
<1>4. Descriptors' /\ cmd' \in Commands /\ fds' \in [Fds -> Objects]
  BY <1>1, <1>2, <1>3, NotReopened
<1>5. tok' \in 1 .. Len(line) + 1
  <2>1. tok \in Nat /\ Len(line) \in Nat /\ DelimiterEnd(tok + 1) \in tok + 1 .. Len(line)
    BY <1>1, <1>2, Delimiters
  <2> QED BY <1>2, <2>1
<1>6. Core'
  BY <1>1, <1>2, <1>4, <1>5 DEF Core, Objects
<1>7. Places'
  BY <1>1, <1>2, SameLine DEF Places
<1>8. Index'
  BY <1>1, <1>2, SameLine DEF Index
<1>9. (Core /\ cmd \in Commands /\ table \in Seq(Commands) /\ Index)'
  BY <1>1, <1>2, <1>4, <1>6, <1>8, SameLine
<1>10. Typed'
  BY <1>9, CoreTypes, PTL
<1> QED BY <1>4, <1>7, <1>8, <1>10 DEF TableInv

LEMMA EndCommandStep == TableInv /\ EndCommand => TableInv'
<1> SUFFICES ASSUME TableInv, EndCommand PROVE TableInv'
  OBVIOUS
<1>1. TypeOK /\ Core /\ Places /\ Index /\ Descriptors /\ cmd \in Commands /\ table \in Seq(Commands)
  BY DEF TableInv, Typed
<1>2. /\ pc = "build" /\ (tok <= Len(line) => Type(tok) = "PIPE") /\ cmd' = NoCommand
      /\ UNCHANGED << line, tok, state, code, heredoc_count, heredoc_index, starved >>
  BY DEF EndCommand
<1>3. start \in 1 .. Len(line) /\ start \in Nat /\ tok \in Nat /\ Len(line) \in Nat
      /\ SyntaxCorrect /\ "EVALUATING" \in state
  BY <1>1, <1>2, LineIsTokens DEF Core, Places
<1>4. /\ cmd.in = STDIN \/ (cmd.in \in Files /\ cmd.in \notin AllRedirs)
      /\ cmd.out = STDOUT \/ (cmd.out \in Files /\ cmd.out \notin AllRedirs)
      /\ cmd.in # cmd.out /\ Owned(table, OpenMax)
      /\ Extra(fds) = AllRedirs \cup (Redirs(cmd) \ { -1 })
  BY <1>1, <1>2 DEF Descriptors, SideHeld
<1>5. Redirs(cmd) \subseteq Files /\ Redirs(cmd) \cap AllRedirs = {} /\ Redirs(cmd) \ { -1 } = Redirs(cmd)
  BY <1>4, Numbers DEF Redirs
<1>6. /\ table' \in Seq(Commands) /\ Owned(table, OpenMax)'
      /\ fds' \in [Fds -> Objects] /\ Extra(fds)' = AllRedirs'
      /\ \A fd \in 0 .. STDERR : fds'[fd] # Closed
  <2>1. CASE cmd.args = << >>
    <3> DEFINE c == [cmd EXCEPT !.in = STDIN, !.out = STDOUT]
    <3>1. table' = Append(table, c) /\ fds' = Close(fds, Redirs(cmd))
      BY <2>1 DEF EndCommand
    <3>a. STDIN \in Fds \cup { -1 } /\ STDOUT \in Fds \cup { -1 } /\ STDIN # STDOUT
      BY Numbers
    <3>b. c \in Commands
      BY <1>1, <3>a DEF Commands
    <3>c. c.in = STDIN /\ c.out = STDOUT
      BY <1>1 DEF Commands
    <3>2. c \in Commands /\ c.in = STDIN /\ c.out = STDOUT /\ c.in # c.out
      BY <3>a, <3>b, <3>c
    <3> HIDE DEF c
    <3>3. table' \in Seq(Commands)
      BY <1>1, <3>1, <3>2, AppendProperties
    <3>4. Owned(table, OpenMax)' /\ AllRedirs' = AllRedirs \cup Redirs(c)
      BY <1>1, <1>4, <3>1, <3>2, Appended
    <3>5. Redirs(c) = {}
      BY <3>2 DEF Redirs
    <3>6. Redirs(cmd) \cap 0 .. STDERR = {}
      BY <1>5, Numbers
    <3>7. /\ fds' \in [Fds -> Objects]
          /\ \A fd \in 0 .. STDERR : fds'[fd] = fds[fd]
          /\ Extra(fds') = Extra(fds) \ Redirs(cmd)
      BY <1>1, <3>1, <3>6, Shut
    <3>8. Extra(fds)' = Extra(fds')
      BY DEF Extra
    <3>9. \A fd \in 0 .. STDERR : fds[fd] # Closed
      BY <1>1 DEF Descriptors
    <3>10. Extra(fds)' = AllRedirs'
      BY <1>4, <1>5, <3>4, <3>5, <3>7, <3>8
    <3> QED BY <3>3, <3>4, <3>7, <3>9, <3>10
  <2>2. CASE cmd.args # << >>
    <3>1. table' = Append(table, cmd) /\ fds' = fds
      BY <2>2 DEF EndCommand
    <3>2. table' \in Seq(Commands)
      BY <1>1, <3>1, AppendProperties
    <3>3. Owned(table, OpenMax)' /\ AllRedirs' = AllRedirs \cup Redirs(cmd)
      BY <1>1, <1>4, <3>1, Appended
    <3>4. Extra(fds)' = Extra(fds) /\ fds' \in [Fds -> Objects]
      BY <1>1, <3>1, TableOfFds DEF Extra
    <3>5. \A fd \in 0 .. STDERR : fds'[fd] # Closed
      BY <1>1, <3>1 DEF Descriptors
    <3> QED BY <1>4, <1>5, <3>2, <3>3, <3>4, <3>5
  <2> QED BY <2>1, <2>2
<1>7. cmd' \in Commands
  <2>1. << >> \in Seq(Seq(1 .. Len(line)))
    BY EmptySeq
  <2> QED BY <1>2, <2>1, Numbers DEF NoCommand, Commands
<1>8. Descriptors'
  <2>1. cmd'.in = STDIN /\ cmd'.out = STDOUT /\ Redirs(cmd)' = {}
    BY <1>2 DEF NoCommand, Redirs
  <2>2. cmd'.in # cmd'.out
    BY <2>1, Numbers
  <2> QED BY <1>6, <2>1, <2>2 DEF Descriptors, SideHeld
<1>9. CASE Pipes(start) # {} /\ start' = NextPipe(start) + 1 /\ pc' = "begin"
  <2> DEFINE n == NextPipe(start)
  <2>1. n \in start .. Len(line) /\ Type(n) = "PIPE"
    BY <1>1, <1>3, <1>9, NextPipes
  <2>2. n \in Nat /\ n \in 1 .. Len(line) /\ start' = n + 1
    BY <1>3, <1>9, <2>1
  <2> HIDE DEF n
  <2>3. start' \in 1 .. Len(line) /\ start' \in Nat
    <3>1. Type(n) \in Operators
      BY <2>1 DEF Operators
    <3> QED BY <1>1, <1>3, <2>2, <3>1, AfterOperator
  <2>4. Core'
    BY <1>1, <1>2, <1>6, <1>9, <2>3 DEF Core, Objects
  <2>5. Places'
    BY <1>1, <1>2, <1>3, <1>9, SameLine DEF Places
  <2>6. Index'
    <3> SUFFICES ASSUME PipesApart PROVE Index'
      BY <1>2, SameLine DEF Index
    <3>1. heredoc_index + 1 <= Cardinality(Docs(tok)) /\ heredoc_index < MaxHeredocs
          /\ \A j \in start .. tok - 1 : Type(j) # "PIPE"
      BY <1>1, <1>2 DEF Index
    <3>2. ~(n \in start .. tok - 1)
      BY <2>1, <3>1
    <3>3. tok <= n + 1
      BY <1>3, <2>1, <2>2, <3>2
    <3>4. /\ Cardinality(Docs(tok)) <= Cardinality(Docs(n + 1))
          /\ Cardinality(Docs(tok)) \in Nat /\ Cardinality(Docs(n + 1)) \in Nat
      <4>1. n + 1 \in Nat
        BY <2>2
      <4> QED BY <1>1, <1>3, <3>3, <4>1, DocsCount
    <3>5. heredoc_index + 1 <= Cardinality(Docs(n + 1))
      BY <1>1, <3>1, <3>4 DEF Core
    <3>6. Docs(start)' = Docs(n + 1)
      BY <1>2, <2>2 DEF Docs, Type
    <3> QED BY <1>2, <1>9, <3>1, <3>5, <3>6 DEF Index
  <2>7. (Core /\ cmd \in Commands /\ table \in Seq(Commands) /\ Index)'
    BY <1>2, <1>6, <1>7, <2>4, <2>6, SameLine
  <2>8. Typed'
    BY <2>7, CoreTypes, PTL
  <2> QED BY <1>8, <2>5, <2>6, <2>8 DEF TableInv
<1>10. CASE start' = start /\ pc' = "finish"
  <2>1. Core'
    BY <1>1, <1>2, <1>6, <1>10 DEF Core, Objects
  <2>2. Places'
    BY <1>1, <1>2, <1>3, <1>10, SameLine DEF Places
  <2>3. Index'
    BY <1>1, <1>2, <1>10, SameLine DEF Index
  <2>4. (Core /\ cmd \in Commands /\ table \in Seq(Commands) /\ Index)'
    BY <1>2, <1>6, <1>7, <2>1, <2>3, SameLine
  <2>5. Typed'
    BY <2>4, CoreTypes, PTL
  <2> QED BY <1>8, <2>2, <2>3, <2>5 DEF TableInv
<1> QED BY <1>9, <1>10 DEF EndCommand

LEMMA GiveUpStep == TableInv /\ GiveUp => TableInv'
<1> SUFFICES ASSUME TableInv, GiveUp PROVE TableInv'
  OBVIOUS
<1>1. TypeOK /\ Core /\ Places /\ Index /\ Descriptors /\ cmd \in Commands /\ table \in Seq(Commands)
  BY DEF TableInv, Typed
<1>2. /\ fds' = Close(fds, Redirs(cmd) \cup AllRedirs) /\ cmd' = NoCommand /\ table' = << >>
      /\ state' = {} /\ pc' = "rejected"
      /\ UNCHANGED << line, start, tok, code, heredoc_count, heredoc_index, starved >>
  BY DEF GiveUp
<1>3. code # 0 \/ starved
  BY <1>1 DEF GiveUp, Places
<1>4. Redirs(cmd) \cup AllRedirs \subseteq Files \cup { -1 }
  <2>1. AllRedirs \subseteq Files
    BY <1>1, TableHolds DEF Descriptors
  <2>2. Redirs(cmd) \subseteq Files \cup { -1 }
    BY <1>1 DEF Descriptors, SideHeld, Redirs
  <2> QED BY <2>1, <2>2
<1>5. (Redirs(cmd) \cup AllRedirs) \cap 0 .. STDERR = {}
  <2>1. -1 \notin 0 .. STDERR /\ \A fd \in Files : fd \notin 0 .. STDERR
    BY Numbers
  <2> QED BY <1>4, <2>1
<1>6. /\ fds' \in [Fds -> Objects]
      /\ \A fd \in 0 .. STDERR : fds'[fd] = fds[fd]
      /\ Extra(fds') = Extra(fds) \ (Redirs(cmd) \cup AllRedirs)
  BY <1>1, <1>2, <1>5, Shut
<1>7. Extra(fds)' = {}
  <2>1. Extra(fds)' = Extra(fds')
    BY DEF Extra
  <2>2. Extra(fds) = AllRedirs \cup (Redirs(cmd) \ { -1 })
    BY <1>1 DEF Descriptors
  <2> QED BY <1>6, <2>1, <2>2
<1>8. table' \in Seq(Commands) /\ DOMAIN table' = {}
  <2>1. << >> \in Seq(Commands) /\ Len(<< >>) = 0
    BY EmptySeq
  <2> QED BY <1>2, <2>1, LenProperties
<1>9. cmd' \in Commands
  <2>1. << >> \in Seq(Seq(1 .. Len(line)))
    BY EmptySeq
  <2> QED BY <1>2, <2>1, Numbers DEF NoCommand, Commands
<1>10. Descriptors'
  <2>1. AllRedirs' = {} /\ Owned(table, OpenMax)'
    BY <1>8 DEF AllRedirs, Owned
  <2>2. cmd'.in = STDIN /\ cmd'.out = STDOUT /\ Redirs(cmd)' = {}
    BY <1>2 DEF NoCommand, Redirs
  <2>3. \A fd \in 0 .. STDERR : fds'[fd] # Closed
    BY <1>1, <1>6 DEF Descriptors
  <2>4. cmd'.in # cmd'.out
    BY <2>2, Numbers
  <2> QED BY <1>7, <2>1, <2>2, <2>3, <2>4 DEF Descriptors, SideHeld
<1>11. Core'
  BY <1>1, <1>2, <1>6 DEF Core, Objects
<1>12. Places'
  BY <1>2, <1>3 DEF Places
<1>13. Index'
  BY <1>1, <1>2, SameLine DEF Index
<1>14. (Core /\ cmd \in Commands /\ table \in Seq(Commands) /\ Index)'
  BY <1>2, <1>8, <1>9, <1>11, <1>13, SameLine
<1>15. Typed'
  BY <1>14, CoreTypes, PTL
<1> QED BY <1>10, <1>12, <1>13, <1>15 DEF TableInv

LEMMA TableStutters == TableInv /\ UNCHANGED vars => TableInv'
<1> SUFFICES ASSUME TableInv, UNCHANGED vars PROVE TableInv'
  OBVIOUS
<1>1. UNCHANGED << line, pc, start, tok, cmd, table, fds, state, code,
                   heredoc_count, heredoc_index, starved >>
  BY DEF vars
<1>2. Core' /\ cmd' \in Commands
  BY <1>1 DEF TableInv, Typed, Core
<1>3. Places'
  BY <1>1, SameLine DEF TableInv, Places
<1>4. Index'
  BY <1>1, SameLine DEF TableInv, Index, Type
<1> QED BY <1>1, <1>2, <1>3, <1>4, QuietStep

-----------------------------------------------------------------------------
(* What a plain line means: the part of it that has been read.              *)

\* The positions of a .. b - 1 where a word begins, and those with a
\* redirection of one side.
Heading(i) == IsWord(i) /\ ~Glued(i)
HeadsIn(a, b) == { h \in a .. b - 1 : Heading(h) }

Opens(i, side) == Type(i) \in RedirTypes \cup { "HEREDOC" } /\ Side(Type(i)) = side
SidesIn(a, b, side) == { i \in a .. b - 1 : Opens(i, side) }

\* What the redirection at i opens.
Opened(i) == << IF Type(i) = "HEREDOC" THEN "doc" ELSE "file", i >>

\* No word, delimiter or file name is cut in two at i.
Boundary(i) == i <= Len(line) => ~Operand(i) /\ ~Glued(i)

\* The arguments are the words of a .. b - 1, in order.
ArgumentsRead(args, a, b) ==
    /\ { args[k] : k \in DOMAIN args } = { Piece(h) : h \in HeadsIn(a, b) }
    /\ \A k, l \in DOMAIN args : k < l => args[k][1] < args[l][1]
    /\ \A k \in DOMAIN args : args[k][1] < b

\* fd is what the last redirection of one side in a .. b - 1 opened.
SideRead(fd, std, a, b, side) ==
    \/ SidesIn(a, b, side) = {} /\ fd = std
    \/ \E i \in SidesIn(a, b, side) :
         (\A j \in SidesIn(a, b, side) : j <= i) /\ fds[fd] = Opened(i)

CommandMeant(c) ==
    /\ { table[c].args[k] : k \in DOMAIN table[c].args } = { Piece(h) : h \in Heads(c) }
    /\ \A k, l \in DOMAIN table[c].args : k < l => table[c].args[k][1] < table[c].args[l][1]
    /\ fds[table[c].in] = Target(c, "in")
    /\ fds[table[c].out] = Target(c, "out")

\* The tokens of the current command from start to tok.
CommandRead ==
    /\ start <= tok
    /\ \A j \in start .. tok - 1 : Type(j) # "PIPE"
    /\ Boundary(tok)
    /\ ArgumentsRead(cmd.args, start, tok)
    /\ SideRead(cmd.in, STDIN, start, tok, "in")
    /\ SideRead(cmd.out, STDOUT, start, tok, "out")

Starts == Number(start) = Len(table) + 1 /\ (start = 1 \/ Type(start - 1) = "PIPE")

LineRead ==
    /\ \A fd \in 0 .. STDERR : fds[fd] = Tty
    /\ \A c \in DOMAIN table : CommandMeant(c)
    /\ pc \in { "scan", "begin", "build" } => Starts
    /\ pc = "build" => CommandRead
    /\ pc \in { "finish", "handed" } => Len(table) = Cardinality(Pipes(1)) + 1

Meaning == Plain /\ pc \notin { "fail", "rejected" } => LineRead

-----------------------------------------------------------------------------
(* Words and operands by position.                                          *)

\* What follows a word is no operand: neither of its operators stands there.
LEMMA OperandAfterWord ==
    ASSUME TypeOK, NEW i \in 1 .. Len(line), IsWord(i)
    PROVE  ~Operand(i + 1)
<1>1. i \in Nat /\ Len(line) \in Nat
  BY LineIsTokens
<1>2. Type(i) \notin RedirTypes \cup { "HEREDOC" } /\ ~Operand(i)
  BY DEF IsWord, Operators
<1>3. (i + 1) - 1 = i /\ (i + 1) - 2 = i - 1
  BY <1>1
<1>4. ASSUME NEW h \in 1 .. i - 1, Type(h) = "HEREDOC",
             \A k \in h + 2 .. i + 1 : ~line[k].wp /\ Type(k) \in WordTypes
      PROVE  FALSE
  <2>1. h = i - 1 \/ h \in 1 .. i - 2
    BY <1>1
  <2>2. CASE h = i - 1
    <3>1. i > 1 /\ Type(i - 1) \in RedirTypes \cup { "HEREDOC" }
      BY <1>1, <1>4, <2>2
    <3> QED BY <1>2, <3>1 DEF Operand
  <2>3. CASE h \in 1 .. i - 2
    <3>1. \A k \in h + 2 .. i : k \in h + 2 .. i + 1
      BY <1>1
    <3>2. \A k \in h + 2 .. i : ~line[k].wp /\ Type(k) \in WordTypes
      BY <1>4, <3>1
    <3> QED BY <1>2, <1>4, <2>3, <3>2 DEF Operand
  <2> QED BY <2>1, <2>2, <2>3
<1> QED BY <1>2, <1>3, <1>4 DEF Operand

LEMMA EndOfIs ==
    ASSUME TypeOK, NEW i \in 1 .. Len(line)
    PROVE  /\ EndOf(i) \in i .. Len(line)
           /\ \A k \in i + 1 .. EndOf(i) : Glued(k)
           /\ EndOf(i) < Len(line) => ~Glued(EndOf(i) + 1)
<1> DEFINE Stop(j) == j < Len(line) => ~Glued(j + 1)
           S == { j \in i .. Len(line) : Stop(j) }
           P(j) == (\A k \in i + 1 .. j : Glued(k)) /\ (j < Len(line) => ~Glued(j + 1))
<1>1. Len(line) \in Nat /\ i \in Nat
  BY LineIsTokens
<1>2. Len(line) \in S
  BY <1>1
<1>3. S \subseteq Nat
  BY <1>1
<1>4. PICK m \in S : \A k \in S : m <= k
  <2> HIDE DEF S
  <2> QED BY <1>2, <1>3, Least
<1>5. \A k \in i + 1 .. m : Glued(k)
  <2> SUFFICES ASSUME NEW k \in i + 1 .. m PROVE Glued(k)
    OBVIOUS
  <2>1. k - 1 \in i .. Len(line) /\ ~(m <= k - 1) /\ (k - 1) + 1 = k
    BY <1>1, <1>4
  <2>2. k - 1 \notin S
    BY <1>4, <2>1
  <2> QED BY <2>1, <2>2
<1>6. m \in i .. Len(line) /\ P(m)
  BY <1>4, <1>5
<1>7. EndOf(i) = CHOOSE j \in i .. Len(line) : P(j)
  BY DEF EndOf
<1>8. EndOf(i) \in i .. Len(line) /\ P(EndOf(i))
  <2> HIDE DEF P
  <2> QED BY <1>6, <1>7
<1> QED BY <1>8

\* A word and all that is glued to it are words; behind them nothing is cut.
LEMMA WordRun ==
    ASSUME TypeOK, NEW h \in 1 .. Len(line), IsWord(h)
    PROVE  /\ \A k \in h .. EndOf(h) : IsWord(k) /\ k \in 1 .. Len(line)
           /\ Boundary(EndOf(h) + 1)
<1>1. /\ EndOf(h) \in h .. Len(line)
      /\ \A k \in h + 1 .. EndOf(h) : Glued(k)
      /\ EndOf(h) < Len(line) => ~Glued(EndOf(h) + 1)
  BY EndOfIs
<1>2. h \in Nat /\ Len(line) \in Nat /\ EndOf(h) \in Nat
  BY <1>1, LineIsTokens
<1>3. \A k \in h .. EndOf(h) : k \in 1 .. Len(line) /\ (k = h \/ k \in h + 1 .. EndOf(h))
  BY <1>1, <1>2
<1>4. \A k \in h .. EndOf(h) : IsWord(k)
  BY <1>1, <1>3 DEF Glued
<1>5. EndOf(h) \in 1 .. Len(line) /\ EndOf(h) \in h .. EndOf(h)
  BY <1>1, <1>2
<1>6. ~Operand(EndOf(h) + 1)
  BY <1>4, <1>5, OperandAfterWord
<1>7. EndOf(h) + 1 <= Len(line) => ~Glued(EndOf(h) + 1)
  BY <1>1, <1>2
<1> QED BY <1>3, <1>4, <1>6, <1>7 DEF Boundary

\* The parser glues what is glued: on a plain line, and if the word is the
\* first of its command only where there is no word before it.
LEMMA WordEndMeans ==
    ASSUME TypeOK, Plain, NEW h \in 1 .. Len(line), Heading(h), NEW first \in BOOLEAN,
           (\E g \in Heads(Number(h)) : g < h) => ~first
    PROVE  WordEnd(h, first) = EndOf(h)
<1> DEFINE e == EndOf(h)
           d == GluedEnd(h)
<1>1. /\ e \in h .. Len(line)
      /\ \A k \in h + 1 .. e : Glued(k)
      /\ e < Len(line) => ~Glued(e + 1)
  BY EndOfIs
<1>2. h \in Nat /\ Len(line) \in Nat /\ e \in Nat /\ DOMAIN line = 1 .. Len(line)
  BY <1>1, LineIsTokens
<1>3. IsWord(h) /\ ~Glued(h) /\ Type(h) \notin Operators
  BY DEF Heading, IsWord
<1>4. /\ d \in h .. Len(line)
      /\ \A k \in h .. d - 1 : NextGlued(k)
      /\ ~NextGlued(d)
  BY GluedEnds
<1>5. d \in Nat
  BY <1>2, <1>4
<1>6. \A k \in h .. e : IsWord(k) /\ k \in 1 .. Len(line)
  BY <1>3, WordRun
<1> HIDE DEF e, d
<1>7. \A k \in h .. e - 1 : NextGlued(k)
  <2> SUFFICES ASSUME NEW k \in h .. e - 1 PROVE NextGlued(k)
    OBVIOUS
  <2>1. k + 1 \in h + 1 .. e /\ k < Len(line)
    BY <1>1, <1>2
  <2>2. ~line[k + 1].wp
    BY <1>1, <2>1 DEF Glued
  <2> QED BY <2>1, <2>2 DEF NextGlued, HasNext
<1>8. ASSUME NextGlued(e), Type(e + 1) \notin Operators PROVE FALSE
  <2>1. e < Len(line) /\ ~line[e + 1].wp
    BY <1>8 DEF NextGlued, HasNext
  <2>2. e \in h .. e /\ e \in 1 .. Len(line)
    BY <1>1, <1>2
  <2>3. IsWord(e) /\ ~Operand(e + 1)
    BY <1>6, <2>2, OperandAfterWord
  <2>4. e + 1 > 1 /\ (e + 1) - 1 = e
    BY <1>2, <2>2
  <2>5. Glued(e + 1)
    BY <1>8, <2>1, <2>3, <2>4 DEF Glued, IsWord
  <2> QED BY <1>1, <2>1, <2>5
<1>9. CASE e = h
  <2>1. ASSUME HasNext(h), Type(h + 1) \notin Operators PROVE d = h
    <3>1. ~NextGlued(h)
      BY <1>8, <1>9, <2>1
    <3>2. ~(h \in h .. d - 1)
      BY <1>4, <3>1
    <3> QED BY <1>2, <1>4, <1>5, <3>2
  <2> QED BY <1>9, <2>1 DEF WordEnd, d, e
<1>10. CASE e # h
  <2>1. h + 1 \in h + 1 .. e /\ h + 1 \in DOMAIN line /\ h + 1 \in h .. e
    BY <1>1, <1>2, <1>10
  <2>2. Glued(h + 1)
    BY <1>1, <2>1
  <2> DEFINE Leads(g) == h + 1 \in g .. EndOf(g) /\ IsWord(g) /\ ~Glued(g)
             c == CHOOSE g \in 1 .. h + 1 : Leads(g)
  <2>3. h \in 1 .. h + 1 /\ Leads(h)
    BY <1>2, <1>3, <2>1 DEF e
  <2>4. ASSUME NEW g \in 1 .. h + 1, Leads(g) PROVE g = h
    <3>1. g \in Nat /\ g # h + 1
      BY <1>2, <2>2, <2>4
    <3>2. CASE g < h
      <4>1. h + 1 \in g .. EndOf(g)
        BY <2>4
      <4>2. g \in 1 .. Len(line)
        BY <1>2, <3>1, <3>2
      <4>3. EndOf(g) \in g .. Len(line) /\ \A k \in g + 1 .. EndOf(g) : Glued(k)
        BY <4>2, EndOfIs
      <4>4. h \in g + 1 .. EndOf(g)
        BY <1>2, <3>1, <3>2, <4>1, <4>3
      <4> QED BY <1>3, <4>3, <4>4
    <3> QED BY <1>2, <2>4, <3>1, <3>2
  <2>5. c = h
    <3> HIDE DEF Leads
    <3> QED BY <2>3, <2>4
  <2>6. LET x == CHOOSE g \in 1 .. h + 1 : h + 1 \in g .. EndOf(g) /\ IsWord(g) /\ ~Glued(g)
        IN  /\ line[x].wp
            /\ \E g \in Heads(Number(x)) : g < x
            /\ ~NextGlued(EndOf(x)) \/ Type(EndOf(x) + 1) \notin Operators
    BY <2>1, <2>2 DEF Plain
  <2>7. /\ line[h].wp
        /\ \E g \in Heads(Number(h)) : g < h
        /\ ~NextGlued(e) \/ Type(e + 1) \notin Operators
    BY <2>5, <2>6 DEF e
  <2>8. ~NextGlued(e)
    BY <1>8, <2>7
  <2>9. d = e
    <3>1. ~(d \in h .. e - 1)
      BY <1>4, <1>7
    <3>2. ~(e \in h .. d - 1)
      BY <1>4, <2>8
    <3> QED BY <1>1, <1>2, <1>4, <1>5, <3>1, <3>2
  <2>10. HasNext(h) /\ Type(h + 1) \notin Operators
    <3>1. h < Len(line)
      BY <1>1, <1>2, <1>10
    <3> QED BY <1>6, <2>1, <3>1 DEF HasNext, IsWord
  <2> QED BY <2>7, <2>9, <2>10 DEF WordEnd, d, e
<1> QED BY <1>9, <1>10

\* Behind the file name of a redirection nothing is cut in two, and no word
\* begins in between.
LEMMA BehindRedirect ==
    ASSUME TypeOK, SyntaxCorrect, NEW i \in 1 .. Len(line), Type(i) \in RedirTypes
    PROVE  /\ Boundary(i + 2)
           /\ \A k \in i .. i + 1 : ~IsWord(k) /\ Type(k) # "PIPE"
           /\ i + 2 <= Len(line) + 1
<1>1. i \in Nat /\ Len(line) \in Nat
  BY LineIsTokens
<1>2. Type(i) \in Operators /\ Type(i) # "PIPE" /\ Type(i) # "HEREDOC" /\ Type(i) \notin WordTypes
  BY DEF Operators, RedirTypes, WordTypes
<1>3. i + 1 \in 1 .. Len(line) /\ Type(i + 1) \in WordTypes
  BY <1>2, AfterOperator
<1>4. Type(i + 1) \notin Operators /\ Type(i + 1) # "PIPE"
  BY <1>3 DEF WordTypes, Operators, RedirTypes
<1>5. Operand(i + 1)
  <2>1. i + 1 > 1 /\ (i + 1) - 1 = i
    BY <1>1
  <2> QED BY <2>1 DEF Operand
<1>6. ~Operand(i + 2)
  <2>1. (i + 2) - 1 = i + 1 /\ (i + 2) - 2 = i
    BY <1>1
  <2>2. Type(i + 1) \notin RedirTypes \cup { "HEREDOC" }
    BY <1>4 DEF Operators
  <2>3. ASSUME NEW h \in 1 .. i, Type(h) = "HEREDOC",
               \A k \in h + 2 .. i + 2 : ~line[k].wp /\ Type(k) \in WordTypes
        PROVE  FALSE
    <3>1. h = i \/ h = i - 1 \/ i \in h + 2 .. i + 2
      BY <1>1
    <3>2. CASE h = i - 1
      <4>1. h \in 1 .. Len(line) /\ h + 1 = i
        BY <1>1, <3>2
      <4>2. Type(h) \in Operators /\ Type(h) # "PIPE"
        BY <2>3 DEF Operators
      <4>3. Type(h + 1) \in WordTypes
        BY <4>1, <4>2, AfterOperator
      <4> QED BY <1>2, <4>1, <4>3
    <3> QED BY <1>2, <2>3, <3>1, <3>2
  <2> QED BY <2>1, <2>2, <2>3 DEF Operand
<1>7. ~Glued(i + 2)
  <2>1. (i + 2) - 1 = i + 1
    BY <1>1
  <2> QED BY <1>5, <2>1 DEF Glued, IsWord
<1>8. \A k \in i .. i + 1 : k = i \/ k = i + 1
  BY <1>1
<1>9. \A k \in i .. i + 1 : ~IsWord(k) /\ Type(k) # "PIPE"
  BY <1>2, <1>4, <1>5, <1>8 DEF IsWord
<1>10. i + 2 <= Len(line) + 1
  BY <1>1, <1>3
<1> QED BY <1>6, <1>7, <1>9, <1>10 DEF Boundary

\* The same behind the delimiter of a here-document.
LEMMA BehindDelimiter ==
    ASSUME TypeOK, SyntaxCorrect, NEW i \in 1 .. Len(line), Type(i) = "HEREDOC"
    PROVE  /\ Boundary(DelimiterEnd(i + 1) + 1)
           /\ DelimiterEnd(i + 1) \in i + 1 .. Len(line)
           /\ \A k \in i .. DelimiterEnd(i + 1) : ~IsWord(k) /\ Type(k) # "PIPE"
           /\ \A k \in i + 1 .. DelimiterEnd(i + 1) : Type(k) \in WordTypes
<1>1. i \in Nat /\ Len(line) \in Nat
  BY LineIsTokens
<1>2. Type(i) \in Operators /\ Type(i) # "PIPE" /\ Type(i) \notin WordTypes
  BY DEF Operators, WordTypes
<1>3. i + 1 \in 1 .. Len(line) /\ Type(i + 1) \in WordTypes
  BY <1>2, AfterOperator
<1> DEFINE e == DelimiterEnd(i + 1)
<1>4. /\ e \in i + 1 .. Len(line)
      /\ \A k \in i + 1 .. e - 1 : NextGlued(k) /\ Type(k + 1) \in WordTypes
      /\ ~NextGlued(e) \/ Type(e + 1) \notin WordTypes
  BY <1>3, DelimiterEnds
<1>5. e \in Nat /\ i + 1 \in i + 1 .. e /\ e \in i + 1 .. e
  BY <1>1, <1>4
<1> HIDE DEF e
<1>6. \A k \in i + 2 .. e : ~line[k].wp /\ Type(k) \in WordTypes
  <2> SUFFICES ASSUME NEW k \in i + 2 .. e PROVE ~line[k].wp /\ Type(k) \in WordTypes
    OBVIOUS
  <2>1. k - 1 \in i + 1 .. e - 1 /\ (k - 1) + 1 = k
    BY <1>1, <1>5
  <2>2. NextGlued(k - 1) /\ Type((k - 1) + 1) \in WordTypes
    BY <1>4, <2>1
  <2> QED BY <2>1, <2>2 DEF NextGlued
<1>7. \A k \in i + 1 .. e : Type(k) \in WordTypes /\ Operand(k)
  <2> SUFFICES ASSUME NEW k \in i + 1 .. e PROVE Type(k) \in WordTypes /\ Operand(k)
    OBVIOUS
  <2>1. CASE k = i + 1
    <3>1. k > 1 /\ k - 1 = i
      BY <1>1, <2>1
    <3> QED BY <1>3, <2>1, <3>1 DEF Operand
  <2>2. CASE k # i + 1
    <3>1. k \in i + 2 .. e /\ i \in 1 .. k - 2 /\ \A m \in i + 2 .. k : m \in i + 2 .. e
      BY <1>1, <1>5, <2>2
    <3>2. \A m \in i + 2 .. k : ~line[m].wp /\ Type(m) \in WordTypes
      BY <1>6, <3>1
    <3> QED BY <1>6, <3>1, <3>2 DEF Operand
  <2> QED BY <2>1, <2>2
<1>8. \A k \in i .. e : k = i \/ k \in i + 1 .. e
  BY <1>1, <1>5
<1>9. \A k \in i .. e : ~IsWord(k) /\ Type(k) # "PIPE"
  BY <1>2, <1>7, <1>8 DEF IsWord, WordTypes
<1>10. ASSUME e + 1 <= Len(line) PROVE ~Operand(e + 1)
  <2>1. (e + 1) - 1 = e /\ (e + 1) - 2 = e - 1
    BY <1>5
  <2>2. Type(e) \notin RedirTypes \cup { "HEREDOC" }
    BY <1>5, <1>7 DEF WordTypes, RedirTypes
  <2>3. ASSUME NEW h \in 1 .. e - 1, Type(h) = "HEREDOC",
               \A k \in h + 2 .. e + 1 : ~line[k].wp /\ Type(k) \in WordTypes
        PROVE  FALSE
    <3>1. h = i \/ h \in i + 1 .. e \/ h = i - 1 \/ i \in h + 2 .. e + 1
      BY <1>1, <1>5
    <3>2. CASE h = i
      <4>1. e + 1 \in h + 2 .. e + 1
        BY <1>1, <1>4, <1>5, <3>2
      <4>2. ~line[e + 1].wp /\ Type(e + 1) \in WordTypes
        BY <2>3, <4>1
      <4>3. e < Len(line)
        BY <1>1, <1>5, <1>10
      <4> QED BY <1>4, <4>2, <4>3 DEF NextGlued, HasNext
    <3>3. CASE h \in i + 1 .. e
      BY <1>7, <2>3, <3>3 DEF WordTypes
    <3>4. CASE h = i - 1
      <4>1. h \in 1 .. Len(line) /\ h + 1 = i
        BY <1>1, <3>4
      <4>2. Type(h) \in Operators /\ Type(h) # "PIPE"
        BY <2>3 DEF Operators
      <4>3. Type(h + 1) \in WordTypes
        BY <4>1, <4>2, AfterOperator
      <4> QED BY <1>2, <4>1, <4>3
    <3>5. CASE i \in h + 2 .. e + 1
      BY <1>2, <2>3, <3>5
    <3> QED BY <3>1, <3>2, <3>3, <3>4, <3>5
  <2> QED BY <2>1, <2>2, <2>3 DEF Operand
<1>11. ~Glued(e + 1)
  <2>1. (e + 1) - 1 = e
    BY <1>5
  <2> QED BY <1>5, <1>7, <2>1 DEF Glued, IsWord
<1>12. Boundary(e + 1)
  BY <1>10, <1>11 DEF Boundary
<1> QED BY <1>4, <1>7, <1>9, <1>12 DEF e

\* A command starts between words.
LEMMA CommandStarts ==
    ASSUME TypeOK, SyntaxCorrect, NEW i \in 1 .. Len(line), i = 1 \/ Type(i - 1) = "PIPE"
    PROVE  Boundary(i)
<1>1. i \in Nat /\ Len(line) \in Nat
  BY LineIsTokens
<1>2. CASE i = 1
  <2>1. ~(i > 1) /\ \A h \in 1 .. i - 2 : FALSE
    BY <1>2
  <2> QED BY <2>1 DEF Boundary, Operand, Glued
<1>3. CASE i # 1
  <2>1. Type(i - 1) = "PIPE" /\ Type(i - 1) \notin RedirTypes \cup { "HEREDOC" } \cup WordTypes
        /\ Type(i - 1) \in Operators
    BY <1>3 DEF RedirTypes, WordTypes, Operators
  <2>2. ASSUME NEW h \in 1 .. i - 2, Type(h) = "HEREDOC",
               \A k \in h + 2 .. i : ~line[k].wp /\ Type(k) \in WordTypes
        PROVE  FALSE
    <3>1. h = i - 2 \/ i - 1 \in h + 2 .. i
      BY <1>1
    <3>2. CASE h = i - 2
      <4>1. h \in 1 .. Len(line) /\ h + 1 = i - 1
        BY <1>1, <3>2
      <4>2. Type(h) \in Operators /\ Type(h) # "PIPE"
        BY <2>2 DEF Operators
      <4>3. Type(h + 1) \in WordTypes
        BY <4>1, <4>2, AfterOperator
      <4> QED BY <2>1, <4>1, <4>3
    <3> QED BY <2>1, <2>2, <3>1, <3>2
  <2>3. ~Operand(i)
    BY <2>1, <2>2 DEF Operand
  <2>4. ~Glued(i)
    BY <2>1 DEF Glued, IsWord
  <2> QED BY <2>3, <2>4 DEF Boundary
<1> QED BY <1>2, <1>3

-----------------------------------------------------------------------------
(* Counting pipes from the left.                                            *)

LEMMA NumberGrows ==
    ASSUME TypeOK, NEW a \in 1 .. Len(line) + 1, NEW b \in 1 .. Len(line) + 1, a <= b
    PROVE  /\ Number(a) \in Nat /\ Number(b) \in Nat /\ Number(a) <= Number(b)
           /\ (\A j \in a .. b - 1 : Type(j) # "PIPE") => Number(a) = Number(b)
           /\ \A p \in a .. b - 1 : Type(p) = "PIPE" => Number(a) < Number(b)
<1> DEFINE Before(i) == { j \in 1 .. i - 1 : Type(j) = "PIPE" }
<1>1. a \in Nat /\ b \in Nat /\ Len(line) \in Nat
  BY LineIsTokens
<1>2. Before(a) \subseteq Before(b) /\ Before(b) \subseteq 1 .. Len(line)
  BY <1>1
<1>3. IsFiniteSet(1 .. Len(line))
  BY <1>1, FS_Interval
<1>4. Number(a) = 1 + Cardinality(Before(a)) /\ Number(b) = 1 + Cardinality(Before(b))
  BY DEF Number
<1>5. ASSUME \A j \in a .. b - 1 : Type(j) # "PIPE" PROVE Before(a) = Before(b)
  <2>1. \A j \in 1 .. b - 1 : j \in 1 .. a - 1 \/ j \in a .. b - 1
    BY <1>1
  <2> QED BY <1>2, <1>5, <2>1
<1>6. ASSUME NEW p \in a .. b - 1, Type(p) = "PIPE"
      PROVE  p \notin Before(a) /\ Before(a) \cup { p } \subseteq Before(b)
  <2>1. p \notin 1 .. a - 1 /\ p \in 1 .. b - 1
    BY <1>1
  <2> QED BY <1>2, <1>6, <2>1
<1> HIDE DEF Before
<1>7. IsFiniteSet(Before(b)) /\ Cardinality(Before(b)) \in Nat
  BY <1>2, <1>3, FS_Subset, FS_CardinalityType
<1>8. IsFiniteSet(Before(a)) /\ Cardinality(Before(a)) \in Nat
      /\ Cardinality(Before(a)) <= Cardinality(Before(b))
  BY <1>2, <1>7, FS_Subset, FS_CardinalityType
<1>9. ASSUME NEW p \in a .. b - 1, Type(p) = "PIPE" PROVE Number(a) < Number(b)
  <2>1. Cardinality(Before(a) \cup { p }) = Cardinality(Before(a)) + 1
    BY <1>6, <1>8, <1>9, FS_AddElement
  <2>2. Cardinality(Before(a) \cup { p }) <= Cardinality(Before(b))
    BY <1>6, <1>7, <1>9, FS_Subset
  <2> QED BY <1>4, <1>7, <1>8, <2>1, <2>2
<1>10. Number(a) \in Nat /\ Number(b) \in Nat /\ Number(a) <= Number(b)
  BY <1>4, <1>7, <1>8
<1>11. (\A j \in a .. b - 1 : Type(j) # "PIPE") => Number(a) = Number(b)
  BY <1>4, <1>5
<1> QED BY <1>9, <1>10, <1>11

LEMMA NumberPastPipe ==
    ASSUME TypeOK, NEW p \in 1 .. Len(line), Type(p) = "PIPE"
    PROVE  Number(p + 1) = Number(p) + 1 /\ Number(p) \in Nat
<1> DEFINE S == { j \in 1 .. p - 1 : Type(j) = "PIPE" }
           T == { j \in 1 .. (p + 1) - 1 : Type(j) = "PIPE" }
<1>1. p \in Nat /\ Len(line) \in Nat
  BY LineIsTokens
<1>2. \A j : j \in 1 .. (p + 1) - 1 <=> j \in 1 .. p - 1 \/ j = p
  BY <1>1
<1>3. T = S \cup { p } /\ p \notin S /\ S \subseteq 1 .. Len(line)
  BY <1>1, <1>2
<1>4. IsFiniteSet(1 .. Len(line))
  BY <1>1, FS_Interval
<1>5. Number(p) = 1 + Cardinality(S) /\ Number(p + 1) = 1 + Cardinality(T)
  BY DEF Number
<1> HIDE DEF S, T
<1>6. IsFiniteSet(S) /\ Cardinality(S) \in Nat
  BY <1>3, <1>4, FS_Subset, FS_CardinalityType
<1>7. Cardinality(T) = Cardinality(S) + 1
  BY <1>3, <1>6, FS_AddElement
<1> QED BY <1>5, <1>6, <1>7

\* The tokens of a command are those between its pipes.
LEMMA MembersBetween ==
    ASSUME TypeOK, NEW a \in 1 .. Len(line), NEW b \in 1 .. Len(line) + 1, a <= b,
           a = 1 \/ Type(a - 1) = "PIPE",
           \A j \in a .. b - 1 : Type(j) # "PIPE",
           b <= Len(line) => Type(b) = "PIPE"
    PROVE  Members(Number(a)) = a .. b - 1
<1>1. a \in Nat /\ b \in Nat /\ Len(line) \in Nat /\ DOMAIN line = 1 .. Len(line)
  BY LineIsTokens
<1>2. ASSUME NEW i \in a .. b - 1 PROVE i \in Members(Number(a))
  <2>1. i \in 1 .. Len(line) /\ a \in 1 .. Len(line) + 1 /\ i \in 1 .. Len(line) + 1 /\ a <= i
    BY <1>1
  <2>2. \A j \in a .. i - 1 : j \in a .. b - 1
    BY <1>1
  <2>3. Number(a) = Number(i)
    BY <2>1, <2>2, NumberGrows
  <2> QED BY <1>1, <2>1, <2>3 DEF Members
<1>3. ASSUME NEW i \in Members(Number(a)), i \notin a .. b - 1 PROVE FALSE
  <2>1. i \in 1 .. Len(line) /\ Type(i) # "PIPE" /\ Number(i) = Number(a)
    BY <1>1 DEF Members
  <2>2. i < a \/ i >= b
    BY <1>1, <1>3, <2>1
  <2>3. CASE i < a
    <3>1. a # 1 /\ Type(a - 1) = "PIPE"
      BY <1>1, <2>1, <2>3
    <3>2. /\ i \in 1 .. Len(line) + 1 /\ a \in 1 .. Len(line) + 1 /\ i <= a
          /\ a - 1 \in i .. a - 1
      BY <1>1, <2>1, <2>3
    <3>3. Number(i) < Number(a) /\ Number(a) \in Nat
      BY <3>1, <3>2, NumberGrows
    <3> QED BY <2>1, <3>3
  <2>4. CASE i >= b
    <3>1. b <= Len(line) /\ Type(b) = "PIPE" /\ i # b
      BY <1>1, <2>1, <2>4
    <3>2. /\ i \in 1 .. Len(line) + 1 /\ a \in 1 .. Len(line) + 1 /\ a <= i
          /\ b \in a .. i - 1
      BY <1>1, <2>1, <2>4, <3>1
    <3>3. Number(a) < Number(i) /\ Number(a) \in Nat
      BY <3>1, <3>2, NumberGrows
    <3> QED BY <2>1, <3>3
  <2> QED BY <2>2, <2>3, <2>4
<1> QED BY <1>2, <1>3

\* The last command has the number of all pipes and one.
LEMMA LastNumber ==
    ASSUME TypeOK, NEW a \in 1 .. Len(line), Pipes(a) = {}
    PROVE  Number(a) = Cardinality(Pipes(1)) + 1
<1>1. a \in Nat /\ Len(line) \in Nat
  BY LineIsTokens
<1>2. \A j \in 1 .. Len(line) : j \in 1 .. a - 1 \/ j \in a .. Len(line)
  BY <1>1
<1>3. \A j \in 1 .. a - 1 : j \in 1 .. Len(line)
  BY <1>1
<1>4. { j \in 1 .. a - 1 : Type(j) = "PIPE" } = Pipes(1)
  BY <1>2, <1>3 DEF Pipes
<1>5. IsFiniteSet(1 .. Len(line)) /\ Pipes(1) \subseteq 1 .. Len(line)
  BY <1>1, FS_Interval DEF Pipes
<1>6. Cardinality(Pipes(1)) \in Nat
  BY <1>5, FS_Subset, FS_CardinalityType
<1>7. Number(a) = 1 + Cardinality(Pipes(1))
  BY <1>4, Zenon DEF Number
<1> QED BY <1>6, <1>7

\* What a line means does not change while it is read.
LEMMA SameReading ==
    ASSUME line' = line
    PROVE  /\ Plain' <=> Plain
           /\ \A i : Type(i)' = Type(i) /\ Number(i)' = Number(i) /\ Pipes(i)' = Pipes(i)
           /\ \A i : (Boundary(i)' <=> Boundary(i)) /\ Opened(i)' = Opened(i)
           /\ \A c : Heads(c)' = Heads(c) /\ Members(c)' = Members(c)
           /\ \A h : Piece(h)' = Piece(h)
           /\ \A a, b : HeadsIn(a, b)' = HeadsIn(a, b)
           /\ \A a, b, side : SidesIn(a, b, side)' = SidesIn(a, b, side)
           /\ \A c, side : Target(c, side)' = Target(c, side)
<1>1. \A i : Type(i)' = Type(i)
  BY DEF Type
<1>2. \A i : Number(i)' = Number(i) /\ Pipes(i)' = Pipes(i)
  BY <1>1 DEF Number, Pipes
<1>3. \A i : Operand(i)' <=> Operand(i)
  BY <1>1 DEF Operand
<1>4. \A i : (IsWord(i)' <=> IsWord(i)) /\ (Glued(i)' <=> Glued(i))
  BY <1>1, <1>3 DEF Glued, IsWord
<1>5. \A h : EndOf(h)' = EndOf(h)
  BY <1>4 DEF EndOf
<1>6. \A c : Heads(c)' = Heads(c) /\ Members(c)' = Members(c)
  BY <1>1, <1>2, <1>4 DEF Heads, Members
<1>7. \A i : Boundary(i)' <=> Boundary(i)
  BY <1>3, <1>4 DEF Boundary
<1>8. \A i : Opened(i)' = Opened(i)
  BY <1>1 DEF Opened
<1>9. \A h : Piece(h)' = Piece(h)
  BY <1>5 DEF Piece
<1>10. \A a, b : HeadsIn(a, b)' = HeadsIn(a, b)
  BY <1>4 DEF HeadsIn, Heading
<1>11. \A a, b, side : SidesIn(a, b, side)' = SidesIn(a, b, side)
  BY <1>1 DEF SidesIn, Opens, Side
<1>12. \A c, side : Sides(c, side)' = Sides(c, side)
  BY <1>1, <1>6 DEF Sides, Side
<1>13. \A c, side : Target(c, side)' = Target(c, side)
  <2> SUFFICES ASSUME NEW c, NEW side PROVE Target(c, side)' = Target(c, side)
    OBVIOUS
  <2>1. Sides(c, side)' = Sides(c, side) /\ Heads(c)' = Heads(c)
    BY <1>6, <1>12
  <2>2. (CHOOSE i \in Sides(c, side) : \A j \in Sides(c, side) : j <= i)'
           = CHOOSE i \in Sides(c, side) : \A j \in Sides(c, side) : j <= i
    BY <2>1
  <2> QED BY <2>1, <2>2 DEF Target, Type
<1>14. \A i : NextGlued(i)' <=> NextGlued(i)
  BY DEF NextGlued, HasNext
<1>15. Plain' <=> Plain
  BY <1>1, <1>2, <1>4, <1>5, <1>6, <1>14 DEF Plain
<1> QED BY <1>1, <1>2, <1>6, <1>7, <1>8, <1>9, <1>10, <1>11, <1>13, <1>15

-----------------------------------------------------------------------------
(* Reading on.                                                              *)

LEMMA PieceBegins ==
    ASSUME TypeOK, NEW h \in 1 .. Len(line)
    PROVE  Piece(h)[1] = h
<1>1. h \in Nat /\ Len(line) \in Nat
  BY LineIsTokens
<1>2. EndOf(h) \in h .. Len(line)
  BY EndOfIs
<1>3. 1 \in 1 .. EndOf(h) - h + 1 /\ h + 1 - 1 = h
  BY <1>1, <1>2
<1> QED BY <1>3 DEF Piece

\* Where no word begins the arguments stay what they are.
LEMMA NoWordRead ==
    ASSUME TypeOK, NEW args, NEW a \in 1 .. Len(line), NEW b \in 1 .. Len(line) + 1,
           NEW e \in 1 .. Len(line) + 1, b <= e, ArgumentsRead(args, a, b),
           \A k \in b .. e - 1 : ~IsWord(k)
    PROVE  ArgumentsRead(args, a, e)
<1>1. a \in Nat /\ b \in Nat /\ e \in Nat /\ Len(line) \in Nat
  BY LineIsTokens
<1>2. HeadsIn(a, e) = HeadsIn(a, b)
  <2>1. \A h \in a .. e - 1 : h \in a .. b - 1 \/ h \in b .. e - 1
    BY <1>1
  <2>2. \A h \in a .. b - 1 : h \in a .. e - 1
    BY <1>1
  <2> QED BY <2>1, <2>2 DEF HeadsIn, Heading
<1>3. ASSUME NEW k \in DOMAIN args PROVE args[k][1] < e
  <2>1. args[k][1] < b
    BY DEF ArgumentsRead
  <2>2. PICK h \in HeadsIn(a, b) : args[k] = Piece(h)
    BY DEF ArgumentsRead
  <2>3. h \in 1 .. Len(line)
    BY <1>1, <2>2 DEF HeadsIn
  <2>4. args[k][1] = h
    BY <2>2, <2>3, PieceBegins
  <2> DEFINE x == args[k][1]
  <2>5. x < b /\ x \in Nat
    BY <1>1, <2>1, <2>3, <2>4
  <2> HIDE DEF x
  <2>6. x < e
    BY <1>1, <2>5
  <2> QED BY <2>6 DEF x
<1> QED BY <1>2, <1>3 DEF ArgumentsRead

\* A word is read with all that is glued to it.
LEMMA WordRead ==
    ASSUME TypeOK, NEW args \in Seq(Seq(1 .. Len(line))), NEW a \in 1 .. Len(line),
           NEW b \in 1 .. Len(line), a <= b, ArgumentsRead(args, a, b), Heading(b)
    PROVE  ArgumentsRead(Append(args, Piece(b)), a, EndOf(b) + 1)
<1>1. a \in Nat /\ b \in Nat /\ Len(line) \in Nat
  BY LineIsTokens
<1>2. EndOf(b) \in b .. Len(line) /\ \A k \in b + 1 .. EndOf(b) : Glued(k)
  BY EndOfIs
<1>3. EndOf(b) \in Nat
  BY <1>1, <1>2
<1>4. HeadsIn(a, EndOf(b) + 1) = HeadsIn(a, b) \cup { b }
  <2> DEFINE e == EndOf(b)
  <2>1. b \in a .. (e + 1) - 1 /\ \A h \in a .. b - 1 : h \in a .. (e + 1) - 1
    BY <1>1, <1>2, <1>3
  <2>2. \A h \in a .. (e + 1) - 1 : h \in a .. b - 1 \/ h = b \/ h \in b + 1 .. e
    BY <1>1, <1>2, <1>3
  <2>3. \A h \in b + 1 .. e : ~Heading(h)
    BY <1>2 DEF Heading
  <2> HIDE DEF e
  <2>4. HeadsIn(a, e + 1) = HeadsIn(a, b) \cup { b }
    BY <2>1, <2>2, <2>3 DEF HeadsIn
  <2> QED BY <2>4 DEF e
<1> DEFINE more == Append(args, Piece(b))
           n == Len(args)
<1>5. /\ n \in Nat /\ DOMAIN args = 1 .. n /\ DOMAIN more = 1 .. n + 1
      /\ \A k \in 1 .. n : more[k] = args[k]
      /\ more[n + 1] = Piece(b)
  <2> DEFINE x == Piece(b)
  <2>1. x \in Seq(1 .. Len(line))
    <3>1. EndOf(b) - b + 1 \in Nat
      BY <1>1, <1>2, <1>3
    <3>2. \A k \in 1 .. EndOf(b) - b + 1 : b + k - 1 \in 1 .. Len(line)
      BY <1>1, <1>2, <1>3
    <3> QED BY <3>1, <3>2, IsASeq DEF Piece
  <2> HIDE DEF x
  <2>2. Len(args) \in Nat /\ DOMAIN args = 1 .. Len(args)
    BY LenProperties
  <2>3. /\ DOMAIN Append(args, x) = 1 .. Len(args) + 1
        /\ \A k \in 1 .. Len(args) : Append(args, x)[k] = args[k]
        /\ Append(args, x)[Len(args) + 1] = x
    BY <2>1, AppendProperties, LenProperties
  <2> QED BY <2>2, <2>3 DEF x
<1>6. Piece(b)[1] = b
  BY PieceBegins
<1>7. ASSUME NEW k \in 1 .. n PROVE args[k][1] \in Nat /\ args[k][1] < b
  <2>1. args[k][1] < b /\ k \in DOMAIN args
    BY <1>5 DEF ArgumentsRead
  <2>2. PICK h \in HeadsIn(a, b) : args[k] = Piece(h)
    BY <2>1 DEF ArgumentsRead
  <2>3. h \in 1 .. Len(line)
    BY <1>1, <2>2 DEF HeadsIn
  <2>4. args[k][1] = h
    BY <2>2, <2>3, PieceBegins
  <2> QED BY <1>1, <2>1, <2>3, <2>4
<1> HIDE DEF more, n
<1>8. { more[k] : k \in DOMAIN more } = { Piece(h) : h \in HeadsIn(a, EndOf(b) + 1) }
  <2>1. { args[k] : k \in DOMAIN args } = { Piece(h) : h \in HeadsIn(a, b) }
    BY DEF ArgumentsRead
  <2>2. \A k : k \in 1 .. n + 1 <=> k \in 1 .. n \/ k = n + 1
    BY <1>5
  <2>3. { more[k] : k \in DOMAIN more } = { args[k] : k \in DOMAIN args } \cup { Piece(b) }
    BY <1>5, <2>2
  <2>4. { Piece(h) : h \in HeadsIn(a, EndOf(b) + 1) }
           = { Piece(h) : h \in HeadsIn(a, b) } \cup { Piece(b) }
    BY <1>4
  <2> QED BY <2>1, <2>3, <2>4
<1>9. ASSUME NEW k \in DOMAIN more, NEW l \in DOMAIN more, k < l
      PROVE  more[k][1] < more[l][1]
  <2>1. k \in 1 .. n /\ (l \in 1 .. n \/ l = n + 1)
    BY <1>5, <1>9
  <2>2. CASE l \in 1 .. n
    <3>1. args[k][1] < args[l][1]
      BY <1>5, <1>9, <2>1, <2>2 DEF ArgumentsRead
    <3> QED BY <1>5, <2>1, <2>2, <3>1
  <2>3. CASE l = n + 1
    <3>1. more[l][1] = b /\ more[k] = args[k]
      BY <1>5, <1>6, <2>1, <2>3
    <3>2. args[k][1] < b
      BY <1>7, <2>1
    <3> QED BY <3>1, <3>2
  <2> QED BY <2>1, <2>2, <2>3
<1>10. ASSUME NEW k \in DOMAIN more PROVE more[k][1] < EndOf(b) + 1
  <2>1. k \in 1 .. n \/ k = n + 1
    BY <1>5
  <2> DEFINE x == more[k][1]
             e == EndOf(b)
  <2>2. x \in Nat /\ x <= b
    <3>1. CASE k \in 1 .. n
      <4>1. x = args[k][1]
        BY <1>5, <3>1
      <4>2. x \in Nat /\ x < b
        BY <1>7, <3>1, <4>1
      <4> HIDE DEF x
      <4> QED BY <1>1, <4>2
    <3>2. CASE k = n + 1
      <4>1. x = b
        BY <1>5, <1>6, <3>2
      <4> HIDE DEF x
      <4> QED BY <1>1, <4>1
    <3> QED BY <2>1, <3>1, <3>2
  <2>3. e \in Nat /\ b <= e
    BY <1>1, <1>2, <1>3
  <2> HIDE DEF x, e
  <2>4. x < e + 1
    BY <1>1, <2>2, <2>3
  <2> QED BY <2>4 DEF x, e
<1>11. ArgumentsRead(more, a, EndOf(b) + 1)
  BY <1>8, <1>9, <1>10 DEF ArgumentsRead
<1> QED BY <1>11 DEF more

\* Where no redirection of the side stands the side stays what it is.
LEMMA NoSideRead ==
    ASSUME NEW a \in Nat, NEW b \in Nat, NEW e \in Nat, b <= e, NEW side,
           \A k \in b .. e - 1 : ~Opens(k, side)
    PROVE  SidesIn(a, e, side) = SidesIn(a, b, side)
<1>1. \A h \in a .. e - 1 : h \in a .. b - 1 \/ h \in b .. e - 1
  OBVIOUS
<1>2. \A h \in a .. b - 1 : h \in a .. e - 1
  OBVIOUS
<1> QED BY <1>1, <1>2 DEF SidesIn

\* A redirection is the last of its side.
LEMMA LastSide ==
    ASSUME NEW a \in Nat, NEW b \in Nat, NEW e \in Nat, a <= b, b < e, NEW side,
           Opens(b, side), \A k \in b + 1 .. e - 1 : ~Opens(k, side)
    PROVE  b \in SidesIn(a, e, side) /\ \A j \in SidesIn(a, e, side) : j <= b
<1>1. b \in a .. e - 1
  OBVIOUS
<1>2. \A j \in a .. e - 1 : j <= b \/ j \in b + 1 .. e - 1
  OBVIOUS
<1> QED BY <1>1, <1>2 DEF SidesIn

\* Opening a redirection leaves every other descriptor that is in use.
LEMMA OthersKept ==
    ASSUME TypeOK, Descriptors, cmd \in Commands, pc = "build",
           NEW side \in { "in", "out" }, NEW fd \in Fds, LowestFree(Replaced(side), fd),
           NEW d, fds' = Bind(Replaced(side), fd, d)
    PROVE  /\ fds'[fd] = d
           /\ \A g \in 0 .. STDERR : fds'[g] = fds[g]
           /\ \A g \in AllRedirs \cup (Redirs(cmd) \ { cmd[side] }) : fds'[g] = fds[g]
<1> DEFINE t == Replaced(side)
<1>1. /\ t \in [Fds -> Objects] /\ \A g \in 0 .. STDERR : t[g] # Closed
      /\ Extra(t) = AllRedirs \cup (Redirs(cmd) \ { cmd[side] })
  BY ReplacedLeaves
<1>2. DOMAIN fds = Fds
  BY TableOfFds
<1>3. \A g \in Fds : t[g] = Closed \/ t[g] = fds[g]
  BY <1>2 DEF Replaced, Close
<1>4. LowestFree(t, fd) /\ fds' = Bind(t, fd, d)
  OBVIOUS
<1> HIDE DEF t
<1>5. t[fd] = Closed /\ DOMAIN t = Fds
  BY <1>1, <1>4 DEF LowestFree
<1>6. fds'[fd] = d /\ \A g \in Fds : g # fd => fds'[g] = t[g]
  BY <1>4, <1>5 DEF Bind
<1>7. \A g \in Fds : t[g] # Closed => fds'[g] = fds[g]
  BY <1>3, <1>5, <1>6
<1>8. \A g \in 0 .. STDERR : g \in Fds
  BY Numbers
<1>9. \A g \in Extra(t) : g \in Fds /\ t[g] # Closed
  BY <1>5 DEF Extra
<1> QED BY <1>1, <1>6, <1>7, <1>8, <1>9

\* The commands in the table keep their meaning while their descriptors are
\* kept.
LEMMA MeaningKept ==
    ASSUME TypeOK, table \in Seq(Commands), Owned(table, OpenMax), line' = line,
           \A c \in DOMAIN table : CommandMeant(c),
           \A c \in DOMAIN table : table'[c] = table[c],
           \A g \in 0 .. STDERR : fds'[g] = fds[g],
           \A g \in AllRedirs : fds'[g] = fds[g]
    PROVE  \A c \in DOMAIN table : CommandMeant(c)'
<1> SUFFICES ASSUME NEW c \in DOMAIN table PROVE CommandMeant(c)'
  OBVIOUS
<1>1. /\ table[c].in \in Files => table[c].in \in AllRedirs
      /\ table[c].out \in Files => table[c].out \in AllRedirs
  BY TableHolds
<1>2. /\ table[c].in = STDIN \/ table[c].in \in Files
      /\ table[c].out = STDOUT \/ table[c].out \in Files
  BY DEF Owned, Files
<1>3. STDIN \in 0 .. STDERR /\ STDOUT \in 0 .. STDERR
  BY Numbers
<1>4. fds'[table[c].in] = fds[table[c].in] /\ fds'[table[c].out] = fds[table[c].out]
  BY <1>1, <1>2, <1>3
<1>5. CommandMeant(c) /\ table'[c] = table[c]
  OBVIOUS
<1>6. /\ Heads(c)' = Heads(c) /\ Target(c, "in")' = Target(c, "in")
      /\ Target(c, "out")' = Target(c, "out") /\ \A h : Piece(h)' = Piece(h)
  BY SameReading
<1>7. { Piece(h) : h \in Heads(c) }' = { Piece(h) : h \in Heads(c) }
  BY <1>6
<1>8. { table[c].args[k] : k \in DOMAIN table[c].args }' = { table[c].args[k] : k \in DOMAIN table[c].args }
  BY <1>5
<1>9. /\ { table[c].args[k] : k \in DOMAIN table[c].args } = { Piece(h) : h \in Heads(c) }
      /\ \A k, l \in DOMAIN table[c].args : k < l => table[c].args[k][1] < table[c].args[l][1]
      /\ fds[table[c].in] = Target(c, "in")
      /\ fds[table[c].out] = Target(c, "out")
  BY <1>5 DEF CommandMeant
<1>10. (\A k, l \in DOMAIN table[c].args : k < l => table[c].args[k][1] < table[c].args[l][1])'
  BY <1>5, <1>9
<1>11. (fds[table[c].in] = Target(c, "in") /\ fds[table[c].out] = Target(c, "out"))'
  BY <1>4, <1>5, <1>6, <1>9
<1> QED BY <1>7, <1>8, <1>9, <1>10, <1>11 DEF CommandMeant

LEMMA SameArguments ==
    ASSUME line' = line, NEW args, NEW a, NEW b, ArgumentsRead(args, a, b),
           cmd'.args = args, start' = a, tok' = b
    PROVE  (ArgumentsRead(cmd.args, start, tok))'
<1>1. /\ \A h : Piece(h)' = Piece(h)
      /\ \A x, y : HeadsIn(x, y)' = HeadsIn(x, y)
  BY SameReading
<1>2. { Piece(h) : h \in HeadsIn(start, tok) }' = { Piece(h) : h \in HeadsIn(a, b) }
  BY <1>1
<1>3. { cmd.args[k] : k \in DOMAIN cmd.args }' = { args[k] : k \in DOMAIN args }
  OBVIOUS
<1>4. /\ { args[k] : k \in DOMAIN args } = { Piece(h) : h \in HeadsIn(a, b) }
      /\ \A k, l \in DOMAIN args : k < l => args[k][1] < args[l][1]
      /\ \A k \in DOMAIN args : args[k][1] < b
  BY DEF ArgumentsRead
<1> QED BY <1>2, <1>3, <1>4 DEF ArgumentsRead

\* A file or a here-document is opened, and its tokens are read.
LEMMA RedirectionRead ==
    ASSUME TableInv, LineRead, pc = "build", tok <= Len(line),
           NEW side \in { "in", "out" }, Opens(tok, side),
           UNCHANGED << line, pc, start, table >>,
           NEW fd \in Fds, LowestFree(Replaced(side), fd),
           fds' = Bind(Replaced(side), fd, Opened(tok)), cmd' = [cmd EXCEPT ![side] = fd],
           NEW e \in tok + 1 .. Len(line) + 1, tok' = e, Boundary(e),
           \A k \in tok .. e - 1 : ~IsWord(k) /\ Type(k) # "PIPE",
           \A k \in tok + 1 .. e - 1 : Type(k) \in WordTypes
    PROVE  LineRead'
<1>1. TypeOK /\ Core /\ Places /\ Descriptors /\ cmd \in Commands /\ table \in Seq(Commands)
  BY DEF TableInv, Typed
<1>2. /\ start \in 1 .. Len(line) /\ start \in Nat /\ tok \in Nat /\ Len(line) \in Nat /\ e \in Nat
      /\ tok \in 1 .. Len(line) /\ e \in 1 .. Len(line) + 1 /\ tok < e
  BY <1>1, LineIsTokens DEF Core
<1>3. /\ CommandRead /\ Starts
      /\ \A c \in DOMAIN table : CommandMeant(c)
      /\ \A g \in 0 .. STDERR : fds[g] = Tty
  BY DEF LineRead
<1>4. start <= tok /\ \A j \in start .. tok - 1 : Type(j) # "PIPE"
  BY <1>3 DEF CommandRead
<1>5. /\ fds'[fd] = Opened(tok)
      /\ \A g \in 0 .. STDERR : fds'[g] = fds[g]
      /\ \A g \in AllRedirs \cup (Redirs(cmd) \ { cmd[side] }) : fds'[g] = fds[g]
  <2> DEFINE d == Opened(tok)
  <2>1. fds' = Bind(Replaced(side), fd, d)
    OBVIOUS
  <2> HIDE DEF d
  <2>2. /\ fds'[fd] = d
        /\ \A g \in 0 .. STDERR : fds'[g] = fds[g]
        /\ \A g \in AllRedirs \cup (Redirs(cmd) \ { cmd[side] }) : fds'[g] = fds[g]
    BY <1>1, <2>1, OthersKept
  <2> QED BY <2>2 DEF d
<1>6. /\ cmd.in = STDIN \/ (cmd.in \in Files /\ cmd.in # cmd.out)
      /\ cmd.out = STDOUT \/ (cmd.out \in Files /\ cmd.in # cmd.out)
  BY <1>1 DEF Descriptors, SideHeld
<1>7. STDIN \in 0 .. STDERR /\ STDOUT \in 0 .. STDERR /\ STDIN \notin Files /\ STDOUT \notin Files
  BY Numbers
<1>8. /\ side = "in" => fds'[cmd.out] = fds[cmd.out]
      /\ side = "out" => fds'[cmd.in] = fds[cmd.in]
  <2>1. CASE side = "in"
    <3>1. cmd.out \in 0 .. STDERR \/ cmd.out \in Redirs(cmd) \ { cmd[side] }
      BY <1>6, <1>7, <2>1 DEF Redirs
    <3> QED BY <1>5, <2>1, <3>1
  <2>2. CASE side = "out"
    <3>1. cmd.in \in 0 .. STDERR \/ cmd.in \in Redirs(cmd) \ { cmd[side] }
      BY <1>6, <1>7, <2>2 DEF Redirs
    <3> QED BY <1>5, <2>2, <3>1
  <2> QED BY <2>1, <2>2
<1>9. /\ cmd'[side] = fd /\ cmd'.args = cmd.args
      /\ side = "in" => cmd'.in = fd /\ cmd'.out = cmd.out
      /\ side = "out" => cmd'.out = fd /\ cmd'.in = cmd.in
  BY <1>1 DEF Commands
<1>10. ArgumentsRead(cmd.args, start, e)
  BY <1>1, <1>2, <1>3, NoWordRead DEF CommandRead
<1>11. /\ tok \in SidesIn(start, e, side)
       /\ \A j \in SidesIn(start, e, side) : j <= tok
  <2>1. \A k \in tok + 1 .. e - 1 : ~Opens(k, side)
    BY DEF Opens, WordTypes, RedirTypes
  <2> QED BY <1>2, <1>4, <2>1, LastSide
<1>12. ASSUME NEW other \in { "in", "out" }, other # side
       PROVE  SidesIn(start, e, other) = SidesIn(start, tok, other)
  <2>1. ASSUME NEW k \in tok .. e - 1 PROVE ~Opens(k, other)
    <3>1. k = tok \/ k \in tok + 1 .. e - 1
      BY <1>2
    <3>2. CASE k = tok
      BY <1>12, <3>2 DEF Opens
    <3>3. CASE k \in tok + 1 .. e - 1
      BY <3>3 DEF Opens, WordTypes, RedirTypes
    <3> QED BY <3>1, <3>2, <3>3
  <2>2. tok <= e
    BY <1>2
  <2> QED BY <1>2, <2>1, <2>2, NoSideRead
<1>13. /\ SideRead(cmd.in, STDIN, start, tok, "in")
       /\ SideRead(cmd.out, STDOUT, start, tok, "out")
  BY <1>3 DEF CommandRead
<1>14. \A a, b, s : SidesIn(a, b, s)' = SidesIn(a, b, s)
  BY SameReading
<1>15. \A i : Opened(i)' = Opened(i)
  BY SameReading
<1>16. (SideRead(cmd.in, STDIN, start, tok, "in"))'
  <2>1. CASE side = "in"
    BY <1>5, <1>9, <1>11, <1>14, <1>15, <2>1 DEF SideRead
  <2>2. CASE side = "out"
    <3>1. SidesIn(start, e, "in") = SidesIn(start, tok, "in")
      BY <1>12, <2>2
    <3> QED BY <1>8, <1>9, <1>13, <1>14, <1>15, <2>2, <3>1 DEF SideRead
  <2> QED BY <2>1, <2>2
<1>17. (SideRead(cmd.out, STDOUT, start, tok, "out"))'
  <2>1. CASE side = "out"
    BY <1>5, <1>9, <1>11, <1>14, <1>15, <2>1 DEF SideRead
  <2>2. CASE side = "in"
    <3>1. SidesIn(start, e, "out") = SidesIn(start, tok, "out")
      BY <1>12, <2>2
    <3> QED BY <1>8, <1>9, <1>13, <1>14, <1>15, <2>2, <3>1 DEF SideRead
  <2> QED BY <2>1, <2>2
<1>18. (ArgumentsRead(cmd.args, start, tok))'
  BY <1>9, <1>10, SameArguments
<1>19. \A j \in start .. e - 1 : Type(j) # "PIPE"
  <2>1. \A j \in start .. e - 1 : j \in start .. tok - 1 \/ j \in tok .. e - 1
    BY <1>2
  <2> QED BY <1>4, <2>1
<1>20. (\A j \in start .. tok - 1 : Type(j) # "PIPE")'
  BY <1>19 DEF Type
<1>21. (start <= tok)' /\ Boundary(tok)'
  <2>1. Boundary(e)' <=> Boundary(e)
    BY SameReading
  <2>2. start <= e
    BY <1>2, <1>4
  <2> QED BY <2>1, <2>2
<1>22. CommandRead'
  BY <1>16, <1>17, <1>18, <1>20, <1>21 DEF CommandRead
<1>23. \A c \in DOMAIN table : CommandMeant(c)'
  <2>1. Owned(table, OpenMax) /\ \A c \in DOMAIN table : table'[c] = table[c]
    BY <1>1 DEF Descriptors
  <2>2. \A g \in AllRedirs : fds'[g] = fds[g]
    BY <1>5
  <2> QED BY <1>1, <1>3, <1>5, <2>1, <2>2, MeaningKept
<1>24. Starts'
  BY <1>3, SameReading DEF Starts
<1>25. \A g \in 0 .. STDERR : fds'[g] = Tty
  BY <1>3, <1>5
<1> QED BY <1>22, <1>23, <1>24, <1>25 DEF LineRead

LEMMA RedirectMeaning == TableInv /\ Meaning /\ Redirect => Meaning'
<1> SUFFICES ASSUME TableInv, Meaning, Redirect, Plain PROVE LineRead'
  BY SameReading DEF Meaning, Redirect
<1>1. TypeOK /\ Core /\ Places
  BY DEF TableInv, Typed
<1>2. /\ pc = "build" /\ tok <= Len(line) /\ Type(tok) \in RedirTypes /\ tok' = tok + 2
      /\ UNCHANGED << line, pc, start, table >>
  BY DEF Redirect
<1>3. LineRead
  BY <1>2 DEF Meaning
<1>4. tok \in 1 .. Len(line) /\ tok \in Nat /\ Len(line) \in Nat /\ SyntaxCorrect
  BY <1>1, <1>2, LineIsTokens DEF Core, Places
<1>5. PICK side \in { "in", "out" }, fd \in Fds :
        /\ Side(Type(tok)) = side
        /\ LowestFree(Replaced(side), fd)
        /\ fds' = Bind(Replaced(side), fd, << "file", tok >>)
        /\ cmd' = [cmd EXCEPT ![side] = fd]
  <2>1. Side(Type(tok)) \in { "in", "out" }
    BY DEF Side
  <2> QED BY <2>1 DEF Redirect
<1>6. Opens(tok, side)
  BY <1>2, <1>5 DEF Opens
<1>7. Opened(tok) = << "file", tok >>
  BY <1>2 DEF Opened, RedirTypes
<1> DEFINE e == tok + 2
<1>8. /\ Boundary(e) /\ e <= Len(line) + 1
      /\ \A k \in tok .. tok + 1 : ~IsWord(k) /\ Type(k) # "PIPE"
  BY <1>1, <1>2, <1>4, BehindRedirect
<1>9. e \in tok + 1 .. Len(line) + 1 /\ \A k \in tok .. e - 1 : k \in tok .. tok + 1
      /\ (k \in tok + 1 .. e - 1 => k = tok + 1)
  BY <1>4, <1>8
<1>10. Type(tok + 1) \in WordTypes
  <2>1. Type(tok) \in Operators /\ Type(tok) # "PIPE"
    BY <1>2 DEF Operators, RedirTypes
  <2> QED BY <1>1, <1>4, <2>1, AfterOperator
<1>11. /\ \A k \in tok .. e - 1 : ~IsWord(k) /\ Type(k) # "PIPE"
       /\ \A k \in tok + 1 .. e - 1 : Type(k) \in WordTypes
  <2>1. \A k \in tok + 1 .. e - 1 : k \in tok .. e - 1
    BY <1>4
  <2> QED BY <1>8, <1>9, <1>10, <2>1
<1>12. tok' = e
  BY <1>2
<1> HIDE DEF e
<1> QED BY <1>2, <1>3, <1>5, <1>6, <1>7, <1>8, <1>9, <1>11, <1>12, RedirectionRead

LEMMA HereDocumentMeaning == TableInv /\ Meaning /\ HereDocument => Meaning'
<1> SUFFICES ASSUME TableInv, Meaning, HereDocument, Plain PROVE LineRead'
  BY SameReading DEF Meaning, HereDocument
<1>1. TypeOK /\ Core /\ Places
  BY DEF TableInv, Typed
<1>2. /\ pc = "build" /\ tok <= Len(line) /\ Type(tok) = "HEREDOC"
      /\ tok' = DelimiterEnd(tok + 1) + 1
      /\ UNCHANGED << line, pc, start, table >>
  BY DEF HereDocument
<1>3. LineRead
  BY <1>2 DEF Meaning
<1>4. tok \in 1 .. Len(line) /\ tok \in Nat /\ Len(line) \in Nat /\ SyntaxCorrect
  BY <1>1, <1>2, LineIsTokens DEF Core, Places
<1>5. PICK fd \in Fds :
        /\ LowestFree(Replaced("in"), fd)
        /\ fds' = Bind(Replaced("in"), fd, << "doc", tok >>)
        /\ cmd' = [cmd EXCEPT !["in"] = fd]
  BY DEF HereDocument
<1>6. Opens(tok, "in") /\ "in" \in { "in", "out" }
  BY <1>2 DEF Opens, Side
<1>7. Opened(tok) = << "doc", tok >>
  BY <1>2 DEF Opened
<1> DEFINE d == DelimiterEnd(tok + 1)
           e == d + 1
<1>8. /\ Boundary(d + 1) /\ d \in tok + 1 .. Len(line)
      /\ \A k \in tok .. d : ~IsWord(k) /\ Type(k) # "PIPE"
      /\ \A k \in tok + 1 .. d : Type(k) \in WordTypes
  BY <1>1, <1>2, <1>4, BehindDelimiter
<1> HIDE DEF d
<1>9. e \in tok + 1 .. Len(line) + 1 /\ e - 1 = d /\ Boundary(e)
  BY <1>4, <1>8
<1>10. tok' = e
  BY <1>2 DEF d
<1> HIDE DEF e
<1>11. /\ \A k \in tok .. e - 1 : ~IsWord(k) /\ Type(k) # "PIPE"
       /\ \A k \in tok + 1 .. e - 1 : Type(k) \in WordTypes
  BY <1>8, <1>9
<1> QED BY <1>2, <1>3, <1>5, <1>6, <1>7, <1>9, <1>10, <1>11, RedirectionRead

LEMMA WordMeaning == TableInv /\ Meaning /\ Word => Meaning'
<1> SUFFICES ASSUME TableInv, Meaning, Word, Plain PROVE LineRead'
  BY SameReading DEF Meaning, Word
<1>1. TypeOK /\ Core /\ Places /\ Descriptors /\ cmd \in Commands /\ table \in Seq(Commands)
  BY DEF TableInv, Typed
<1>2. /\ pc = "build" /\ tok <= Len(line) /\ Type(tok) \notin Operators
      /\ UNCHANGED << line, pc, start, table, fds >>
  BY DEF Word
<1>3. /\ start \in 1 .. Len(line) /\ start \in Nat /\ tok \in Nat /\ Len(line) \in Nat
      /\ tok \in 1 .. Len(line)
  BY <1>1, <1>2, LineIsTokens DEF Core
<1>4. /\ CommandRead /\ Starts
      /\ \A c \in DOMAIN table : CommandMeant(c)
      /\ \A g \in 0 .. STDERR : fds[g] = Tty
  BY <1>2 DEF Meaning, LineRead
<1>5. /\ start <= tok /\ Boundary(tok)
      /\ \A j \in start .. tok - 1 : Type(j) # "PIPE"
      /\ ArgumentsRead(cmd.args, start, tok)
  BY <1>4 DEF CommandRead
<1>6. Heading(tok)
  BY <1>2, <1>5 DEF Boundary, Heading, IsWord
<1> DEFINE first == (cmd.args = << >>)
<1>7. ASSUME NEW g \in Heads(Number(tok)), g < tok PROVE ~first
  <2>1. g \in 1 .. Len(line) /\ Type(g) # "PIPE" /\ Number(g) = Number(tok) /\ Heading(g)
    BY <1>1, <1>7, LineIsTokens DEF Heads, Members, Heading
  <2>2. Number(tok) = Number(start) /\ Number(start) \in Nat
    <3>1. start \in 1 .. Len(line) + 1 /\ tok \in 1 .. Len(line) + 1
      BY <1>3
    <3> QED BY <1>1, <1>5, <3>1, NumberGrows
  <2>3. ASSUME g < start PROVE FALSE
    <3>1. start # 1 /\ Type(start - 1) = "PIPE"
      BY <1>3, <1>4, <2>1, <2>3 DEF Starts
    <3>2. /\ g \in 1 .. Len(line) + 1 /\ start \in 1 .. Len(line) + 1 /\ g <= start
          /\ start - 1 \in g .. start - 1
      BY <1>3, <2>1, <2>3
    <3>3. Number(g) < Number(start)
      BY <1>1, <3>1, <3>2, NumberGrows
    <3> QED BY <2>1, <2>2, <3>3
  <2>4. g \in start .. tok - 1
    BY <1>3, <1>7, <2>1, <2>3
  <2>5. Piece(g) \in { cmd.args[k] : k \in DOMAIN cmd.args }
    BY <1>5, <2>1, <2>4 DEF ArgumentsRead, HeadsIn
  <2>6. DOMAIN cmd.args # {}
    BY <2>5
  <2> QED BY <2>6, EmptySeq, LenProperties
<1>8. first \in BOOLEAN
  OBVIOUS
<1>9. (\E g \in Heads(Number(tok)) : g < tok) => ~first
  BY <1>7
<1>10. /\ cmd' = [cmd EXCEPT !.args = Append(@, [k \in 1 .. WordEnd(tok, first) - tok + 1 |-> tok + k - 1])]
       /\ tok' = WordEnd(tok, first) + 1
  BY DEF Word
<1> HIDE DEF first
<1>11. WordEnd(tok, first) = EndOf(tok)
  BY <1>1, <1>3, <1>6, <1>8, <1>9, WordEndMeans
<1>12. /\ cmd' = [cmd EXCEPT !.args = Append(@, Piece(tok))] /\ tok' = EndOf(tok) + 1
  BY <1>10, <1>11 DEF Piece
<1> DEFINE e == EndOf(tok)
           args == Append(cmd.args, Piece(tok))
<1>13. /\ e \in tok .. Len(line)
       /\ \A k \in tok .. e : IsWord(k)
       /\ Boundary(e + 1)
  BY <1>1, <1>3, <1>6, EndOfIs, WordRun DEF Heading
<1>14. ArgumentsRead(args, start, e + 1)
  <2>1. cmd.args \in Seq(Seq(1 .. Len(line)))
    BY <1>1 DEF Commands
  <2> QED BY <1>1, <1>3, <1>5, <1>6, <2>1, WordRead
<1>15. cmd'.args = args /\ cmd'.in = cmd.in /\ cmd'.out = cmd.out /\ tok' = e + 1
  BY <1>1, <1>12 DEF Commands
<1> HIDE DEF e, args
<1>16. e \in Nat /\ tok <= e + 1 /\ (e + 1) - 1 = e /\ e + 1 \in Nat
  BY <1>3, <1>13
<1>17. (ArgumentsRead(cmd.args, start, tok))'
  <2>1. line' = line /\ start' = start
    BY <1>2
  <2> QED BY <1>14, <1>15, <2>1, SameArguments
<1>18. \A k \in tok .. e : Type(k) # "PIPE" /\ \A side : ~Opens(k, side)
  BY <1>13 DEF IsWord, Opens, Operators
<1>19. \A side : SidesIn(start, e + 1, side) = SidesIn(start, tok, side)
  BY <1>3, <1>16, <1>18, NoSideRead
<1>20. (SideRead(cmd.in, STDIN, start, tok, "in") /\ SideRead(cmd.out, STDOUT, start, tok, "out"))'
  <2>1. /\ SideRead(cmd.in, STDIN, start, tok, "in")
        /\ SideRead(cmd.out, STDOUT, start, tok, "out")
    BY <1>4 DEF CommandRead
  <2>2. \A a, b, s : SidesIn(a, b, s)' = SidesIn(a, b, s)
    BY <1>2, SameReading
  <2>3. \A i : Opened(i)' = Opened(i)
    BY <1>2, SameReading
  <2> QED BY <1>2, <1>15, <1>19, <2>1, <2>2, <2>3 DEF SideRead
<1>21. \A j \in start .. e : Type(j) # "PIPE"
  <2>1. \A j \in start .. e : j \in start .. tok - 1 \/ j \in tok .. e
    BY <1>3, <1>16
  <2> QED BY <1>5, <1>18, <2>1
<1>22. (\A j \in start .. tok - 1 : Type(j) # "PIPE")'
  BY <1>2, <1>15, <1>16, <1>21 DEF Type
<1>23. (start <= tok)' /\ Boundary(tok)'
  <2>1. \A i : Boundary(i)' <=> Boundary(i)
    BY <1>2, SameReading
  <2>2. start <= e + 1
    BY <1>3, <1>5, <1>16
  <2> QED BY <1>2, <1>13, <1>15, <2>1, <2>2
<1>24. CommandRead'
  BY <1>17, <1>20, <1>22, <1>23 DEF CommandRead
<1>25. \A c \in DOMAIN table : CommandMeant(c)'
  <2>1. Owned(table, OpenMax)
    BY <1>1 DEF Descriptors
  <2> QED BY <1>1, <1>2, <1>4, <2>1, MeaningKept
<1>26. Starts'
  BY <1>2, <1>4, SameReading DEF Starts
<1> QED BY <1>2, <1>4, <1>24, <1>25, <1>26 DEF LineRead

\* The command that ends is the next one of the line.
LEMMA CommandEnds ==
    ASSUME TableInv, LineRead, pc = "build", tok <= Len(line) => Type(tok) = "PIPE"
    PROVE  LET n == Len(table) + 1
           IN  /\ Members(n) = start .. tok - 1
               /\ { cmd.args[k] : k \in DOMAIN cmd.args } = { Piece(h) : h \in Heads(n) }
               /\ \A k, l \in DOMAIN cmd.args : k < l => cmd.args[k][1] < cmd.args[l][1]
               /\ cmd.args = << >> <=> Heads(n) = {}
               /\ cmd.args # << >> =>
                    fds[cmd.in] = Target(n, "in") /\ fds[cmd.out] = Target(n, "out")
<1> DEFINE n == Len(table) + 1
<1>1. TypeOK /\ Core /\ cmd \in Commands
  BY DEF TableInv, Typed
<1>2. /\ start \in 1 .. Len(line) /\ tok \in 1 .. Len(line) + 1
  BY <1>1 DEF Core
<1>3. /\ CommandRead /\ Starts
      /\ \A g \in 0 .. STDERR : fds[g] = Tty
  BY DEF LineRead
<1>4. /\ start <= tok
      /\ \A j \in start .. tok - 1 : Type(j) # "PIPE"
      /\ ArgumentsRead(cmd.args, start, tok)
      /\ SideRead(cmd.in, STDIN, start, tok, "in")
      /\ SideRead(cmd.out, STDOUT, start, tok, "out")
  BY <1>3 DEF CommandRead
<1>5. Number(start) = n /\ (start = 1 \/ Type(start - 1) = "PIPE")
  BY <1>3 DEF Starts
<1>6. Members(n) = start .. tok - 1
  <2>1. Members(Number(start)) = start .. tok - 1
    BY <1>1, <1>2, <1>4, <1>5, MembersBetween
  <2> QED BY <1>5, <2>1
<1> HIDE DEF n
<1>7. Heads(n) = HeadsIn(start, tok)
  BY <1>6 DEF Heads, HeadsIn, Heading
<1>8. { cmd.args[k] : k \in DOMAIN cmd.args } = { Piece(h) : h \in Heads(n) }
  BY <1>4, <1>7 DEF ArgumentsRead
<1>9. cmd.args = << >> <=> Heads(n) = {}
  <2>1. cmd.args \in Seq(Seq(1 .. Len(line)))
    BY <1>1 DEF Commands
  <2>2. cmd.args = << >> <=> DOMAIN cmd.args = {}
    <3>1. Len(cmd.args) \in Nat /\ DOMAIN cmd.args = 1 .. Len(cmd.args)
      BY <2>1, LenProperties
    <3>2. cmd.args = << >> <=> Len(cmd.args) = 0
      BY <2>1, EmptySeq
    <3>3. ASSUME NEW x \in Nat PROVE 1 .. x = {} <=> x = 0
      <4>1. x # 0 => 1 \in 1 .. x
        OBVIOUS
      <4>2. x = 0 => 1 .. x = {}
        OBVIOUS
      <4> QED BY <4>1, <4>2
    <3> QED BY <3>1, <3>2, <3>3
  <2>3. DOMAIN cmd.args = {} <=> Heads(n) = {}
    BY <1>8
  <2> QED BY <2>2, <2>3
<1>10. \A side : Sides(n, side) = SidesIn(start, tok, side)
  BY <1>6 DEF Sides, SidesIn, Opens
<1>11. ASSUME NEW side, NEW fd, NEW std \in 0 .. STDERR, cmd.args # << >>,
              SideRead(fd, std, start, tok, side)
       PROVE  fds[fd] = Target(n, side)
  <2>1. Heads(n) # {}
    BY <1>9, <1>11
  <2>2. CASE Sides(n, side) = {} /\ fd = std
    BY <1>3, <2>2 DEF Target
  <2>3. CASE \E i \in Sides(n, side) : (\A j \in Sides(n, side) : j <= i) /\ fds[fd] = Opened(i)
    <3>1. PICK i \in Sides(n, side) : (\A j \in Sides(n, side) : j <= i) /\ fds[fd] = Opened(i)
      BY <2>3
    <3> DEFINE last == CHOOSE x \in Sides(n, side) : \A j \in Sides(n, side) : j <= x
    <3>2. last \in Sides(n, side) /\ \A j \in Sides(n, side) : j <= last
      BY <3>1
    <3>3. \A j \in Sides(n, side) : j \in Int
      BY <1>1, LineIsTokens DEF Sides, Members
    <3>4. last = i
      <4>1. last <= i /\ i <= last /\ last \in Int /\ i \in Int
        BY <3>1, <3>2, <3>3
      <4> HIDE DEF last
      <4> QED BY <4>1
    <3>5. Target(n, side) = << IF Type(last) = "HEREDOC" THEN "doc" ELSE "file", last >>
      BY <2>1, <3>1 DEF Target
    <3> QED BY <3>1, <3>4, <3>5 DEF Opened
  <2> QED BY <1>10, <1>11, <2>2, <2>3 DEF SideRead
<1>12. STDIN \in 0 .. STDERR /\ STDOUT \in 0 .. STDERR
  BY Numbers
<1>13. cmd.args # << >> => fds[cmd.in] = Target(n, "in") /\ fds[cmd.out] = Target(n, "out")
  BY <1>4, <1>11, <1>12
<1>14. \A k, l \in DOMAIN cmd.args : k < l => cmd.args[k][1] < cmd.args[l][1]
  BY <1>4 DEF ArgumentsRead
<1> QED BY <1>6, <1>8, <1>9, <1>13, <1>14 DEF n

\* The command behind a pipe has the next number.
LEMMA NextStarts ==
    ASSUME TableInv, EndCommand, Starts, pc' = "begin"
    PROVE  Starts'
<1>1. TypeOK /\ Core /\ table \in Seq(Commands)
  BY DEF TableInv, Typed
<1>2. line' = line /\ Pipes(start) # {} /\ start' = NextPipe(start) + 1
  BY DEF EndCommand
<1>3. start \in 1 .. Len(line) /\ start \in Nat /\ Len(line) \in Nat
  BY <1>1, LineIsTokens DEF Core
<1>4. /\ NextPipe(start) \in start .. Len(line) /\ Type(NextPipe(start)) = "PIPE"
      /\ \A k \in Pipes(start) : NextPipe(start) <= k
  BY <1>1, <1>2, <1>3, NextPipes
<1>5. PICK p \in start .. Len(line) : p = NextPipe(start)
  BY <1>4
<1>6. /\ start' = p + 1 /\ p \in 1 .. Len(line) /\ p \in Nat /\ Type(p) = "PIPE"
      /\ \A k \in Pipes(start) : p <= k
  BY <1>2, <1>3, <1>4, <1>5
<1>7. Number(p + 1) = Number(p) + 1
  BY <1>1, <1>6, NumberPastPipe
<1>8. Number(start) = Number(p)
  <2>1. start \in 1 .. Len(line) + 1 /\ p \in 1 .. Len(line) + 1 /\ start <= p
    BY <1>3, <1>5
  <2>2. ASSUME NEW j \in start .. p - 1, Type(j) = "PIPE" PROVE FALSE
    <3>1. j \in Pipes(start) /\ j < p /\ j \in Nat
      BY <1>3, <1>6, <2>2 DEF Pipes
    <3> QED BY <1>6, <3>1
  <2> QED BY <1>1, <2>1, <2>2, NumberGrows
<1>9. Number(start) = Len(table) + 1
  BY DEF Starts
<1>10. start' - 1 = p /\ Number(p + 1) = Len(table) + 2
  <2>1. Len(table) \in Nat
    BY <1>1, LenProperties
  <2> QED BY <1>6, <1>7, <1>8, <1>9, <2>1
<1>11. \A i : Number(i)' = Number(i) /\ Type(i)' = Type(i)
  BY <1>2, SameReading
<1>12. Len(table)' = Len(table) + 1
  <2> SUFFICES ASSUME NEW c \in Commands, table' = Append(table, c) PROVE Len(table') = Len(table) + 1
    <3>1. STDIN \in Fds \cup { -1 } /\ STDOUT \in Fds \cup { -1 } /\ cmd \in Commands
      BY Numbers DEF TableInv, Typed
    <3>2. [cmd EXCEPT !.in = STDIN, !.out = STDOUT] \in Commands
      BY <3>1 DEF Commands
    <3> QED BY <3>1, <3>2 DEF EndCommand
  <2> QED BY <1>1, AppendProperties, LenProperties
<1>13. Number(start)' = Len(table) + 2
  BY <1>6, <1>10, <1>11
<1>14. (Type(start - 1) = "PIPE")'
  BY <1>6, <1>10, <1>11
<1>15. Len(table) \in Nat
  BY <1>1, LenProperties
<1>16. Len(table)' + 1 = Len(table) + 2
  BY <1>12, <1>15
<1> QED BY <1>13, <1>14, <1>16 DEF Starts

LEMMA EndCommandMeaning == TableInv /\ Meaning /\ EndCommand => Meaning'
<1> SUFFICES ASSUME TableInv, Meaning, EndCommand, Plain PROVE LineRead'
  BY SameReading DEF Meaning, EndCommand
<1>1. TypeOK /\ Core /\ Places /\ Descriptors /\ cmd \in Commands /\ table \in Seq(Commands)
  BY DEF TableInv, Typed
<1>2. pc = "build" /\ (tok <= Len(line) => Type(tok) = "PIPE") /\ line' = line
  BY DEF EndCommand
<1>3. /\ start \in 1 .. Len(line) /\ start \in Nat /\ tok \in 1 .. Len(line) + 1 /\ tok \in Nat
      /\ Len(line) \in Nat /\ SyntaxCorrect
  BY <1>1, <1>2, LineIsTokens DEF Core, Places
<1>4. LineRead
  BY <1>2 DEF Meaning
<1>5. /\ CommandRead /\ Starts
      /\ \A c \in DOMAIN table : CommandMeant(c)
      /\ \A g \in 0 .. STDERR : fds[g] = Tty
  BY <1>4, <1>2 DEF LineRead
<1>6. /\ start <= tok
      /\ \A j \in start .. tok - 1 : Type(j) # "PIPE"
  BY <1>5 DEF CommandRead
<1> DEFINE n == Len(table) + 1
<1>7. /\ { cmd.args[k] : k \in DOMAIN cmd.args } = { Piece(h) : h \in Heads(n) }
      /\ \A k, l \in DOMAIN cmd.args : k < l => cmd.args[k][1] < cmd.args[l][1]
      /\ cmd.args = << >> <=> Heads(n) = {}
      /\ cmd.args # << >> => fds[cmd.in] = Target(n, "in") /\ fds[cmd.out] = Target(n, "out")
  BY <1>4, <1>2, CommandEnds
<1>8. \E c \in Commands :
        /\ table' = Append(table, c) /\ c.args = cmd.args
        /\ fds'[c.in] = Target(n, "in") /\ fds'[c.out] = Target(n, "out")
        /\ \A g \in 0 .. STDERR : fds'[g] = fds[g]
        /\ \A g \in AllRedirs : fds'[g] = fds[g]
  <2>1. CASE cmd.args = << >>
    <3> DEFINE c == [cmd EXCEPT !.in = STDIN, !.out = STDOUT]
    <3>1. table' = Append(table, c) /\ fds' = Close(fds, Redirs(cmd))
      BY <2>1 DEF EndCommand
    <3>2. STDIN \in Fds \cup { -1 } /\ STDOUT \in Fds \cup { -1 }
      BY Numbers
    <3>3. c \in Commands /\ c.args = cmd.args /\ c.in = STDIN /\ c.out = STDOUT
      BY <1>1, <3>2 DEF Commands
    <3>4. \A g \in Fds : g \notin Redirs(cmd) => fds'[g] = fds[g]
      BY <1>1, <3>1, TableOfFds DEF Close
    <3>5. Redirs(cmd) \cap 0 .. STDERR = {} /\ Redirs(cmd) \cap AllRedirs = {}
      BY <1>1, <1>2, Numbers DEF Descriptors, SideHeld, Redirs
    <3>6. AllRedirs \subseteq Fds
      BY <1>1, TableHolds, Numbers DEF Descriptors
    <3>7. /\ \A g \in 0 .. STDERR : fds'[g] = fds[g]
          /\ \A g \in AllRedirs : fds'[g] = fds[g]
      BY <3>4, <3>5, <3>6, Numbers
    <3>8. \A side : Target(n, side) = Tty
      BY <1>7, <2>1 DEF Target
    <3>9. fds'[STDIN] = Tty /\ fds'[STDOUT] = Tty
      BY <1>5, <3>7, Numbers
    <3> HIDE DEF c
    <3> QED BY <3>1, <3>3, <3>7, <3>8, <3>9
  <2>2. CASE cmd.args # << >>
    <3>1. table' = Append(table, cmd) /\ fds' = fds
      BY <2>2 DEF EndCommand
    <3> QED BY <1>1, <1>7, <2>2, <3>1
  <2> QED BY <2>1, <2>2
<1>9. PICK c \in Commands :
        /\ table' = Append(table, c) /\ c.args = cmd.args
        /\ fds'[c.in] = Target(n, "in") /\ fds'[c.out] = Target(n, "out")
        /\ \A g \in 0 .. STDERR : fds'[g] = fds[g]
        /\ \A g \in AllRedirs : fds'[g] = fds[g]
  BY <1>8
<1> HIDE DEF n
<1>10. /\ Len(table) \in Nat /\ DOMAIN table = 1 .. Len(table)
       /\ DOMAIN table' = 1 .. Len(table) + 1 /\ Len(table') = Len(table) + 1
       /\ \A i \in 1 .. Len(table) : table'[i] = table[i]
       /\ table'[Len(table) + 1] = c
  BY <1>1, <1>9, AppendProperties, LenProperties
<1>11. PICK m \in Nat : m = Len(table) + 1 /\ m = n
  BY <1>10 DEF n
<1>12. \A i \in DOMAIN table : CommandMeant(i)'
  <2>1. Owned(table, OpenMax) /\ \A i \in DOMAIN table : table'[i] = table[i]
    BY <1>1, <1>10 DEF Descriptors
  <2> QED BY <1>1, <1>2, <1>5, <1>9, <2>1, MeaningKept
<1>13. CommandMeant(m)'
  <2>1. table'[m] = c
    BY <1>10, <1>11
  <2>2. /\ Heads(m)' = Heads(m) /\ Target(m, "in")' = Target(m, "in")
        /\ Target(m, "out")' = Target(m, "out") /\ \A h : Piece(h)' = Piece(h)
    BY <1>2, SameReading
  <2>3. { Piece(h) : h \in Heads(m) }' = { Piece(h) : h \in Heads(m) }
    BY <2>2
  <2>4. { table[m].args[k] : k \in DOMAIN table[m].args }' = { cmd.args[k] : k \in DOMAIN cmd.args }
    BY <1>9, <2>1
  <2>5. (\A k, l \in DOMAIN table[m].args : k < l => table[m].args[k][1] < table[m].args[l][1])'
    BY <1>7, <1>9, <2>1
  <2>6. (fds[table[m].in] = Target(m, "in") /\ fds[table[m].out] = Target(m, "out"))'
    BY <1>9, <1>11, <2>1, <2>2
  <2> QED BY <1>7, <1>11, <2>3, <2>4, <2>5, <2>6 DEF CommandMeant
<1>14. \A i \in DOMAIN table' : CommandMeant(i)'
  <2>1. \A i \in DOMAIN table' : i \in DOMAIN table \/ i = m
    BY <1>10, <1>11
  <2> QED BY <1>12, <1>13, <2>1
<1>15. \A g \in 0 .. STDERR : fds'[g] = Tty
  BY <1>5, <1>9
<1>16. \A i : Number(i)' = Number(i) /\ Type(i)' = Type(i) /\ Pipes(i)' = Pipes(i)
  BY <1>2, SameReading
<1>17. CASE pc' = "begin"
  <2>1. Starts'
    BY <1>5, <1>17, NextStarts
  <2> QED BY <1>14, <1>15, <1>17, <2>1 DEF LineRead
<1>18. CASE Pipes(start) = {} /\ pc' = "finish"
  <2>1. Number(start) = Cardinality(Pipes(1)) + 1
    BY <1>1, <1>3, <1>18, LastNumber
  <2>2. Number(start) = Len(table)'
    BY <1>5, <1>10 DEF Starts
  <2>3. Cardinality(Pipes(1))' = Cardinality(Pipes(1))
    BY <1>16
  <2>4. (Len(table) = Cardinality(Pipes(1)) + 1)'
    BY <2>1, <2>2, <2>3
  <2> QED BY <1>14, <1>15, <1>18, <2>4 DEF LineRead
<1> QED BY <1>17, <1>18 DEF EndCommand

LEMMA InitStarts == Init => Starts
<1> SUFFICES ASSUME Init PROVE Starts
  OBVIOUS
<1>1. start = 1 /\ table = << >> /\ Len(table) = 0
  BY DEF Init
<1>2. { j \in 1 .. start - 1 : Type(j) = "PIPE" } = {}
  BY <1>1
<1>3. Number(start) = 1 + Cardinality({})
  BY <1>2, Zenon DEF Number
<1>4. Number(start) = 1
  BY <1>3, FS_EmptySet
<1> QED BY <1>1, <1>4 DEF Starts

LEMMA InitMeaning == Init => Meaning
<1> SUFFICES ASSUME Init PROVE LineRead
  BY DEF Meaning
<1>1. pc = "scan" /\ table = << >> /\ DOMAIN table = {}
  BY DEF Init
<1>2. \A g \in 0 .. STDERR : fds[g] = Tty
  <2>1. \A g \in 0 .. STDERR : g \in Fds /\ g <= STDERR
    BY Numbers
  <2> QED BY <2>1 DEF Init
<1> QED BY <1>1, <1>2, InitStarts DEF LineRead

\* Steps that read nothing.
LEMMA SameMeaning ==
    ASSUME TableInv, Meaning, UNCHANGED << line, start, table, fds >>,
           \/ pc = "scan" /\ pc' = "begin"
           \/ pc = "finish" /\ pc' = "handed"
           \/ pc' \in { "fail", "rejected" }
    PROVE  Meaning'
<1> SUFFICES ASSUME Plain, pc' \notin { "fail", "rejected" } PROVE LineRead'
  BY SameReading DEF Meaning
<1>1. TypeOK /\ Descriptors /\ table \in Seq(Commands) /\ Owned(table, OpenMax)
  BY DEF TableInv, Typed, Descriptors
<1>2. LineRead
  BY DEF Meaning
<1>3. \A c \in DOMAIN table : CommandMeant(c)'
  BY <1>1, <1>2, MeaningKept DEF LineRead
<1>4. Starts' <=> Starts
  BY SameReading DEF Starts
<1>5. Cardinality(Pipes(1))' = Cardinality(Pipes(1))
  BY SameReading
<1> QED BY <1>2, <1>3, <1>4, <1>5 DEF LineRead

LEMMA BeginMeaning == TableInv /\ Meaning /\ Begin => Meaning'
<1> SUFFICES ASSUME TableInv, Meaning, Begin, Plain PROVE LineRead'
  BY SameReading DEF Meaning, Begin
<1>1. TypeOK /\ Core /\ Places /\ Descriptors /\ table \in Seq(Commands) /\ Owned(table, OpenMax)
  BY DEF TableInv, Typed, Descriptors
<1>2. /\ pc = "begin" /\ pc' = "build" /\ tok' = start
      /\ UNCHANGED << line, start, table, fds >>
  BY DEF Begin
<1>3. LineRead
  BY <1>2 DEF Meaning
<1>4. \A c \in DOMAIN table : CommandMeant(c)'
  BY <1>1, <1>2, <1>3, MeaningKept DEF LineRead
<1>5. Starts /\ (Starts' <=> Starts)
  BY <1>2, <1>3, SameReading DEF Starts, LineRead
<1>6. cmd'.args = << >> /\ cmd'.in = STDIN /\ cmd'.out = STDOUT
  BY DEF Begin, NoCommand
<1>7. start \in 1 .. Len(line) /\ start \in Nat /\ SyntaxCorrect
  BY <1>1, <1>2, LineIsTokens DEF Core, Places
<1>8. Boundary(start)
  BY <1>1, <1>5, <1>7, CommandStarts DEF Starts
<1>9. ArgumentsRead(<< >>, start, start)
  <2>1. HeadsIn(start, start) = {}
    BY <1>7 DEF HeadsIn
  <2> QED BY <2>1 DEF ArgumentsRead
<1>10. (ArgumentsRead(cmd.args, start, tok))'
  BY <1>2, <1>6, <1>9, SameArguments
<1>11. \A side : SidesIn(start, start, side) = {}
  BY <1>7 DEF SidesIn
<1>12. (SideRead(cmd.in, STDIN, start, tok, "in") /\ SideRead(cmd.out, STDOUT, start, tok, "out"))'
  <2>1. \A a, b, s : SidesIn(a, b, s)' = SidesIn(a, b, s)
    BY <1>2, SameReading
  <2> QED BY <1>2, <1>6, <1>11, <2>1 DEF SideRead
<1>13. (start <= tok /\ \A j \in start .. tok - 1 : Type(j) # "PIPE")'
  BY <1>2, <1>7
<1>14. Boundary(tok)'
  <2>1. \A i : Boundary(i)' <=> Boundary(i)
    BY <1>2, SameReading
  <2> QED BY <1>2, <1>8, <2>1
<1>15. CommandRead'
  BY <1>10, <1>12, <1>13, <1>14 DEF CommandRead
<1> QED BY <1>2, <1>3, <1>4, <1>5, <1>15 DEF LineRead

LEMMA MeaningStutters == TableInv /\ Meaning /\ UNCHANGED vars => Meaning'
<1> SUFFICES ASSUME TableInv, Meaning, UNCHANGED vars, Plain, pc \notin { "fail", "rejected" } PROVE LineRead'
  BY SameReading DEF Meaning, vars
<1>1. UNCHANGED << line, pc, start, tok, cmd, table, fds >>
  BY DEF vars
<1>2. LineRead
  BY DEF Meaning
<1>3. TypeOK /\ table \in Seq(Commands) /\ Owned(table, OpenMax)
  BY DEF TableInv, Typed, Descriptors
<1>4. \A c \in DOMAIN table : CommandMeant(c)'
  BY <1>1, <1>2, <1>3, MeaningKept DEF LineRead
<1>5. Starts' <=> Starts
  BY <1>1, SameReading DEF Starts
<1>6. Cardinality(Pipes(1))' = Cardinality(Pipes(1))
  BY <1>1, SameReading
<1>7. ASSUME CommandRead PROVE CommandRead'
  <2>1. (ArgumentsRead(cmd.args, start, tok))'
    BY <1>1, <1>7, SameArguments DEF CommandRead
  <2>2. \A a, b, s : SidesIn(a, b, s)' = SidesIn(a, b, s)
    BY <1>1, SameReading
  <2>3. \A i : Opened(i)' = Opened(i)
    BY <1>1, SameReading
  <2>4. (SideRead(cmd.in, STDIN, start, tok, "in") /\ SideRead(cmd.out, STDOUT, start, tok, "out"))'
    BY <1>1, <1>7, <2>2, <2>3 DEF SideRead, CommandRead
  <2>5. (start <= tok /\ \A j \in start .. tok - 1 : Type(j) # "PIPE")'
    BY <1>1, <1>7 DEF CommandRead, Type
  <2>6. Boundary(tok)'
    BY <1>1, <1>7, SameReading DEF CommandRead
  <2> QED BY <2>1, <2>4, <2>5, <2>6 DEF CommandRead
<1> QED BY <1>1, <1>2, <1>4, <1>5, <1>6, <1>7 DEF LineRead

LEMMA MeaningNext == TableInv /\ Meaning /\ [Next]_vars => Meaning'
<1> SUFFICES ASSUME TableInv, Meaning, [Next]_vars PROVE Meaning'
  OBVIOUS
<1>1. CASE Scan
  <2>1. /\ pc = "scan" /\ UNCHANGED << line, start, table, fds >>
        /\ pc' \in { "begin", "rejected" }
    BY <1>1 DEF Scan
  <2> QED BY <2>1, SameMeaning
<1>2. CASE HandOver
  BY <1>2, SameMeaning DEF HandOver
<1>3. CASE NoMemory \/ RedirectFails \/ HereDocumentFails \/ GiveUp
  <2>1. pc' \in { "fail", "rejected" }
    BY <1>3 DEF NoMemory, RedirectFails, HereDocumentFails, GiveUp
  <2> QED BY <2>1 DEF Meaning
<1> QED BY <1>1, <1>2, <1>3, BeginMeaning, RedirectMeaning, HereDocumentMeaning,
           WordMeaning, EndCommandMeaning, MeaningStutters DEF Next, Over

-----------------------------------------------------------------------------
(* What a command takes lies between its pipes, on a line that keeps its    *)
(* pipes apart.                                                             *)

Within(args, S) == \A k \in DOMAIN args : \A j \in DOMAIN args[k] : args[k][j] \in S

Apart ==
    PipesApart =>
        /\ pc \in { "scan", "begin", "build" } => Starts
        /\ \A c \in DOMAIN table : Within(table[c].args, Members(c))
        /\ pc = "build" => Within(cmd.args, start .. tok - 1)

LEMMA WithinMore ==
    ASSUME NEW args, NEW S, NEW T, Within(args, S), S \subseteq T
    PROVE  Within(args, T)
BY DEF Within

\* Steps that add no argument and end no command.
LEMMA SameApart ==
    ASSUME TableInv, Apart, line' = line, start' = start,
           \/ pc = "scan" /\ pc' = "begin" /\ table' = table
           \/ pc = "begin" /\ pc' = "build" /\ table' = table /\ cmd'.args = << >>
           \/ /\ pc = "build" /\ pc' = "build" /\ table' = table
              /\ cmd'.args = cmd.args /\ tok <= tok' /\ tok' \in Nat
           \/ pc' \notin { "scan", "begin", "build" } /\ (table' = table \/ table' = << >>)
           \/ UNCHANGED << pc, tok, cmd, table >>
    PROVE  Apart'
<1> SUFFICES ASSUME PipesApart PROVE Apart'
  BY SameLine DEF Apart
<1>1. TypeOK /\ Core
  BY DEF TableInv, Typed
<1>2. \A c : Members(c)' = Members(c)
  BY SameReading
<1>3. (\A c \in DOMAIN table : Within(table[c].args, Members(c)))'
  <2>1. CASE table' = table
    BY <1>2, <2>1 DEF Apart, Within
  <2>2. CASE table' = << >>
    <3>1. DOMAIN table' = {}
      BY <2>2, EmptySeq, LenProperties
    <3> QED BY <3>1
  <2> QED BY <2>1, <2>2
<1>4. (pc \in { "scan", "begin", "build" } => Starts)'
  <2> SUFFICES ASSUME pc' \in { "scan", "begin", "build" } PROVE Starts'
    OBVIOUS
  <2>1. pc \in { "scan", "begin", "build" } /\ table' = table
    OBVIOUS
  <2>2. Starts
    BY <2>1 DEF Apart
  <2> QED BY <2>1, <2>2, SameReading DEF Starts
<1>5. \A S : Within(<< >>, S)
  BY EmptySeq, LenProperties DEF Within
<1>6. (pc = "build" => Within(cmd.args, start .. tok - 1))'
  <2> SUFFICES ASSUME pc' = "build" PROVE Within(cmd.args, start .. tok - 1)'
    OBVIOUS
  <2>1. CASE pc = "begin" /\ cmd'.args = << >>
    BY <1>5, <2>1 DEF Within
  <2>2. CASE pc = "build" /\ cmd'.args = cmd.args /\ tok <= tok' /\ tok' \in Nat
    <3>1. Within(cmd.args, start .. tok - 1)
      BY <2>2 DEF Apart
    <3>2. PICK t \in Nat : t = tok'
      BY <2>2
    <3>3. start \in Nat /\ tok \in Nat /\ tok <= t
      BY <1>1, <2>2, <3>2, LineIsTokens DEF Core
    <3>4. start .. tok - 1 \subseteq start .. t - 1
      BY <3>3
    <3>5. Within(cmd.args, start .. t - 1)
      BY <3>1, <3>4, WithinMore
    <3> QED BY <2>2, <3>2, <3>5 DEF Within
  <2>3. CASE UNCHANGED << pc, tok, cmd, table >>
    BY <2>3 DEF Apart, Within
  <2> QED BY <2>1, <2>2, <2>3
<1> QED BY <1>3, <1>4, <1>6 DEF Apart

LEMMA WordApart == TableInv /\ Apart /\ Word => Apart'
<1> SUFFICES ASSUME TableInv, Apart, Word, PipesApart PROVE Apart'
  BY SameLine DEF Apart, Word
<1>1. TypeOK /\ Core /\ Places /\ cmd \in Commands
  BY DEF TableInv, Typed
<1>2. pc = "build" /\ tok <= Len(line) /\ UNCHANGED << line, pc, start, table >>
  BY DEF Word
<1>3. /\ start \in Nat /\ tok \in Nat /\ tok \in 1 .. Len(line) /\ Len(line) \in Nat /\ start <= tok
  BY <1>1, <1>2, LineIsTokens DEF Core, Places
<1>4. Starts /\ Within(cmd.args, start .. tok - 1)
  BY <1>2 DEF Apart
<1> DEFINE first == (cmd.args = << >>)
           last == WordEnd(tok, first)
           piece == [k \in 1 .. last - tok + 1 |-> tok + k - 1]
<1>5. /\ cmd' = [cmd EXCEPT !.args = Append(@, piece)] /\ tok' = last + 1
  BY DEF Word
<1>6. last \in tok .. Len(line) /\ last \in Nat
  <2>1. first \in BOOLEAN
    OBVIOUS
  <2> HIDE DEF first
  <2>2. WordEnd(tok, first) \in tok .. Len(line)
    BY <1>1, <1>3, <2>1, WordEnds
  <2> QED BY <1>3, <2>2
<1> HIDE DEF last
<1>7. /\ piece \in Seq(1 .. Len(line))
      /\ \A j \in DOMAIN piece : piece[j] \in start .. last
  <2>1. last - tok + 1 \in Nat
    BY <1>3, <1>6
  <2>2. \A k \in 1 .. last - tok + 1 : tok + k - 1 \in 1 .. Len(line) /\ tok + k - 1 \in start .. last
    BY <1>3, <1>6
  <2> QED BY <2>1, <2>2, IsASeq
<1> HIDE DEF piece
<1>8. cmd.args \in Seq(Seq(1 .. Len(line))) /\ cmd'.args = Append(cmd.args, piece)
  BY <1>1, <1>5 DEF Commands
<1>9. Within(cmd'.args, start .. last)
  <2>1. /\ DOMAIN cmd.args = 1 .. Len(cmd.args) /\ DOMAIN cmd'.args = 1 .. Len(cmd.args) + 1
        /\ Len(cmd.args) \in Nat
        /\ \A k \in 1 .. Len(cmd.args) : cmd'.args[k] = cmd.args[k]
        /\ cmd'.args[Len(cmd.args) + 1] = piece
    BY <1>7, <1>8, AppendProperties, LenProperties
  <2>2. start .. tok - 1 \subseteq start .. last
    BY <1>3, <1>6
  <2>3. Within(cmd.args, start .. last)
    BY <1>4, <2>2, WithinMore
  <2>4. \A k \in DOMAIN cmd'.args : k \in DOMAIN cmd.args \/ k = Len(cmd.args) + 1
    BY <2>1
  <2> QED BY <1>7, <2>1, <2>3, <2>4 DEF Within
<1>10. (Within(cmd.args, start .. tok - 1))'
  <2>1. (last + 1) - 1 = last
    BY <1>6
  <2> QED BY <1>2, <1>5, <1>9, <2>1 DEF Within
<1>11. \A c : Members(c)' = Members(c)
  BY <1>2, SameReading
<1>12. (\A c \in DOMAIN table : Within(table[c].args, Members(c)))'
  BY <1>2, <1>11 DEF Apart, Within
<1>13. Starts'
  BY <1>2, <1>4, SameReading DEF Starts
<1> QED BY <1>10, <1>12, <1>13 DEF Apart

LEMMA EndCommandApart == TableInv /\ Apart /\ EndCommand => Apart'
<1> SUFFICES ASSUME TableInv, Apart, EndCommand, PipesApart PROVE Apart'
  BY SameLine DEF Apart, EndCommand
<1>1. TypeOK /\ Core /\ Places /\ Index /\ cmd \in Commands /\ table \in Seq(Commands)
  BY DEF TableInv, Typed
<1>2. /\ pc = "build" /\ (tok <= Len(line) => Type(tok) = "PIPE") /\ line' = line
      /\ pc' \in { "begin", "finish" }
  BY DEF EndCommand
<1>3. Starts /\ Within(cmd.args, start .. tok - 1)
  BY <1>2 DEF Apart
<1>4. \A j \in start .. tok - 1 : Type(j) # "PIPE"
  BY <1>1, <1>2 DEF Index
<1>5. Members(Len(table) + 1) = start .. tok - 1
  <2>1. start \in 1 .. Len(line) /\ tok \in 1 .. Len(line) + 1 /\ start <= tok
    BY <1>1, <1>2 DEF Core, Places
  <2>2. Members(Number(start)) = start .. tok - 1
    BY <1>1, <1>2, <1>3, <1>4, <2>1, MembersBetween DEF Starts
  <2> QED BY <1>3, <2>2 DEF Starts
<1>6. \E c \in Commands : table' = Append(table, c) /\ c.args = cmd.args
  <2>1. STDIN \in Fds \cup { -1 } /\ STDOUT \in Fds \cup { -1 }
    BY Numbers
  <2>2. /\ [cmd EXCEPT !.in = STDIN, !.out = STDOUT] \in Commands
        /\ [cmd EXCEPT !.in = STDIN, !.out = STDOUT].args = cmd.args
    BY <1>1, <2>1 DEF Commands
  <2> QED BY <1>1, <2>2 DEF EndCommand
<1>7. PICK c \in Commands : table' = Append(table, c) /\ c.args = cmd.args
  BY <1>6
<1>8. /\ Len(table) \in Nat /\ DOMAIN table = 1 .. Len(table)
      /\ DOMAIN table' = 1 .. Len(table) + 1
      /\ \A i \in 1 .. Len(table) : table'[i] = table[i]
      /\ table'[Len(table) + 1] = c
  BY <1>1, <1>7, AppendProperties, LenProperties
<1>9. \A i \in DOMAIN table' : i \in DOMAIN table \/ i = Len(table) + 1
  BY <1>8
<1>10. \A i \in DOMAIN table' : Within(table'[i].args, Members(i))
  BY <1>3, <1>5, <1>7, <1>8, <1>9 DEF Apart
<1>11. \A i : Members(i)' = Members(i)
  BY <1>2, SameReading
<1>12. (\A i \in DOMAIN table : Within(table[i].args, Members(i)))'
  BY <1>10, <1>11 DEF Within
<1>13. pc' = "begin" => Starts'
  BY <1>3, NextStarts
<1> QED BY <1>2, <1>12, <1>13 DEF Apart

LEMMA ApartNext == TableInv /\ Apart /\ [Next]_vars => Apart'
<1> SUFFICES ASSUME TableInv, Apart, [Next]_vars PROVE Apart'
  OBVIOUS
<1>1. TypeOK /\ Core /\ Places /\ cmd \in Commands
  BY DEF TableInv, Typed
<1>2. start \in Nat /\ tok \in Nat /\ Len(line) \in Nat /\ start \in 1 .. Len(line)
  BY <1>1, LineIsTokens DEF Core
<1>3. CASE Scan
  <2>1. /\ line' = line /\ start' = start /\ table' = table /\ pc = "scan"
        /\ pc' \in { "begin", "rejected" }
    BY <1>3 DEF Scan
  <2> QED BY <2>1, SameApart
<1>4. CASE HandOver
  <2>1. line' = line /\ start' = start /\ table' = table /\ pc' = "handed"
    BY <1>4 DEF HandOver
  <2> QED BY <2>1, SameApart
<1>5. CASE NoMemory \/ RedirectFails \/ HereDocumentFails \/ GiveUp
  <2>1. /\ line' = line /\ start' = start /\ pc' \in { "fail", "rejected" }
        /\ (table' = table \/ table' = << >>)
    BY <1>5 DEF NoMemory, RedirectFails, HereDocumentFails, GiveUp
  <2> QED BY <2>1, SameApart
<1>6. CASE Begin
  <2>1. /\ line' = line /\ start' = start /\ table' = table /\ pc = "begin" /\ pc' = "build"
        /\ tok' = start /\ cmd'.args = << >>
    BY <1>6 DEF Begin, NoCommand
  <2> QED BY <1>2, <2>1, SameApart
<1>7. CASE Redirect
  <2>1. /\ line' = line /\ start' = start /\ table' = table /\ pc = "build" /\ pc' = "build"
        /\ tok' = tok + 2
    BY <1>7 DEF Redirect
  <2>2. cmd'.args = cmd.args
    <3>1. Side(Type(tok)) \in { "in", "out" }
      BY DEF Side
    <3>2. PICK side \in { "in", "out" }, fd \in Fds : cmd' = [cmd EXCEPT ![side] = fd]
      BY <1>7, <3>1 DEF Redirect
    <3> QED BY <1>1, <3>2 DEF Commands
  <2>3. start <= tok' /\ tok' \in Nat /\ tok <= tok'
    BY <1>1, <1>2, <2>1 DEF Places
  <2> QED BY <2>1, <2>2, <2>3, SameApart
<1>8. CASE HereDocument
  <2>1. /\ line' = line /\ start' = start /\ table' = table /\ pc = "build" /\ pc' = "build"
        /\ tok' = DelimiterEnd(tok + 1) + 1 /\ tok <= Len(line) /\ Type(tok) = "HEREDOC"
    BY <1>8 DEF HereDocument
  <2>2. cmd'.args = cmd.args
    <3>1. PICK fd \in Fds : cmd' = [cmd EXCEPT !.in = fd]
      BY <1>8 DEF HereDocument
    <3> QED BY <1>1, <3>1 DEF Commands
  <2>3. DelimiterEnd(tok + 1) \in tok + 1 .. Len(line) /\ DelimiterEnd(tok + 1) \in Nat
    BY <1>1, <2>1, Delimiters
  <2>4. start <= tok
    BY <1>1, <2>1 DEF Places
  <2>5. start <= tok' /\ tok' \in Nat /\ tok <= tok'
    BY <1>2, <2>1, <2>3, <2>4
  <2> QED BY <2>1, <2>2, <2>5, SameApart
<1>9. CASE UNCHANGED vars
  <2>1. UNCHANGED << line, pc, start, tok, cmd, table >>
    BY <1>9 DEF vars
  <2> QED BY <2>1, SameApart
<1> QED BY <1>3, <1>4, <1>5, <1>6, <1>7, <1>8, <1>9, WordApart, EndCommandApart DEF Next, Over

-----------------------------------------------------------------------------
(* How many commands there are, on every line: the next pipe is looked for  *)
(* from where a command starts, so this does not depend on what its         *)
(* arguments took.                                                          *)

\* One command for every pipe and one more, and HAS_PIPE, by which
\* repl_parse_and_execute() chooses the executor, says whether there are two.
TableCounted ==
    pc = "handed" =>
        /\ Len(table) = Cardinality(Pipes(1)) + 1
        /\ "HAS_PIPE" \in state <=> Len(table) >= 2

Counted ==
    /\ pc \in { "scan", "begin", "build" } => Starts
    /\ pc \in { "finish", "handed" } => Len(table) = Cardinality(Pipes(1)) + 1
    /\ pc = "scan" => "HAS_PIPE" \notin state
    /\ pc \in { "begin", "build", "finish", "handed" } =>
         ("HAS_PIPE" \in state <=> Pipes(1) # {})

LEMMA SomePipes ==
    ASSUME TypeOK
    PROVE  Cardinality(Pipes(1)) \in Nat /\ (Pipes(1) # {} <=> Cardinality(Pipes(1)) >= 1)
<1>1. Len(line) \in Nat /\ Pipes(1) \subseteq 1 .. Len(line)
  BY LineIsTokens DEF Pipes
<1>2. IsFiniteSet(1 .. Len(line))
  BY <1>1, FS_Interval
<1>3. Cardinality(Pipes(1)) \in Nat /\ (Cardinality(Pipes(1)) = 0 <=> Pipes(1) = {})
  BY <1>1, <1>2, FS_Subset, FS_CardinalityType, FS_EmptySet
<1> QED BY <1>3

\* Steps that leave the table, the state and where the command starts alone.
LEMMA SameCount ==
    ASSUME Counted, UNCHANGED << line, start, table, state >>,
           \/ pc \in { "begin", "build" } /\ pc' \in { "begin", "build", "fail" }
           \/ pc = "finish" /\ pc' = "handed"
           \/ pc' = pc
    PROVE  Counted'
<1>1. \A i : Number(i)' = Number(i) /\ Type(i)' = Type(i) /\ Pipes(i)' = Pipes(i)
  BY SameReading
<1>2. Starts' <=> Starts
  BY <1>1 DEF Starts
<1> QED BY <1>1, <1>2 DEF Counted

LEMMA EndCommandCounted == TableInv /\ Counted /\ EndCommand => Counted'
<1> SUFFICES ASSUME TableInv, Counted, EndCommand PROVE Counted'
  OBVIOUS
<1>1. TypeOK /\ Core /\ cmd \in Commands /\ table \in Seq(Commands)
  BY DEF TableInv, Typed
<1>2. /\ pc = "build" /\ line' = line /\ state' = state
      /\ pc' = "begin" \/ (pc' = "finish" /\ Pipes(start) = {})
  BY DEF EndCommand
<1>3. Starts /\ ("HAS_PIPE" \in state <=> Pipes(1) # {})
  BY <1>2 DEF Counted
<1>4. pc' = "begin" => Starts'
  BY <1>3, NextStarts
<1>5. Pipes(1)' = Pipes(1)
  BY <1>2, SameReading
<1>6. ASSUME pc' = "finish" PROVE (Len(table) = Cardinality(Pipes(1)) + 1)'
  <2>1. start \in 1 .. Len(line) /\ Pipes(start) = {}
    BY <1>1, <1>2, <1>6 DEF Core
  <2>2. Len(table) + 1 = Cardinality(Pipes(1)) + 1
    BY <1>1, <1>3, <2>1, LastNumber DEF Starts
  <2>3. \E c \in Commands : table' = Append(table, c)
    <3>1. STDIN \in Fds \cup { -1 } /\ STDOUT \in Fds \cup { -1 }
      BY Numbers
    <3>2. [cmd EXCEPT !.in = STDIN, !.out = STDOUT] \in Commands
      BY <1>1, <3>1 DEF Commands
    <3> QED BY <1>1, <3>2 DEF EndCommand
  <2>4. Len(table') = Len(table) + 1
    BY <1>1, <2>3, AppendProperties, LenProperties
  <2>5. Len(table') = Cardinality(Pipes(1)) + 1
    BY <2>2, <2>4
  <2> QED BY <1>5, <2>5
<1> QED BY <1>2, <1>3, <1>4, <1>5, <1>6 DEF Counted

LEMMA CountedNext == TableInv /\ Counted /\ [Next]_vars => Counted'
<1> SUFFICES ASSUME TableInv, Counted, [Next]_vars PROVE Counted'
  OBVIOUS
<1>1. CASE Scan
  <2>1. /\ pc = "scan" /\ UNCHANGED << line, start, table >>
        /\ \/ pc' = "begin" /\ state' = state \cup { "HAS_PIPE" : i \in Pipes(1) }
           \/ pc' = "rejected"
    BY <1>1 DEF Scan
  <2>2. Starts /\ "HAS_PIPE" \notin state
    BY <2>1 DEF Counted
  <2>3. /\ \A i : Number(i)' = Number(i) /\ Type(i)' = Type(i) /\ Pipes(i)' = Pipes(i)
    BY <2>1, SameReading
  <2>4. Starts'
    BY <2>1, <2>2, <2>3 DEF Starts
  <2>5. pc' = "begin" => ("HAS_PIPE" \in state' <=> Pipes(1) # {})
    BY <2>1, <2>2
  <2> QED BY <2>1, <2>3, <2>4, <2>5 DEF Counted
<1>2. CASE Begin \/ NoMemory \/ Redirect \/ HereDocument \/ Word \/ HandOver
  <2>1. /\ UNCHANGED << line, start, table, state >>
        /\ \/ pc \in { "begin", "build" } /\ pc' \in { "begin", "build", "fail" }
           \/ pc = "finish" /\ pc' = "handed"
           \/ pc' = pc
    BY <1>2 DEF Begin, NoMemory, Redirect, HereDocument, Word, HandOver
  <2> QED BY <2>1, SameCount
<1>3. CASE RedirectFails \/ HereDocumentFails \/ GiveUp
  <2>1. pc' \in { "fail", "rejected" }
    BY <1>3 DEF RedirectFails, HereDocumentFails, GiveUp
  <2> QED BY <2>1 DEF Counted
<1>4. CASE UNCHANGED vars
  <2>1. UNCHANGED << line, pc, start, table, state >>
    BY <1>4 DEF vars
  <2> QED BY <2>1, SameCount
<1> QED BY <1>1, <1>2, <1>3, <1>4, EndCommandCounted DEF Next, Over

-----------------------------------------------------------------------------
(* The theorems.                                                            *)

LEMMA TableInvariance == Spec => []TableInv
<1>1. Init => TableInv
  BY InitTable
<1>2. TableInv /\ [Next]_vars => TableInv'
  BY ScanStep, BeginStep, NoMemoryStep, RedirectStep, RedirectFailsStep, HereDocumentStep,
     HereDocumentFailsStep, WordStep, EndCommandStep, GiveUpStep, HandOverStep, TableStutters
  DEF Next, Over
<1> QED BY <1>1, <1>2, PTL DEF Spec

\* Every variable has its type: tok and start stay on the token list, and
\* unless an argument swallows a pipe heredoc_index stays within heredoc_delim[].
THEOREM TypeCorrect == Spec => []TypeOK
<1>1. TableInv => TypeOK
  BY DEF TableInv, Typed
<1> QED BY <1>1, TableInvariance, PTL

\* clean_up_fds() and close_all_cmd_fds() close all that a line opened that is
\* given up, at whatever token of whatever command, and sh_abort() left a code.
THEOREM RejectedCorrect == Spec => []RejectedClean
<1>1. TableInv => RejectedClean
  <2> SUFFICES ASSUME TableInv, pc = "rejected"
               PROVE  Extra(fds) = {} /\ state = {} /\ (code # 0 \/ starved)
    BY DEF RejectedClean
  <2>1. table = << >> /\ cmd = NoCommand /\ state = {} /\ (code # 0 \/ starved)
    BY DEF TableInv, Places
  <2>2. DOMAIN table = {}
    BY <2>1, EmptySeq, LenProperties
  <2>3. AllRedirs = {} /\ Redirs(cmd) = {}
    BY <2>1, <2>2 DEF AllRedirs, Redirs, NoCommand
  <2> QED BY <2>1, <2>3 DEF TableInv, Descriptors
<1> QED BY <1>1, TableInvariance, PTL

\* The table handed to the executors owns its descriptors: a redirection that
\* replaced another closed it first, and no two commands share one.
THEOREM OwnedCorrect == Spec => []TableOwned
<1>1. TableInv => TableOwned
  <2> SUFFICES ASSUME TableInv, pc = "handed"
               PROVE  Owned(table, OpenMax) /\ Extra(fds) = AllRedirs
    BY DEF TableOwned
  <2>1. cmd = NoCommand
    BY DEF TableInv, Places
  <2>2. Redirs(cmd) = {}
    BY <2>1 DEF Redirs, NoCommand
  <2> QED BY <2>2 DEF TableInv, Descriptors
<1> QED BY <1>1, TableInvariance, PTL

\* A plain line that is handed over is built into the commands it means: one
\* for every pipe and one more, each with its words as arguments in order and
\* on either side the last redirection written (handle_token(),
\* handle_word_loop(), strip_delimiter(), parser_cmd_build_main()).
THEOREM MeaningCorrect == Spec => []LineMeaning
<1>1. Init => Meaning
  BY InitMeaning
<1>2. TableInv /\ Meaning /\ [Next]_vars => Meaning'
  BY MeaningNext
<1>3. Meaning => LineMeaning
  <2> SUFFICES ASSUME Meaning, pc = "handed", Plain
               PROVE  /\ Len(table) = Cardinality(Pipes(1)) + 1
                      /\ \A c \in DOMAIN table : CommandMeant(c)
    BY DEF LineMeaning, CommandMeant
  <2> QED BY DEF Meaning, LineRead
<1> QED BY <1>1, <1>2, <1>3, TableInvariance, PTL DEF Spec

\* On a line that keeps its pipes apart every command takes its arguments
\* from the tokens between its pipes, what the token list promises of PIPE: the
\* lines on which handle_word_loop() breaks it are those PipesApart leaves out.
THEOREM SeparateCorrect == Spec => [](PipesApart => PipesSeparate)
<1>1. Init => Apart
  <2> SUFFICES ASSUME Init PROVE Apart
    OBVIOUS
  <2>1. pc = "scan" /\ table = << >> /\ DOMAIN table = {} /\ Starts
    BY InitStarts DEF Init
  <2> QED BY <2>1 DEF Apart
<1>2. TableInv /\ Apart /\ [Next]_vars => Apart'
  BY ApartNext
<1>3. Apart => (PipesApart => PipesSeparate)
  BY DEF Apart, PipesSeparate, Within
<1> QED BY <1>1, <1>2, <1>3, TableInvariance, PTL DEF Spec

\* On every line, whatever its arguments swallow, parser_cmd_build_main()
\* hands over one command for every pipe and one more, and HAS_PIPE says
\* whether there are two: exec_pipeline() gets the two or more it takes for
\* granted (WellFormed in Pipeline), and exec_no_pipe() never a second one.
THEOREM CountCorrect == Spec => []TableCounted
<1>1. Init => Counted
  BY InitStarts DEF Init, Counted
<1>2. TableInv /\ Counted /\ [Next]_vars => Counted'
  BY CountedNext
<1>3. TableInv /\ Counted => TableCounted
  <2> SUFFICES ASSUME TableInv, Counted, pc = "handed"
               PROVE  /\ Len(table) = Cardinality(Pipes(1)) + 1
                      /\ "HAS_PIPE" \in state <=> Len(table) >= 2
    BY DEF TableCounted
  <2>1. TypeOK
    BY DEF TableInv, Typed
  <2>2. Len(table) = Cardinality(Pipes(1)) + 1 /\ ("HAS_PIPE" \in state <=> Pipes(1) # {})
    BY DEF Counted
  <2>3. Len(table) >= 2 <=> Cardinality(Pipes(1)) >= 1
    BY <2>1, <2>2, SomePipes
  <2> QED BY <2>1, <2>2, <2>3, SomePipes
<1> QED BY <1>1, <1>2, <1>3, TableInvariance, PTL DEF Spec
==============================================================================
