------------------------ MODULE SingleCommandProof ------------------------
(****************************************************************************)
(* Proofs about SingleCommand, for every number of descriptors and every    *)
(* sequence of lines.                                                       *)
(****************************************************************************)
EXTENDS SingleCommand, TLAPS

Tables == [Fds -> Kinds \X { 0 }]

StdIsTty(t) == \A fd \in { STDIN, STDOUT, STDERR } : t[fd] = Tty

\* The redirections of the command hold what they should, beside what leaked.
Holds(t, c) ==
    /\ StdIsTty(t)
    /\ c.in = STDIN \/ (c.in > STDERR /\ t[c.in] = << "in", 0 >>)
    /\ c.out = STDOUT \/ (c.out > STDERR /\ t[c.out] = << "out", 0 >>)
    /\ c.in # c.out
    /\ Redirs(c) \cap leaked = {}

BackupsHeld ==
    /\ backup.in \in Fds /\ backup.in > STDERR /\ fds[backup.in] = Tty
    /\ backup.out \in Fds /\ backup.out > STDERR /\ fds[backup.out] = Tty
    /\ backup.in # backup.out
    /\ { backup.in, backup.out } \cap leaked = {}

\* What the shell holds at each point of a line.
ShellInv ==
    /\ \A fd \in leaked : fd > STDERR
    /\ Idle => StdIsTty(fds) /\ Extra(fds) = leaked
    /\ pc \in { "backup", "fork", "wait" } =>
           Holds(fds, cmd) /\ Extra(fds) = leaked \cup Redirs(cmd)
    /\ pc = "builtin" =>
           /\ Holds(fds, cmd) /\ BackupsHeld
           /\ { backup.in, backup.out } \cap Redirs(cmd) = {}
           /\ Extra(fds) = leaked \cup Redirs(cmd) \cup { backup.in, backup.out }
    /\ pc = "restore" =>
           /\ BackupsHeld /\ fds[STDERR] = Tty
           /\ Extra(fds) = leaked \cup { backup.in, backup.out }

ChildInv ==
    /\ child # "none" => pc = "wait"
    /\ child = "forked" => cfds = fds
    /\ ChildWired

SInv == TypeOK /\ ShellInv /\ ChildInv

-----------------------------------------------------------------------------
(* Descriptor tables.                                                       *)

LEMMA Numbers == /\ OpenMax \in Nat /\ OpenMax > 2
                 /\ STDIN = 0 /\ STDOUT = 1 /\ STDERR = 2
                 /\ Fds = 0 .. OpenMax - 1
                 /\ STDIN \in Fds /\ STDOUT \in Fds /\ STDERR \in Fds
BY ProcessesAssumption DEF STDIN, STDOUT, STDERR, Fds

LEMMA Descriptors == /\ Closed \in Kinds \X { 0 } /\ Tty \in Kinds \X { 0 }
                     /\ << "in", 0 >> \in Kinds \X { 0 }
                     /\ << "out", 0 >> \in Kinds \X { 0 }
                     /\ Closed # Tty
                     /\ Closed # << "in", 0 >> /\ Closed # << "out", 0 >>
BY DEF Closed, Tty, Kinds

LEMMA BindTable ==
    ASSUME NEW t \in Tables, NEW fd \in Fds, NEW d \in Kinds \X { 0 }
    PROVE  /\ Bind(t, fd, d) \in Tables
           /\ \A g \in Fds : Bind(t, fd, d)[g] = IF g = fd THEN d ELSE t[g]
BY DEF Bind, Tables

LEMMA CloseTable ==
    ASSUME NEW t \in Tables, NEW S
    PROVE  /\ Close(t, S) \in Tables
           /\ \A g \in Fds : Close(t, S)[g] = IF g \in S THEN Closed ELSE t[g]
BY Descriptors DEF Close, Tables

LEMMA DupTable ==
    ASSUME NEW t \in Tables, NEW old \in Fds, NEW new \in Fds, t[old] # Closed
    PROVE  /\ Dup2(t, old, new) \in Tables
           /\ \A g \in Fds : Dup2(t, old, new)[g] = IF g = new THEN t[old] ELSE t[g]
<1>1. Dup2(t, old, new) = Bind(t, new, t[old])
    BY DEF Dup2, IsOpen, Tables
<1>2. t[old] \in Kinds \X { 0 }
    BY DEF Tables
<1> QED
    BY <1>1, <1>2, BindTable

LEMMA ExtraTable ==
    ASSUME NEW t \in Tables
    PROVE  Extra(t) = { fd \in Fds : fd > STDERR /\ t[fd] # Closed }
BY DEF Extra, Tables

\* The number a call returns is not a standard stream while those are open.
LEMMA FreeTable ==
    ASSUME NEW t \in Tables, NEW fd \in Fds, LowestFree(t, fd),
           \A std \in { STDIN, STDOUT, STDERR } : t[std] # Closed
    PROVE  fd > STDERR /\ t[fd] = Closed /\ fd \notin Extra(t)
<1>1. t[fd] = Closed
    BY DEF LowestFree
<1>2. fd # 0 /\ fd # 1 /\ fd # 2
    BY <1>1, Numbers
<1> QED
    BY <1>1, <1>2, Numbers, ExtraTable

\* dup2() and close() of a redirection that is there.
LEMMA MoveTable ==
    ASSUME NEW t \in Tables, NEW fd \in Fds, fd > STDERR, t[fd] # Closed,
           NEW std \in { STDIN, STDOUT }
    PROVE  /\ Move(t, fd, std) \in Tables
           /\ \A g \in Fds : Move(t, fd, std)[g] =
                  IF g = fd THEN Closed ELSE IF g = std THEN t[fd] ELSE t[g]
<1>1. std \in Fds /\ std # fd
    BY Numbers
<1>2. /\ Dup2(t, fd, std) \in Tables
      /\ \A g \in Fds : Dup2(t, fd, std)[g] = IF g = std THEN t[fd] ELSE t[g]
    BY <1>1, DupTable
<1> QED
    BY <1>1, <1>2, CloseTable DEF Move

\* exec_apply_redirs() puts the redirections in their places and leaves
\* everything else as it is.
LEMMA RedirsTable ==
    ASSUME TypeOK, NEW t \in Tables, Holds(t, cmd)
    PROVE  /\ ApplyRedirs(t, cmd) \in Tables
           /\ ApplyRedirs(t, cmd)[STDIN] =
                 IF cmd.in # STDIN THEN << "in", 0 >> ELSE Tty
           /\ ApplyRedirs(t, cmd)[STDOUT] =
                 IF cmd.out # STDOUT THEN << "out", 0 >> ELSE Tty
           /\ ApplyRedirs(t, cmd)[STDERR] = Tty
           /\ \A g \in Fds : g > STDERR =>
                 ApplyRedirs(t, cmd)[g] =
                    IF g \in Redirs(cmd) THEN Closed ELSE t[g]
<1> DEFINE first == IF cmd.in # STDIN THEN Move(t, cmd.in, STDIN) ELSE t
<1>0. cmd.in \in Fds /\ cmd.out \in Fds
    BY DEF TypeOK
<1>1. /\ t[STDIN] = Tty /\ t[STDOUT] = Tty /\ t[STDERR] = Tty
      /\ cmd.in # STDIN => cmd.in > STDERR /\ t[cmd.in] = << "in", 0 >>
      /\ cmd.out # STDOUT => cmd.out > STDERR /\ t[cmd.out] = << "out", 0 >>
      /\ cmd.in # cmd.out
    BY DEF Holds, StdIsTty
<1>2. /\ first \in Tables
      /\ \A g \in Fds : first[g] =
            IF cmd.in = STDIN THEN t[g]
            ELSE IF g = cmd.in THEN Closed
            ELSE IF g = STDIN THEN << "in", 0 >> ELSE t[g]
  <2>1. CASE cmd.in = STDIN
      BY <2>1
  <2>2. CASE cmd.in # STDIN
    <3>1. t[cmd.in] # Closed /\ cmd.in > STDERR
        BY <2>2, <1>1, Descriptors
    <3>2. /\ Move(t, cmd.in, STDIN) \in Tables
          /\ \A g \in Fds : Move(t, cmd.in, STDIN)[g] =
               IF g = cmd.in THEN Closed
               ELSE IF g = STDIN THEN t[cmd.in] ELSE t[g]
        BY <3>1, <1>0, MoveTable
    <3> QED
        BY <2>2, <3>2, <1>1
  <2> QED
      BY <2>1, <2>2
<1>3. /\ ApplyRedirs(t, cmd) \in Tables
      /\ \A g \in Fds : ApplyRedirs(t, cmd)[g] =
            IF cmd.out = STDOUT THEN first[g]
            ELSE IF g = cmd.out THEN Closed
            ELSE IF g = STDOUT THEN << "out", 0 >> ELSE first[g]
  <2>1. ApplyRedirs(t, cmd) =
            IF cmd.out # STDOUT THEN Move(first, cmd.out, STDOUT) ELSE first
      BY DEF ApplyRedirs
  <2> HIDE DEF first
  <2>2. CASE cmd.out = STDOUT
      BY <2>1, <2>2, <1>2
  <2>3. CASE cmd.out # STDOUT
    <3>1. /\ cmd.out > STDERR /\ first[cmd.out] = << "out", 0 >>
          /\ first[cmd.out] # Closed
        BY <2>3, <1>0, <1>1, <1>2, Numbers, Descriptors
    <3>2. /\ Move(first, cmd.out, STDOUT) \in Tables
          /\ \A g \in Fds : Move(first, cmd.out, STDOUT)[g] =
               IF g = cmd.out THEN Closed
               ELSE IF g = STDOUT THEN first[cmd.out] ELSE first[g]
        BY <3>1, <1>0, <1>2, MoveTable
    <3> QED
        BY <2>1, <2>3, <3>1, <3>2
  <2> QED
      BY <2>2, <2>3
<1> HIDE DEF first
<1>4. Redirs(cmd) = { cmd.in, cmd.out } \ { STDIN, STDOUT }
    BY DEF Redirs
<1> QED
    BY <1>0, <1>1, <1>2, <1>3, <1>4, Numbers

-----------------------------------------------------------------------------
(* The invariant holds at the start.                                        *)

LEMMA InitInv == Init => SInv
<1> SUFFICES ASSUME Init PROVE SInv
    OBVIOUS
<1>1. fds \in Tables /\ StdIsTty(fds) /\ Extra(fds) = {}
  <2>1. fds \in Tables
      BY Descriptors DEF Init, Tables
  <2>2. StdIsTty(fds)
      BY Numbers DEF Init, StdIsTty
  <2>3. \A fd \in Fds : fd > STDERR => fds[fd] = Closed
      BY Numbers DEF Init
  <2> QED
      BY <2>1, <2>2, <2>3, ExtraTable
<1>2. NoFds \in Tables
    BY Descriptors DEF NoFds, Tables
<1>3. Exited(0) \in Statuses
    BY DEF Statuses
<1>4. NoCommand \in [in : Fds, out : Fds,
                     prog : Builtins \cup { "any" } \cup DOMAIN ExecFailure]
    BY Numbers DEF NoCommand, ExecFailure
<1>5. TypeOK
  <2>1. /\ pc = "prompt" /\ cmd = NoCommand /\ child = "none" /\ cfds = NoFds
        /\ status = Exited(0) /\ code = 0 /\ leaked = {}
      BY DEF Init
  <2>2. backup \in [in : Fds \cup { -1 }, out : Fds \cup { -1 }]
      BY DEF Init, NoBackup
  <2> QED
      BY <1>1, <1>2, <1>3, <1>4, <2>1, <2>2 DEF TypeOK, Tables
<1>6. ShellInv
    BY <1>1 DEF Init, ShellInv, Idle
<1>7. ChildInv
    BY DEF Init, ChildInv, ChildWired
<1> QED
    BY <1>5, <1>6, <1>7 DEF SInv

-----------------------------------------------------------------------------
(* Every step keeps it.                                                     *)

CommandKinds == Builtins \cup { "any" } \cup DOMAIN ExecFailure

LEMMA OpenTable ==
    ASSUME NEW t \in Tables, StdIsTty(t), NEW wanted \in BOOLEAN,
           NEW std \in { STDIN, STDOUT }, NEW kind \in { "in", "out" },
           NEW o \in Opens(t, wanted, std, kind)
    PROVE  /\ o[1] \in Fds /\ o[2] \in Tables /\ StdIsTty(o[2])
           /\ \/ o[1] = std /\ o[2] = t
              \/ /\ o[1] > STDERR /\ t[o[1]] = Closed
                 /\ o[2][o[1]] = << kind, 0 >>
                 /\ \A g \in Fds : g # o[1] => o[2][g] = t[g]
           /\ Extra(o[2]) = Extra(t) \cup ({ o[1] } \ { std })
<1>0. std \in Fds /\ ~(std > STDERR)
    BY Numbers
<1>1. CASE ~wanted
  <2>1. o[1] = std /\ o[2] = t
      BY <1>1 DEF Opens
  <2> QED
      BY <2>1, <1>0
<1>2. CASE wanted
  <2>1. PICK fd \in Fds : LowestFree(t, fd) /\ o = << fd, Bind(t, fd, << kind, 0 >>) >>
      BY <1>2 DEF Opens
  <2>2. << kind, 0 >> \in Kinds \X { 0 } /\ << kind, 0 >> # Closed
      BY DEF Kinds, Closed
  <2>3. \A s \in { STDIN, STDOUT, STDERR } : t[s] # Closed
      BY Descriptors DEF StdIsTty
  <2>4. fd > STDERR /\ t[fd] = Closed
      BY <2>1, <2>3, FreeTable
  <2>5. /\ o[2] \in Tables
        /\ \A g \in Fds : o[2][g] = IF g = fd THEN << kind, 0 >> ELSE t[g]
      BY <2>1, <2>2, BindTable
  <2>6. StdIsTty(o[2])
      BY <2>4, <2>5, Numbers DEF StdIsTty
  <2>7. Extra(o[2]) = Extra(t) \cup { fd }
      BY <2>2, <2>4, <2>5, ExtraTable
  <2>8. o[1] = fd /\ { fd } \ { std } = { fd }
      BY <2>1, <2>4, <1>0
  <2> QED
      BY <2>1, <2>4, <2>5, <2>6, <2>7, <2>8
<1> QED
    BY <1>1, <1>2

\* What stays the same when the shell is at a point where it has no child.
LEMMA NoChild ==
    ASSUME SInv, pc # "wait", UNCHANGED << child, cfds >>
    PROVE  child = "none" /\ ChildInv'
BY DEF SInv, ChildInv, ChildWired

LEMMA AcceptInv == SInv /\ Accept => SInv'
<1> SUFFICES ASSUME SInv, Accept PROVE SInv'
    OBVIOUS
<1>1. /\ pc = "prompt" /\ fds \in Tables /\ StdIsTty(fds) /\ Extra(fds) = leaked
      /\ \A fd \in leaked : fd > STDERR
      /\ UNCHANGED << backup, child, cfds, status, code, leaked >>
    BY DEF Accept, SInv, TypeOK, ShellInv, Idle, Tables
<1>2. PICK line \in Lines :
      \E in \in Opens(fds, line.in, STDIN, "in") :
      \E out \in Opens(in[2], line.out, STDOUT, "out") :
         IF line.prog = "empty"
         THEN cmd' = NoCommand /\ fds' = fds /\ pc' = "fork"
         ELSE /\ cmd' = [in |-> in[1], out |-> out[1], prog |-> line.prog]
              /\ fds' = out[2]
              /\ pc' = IF line.prog \in Builtins THEN "backup" ELSE "fork"
    BY DEF Accept
<1>3. line.in \in BOOLEAN /\ line.out \in BOOLEAN /\ line.prog \in CommandKinds
    BY SingleCommandAssumption DEF LineType, CommandKinds
<1>4. PICK in \in Opens(fds, line.in, STDIN, "in") :
      \E out \in Opens(in[2], line.out, STDOUT, "out") :
         IF line.prog = "empty"
         THEN cmd' = NoCommand /\ fds' = fds /\ pc' = "fork"
         ELSE /\ cmd' = [in |-> in[1], out |-> out[1], prog |-> line.prog]
              /\ fds' = out[2]
              /\ pc' = IF line.prog \in Builtins THEN "backup" ELSE "fork"
    BY <1>2
<1>5. PICK out \in Opens(in[2], line.out, STDOUT, "out") :
         IF line.prog = "empty"
         THEN cmd' = NoCommand /\ fds' = fds /\ pc' = "fork"
         ELSE /\ cmd' = [in |-> in[1], out |-> out[1], prog |-> line.prog]
              /\ fds' = out[2]
              /\ pc' = IF line.prog \in Builtins THEN "backup" ELSE "fork"
    BY <1>4
<1>6. pc' \in { "backup", "fork" }
    BY <1>5
<1>7. ChildInv'
  <2>1. child = "none" /\ UNCHANGED child
      BY <1>1 DEF SInv, ChildInv
  <2> QED
      BY <2>1 DEF ChildInv, ChildWired
<1>8. CASE line.prog = "empty"
  <2>1. /\ cmd' = NoCommand /\ fds' = fds
        /\ cmd'.in = STDIN /\ cmd'.out = STDOUT
      BY <1>5, <1>8 DEF NoCommand
  <2>2. Redirs(cmd') = {}
      BY <2>1 DEF Redirs
  <2>3. cmd' \in [in : Fds, out : Fds, prog : CommandKinds]
      BY <1>3, <1>8, <2>1, Numbers DEF NoCommand
  <2>4. Holds(fds, cmd)'
      BY <1>1, <2>1, <2>2, Numbers DEF Holds, StdIsTty
  <2>5. ShellInv'
      BY <1>1, <1>6, <2>1, <2>2, <2>4 DEF ShellInv, Idle
  <2>6. TypeOK'
      BY <1>1, <1>6, <2>1, <2>3 DEF SInv, TypeOK, CommandKinds
  <2> QED
      BY <1>7, <2>5, <2>6 DEF SInv
<1>9. CASE line.prog # "empty"
  <2>1. /\ cmd' = [in |-> in[1], out |-> out[1], prog |-> line.prog]
        /\ fds' = out[2]
      BY <1>5, <1>9
  <2>2. /\ in[1] \in Fds /\ in[2] \in Tables /\ StdIsTty(in[2])
        /\ \/ in[1] = STDIN /\ in[2] = fds
           \/ /\ in[1] > STDERR /\ fds[in[1]] = Closed
              /\ in[2][in[1]] = << "in", 0 >>
              /\ \A g \in Fds : g # in[1] => in[2][g] = fds[g]
        /\ Extra(in[2]) = Extra(fds) \cup ({ in[1] } \ { STDIN })
      BY <1>1, <1>3, OpenTable
  <2>3. /\ out[1] \in Fds /\ out[2] \in Tables /\ StdIsTty(out[2])
        /\ \/ out[1] = STDOUT /\ out[2] = in[2]
           \/ /\ out[1] > STDERR /\ in[2][out[1]] = Closed
              /\ out[2][out[1]] = << "out", 0 >>
              /\ \A g \in Fds : g # out[1] => out[2][g] = in[2][g]
        /\ Extra(out[2]) = Extra(in[2]) \cup ({ out[1] } \ { STDOUT })
      BY <2>2, <1>3, OpenTable
  <2>4. in[1] # out[1] /\ in[1] # STDOUT /\ out[1] # STDIN
      BY <2>2, <2>3, Numbers, Descriptors
  <2>5. Redirs(cmd') = ({ in[1] } \ { STDIN }) \cup ({ out[1] } \ { STDOUT })
      BY <2>1, <2>4 DEF Redirs
  <2>6. Redirs(cmd') \cap leaked = {}
    <3>1. \A fd \in leaked : fd \in Fds /\ fds[fd] # Closed
        BY <1>1, ExtraTable
    <3>2. \A fd \in leaked : in[2][fd] # Closed
        BY <3>1, <2>2, Descriptors
    <3>3. in[1] # STDIN => in[1] \notin leaked
        BY <3>1, <2>2
    <3>4. out[1] # STDOUT => out[1] \notin leaked
        BY <3>2, <2>3
    <3> QED
        BY <3>3, <3>4, <2>5
  <2>7. Holds(fds, cmd)'
    <3>1. cmd'.in = in[1] /\ cmd'.out = out[1]
        BY <2>1
    <3>2. in[1] = STDIN \/ (in[1] > STDERR /\ out[2][in[1]] = << "in", 0 >>)
        BY <2>2, <2>3, <2>4
    <3>3. out[1] = STDOUT \/ (out[1] > STDERR /\ out[2][out[1]] = << "out", 0 >>)
        BY <2>3
    <3> QED
        BY <1>1, <2>1, <2>3, <2>4, <2>6, <3>1, <3>2, <3>3 DEF Holds, StdIsTty
  <2>8. Extra(fds') = leaked \cup Redirs(cmd')
      BY <1>1, <2>1, <2>2, <2>3, <2>5
  <2>9. ShellInv'
      BY <1>1, <1>6, <2>7, <2>8 DEF ShellInv, Idle
  <2>10. cmd' \in [in : Fds, out : Fds, prog : CommandKinds]
      BY <2>1, <2>2, <2>3, <1>3
  <2>11. TypeOK'
      BY <1>1, <1>6, <2>1, <2>3, <2>10 DEF SInv, TypeOK, CommandKinds, Tables
  <2> QED
      BY <1>7, <2>9, <2>11 DEF SInv
<1> QED
    BY <1>8, <1>9

LEMMA RejectInv == SInv /\ Reject => SInv'
<1> SUFFICES ASSUME SInv, Reject PROVE SInv'
    OBVIOUS
<1>1. /\ code' = 1
      /\ UNCHANGED << pc, cmd, fds, backup, child, cfds, status, leaked >>
    BY DEF Reject
<1>2. TypeOK'
    BY <1>1 DEF SInv, TypeOK
<1>3. ShellInv' /\ ChildInv'
    BY <1>1 DEF SInv, ShellInv, Idle, StdIsTty, Holds, BackupsHeld, Redirs,
                ChildInv, ChildWired
<1> QED
    BY <1>2, <1>3 DEF SInv

LEMMA BackupInv == SInv /\ Backup => SInv'
<1> SUFFICES ASSUME SInv, Backup PROVE SInv'
    OBVIOUS
<1>1. /\ pc = "backup" /\ pc' = "builtin"
      /\ fds \in Tables /\ Holds(fds, cmd)
      /\ Extra(fds) = leaked \cup Redirs(cmd)
      /\ \A fd \in leaked : fd > STDERR
      /\ UNCHANGED << cmd, child, cfds, status, code, leaked >>
    BY DEF Backup, SInv, TypeOK, ShellInv, Tables
<1>2. PICK in \in Fds, out \in Fds :
        /\ LowestFree(fds, in)
        /\ LowestFree(Bind(fds, in, fds[STDIN]), out)
        /\ backup' = [in |-> in, out |-> out]
        /\ fds' = Bind(Bind(fds, in, fds[STDIN]), out, fds[STDOUT])
    BY DEF Backup
<1> DEFINE mid == Bind(fds, in, fds[STDIN])
<1>3. fds[STDIN] = Tty /\ fds[STDOUT] = Tty /\ fds[STDERR] = Tty
    BY <1>1 DEF Holds, StdIsTty
<1>4. in > STDERR /\ fds[in] = Closed /\ in \notin Extra(fds)
    BY <1>1, <1>2, <1>3, FreeTable, Descriptors
<1>5. /\ mid \in Tables
      /\ \A g \in Fds : mid[g] = IF g = in THEN Tty ELSE fds[g]
    BY <1>1, <1>3, BindTable, Descriptors
<1>6. out > STDERR /\ mid[out] = Closed
  <2>1. \A std \in { STDIN, STDOUT, STDERR } : mid[std] # Closed
      BY <1>3, <1>4, <1>5, Numbers, Descriptors
  <2> QED
      BY <1>2, <1>5, <2>1, FreeTable
<1>7. /\ fds' \in Tables
      /\ \A g \in Fds : fds'[g] = IF g = out THEN Tty ELSE mid[g]
  <2>1. fds' = Bind(mid, out, Tty)
      BY <1>2, <1>3
  <2> HIDE DEF mid
  <2>2. Tty \in Kinds \X { 0 }
      BY Descriptors
  <2> QED
      BY <1>5, <2>1, <2>2, BindTable
<1> HIDE DEF mid
<1>8. in # out /\ out \notin Extra(fds)
  <2>1. in # out
      BY <1>5, <1>6, Descriptors
  <2> QED
      BY <2>1, <1>1, <1>5, <1>6, ExtraTable
<1>9. Extra(fds') = Extra(fds) \cup { in, out }
    BY <1>1, <1>4, <1>5, <1>6, <1>7, ExtraTable, Descriptors
<1>10. backup'.in = in /\ backup'.out = out
    BY <1>2
<1>11. BackupsHeld'
    BY <1>1, <1>4, <1>5, <1>6, <1>7, <1>8, <1>10 DEF BackupsHeld
<1>12. Holds(fds, cmd)'
  <2>1. \A g \in Fds : fds[g] # Closed => fds'[g] = fds[g]
      BY <1>4, <1>5, <1>6, <1>7
  <2>2. cmd.in \in Fds /\ cmd.out \in Fds
      BY DEF SInv, TypeOK
  <2> QED
      BY <1>1, <2>1, <2>2, Numbers, Descriptors DEF Holds, StdIsTty
<1>13. ShellInv'
    BY <1>1, <1>4, <1>8, <1>9, <1>10, <1>11, <1>12 DEF ShellInv, Idle
<1>14. TypeOK'
  <2>1. backup' \in [in : Fds \cup { -1 }, out : Fds \cup { -1 }]
      BY <1>2
  <2> QED
      BY <1>1, <1>7, <2>1 DEF SInv, TypeOK, Tables
<1>15. ChildInv'
    BY <1>1, NoChild
<1> QED
    BY <1>13, <1>14, <1>15 DEF SInv

LEMMA BackupFailsInv == SInv /\ BackupFails => SInv'
<1> SUFFICES ASSUME SInv, BackupFails PROVE SInv'
    OBVIOUS
<1>1. /\ pc = "backup" /\ pc' = "prompt"
      /\ fds \in Tables /\ StdIsTty(fds)
      /\ UNCHANGED << cmd, backup, child, cfds, status, code >>
    BY DEF BackupFails, SInv, TypeOK, ShellInv, Tables, Holds
<1>2. PICK t \in { fds } \cup { Bind(fds, fd, fds[STDIN]) :
                                  fd \in { g \in Fds : LowestFree(fds, g) } } :
        fds' = t /\ leaked' = Extra(t)
    BY DEF BackupFails
<1>3. t \in Tables /\ StdIsTty(t)
  <2>1. CASE t = fds
      BY <1>1, <2>1
  <2>2. ASSUME NEW fd \in Fds, LowestFree(fds, fd), t = Bind(fds, fd, fds[STDIN])
        PROVE  t \in Tables /\ StdIsTty(t)
    <3>1. fds[STDIN] = Tty
        BY <1>1 DEF StdIsTty
    <3>2. t = Bind(fds, fd, Tty) /\ Tty \in Kinds \X { 0 }
        BY <2>2, <3>1, Descriptors
    <3>3. t \in Tables /\ \A g \in Fds : t[g] = IF g = fd THEN Tty ELSE fds[g]
        BY <1>1, <3>2, BindTable
    <3> QED
        BY <1>1, <3>3, Numbers DEF StdIsTty
  <2> QED
      BY <1>2, <2>1, <2>2
<1>4. /\ Extra(t) \subseteq Fds
      /\ \A fd \in Extra(t) : fd > STDERR
    BY <1>3, ExtraTable
<1>5. ShellInv'
    BY <1>1, <1>2, <1>3, <1>4 DEF ShellInv, Idle, StdIsTty
<1>6. TypeOK'
    BY <1>1, <1>2, <1>3, <1>4 DEF SInv, TypeOK, Tables
<1>7. ChildInv'
  <2>1. child = "none"
      BY <1>1 DEF SInv, ChildInv
  <2> QED
      BY <1>1, <2>1 DEF ChildInv, ChildWired
<1> QED
    BY <1>5, <1>6, <1>7 DEF SInv

LEMMA RunBuiltinInv == SInv /\ RunBuiltin => SInv'
<1> SUFFICES ASSUME SInv, RunBuiltin PROVE SInv'
    OBVIOUS
<1>1. /\ pc = "builtin" /\ pc' = "restore"
      /\ fds \in Tables /\ Holds(fds, cmd) /\ BackupsHeld
      /\ { backup.in, backup.out } \cap Redirs(cmd) = {}
      /\ Extra(fds) = leaked \cup Redirs(cmd) \cup { backup.in, backup.out }
      /\ Redirs(cmd) \cap leaked = {}
      /\ \A fd \in leaked : fd > STDERR
      /\ fds' = ApplyRedirs(fds, cmd)
      /\ cmd' = [cmd EXCEPT !.in = STDIN, !.out = STDOUT]
      /\ code' \in ExitCodes
      /\ UNCHANGED << backup, child, cfds, status, leaked >>
    BY DEF RunBuiltin, SInv, TypeOK, ShellInv, Tables, Holds
<1>2. /\ fds' \in Tables /\ fds'[STDERR] = Tty
      /\ \A g \in Fds : g > STDERR =>
            fds'[g] = IF g \in Redirs(cmd) THEN Closed ELSE fds[g]
    BY <1>1, RedirsTable DEF SInv
<1>3. Extra(fds') = Extra(fds) \ Redirs(cmd)
    BY <1>1, <1>2, ExtraTable
<1>4. BackupsHeld'
    BY <1>1, <1>2 DEF BackupsHeld
<1>5. Extra(fds') = leaked \cup { backup.in, backup.out }
    BY <1>1, <1>3
<1>6. ShellInv'
    BY <1>1, <1>2, <1>4, <1>5 DEF ShellInv, Idle
<1>7. TypeOK'
  <2>1. code' \in 0 .. 255
      BY <1>1, ProcessesAssumption
  <2>2. cmd' \in [in : Fds, out : Fds,
                  prog : Builtins \cup { "any" } \cup DOMAIN ExecFailure]
      BY <1>1, Numbers DEF SInv, TypeOK
  <2> QED
      BY <1>1, <1>2, <2>1, <2>2 DEF SInv, TypeOK, Tables
<1>8. ChildInv'
  <2>1. child = "none"
      BY <1>1 DEF SInv, ChildInv
  <2> QED
      BY <1>1, <2>1 DEF ChildInv, ChildWired
<1> QED
    BY <1>6, <1>7, <1>8 DEF SInv

LEMMA RestoreInv == SInv /\ Restore => SInv'
<1> SUFFICES ASSUME SInv, Restore PROVE SInv'
    OBVIOUS
<1>1. /\ pc = "restore" /\ pc' \in { "prompt", "left" }
      /\ fds \in Tables /\ BackupsHeld /\ fds[STDERR] = Tty
      /\ Extra(fds) = leaked \cup { backup.in, backup.out }
      /\ \A fd \in leaked : fd > STDERR
      /\ fds' = Close(Dup2(Dup2(fds, backup.in, STDIN), backup.out, STDOUT),
                      { backup.in, backup.out })
      /\ backup' = NoBackup
      /\ UNCHANGED << cmd, child, cfds, status, code, leaked >>
    BY DEF Restore, RestoreStreams, SInv, TypeOK, ShellInv, Tables
<1>2. /\ backup.in \in Fds /\ backup.in > STDERR /\ fds[backup.in] = Tty
      /\ backup.out \in Fds /\ backup.out > STDERR /\ fds[backup.out] = Tty
      /\ { backup.in, backup.out } \cap leaked = {}
    BY <1>1 DEF BackupsHeld
<1> DEFINE one == Dup2(fds, backup.in, STDIN)
           two == Dup2(one, backup.out, STDOUT)
<1>3. /\ one \in Tables
      /\ \A g \in Fds : one[g] = IF g = STDIN THEN Tty ELSE fds[g]
  <2>1. fds[backup.in] # Closed
      BY <1>2, Descriptors
  <2> QED
      BY <1>1, <1>2, <2>1, DupTable, Numbers
<1>4. /\ two \in Tables
      /\ \A g \in Fds : two[g] = IF g \in { STDIN, STDOUT } THEN Tty ELSE fds[g]
  <2> HIDE DEF one
  <2>1. one[backup.out] = Tty /\ one[backup.out] # Closed
      BY <1>2, <1>3, Numbers, Descriptors
  <2>2. /\ two \in Tables
        /\ \A g \in Fds : two[g] = IF g = STDOUT THEN one[backup.out] ELSE one[g]
      BY <1>2, <1>3, <2>1, DupTable, Numbers
  <2> QED
      BY <1>3, <2>1, <2>2
<1>5. /\ fds' \in Tables
      /\ \A g \in Fds : fds'[g] = IF g \in { backup.in, backup.out } THEN Closed
                                  ELSE IF g \in { STDIN, STDOUT } THEN Tty
                                  ELSE fds[g]
  <2> HIDE DEF two
  <2>1. fds' = Close(two, { backup.in, backup.out })
      BY <1>1 DEF two
  <2> QED
      BY <1>4, <2>1, CloseTable
<1> HIDE DEF one, two
<1>6. StdIsTty(fds')
  <2>1. \A std \in { STDIN, STDOUT, STDERR } :
          std \in Fds /\ std # backup.in /\ std # backup.out
      BY <1>2, Numbers
  <2>2. fds'[STDIN] = Tty /\ fds'[STDOUT] = Tty
      BY <1>5, <2>1
  <2>3. STDERR # STDIN /\ STDERR # STDOUT
      BY Numbers
  <2>4. fds'[STDERR] = Tty
      BY <1>1, <1>5, <2>1, <2>3
  <2> QED
      BY <2>2, <2>4 DEF StdIsTty
<1>7. Extra(fds') = leaked
  <2>1. \A g \in Fds : g > STDERR => g # STDIN /\ g # STDOUT
      BY Numbers
  <2>2. \A g \in Fds : g > STDERR =>
          fds'[g] = IF g \in { backup.in, backup.out } THEN Closed ELSE fds[g]
      BY <1>5, <2>1
  <2>3. Extra(fds') = Extra(fds) \ { backup.in, backup.out }
      BY <1>1, <1>5, <2>2, ExtraTable
  <2> QED
      BY <1>1, <1>2, <2>3
<1>8. ShellInv'
    BY <1>1, <1>6, <1>7 DEF ShellInv, Idle, StdIsTty
<1>9. TypeOK'
    BY <1>1, <1>5 DEF SInv, TypeOK, Tables, NoBackup
<1>10. ChildInv'
    BY <1>1, NoChild
<1> QED
    BY <1>8, <1>9, <1>10 DEF SInv

LEMMA ForkInv == SInv /\ Fork => SInv'
<1> SUFFICES ASSUME SInv, Fork PROVE SInv'
    OBVIOUS
<1>1. /\ pc = "fork" /\ pc' = "wait" /\ child' = "forked" /\ cfds' = fds
      /\ code' = IF cmd.prog = "empty" THEN 0 ELSE code
      /\ UNCHANGED << cmd, fds, backup, status, leaked >>
    BY DEF Fork
<1>2. TypeOK'
    BY <1>1 DEF SInv, TypeOK
<1>3. ShellInv'
    BY <1>1 DEF SInv, ShellInv, Idle, Holds, StdIsTty, Redirs
<1>4. ChildInv'
    BY <1>1 DEF ChildInv, ChildWired
<1> QED
    BY <1>2, <1>3, <1>4 DEF SInv

\* exec_cleanup_parent() gives back what the parser opened.
LEMMA CleanupTable ==
    ASSUME SInv, pc \in { "fork", "wait" }, CleanupParent
    PROVE  fds' \in Tables /\ StdIsTty(fds') /\ Extra(fds') = leaked
<1>1. /\ fds \in Tables /\ StdIsTty(fds)
      /\ Extra(fds) = leaked \cup Redirs(cmd) /\ Redirs(cmd) \cap leaked = {}
      /\ cmd.in = STDIN \/ cmd.in > STDERR
      /\ cmd.out = STDOUT \/ cmd.out > STDERR
      /\ cmd.in \in Fds /\ cmd.out \in Fds
    BY DEF SInv, TypeOK, ShellInv, Holds, Tables
<1>2. /\ fds' \in Tables
      /\ \A g \in Fds : fds'[g] = IF g \in Redirs(cmd) THEN Closed ELSE fds[g]
    BY <1>1, CloseTable DEF CleanupParent
<1>3. \A std \in { STDIN, STDOUT, STDERR } : std \in Fds /\ std \notin Redirs(cmd)
    BY <1>1, Numbers DEF Redirs
<1>4. StdIsTty(fds')
    BY <1>1, <1>2, <1>3 DEF StdIsTty
<1>5. Extra(fds') = Extra(fds) \ Redirs(cmd)
    BY <1>1, <1>2, ExtraTable
<1> QED
    BY <1>1, <1>2, <1>4, <1>5

LEMMA ForkFailsInv == SInv /\ ForkFails => SInv'
<1> SUFFICES ASSUME SInv, ForkFails PROVE SInv'
    OBVIOUS
<1>1. /\ pc = "fork" /\ pc' = "prompt" /\ code' = EAGAIN /\ CleanupParent
      /\ UNCHANGED << cmd, backup, child, cfds, status, leaked >>
    BY DEF ForkFails
<1>2. fds' \in Tables /\ StdIsTty(fds') /\ Extra(fds') = leaked
    BY <1>1, CleanupTable
<1>3. TypeOK'
    BY <1>1, <1>2 DEF SInv, TypeOK, Tables, EAGAIN
<1>4. ShellInv'
    BY <1>1, <1>2 DEF SInv, ShellInv, Idle, StdIsTty
<1>5. ChildInv'
    BY <1>1, NoChild
<1> QED
    BY <1>3, <1>4, <1>5 DEF SInv

\* shell_update_code_from_status() makes an exit code of any status.
LEMMA CodeRange == \A s \in Statuses : CodeOf(s) \in 0 .. 255
BY DEF Statuses, CodeOf, Exited, Signaled

LEMMA WaitInv == SInv /\ Wait => SInv'
<1> SUFFICES ASSUME SInv, Wait PROVE SInv'
    OBVIOUS
<1>1. /\ pc = "wait" /\ pc' = "prompt" /\ child' = "none" /\ CleanupParent
      /\ code' = CodeOf(status)
      /\ UNCHANGED << cmd, backup, cfds, status, leaked >>
    BY DEF Wait
<1>2. fds' \in Tables /\ StdIsTty(fds') /\ Extra(fds') = leaked
    BY <1>1, CleanupTable
<1>3. code' \in 0 .. 255
    BY <1>1, CodeRange DEF SInv, TypeOK
<1>4. TypeOK'
    BY <1>1, <1>2, <1>3 DEF SInv, TypeOK, Tables
<1>5. ShellInv'
    BY <1>1, <1>2 DEF SInv, ShellInv, Idle, StdIsTty
<1>6. ChildInv'
    BY <1>1 DEF ChildInv, ChildWired
<1> QED
    BY <1>4, <1>5, <1>6 DEF SInv

LEMMA ExecChildPrepInv == SInv /\ ExecChildPrep => SInv'
<1> SUFFICES ASSUME SInv, ExecChildPrep PROVE SInv'
    OBVIOUS
<1>1. /\ child = "forked" /\ child' = "running" /\ pc = "wait" /\ cfds = fds
      /\ cfds' = ApplyRedirs(cfds, cmd)
      /\ UNCHANGED << pc, cmd, fds, backup, status, code, leaked >>
    BY DEF ExecChildPrep, SInv, ChildInv
<1>2. /\ fds \in Tables /\ Holds(fds, cmd)
      /\ Extra(fds) = leaked \cup Redirs(cmd) /\ Redirs(cmd) \cap leaked = {}
    BY <1>1 DEF SInv, TypeOK, ShellInv, Tables, Holds
<1>3. /\ cfds' \in Tables
      /\ cfds'[STDIN] = IF cmd.in # STDIN THEN << "in", 0 >> ELSE Tty
      /\ cfds'[STDOUT] = IF cmd.out # STDOUT THEN << "out", 0 >> ELSE Tty
      /\ \A g \in Fds : g > STDERR =>
            cfds'[g] = IF g \in Redirs(cmd) THEN Closed ELSE fds[g]
    BY <1>1, <1>2, RedirsTable DEF SInv
<1>4. Extra(cfds') = Extra(fds) \ Redirs(cmd)
    BY <1>2, <1>3, ExtraTable
<1>5. Extra(cfds') = leaked
    BY <1>2, <1>4
<1>6. ChildInv'
    BY <1>1, <1>3, <1>5 DEF ChildInv, ChildWired
<1>7. TypeOK'
    BY <1>1, <1>3 DEF SInv, TypeOK, Tables
<1>8. ShellInv'
    BY <1>1 DEF SInv, ShellInv, Idle, Holds, StdIsTty, Redirs
<1> QED
    BY <1>6, <1>7, <1>8 DEF SInv

LEMMA OutcomesAreStatuses == \A prog : Outcomes(prog) \subseteq Statuses
<1> SUFFICES ASSUME NEW prog PROVE Outcomes(prog) \subseteq Statuses
    OBVIOUS
<1>1. \A f \in DOMAIN ExecFailure : ExecFailure[f] \in 0 .. 255
    BY DEF ExecFailure
<1>2. \A n \in 0 .. 255 : Exited(n) \in Statuses
    BY DEF Statuses
<1>3. Signaled(SIGPIPE) \in Statuses
    BY DEF Statuses, SIGPIPE
<1> QED
    BY <1>1, <1>2, <1>3, ProcessesAssumption DEF Outcomes

LEMMA ExitInv == SInv /\ Exit => SInv'
<1> SUFFICES ASSUME SInv, Exit PROVE SInv'
    OBVIOUS
<1>1. /\ child = "running" /\ child' = "ended" /\ cfds' = NoFds
      /\ status' \in Outcomes(cmd.prog) \cup { Signaled(SIGINT) }
      /\ UNCHANGED << pc, cmd, fds, backup, code, leaked >>
    BY DEF Exit
<1>2. status' \in Statuses
  <2>1. Signaled(SIGINT) \in Statuses
      BY DEF Statuses, SIGINT
  <2> QED
      BY <1>1, <2>1, OutcomesAreStatuses
<1>3. NoFds \in Tables
    BY Descriptors DEF NoFds, Tables
<1>4. TypeOK'
    BY <1>1, <1>2, <1>3 DEF SInv, TypeOK, Tables
<1>5. ShellInv'
    BY <1>1 DEF SInv, ShellInv, Idle, Holds, StdIsTty, BackupsHeld, Redirs
<1>6. ChildInv'
    BY <1>1 DEF SInv, ChildInv, ChildWired
<1> QED
    BY <1>4, <1>5, <1>6 DEF SInv

LEMMA StutterInv == SInv /\ UNCHANGED vars => SInv'
<1> SUFFICES ASSUME SInv, UNCHANGED vars PROVE SInv'
    OBVIOUS
<1>1. TypeOK'
    BY DEF SInv, TypeOK, vars
<1>2. ShellInv' /\ ChildInv'
    BY DEF vars, SInv, ShellInv, Idle, StdIsTty, Holds, BackupsHeld, Redirs,
           ChildInv, ChildWired
<1> QED
    BY <1>1, <1>2 DEF SInv

LEMMA NextInv == SInv /\ [Next]_vars => SInv'
BY AcceptInv, RejectInv, BackupInv, BackupFailsInv, RunBuiltinInv, RestoreInv,
   ForkInv, ForkFailsInv, WaitInv, ExecChildPrepInv, ExitInv, StutterInv
   DEF Next, Left

LEMMA Invariant == Spec => []SInv
BY InitInv, NextInv, PTL DEF Spec

-----------------------------------------------------------------------------

\* The variables have their types, and exit codes stay within a byte.
THEOREM TypeCorrect == Spec => []TypeOK
<1>1. SInv => TypeOK
    BY DEF SInv
<1> QED
    BY Invariant, <1>1, PTL

\* Between two lines the shell talks to the terminal again, however many lines
\* it ran and whichever calls failed.
THEOREM StreamsCorrect == Spec => []StreamsBack
<1>1. SInv => StreamsBack
    BY DEF SInv, ShellInv, StreamsBack, StdIsTty
<1> QED
    BY Invariant, <1>1, PTL

\* Between two lines the shell holds nothing but what a failed dup() left.
THEOREM HeldCorrect == Spec => []NothingHeld
<1>1. SInv => NothingHeld
    BY DEF SInv, ShellInv, NothingHeld
<1> QED
    BY Invariant, <1>1, PTL

\* Every child runs on its own redirections and on nothing else of the shell's.
THEOREM WiringCorrect == Spec => []ChildWired
<1>1. SInv => ChildWired
    BY DEF SInv, ChildInv
<1> QED
    BY Invariant, <1>1, PTL
============================================================================
