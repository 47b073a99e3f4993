---------------------------- MODULE PipelineProof ----------------------------
(****************************************************************************)
(* Proofs about Pipeline, for every table of commands, every number of      *)
(* descriptors and any number of failing calls.                             *)
(****************************************************************************)
EXTENDS Pipeline, FiniteSetTheorems, TLAPS

Descs  == Kinds \X Nat
Tables == [Fds -> Descs]
Pipes  == [rd : Fds \cup { -1 }, wr : Fds \cup { -1 }]

-----------------------------------------------------------------------------
(* What the helpers on descriptor tables return.                           *)

LEMMA TableTypes ==
    ASSUME NEW t \in Tables
    PROVE  /\ \A fd \in Fds : \A d \in Descs : Bind(t, fd, d) \in Tables
           /\ \A S : Close(t, S) \in Tables
           /\ \A old \in Fds \cup { -1 } : \A new \in Fds : Dup2(t, old, new) \in Tables
PROOF
  <1>1. Closed \in Descs
    BY DEF Descs, Closed, Kinds
  <1>2. \A fd \in Fds : \A d \in Descs : Bind(t, fd, d) \in Tables
    BY DEF Tables, Bind
  <1>3. \A S : Close(t, S) \in Tables
    BY <1>1 DEF Tables, Close
  <1>4. \A old \in Fds \cup { -1 } : \A new \in Fds : Dup2(t, old, new) \in Tables
    BY <1>2 DEF Tables, Dup2, IsOpen
  <1> QED
    BY <1>2, <1>3, <1>4

LEMMA CommandFacts ==
    ASSUME cmd \in CommandTables
    PROVE  /\ cmd \in Seq(Command)
           /\ N \in Nat /\ N >= 2
           /\ Cmds = 1 .. N
           /\ \A i \in Cmds :
                /\ cmd[i] \in Command
                /\ cmd[i].in \in Fds /\ cmd[i].out \in Fds
                /\ cmd[i].prog \in Programs
                /\ cmd[i].in # STDIN => cmd[i].in > STDERR
                /\ cmd[i].out # STDOUT => cmd[i].out > STDERR
PROOF
  <1>1. WellFormed(cmd)
    BY PipelineAssumption
  <1>2. /\ cmd \in Seq(Command)
        /\ N \in Nat /\ N >= 2
        /\ Cmds = 1 .. N
    BY <1>1 DEF WellFormed, Owned, N, Cmds
  <1>3. ASSUME NEW i \in Cmds
        PROVE  /\ cmd[i] \in Command
               /\ cmd[i].in \in Fds /\ cmd[i].out \in Fds
               /\ cmd[i].prog \in Programs
               /\ cmd[i].in # STDIN => cmd[i].in > STDERR
               /\ cmd[i].out # STDOUT => cmd[i].out > STDERR
    <2>1. cmd[i] \in Command
      BY <1>2 DEF Cmds
    <2>2. /\ cmd[i].in = STDIN \/ cmd[i].in \in STDERR + 1 .. OpenMax - 1
          /\ cmd[i].out = STDOUT \/ cmd[i].out \in STDERR + 1 .. OpenMax - 1
      BY <1>1 DEF WellFormed, Owned, Cmds
    <2> QED
      BY <2>1, <2>2, ProcessesAssumption DEF Command, Fds, STDIN, STDOUT, STDERR
  <1> QED
    BY <1>2, <1>3

LEMMA OutcomeTypes ==
    ASSUME NEW prog \in Programs, NEW s \in Outcomes(prog)
    PROVE  s \in Statuses
PROOF
  <1>1. CASE prog \in DOMAIN ExecFailure
    <2>1. s = Exited(ExecFailure[prog])
      BY <1>1 DEF Outcomes
    <2>2. ExecFailure[prog] \in 0 .. 255
      BY <1>1 DEF ExecFailure
    <2> QED
      BY <2>1, <2>2 DEF Statuses
  <1>2. CASE prog \notin DOMAIN ExecFailure /\ prog = "source"
    <2>1. s = Signaled(SIGPIPE)
      BY <1>2 DEF Outcomes
    <2> QED
      BY <2>1 DEF Statuses, SIGPIPE
  <1>3. CASE prog \notin DOMAIN ExecFailure /\ prog # "source"
    <2>1. s \in { Exited(n) : n \in ExitCodes }
      BY <1>3 DEF Outcomes
    <2> QED
      BY <2>1, ProcessesAssumption DEF Statuses
  <1> QED
    BY <1>1, <1>2, <1>3

LEMMA CodeTypes ==
    ASSUME NEW s \in Statuses
    PROVE  CodeOf(s) \in 0 .. 255
PROOF
  <1>1. CASE \E n \in 0 .. 255 : s = Exited(n)
    BY <1>1 DEF CodeOf, Exited
  <1>2. CASE \E n \in 1 .. 64 : s = Signaled(n)
    BY <1>2 DEF CodeOf, Signaled
  <1> QED
    BY <1>1, <1>2 DEF Statuses

LEMMA PrepTypes ==
    ASSUME NEW t \in Tables, NEW c \in Command,
           c.in \in Fds, c.out \in Fds,
           NEW im \in [pipe : Pipes, tmp_fd : Fds \cup { -1 }]
    PROVE  /\ ExecFirstPrep(t, c, im) \in Tables
           /\ ExecMidPrep(t, c, im) \in Tables
           /\ ExecLastPrep(t, c, im) \in Tables
PROOF
  <1>1. STDIN \in Fds /\ STDOUT \in Fds
    BY ProcessesAssumption DEF Fds, STDIN, STDOUT, STDERR
  <1>2. /\ im.pipe.wr \in Fds \cup { -1 }
        /\ im.tmp_fd \in Fds \cup { -1 }
    BY DEF Pipes
  <1>3. \A u \in Tables : \A fd, std \in Fds : Move(u, fd, std) \in Tables
    BY TableTypes DEF Move
  <1>4. \A u \in Tables : \A old \in Fds \cup { -1 } : \A new \in Fds :
            Dup2(u, old, new) \in Tables
    BY TableTypes
  <1>5. \A u \in Tables : \A S : Close(u, S) \in Tables
    BY TableTypes
  <1>6. ExecFirstPrep(t, c, im) \in Tables
    BY <1>1, <1>2, <1>3, <1>4, <1>5 DEF ExecFirstPrep
  <1>7. ExecMidPrep(t, c, im) \in Tables
    BY <1>1, <1>2, <1>3, <1>4, <1>5 DEF ExecMidPrep
  <1>8. ExecLastPrep(t, c, im) \in Tables
    BY <1>1, <1>2, <1>3, <1>4, <1>5 DEF ExecLastPrep
  <1> QED
    BY <1>6, <1>7, <1>8

-----------------------------------------------------------------------------
(* Types.                                                                  *)

Setup == { "pipe", "fork", "clean" }

TypeInv == TypeOK /\ (pc \in Setup => cur <= N)

LEMMA InitTypes == Init => TypeInv
PROOF
  <1> SUFFICES ASSUME Init PROVE TypeInv
    OBVIOUS
  <1>1. cmd \in CommandTables
    BY DEF Init
  <1>2. /\ N \in Nat /\ N >= 2 /\ Cmds = 1 .. N
    BY <1>1, CommandFacts
  <1>3. Exited(0) \in Statuses
    BY DEF Statuses
  <1>4. NoFds \in [Fds -> Kinds \X Nat]
    BY DEF NoFds, Closed, Kinds
  <1>5. NoImage \in [pipe : [rd : Fds \cup { -1 }, wr : Fds \cup { -1 }],
                     tmp_fd : Fds \cup { -1 }]
    BY DEF NoImage, NoPipe
  <1>6. ParsedFds(cmd) \in [Fds -> Kinds \X Nat]
    <2> SUFFICES ASSUME NEW fd \in Fds
                 PROVE  ParsedFds(cmd)[fd] \in Kinds \X Nat
      BY DEF ParsedFds
    <2>1. CASE fd <= STDERR
      BY <2>1 DEF ParsedFds, Tty, Kinds
    <2>2. CASE ~(fd <= STDERR) /\ \E i \in DOMAIN cmd : cmd[i].in = fd
      <3>1. OpenedIn(cmd, fd) \in 1 .. N
        BY <2>2, <1>2 DEF OpenedIn, Cmds
      <3> QED
        BY <2>2, <3>1, <1>2 DEF ParsedFds, Kinds
    <2>3. CASE /\ ~(fd <= STDERR) /\ ~(\E i \in DOMAIN cmd : cmd[i].in = fd)
               /\ \E i \in DOMAIN cmd : cmd[i].out = fd
      <3>1. OpenedOut(cmd, fd) \in 1 .. N
        BY <2>3, <1>2 DEF OpenedOut, Cmds
      <3> QED
        BY <2>3, <3>1, <1>2 DEF ParsedFds, Kinds
    <2>4. CASE /\ ~(fd <= STDERR) /\ ~(\E i \in DOMAIN cmd : cmd[i].in = fd)
               /\ ~(\E i \in DOMAIN cmd : cmd[i].out = fd)
      BY <2>4 DEF ParsedFds, Closed, Kinds
    <2> QED
      BY <2>1, <2>2, <2>3, <2>4
  <1>7. TypeOK
    BY <1>1, <1>2, <1>3, <1>4, <1>5, <1>6
    DEF Init, TypeOK, Pcs, NoPipe, ProcStates, SIGINT
  <1> QED
    BY <1>2, <1>7 DEF TypeInv, Init

LEMMA NextTypes == TypeInv /\ [Next]_vars => TypeInv'
PROOF
  <1> SUFFICES ASSUME TypeInv, [Next]_vars PROVE TypeInv'
    OBVIOUS
  <1> USE DEF TypeInv
  <1>1. /\ N \in Nat /\ N >= 2 /\ Cmds = 1 .. N
    BY CommandFacts DEF TypeOK
  <1>2. fds \in Tables /\ pipe \in Pipes /\ \A i \in Cmds : cfds[i] \in Tables
    BY DEF TypeOK, Tables, Descs, Pipes
  <1>3. ASSUME NextCommand, pc \in Setup, cmd' = cmd
        PROVE  cur' \in 1 .. N' + 1 /\ pc' \in Pcs /\ (pc' \in Setup => cur' <= N')
    BY <1>1, <1>3 DEF NextCommand, TypeOK, Pcs, Setup, N
  <1>4. CASE OpenPipe
    <2>1. PICK rd, wr \in Fds :
            /\ fds' = Bind(Bind(fds, rd, << "rd", cur >>), wr, << "wr", cur >>)
            /\ pipe' = [rd |-> rd, wr |-> wr]
      BY <1>4 DEF OpenPipe
    <2>2. << "rd", cur >> \in Descs /\ << "wr", cur >> \in Descs
      <3>1. cur \in 1 .. N + 1
        BY DEF TypeOK
      <3>2. cur \in Nat
        BY <1>1, <3>1
      <3> QED
        BY <3>2 DEF Descs, Kinds
    <2>3. Bind(fds, rd, << "rd", cur >>) \in Tables
      BY <1>2, <2>2, TableTypes
    <2>4. fds' \in Tables
      BY <2>1, <2>2, <2>3, TableTypes
    <2> QED
      BY <1>4, <2>1, <2>4
      DEF OpenPipe, TypeOK, Tables, Descs, Pcs, Setup, N, Cmds, childvars
  <1>5. CASE OpenPipeFails
    BY <1>1, <1>3, <1>5
    DEF OpenPipeFails, TypeOK, Setup, N, Cmds, childvars
  <1>6. CASE Fork
    BY <1>1, <1>6
    DEF Fork, TypeOK, Pcs, ProcStates, Setup, N, Cmds
  <1>7. CASE ForkFails
    <2>1. fds' \in Tables
      BY <1>2, <1>7, TableTypes DEF ForkFails
    <2> QED
      BY <1>1, <1>7, <2>1
      DEF ForkFails, TypeOK, Tables, Descs, Pcs, Setup, N, Cmds, EAGAIN, childvars
  <1>8. CASE CleanPipe
    <2> DEFINE old == Close(fds, { tmp_fd })
    <2>1. old \in Tables
      BY <1>2, TableTypes
    <2>2. fds' \in Tables /\ tmp_fd' \in Fds \cup { -1 } /\ faulty' \subseteq Cmds
      <3>1. CASE \E fd \in Fds :
                   /\ IsOpen(old, pipe.rd)
                   /\ tmp_fd' = fd
                   /\ fds' = Close(Bind(old, fd, old[pipe.rd]),
                                   Redirs(cmd[cur]) \cup { pipe.rd, pipe.wr })
                   /\ UNCHANGED faulty
        <4>1. PICK fd \in Fds :
                   /\ IsOpen(old, pipe.rd)
                   /\ tmp_fd' = fd
                   /\ fds' = Close(Bind(old, fd, old[pipe.rd]),
                                   Redirs(cmd[cur]) \cup { pipe.rd, pipe.wr })
                   /\ UNCHANGED faulty
          BY <3>1
        <4>2. old[pipe.rd] \in Descs
          BY <2>1, <4>1 DEF IsOpen, Tables
        <4>3. Bind(old, fd, old[pipe.rd]) \in Tables
          BY <2>1, <4>2, TableTypes
        <4> QED
          BY <4>1, <4>3, TableTypes DEF TypeOK
      <3>2. CASE /\ tmp_fd' = -1
                 /\ fds' = Close(old, Redirs(cmd[cur]) \cup { pipe.rd, pipe.wr })
                 /\ faulty' = faulty \cup { cur }
        <4>1. cur \in Cmds
          BY <1>1, <1>8 DEF CleanPipe, TypeOK, Setup
        <4> QED
          BY <2>1, <3>2, <4>1, TableTypes DEF TypeOK
      <3> QED
        BY <1>8, <3>1, <3>2 DEF CleanPipe
    <2> QED
      BY <1>1, <1>3, <1>8, <2>2
      DEF CleanPipe, TypeOK, Tables, Descs, NoPipe, Setup, N, Cmds, childvars
  <1>9. CASE WaitAny
    BY <1>1, <1>9 DEF WaitAny, TypeOK, Pcs, ProcStates, Setup, N, Cmds
  <1>10. CASE Finalize
    <2>1. code' \in 0 .. 255
      BY <1>10, CodeTypes DEF Finalize, TypeOK, EXIT_SIGINT, SIGINT
    <2>2. fds' \in Tables /\ tmp_fd' \in Fds \cup { -1 }
      BY <1>2, <1>10, TableTypes DEF Finalize, TypeOK
    <2> QED
      BY <1>1, <1>10, <2>1, <2>2
      DEF Finalize, TypeOK, Tables, Descs, Pcs, Setup, N, Cmds, SIGINT, childvars
  <1>11. CASE CloseTmp
    <2>1. fds' \in Tables
      BY <1>2, <1>11, TableTypes DEF CloseTmp
    <2> QED
      BY <1>1, <1>11, <2>1
      DEF CloseTmp, TypeOK, Tables, Descs, Pcs, Setup, N, Cmds, childvars
  <1>12. ASSUME NEW i \in Cmds, ExecPrep(i) PROVE TypeInv'
    <2>1. cmd[i] \in Command /\ cmd[i].in \in Fds /\ cmd[i].out \in Fds
      BY CommandFacts DEF TypeOK
    <2>2. image[i] \in [pipe : Pipes, tmp_fd : Fds \cup { -1 }]
      BY DEF TypeOK, Pipes
    <2>3. cfds' \in [Cmds -> Tables]
      BY <1>2, <1>12, <2>1, <2>2, PrepTypes DEF ExecPrep, TypeOK, Tables, Descs
    <2> QED
      BY <1>1, <1>12, <2>3
      DEF ExecPrep, TypeOK, Tables, Descs, ProcStates, Setup, N, Cmds, shellvars
  <1>13. ASSUME NEW K \in SUBSET Cmds, NEW st, \A i \in K : st[i] \in Statuses,
                End(K, st), received' \in { 0, SIGINT }
         PROVE  TypeInv'
    <2>1. NoFds \in [Fds -> Kinds \X Nat]
      BY DEF NoFds, Closed, Kinds
    <2>2. /\ proc' \in [Cmds -> ProcStates]
          /\ wstatus' \in [Cmds -> Statuses]
          /\ cfds' \in [Cmds -> [Fds -> Kinds \X Nat]]
      BY <1>13, <2>1 DEF End, TypeOK, ProcStates
    <2> QED
      BY <1>13, <2>2 DEF End, TypeOK, Setup, N, Cmds, shellvars
  <1>14. ASSUME NEW i \in Cmds, Exit(i) PROVE TypeInv'
    <2>1. PICK s \in Outcomes(cmd[i].prog) : End({ i }, [j \in { i } |-> s])
      BY <1>14 DEF Exit
    <2>2. s \in Statuses
      BY <2>1, CommandFacts, OutcomeTypes DEF TypeOK
    <2>3. received' \in { 0, SIGINT }
      BY <1>14 DEF Exit, TypeOK
    <2> QED
      BY <1>13, <2>1, <2>2, <2>3
  <1>15. CASE Interrupt
    <2>1. PICK K \in SUBSET { i \in Cmds : proc[i] = "running" } :
             End(K, [i \in K |-> Signaled(SIGINT)])
      BY <1>15 DEF Interrupt
    <2>2. Signaled(SIGINT) \in Statuses
      BY DEF Statuses, SIGINT
    <2>3. K \in SUBSET Cmds
      BY <2>1
    <2>4. received' \in { 0, SIGINT }
      BY <1>15 DEF Interrupt
    <2> QED
      BY <1>13, <2>1, <2>2, <2>3, <2>4
  <1>16. CASE UNCHANGED vars
    BY <1>16 DEF TypeOK, vars, shellvars, childvars, N, Cmds
  <1> QED
    BY <1>4, <1>5, <1>6, <1>7, <1>8, <1>9, <1>10, <1>11, <1>12, <1>14, <1>15, <1>16
    DEF Next, Shell, Child, Returned

\* Every state the shell and its children reach has the types of the code:
\* descriptors are in the table or -1, codes and wait statuses in range.
THEOREM TypeCorrect == Spec => []TypeOK
PROOF
  <1>1. Spec => []TypeInv
    BY InitTypes, NextTypes, PTL DEF Spec
  <1>2. TypeInv => TypeOK
    BY DEF TypeInv
  <1> QED
    BY <1>1, <1>2, PTL

-----------------------------------------------------------------------------
(* Waiting.  count is the number of children that are not reaped yet.       *)

Unreaped == { i \in Cmds : proc[i] \in { "forked", "running", "ended" } }

Counted ==
    /\ count = Cardinality(Unreaped)
    /\ pc \in Setup => \A i \in Cmds : proc[i] # "reaped"
    /\ \A i \in Cmds : proc[i] # "unborn" =>
           i <= last_child /\ (i < cur \/ (i = cur /\ pc = "clean"))
    /\ last_child # 0 => proc[last_child] # "unborn"
    /\ last_child # 0 /\ proc[last_child] = "reaped"
           => last_status = wstatus[last_child]
    /\ pc = "wait" => last_child # 0
    /\ pc \in { "close", "done" } => count = 0
    /\ pc \in { "close", "done" } /\ last_child # 0
           => code = CodeOf(wstatus[last_child])

WaitInv == TypeInv /\ Counted

LEMMA UnreapedFinite ==
    ASSUME TypeInv
    PROVE  /\ IsFiniteSet(Unreaped)
           /\ Cardinality(Unreaped) \in Nat
           /\ Cardinality(Unreaped) = 0 <=> Unreaped = {}
PROOF
  <1>1. Cmds = 1 .. N /\ N \in Nat
    BY CommandFacts DEF TypeInv, TypeOK
  <1>2. IsFiniteSet(1 .. N)
    BY <1>1, FS_Interval
  <1>3. Unreaped \subseteq 1 .. N
    BY <1>1 DEF Unreaped
  <1>4. IsFiniteSet(Unreaped)
    BY <1>2, <1>3, FS_Subset
  <1> QED
    BY <1>4, FS_CardinalityType, FS_EmptySet

LEMMA InitWait == Init => WaitInv
PROOF
  <1> SUFFICES ASSUME Init PROVE WaitInv
    OBVIOUS
  <1>1. TypeInv
    BY InitTypes
  <1>2. Unreaped = {}
    BY DEF Unreaped, Init
  <1>3. count = Cardinality(Unreaped)
    BY <1>2, FS_EmptySet DEF Init
  <1> QED
    BY <1>1, <1>3 DEF WaitInv, Counted, Init, Setup

LEMMA NextWait == WaitInv /\ [Next]_vars => WaitInv'
PROOF
  <1> SUFFICES ASSUME WaitInv, [Next]_vars PROVE WaitInv'
    OBVIOUS
  <1>1. TypeInv /\ TypeInv' /\ Counted
    BY NextTypes DEF WaitInv
  <1>2. /\ N \in Nat /\ N >= 2 /\ Cmds = 1 .. N
        /\ cur \in 1 .. N + 1 /\ last_child \in 0 .. N
        /\ pc \in Setup => cur \in Cmds
        /\ proc \in [Cmds -> ProcStates]
        /\ DOMAIN proc = Cmds /\ DOMAIN wstatus = Cmds
    BY <1>1, CommandFacts DEF TypeInv, TypeOK
  \* Steps of the set-up phase that fork nothing.
  <1>3. ASSUME /\ UNCHANGED << cmd, proc, wstatus, count, last_child, last_status >>
               /\ pc \in Setup /\ pc' \in Pcs
               /\ pc' \in Setup \/ (pc' = "close" /\ count = 0)
                                \/ (pc' = "wait" /\ count # 0)
               /\ \/ cur' = cur /\ (pc = "clean" => pc' = "clean")
                  \/ cur' = cur + 1
        PROVE  WaitInv'
    <2>1. Unreaped' = Unreaped /\ Cmds' = Cmds
      BY <1>3 DEF Unreaped, Cmds
    <2>2. last_child # 0 => Unreaped # {}
      <3> SUFFICES ASSUME last_child # 0 PROVE last_child \in Unreaped
        OBVIOUS
      <3>1. last_child \in Cmds /\ proc[last_child] \notin { "unborn", "reaped" }
        BY <1>1, <1>2, <1>3 DEF Counted
      <3> QED
        BY <1>2, <3>1 DEF Unreaped, ProcStates
    <2>3. count = 0 => last_child = 0
      BY <1>1, <2>2, UnreapedFinite DEF Counted
    <2>4. last_child = 0 => count = 0
      <3>1. last_child = 0 => \A i \in Cmds : proc[i] = "unborn"
        BY <1>1, <1>2 DEF Counted
      <3>2. last_child = 0 => Unreaped = {}
        BY <3>1 DEF Unreaped
      <3> QED
        BY <1>1, <3>2, UnreapedFinite DEF Counted
    <2>5. \A i \in Cmds : proc'[i] # "unborn" =>
              i <= last_child' /\ (i < cur' \/ (i = cur' /\ pc' = "clean"))
      <3> SUFFICES ASSUME NEW i \in Cmds, proc[i] # "unborn"
                   PROVE  /\ i <= last_child
                          /\ i < cur' \/ (i = cur' /\ pc' = "clean")
        BY <1>3
      <3>1. i <= last_child /\ (i < cur \/ (i = cur /\ pc = "clean"))
        BY <1>1, <1>2, <1>3 DEF Counted
      <3> QED
        BY <1>2, <1>3, <3>1
    <2>6. pc' \notin { "done" }
      BY <1>3 DEF Setup
    <2> QED
      BY <1>1, <1>3, <2>1, <2>3, <2>4, <2>5, <2>6 DEF WaitInv, Counted, Setup
  \* Steps of children that reap nobody.
  <1>4. ASSUME /\ UNCHANGED << cmd, cur, count, last_child, last_status, code, pc >>
               /\ \A i \in Cmds : \/ proc'[i] = proc[i] /\ wstatus'[i] = wstatus[i]
                                  \/ /\ proc[i] \in { "forked", "running" }
                                     /\ proc'[i] \in { "running", "ended" }
        PROVE  WaitInv'
    <2>1. Cmds' = Cmds
      BY <1>4 DEF Cmds
    <2>2. \A i \in Cmds : /\ proc'[i] = "unborn" <=> proc[i] = "unborn"
                          /\ proc'[i] = "reaped" <=> proc[i] = "reaped"
                          /\ i \in Unreaped' <=> i \in Unreaped
                          /\ proc[i] = "reaped" => wstatus'[i] = wstatus[i]
      BY <1>4, <2>1 DEF Unreaped
    <2>3. Unreaped' = Unreaped
      BY <2>1, <2>2 DEF Unreaped
    <2>4. last_child # 0 => last_child \in Cmds
      BY <1>2
    <2>5. pc \in { "close", "done" } => \A i \in Cmds : proc[i] \in { "unborn", "reaped" }
      <3>1. pc \in { "close", "done" } => Unreaped = {}
        BY <1>1, UnreapedFinite DEF Counted
      <3> QED
        BY <1>2, <3>1 DEF Unreaped, ProcStates
    <2>6. pc \in { "close", "done" } /\ last_child # 0
            => code' = CodeOf(wstatus'[last_child])
      BY <1>1, <1>4, <2>2, <2>4, <2>5 DEF Counted
    <2> QED
      BY <1>1, <1>4, <2>1, <2>2, <2>3, <2>4, <2>6 DEF WaitInv, Counted
  <1>5. CASE OpenPipe
    BY <1>3, <1>5 DEF OpenPipe, Setup, Pcs, childvars
  <1>6. ASSUME NextCommand, pc \in Setup
        PROVE  /\ pc' \in Pcs
               /\ pc' \in Setup \/ (pc' = "close" /\ count = 0)
                                \/ (pc' = "wait" /\ count # 0)
               /\ cur' = cur + 1
    BY <1>6 DEF NextCommand, Setup, Pcs
  <1>7. CASE OpenPipeFails
    BY <1>3, <1>6, <1>7 DEF OpenPipeFails, Setup, childvars
  <1>8. CASE Fork
    <2>1. /\ cmd' = cmd /\ Cmds' = Cmds /\ cur \in Cmds /\ cur' = cur
          /\ pc = "fork" /\ pc' = "clean"
          /\ last_child' = cur /\ count' = count + 1
          /\ wstatus' = wstatus
          /\ proc' = [proc EXCEPT ![cur] = "forked"]
      BY <1>2, <1>8 DEF Fork, Setup, Cmds
    <2>2. /\ proc'[cur] = "forked"
          /\ \A i \in Cmds : i # cur => proc'[i] = proc[i]
      BY <1>2, <2>1
    <2>3. \A i \in Cmds : proc[i] # "unborn" => i < cur
      BY <1>1, <2>1 DEF Counted
    <2>4. cur \notin Unreaped
      BY <1>2, <2>1, <2>3 DEF Unreaped
    <2>5. Unreaped' = Unreaped \cup { cur }
      BY <2>1, <2>2 DEF Unreaped
    <2>6. Cardinality(Unreaped') = Cardinality(Unreaped) + 1
      BY <1>1, <2>4, <2>5, UnreapedFinite, FS_AddElement
    <2>7. count' = Cardinality(Unreaped')
      BY <1>1, <2>1, <2>6 DEF Counted
    <2>8. \A i \in Cmds : /\ proc'[i] # "reaped"
                          /\ proc'[i] # "unborn" => i <= cur
      BY <1>1, <1>2, <2>1, <2>2, <2>3 DEF Counted, Setup
    <2> QED
      BY <1>1, <1>2, <2>1, <2>2, <2>7, <2>8 DEF WaitInv, Counted, Setup
  <1>9. CASE ForkFails
    BY <1>3, <1>9 DEF ForkFails, Setup, Pcs, childvars
  <1>10. CASE CleanPipe
    BY <1>3, <1>6, <1>10 DEF CleanPipe, Setup, childvars
  <1>11. CASE WaitAny
    <2>1. PICK i \in Cmds :
            /\ proc[i] = "ended"
            /\ proc' = [proc EXCEPT ![i] = "reaped"]
            /\ last_status' = IF i = last_child THEN wstatus[i] ELSE last_status
      BY <1>11 DEF WaitAny
    <2>2. /\ UNCHANGED << cmd, pc, cur, last_child, wstatus >> /\ Cmds' = Cmds
          /\ pc = "wait" /\ count' = count - 1
      BY <1>11 DEF WaitAny, Cmds
    <2>3. /\ proc'[i] = "reaped"
          /\ \A j \in Cmds : j # i => proc'[j] = proc[j]
      BY <1>2, <2>1
    <2>4. i \in Unreaped /\ Unreaped' = Unreaped \ { i }
      BY <2>1, <2>2, <2>3 DEF Unreaped
    <2>5. count' = Cardinality(Unreaped')
      BY <1>1, <2>2, <2>4, UnreapedFinite, FS_RemoveElement DEF Counted
    <2>6. \A j \in Cmds : proc'[j] # "unborn" <=> proc[j] # "unborn"
      BY <2>1, <2>3
    <2>7. last_child # 0 => last_child \in Cmds
      BY <1>2
    <2> QED
      BY <1>1, <2>1, <2>2, <2>3, <2>5, <2>6, <2>7 DEF WaitInv, Counted, Setup
  <1>12. CASE Finalize
    <2>1. /\ UNCHANGED << cmd, cur, count, last_child, last_status, proc, wstatus >>
          /\ pc = "wait" /\ pc' = "close" /\ count = 0
          /\ Cmds' = Cmds /\ Unreaped' = Unreaped
      BY <1>12 DEF Finalize, childvars, Cmds, Unreaped
    <2>2. Unreaped = {}
      BY <1>1, <2>1, UnreapedFinite DEF Counted
    <2>3. last_child \in Cmds /\ proc[last_child] = "reaped"
      BY <1>1, <1>2, <2>1, <2>2 DEF Counted, Unreaped, ProcStates
    <2>4. last_status = wstatus[last_child]
      BY <1>1, <1>2, <2>3 DEF Counted
    <2>5. code' = CodeOf(last_status)
      <3>1. CASE last_status = Signaled(SIGINT)
        BY <1>12, <3>1 DEF Finalize, CodeOf, Signaled, EXIT_SIGINT, SIGINT
      <3>2. CASE last_status # Signaled(SIGINT)
        BY <1>12, <3>2 DEF Finalize
      <3> QED
        BY <3>1, <3>2
    <2> QED
      BY <1>1, <2>1, <2>4, <2>5 DEF WaitInv, Counted, Setup
  <1>13. CASE CloseTmp
    <2>1. /\ UNCHANGED << cmd, cur, count, last_child, last_status, code, proc, wstatus >>
          /\ pc = "close" /\ pc' = "done" /\ Cmds' = Cmds /\ Unreaped' = Unreaped
      BY <1>13 DEF CloseTmp, childvars, Cmds, Unreaped
    <2> QED
      BY <1>1, <2>1 DEF WaitInv, Counted, Setup
  <1>14. ASSUME NEW i \in Cmds, ExecPrep(i) PROVE WaitInv'
    BY <1>2, <1>4, <1>14 DEF ExecPrep, shellvars
  <1>15. ASSUME NEW K \in SUBSET { i \in Cmds : proc[i] = "running" }, NEW st,
                End(K, st)
         PROVE  WaitInv'
    BY <1>4, <1>15 DEF End, shellvars
  <1>16. ASSUME NEW i \in Cmds, Exit(i) PROVE WaitInv'
    BY <1>15, <1>16 DEF Exit
  <1>17. CASE Interrupt
    BY <1>15, <1>17 DEF Interrupt
  <1>18. CASE UNCHANGED vars
    BY <1>4, <1>18 DEF vars, shellvars, childvars
  <1> QED
    BY <1>5, <1>7, <1>8, <1>9, <1>10, <1>11, <1>12, <1>13, <1>14, <1>16, <1>17, <1>18
    DEF Next, Shell, Child, Returned

\* $? is the status of the last child forked, in whatever order the children
\* end and whichever forks failed (wait_all_and_get_last()).
THEOREM StatusCorrect == Spec => []StatusOfLast
PROOF
  <1>1. Spec => []WaitInv
    BY InitWait, NextWait, PTL DEF Spec
  <1>2. WaitInv => StatusOfLast
    BY DEF WaitInv, Counted, StatusOfLast
  <1> QED
    BY <1>1, <1>2, PTL

\* The loop on waitpid(-1) leaves no zombie behind
\* (exec_pipeline_wait_and_finalize()).
THEOREM ReapedCorrect == Spec => []AllReaped
PROOF
  <1>1. Spec => []WaitInv
    BY InitWait, NextWait, PTL DEF Spec
  <1>2. WaitInv => AllReaped
    <2> SUFFICES ASSUME WaitInv, pc = "done", NEW i \in Cmds
                 PROVE  proc[i] \in { "unborn", "reaped" }
      BY DEF AllReaped
    <2>1. Unreaped = {}
      BY UnreapedFinite DEF WaitInv, Counted
    <2>2. proc[i] \in ProcStates
      BY DEF WaitInv, TypeInv, TypeOK
    <2> QED
      BY <2>1, <2>2 DEF Unreaped, ProcStates
  <1> QED
    BY <1>1, <1>2, PTL

-----------------------------------------------------------------------------
(* Wiring.  As long as nothing fails the shell's table between two commands, *)
(* and a child's table right after fork(), have one shape: the terminal on   *)
(* the standard streams, the redirections of this and the later commands,    *)
(* the read end of the previous pipe in tmp_fd, both ends of the current one *)
(* in p, and no other pipe end.                                              *)

Real(p) == p.rd \in Fds /\ p.wr \in Fds

Shape(c, t, i, tmp, p) ==
    /\ \A fd \in { STDIN, STDOUT, STDERR } : t[fd] = Tty
    /\ \A j \in DOMAIN c : j >= i =>
         /\ c[j].in # STDIN => t[c[j].in] = << "in", j >>
         /\ c[j].out # STDOUT => t[c[j].out] = << "out", j >>
    /\ i = 1 => tmp = -1
    /\ i > 1 => tmp \in Fds /\ t[tmp] = << "rd", i - 1 >>
    /\ \/ p = NoPipe
       \/ Real(p) /\ t[p.rd] = << "rd", i >> /\ t[p.wr] = << "wr", i >>
    /\ \A fd \in Fds : fd \notin { tmp, p.rd, p.wr } => ~PipeEnd(t[fd])

LEMMA Std == /\ STDIN \in Fds /\ STDOUT \in Fds /\ STDERR \in Fds
             /\ STDIN = 0 /\ STDOUT = 1 /\ STDERR = 2
             /\ -1 \notin Fds /\ Fds \subseteq Nat
PROOF BY ProcessesAssumption DEF Fds, STDIN, STDOUT, STDERR

LEMMA Descriptors ==
    ASSUME NEW i, NEW j
    PROVE  /\ ~PipeEnd(Tty) /\ ~PipeEnd(Closed)
           /\ ~PipeEnd(<< "in", i >>) /\ ~PipeEnd(<< "out", i >>)
           /\ PipeEnd(<< "rd", i >>) /\ PipeEnd(<< "wr", i >>)
           /\ << "rd", i >> # << "wr", j >> /\ << "in", i >> # << "out", j >>
           /\ << "in", i >> # Closed /\ << "out", i >> # Closed
           /\ << "rd", i >> # Closed /\ << "wr", i >> # Closed
           /\ << "in", i >> # Tty /\ << "out", i >> # Tty /\ Tty # Closed
           /\ << "in", i >> = << "in", j >> => i = j
           /\ << "out", i >> = << "out", j >> => i = j
           /\ << "rd", i >> = << "rd", j >> => i = j
PROOF BY DEF PipeEnd, Tty, Closed

LEMMA ParsedShape == Init => Shape(cmd, fds, 1, -1, NoPipe)
PROOF
  <1> SUFFICES ASSUME Init PROVE Shape(cmd, ParsedFds(cmd), 1, -1, NoPipe)
    BY DEF Init
  <1>1. WellFormed(cmd) /\ DOMAIN cmd = Cmds
    BY PipelineAssumption DEF Init, Cmds
  <1>2. cmd \in CommandTables
    BY DEF Init
  <1>3. ASSUME NEW j \in Cmds, cmd[j].in # STDIN
        PROVE  ParsedFds(cmd)[cmd[j].in] = << "in", j >>
    <2>1. cmd[j].in \in Fds /\ ~(cmd[j].in <= STDERR)
      <3>1. cmd[j].in \in Fds /\ cmd[j].in > STDERR
        BY <1>2, <1>3, CommandFacts
      <3> QED
        BY <3>1, ProcessesAssumption DEF Fds, STDERR
    <2>2. \A k \in Cmds : cmd[k].in = cmd[j].in => k = j
      BY <1>1, <1>3 DEF WellFormed, Owned, Cmds
    <2>3. OpenedIn(cmd, cmd[j].in) = j
      BY <1>1, <1>3, <2>2 DEF OpenedIn
    <2> QED
      BY <1>1, <1>3, <2>1, <2>3 DEF ParsedFds
  <1>4. ASSUME NEW j \in Cmds, cmd[j].out # STDOUT
        PROVE  ParsedFds(cmd)[cmd[j].out] = << "out", j >>
    <2>1. cmd[j].out \in Fds /\ ~(cmd[j].out <= STDERR)
      <3>1. cmd[j].out \in Fds /\ cmd[j].out > STDERR
        BY <1>2, <1>4, CommandFacts
      <3> QED
        BY <3>1, ProcessesAssumption DEF Fds, STDERR
    <2>2. \A k \in Cmds : cmd[k].out = cmd[j].out => k = j
      BY <1>1, <1>4 DEF WellFormed, Owned, Cmds
    <2>3. \A k \in Cmds : cmd[k].in # cmd[j].out
      BY <1>1, <1>4 DEF WellFormed, Owned, Cmds
    <2>4. OpenedOut(cmd, cmd[j].out) = j
      BY <1>1, <1>4, <2>2 DEF OpenedOut
    <2> QED
      BY <1>1, <1>4, <2>1, <2>3, <2>4 DEF ParsedFds
  <1>5. \A fd \in { STDIN, STDOUT, STDERR } : ParsedFds(cmd)[fd] = Tty
    BY Std DEF ParsedFds
  <1>6. \A fd \in Fds : ~PipeEnd(ParsedFds(cmd)[fd])
    BY Descriptors DEF ParsedFds
  <1> QED
    BY <1>1, <1>3, <1>4, <1>5, <1>6 DEF Shape, NoPipe

LEMMA CloseFacts ==
    ASSUME NEW t, DOMAIN t = Fds, NEW S
    PROVE  /\ DOMAIN Close(t, S) = Fds
           /\ \A g \in Fds : g \in S => Close(t, S)[g] = Closed
           /\ \A g \in Fds : g \notin S => Close(t, S)[g] = t[g]
PROOF BY DEF Close

LEMMA Dup2Facts ==
    ASSUME NEW t, DOMAIN t = Fds, NEW fd \in Fds, NEW std \in Fds, t[fd] # Closed
    PROVE  /\ DOMAIN Dup2(t, fd, std) = Fds
           /\ Dup2(t, fd, std)[std] = t[fd]
           /\ \A g \in Fds : g # std => Dup2(t, fd, std)[g] = t[g]
PROOF BY DEF Dup2, IsOpen, Bind

LEMMA MoveFacts ==
    ASSUME NEW t, DOMAIN t = Fds, NEW fd \in Fds, NEW std \in Fds,
           t[fd] # Closed, fd # std
    PROVE  /\ DOMAIN Move(t, fd, std) = Fds
           /\ Move(t, fd, std)[std] = t[fd]
           /\ Move(t, fd, std)[fd] = Closed
           /\ \A g \in Fds : g # std /\ g # fd => Move(t, fd, std)[g] = t[g]
PROOF
  <1> DEFINE u == Dup2(t, fd, std)
  <1>1. /\ DOMAIN u = Fds /\ u[std] = t[fd]
        /\ \A g \in Fds : g # std => u[g] = t[g]
    BY Dup2Facts
  <1> QED
    BY <1>1, CloseFacts DEF Move

\* exec_prep() puts a redirection fd, or else the pipe end src, on the
\* standard stream std.
Put(t, fd, std, src) == IF fd # std THEN Move(t, fd, std) ELSE Dup2(t, src, std)

LEMMA PutFacts ==
    ASSUME NEW t, DOMAIN t = Fds, NEW std \in { STDIN, STDOUT },
           NEW fd \in Fds, NEW src,
           fd # std => fd > STDERR /\ t[fd] # Closed
    PROVE  /\ DOMAIN Put(t, fd, std, src) = Fds
           /\ fd # std => Put(t, fd, std, src)[std] = t[fd]
           /\ fd = std /\ IsOpen(t, src) => Put(t, fd, std, src)[std] = t[src]
           /\ fd = std /\ ~IsOpen(t, src) => Put(t, fd, std, src)[std] = t[std]
           /\ \A g \in Fds : g # std /\ g # fd => Put(t, fd, std, src)[g] = t[g]
           /\ \A g \in Fds : g # std /\ ~PipeEnd(t[g])
                             => ~PipeEnd(Put(t, fd, std, src)[g])
PROOF
  <1> DEFINE u == Put(t, fd, std, src)
  <1>1. std \in Fds
    BY Std
  <1>2. CASE fd # std
    <2>1. u = Move(t, fd, std)
      BY <1>2 DEF Put
    <2> HIDE DEF u
    <2>2. /\ DOMAIN u = Fds /\ u[std] = t[fd] /\ u[fd] = Closed
          /\ \A g \in Fds : g # std /\ g # fd => u[g] = t[g]
      BY <1>1, <1>2, <2>1, MoveFacts
    <2> QED
      BY <1>2, <2>2, Descriptors DEF u
  <1>3. CASE fd = std /\ IsOpen(t, src)
    <2>1. u = Dup2(t, src, std) /\ src \in Fds /\ t[src] # Closed
      BY <1>3 DEF Put, IsOpen
    <2> HIDE DEF u
    <2>2. /\ DOMAIN u = Fds /\ u[std] = t[src]
          /\ \A g \in Fds : g # std => u[g] = t[g]
      BY <1>1, <1>3, <2>1, Dup2Facts
    <2> QED
      BY <1>3, <2>2 DEF u
  <1>4. CASE fd = std /\ ~IsOpen(t, src)
    <2>1. u = t
      BY <1>4 DEF Put, Dup2
    <2> QED
      BY <1>4, <2>1
  <1> QED
    BY <1>2, <1>3, <1>4

LEMMA ShutFacts ==
    ASSUME NEW t, DOMAIN t = Fds, NEW S, STDIN \notin S, STDOUT \notin S,
           \A g \in Fds : g > STDOUT /\ g \notin S => ~PipeEnd(t[g])
    PROVE  /\ Close(t, S)[STDIN] = t[STDIN] /\ Close(t, S)[STDOUT] = t[STDOUT]
           /\ \A g \in Fds : g > STDOUT => ~PipeEnd(Close(t, S)[g])
PROOF
  <1> DEFINE u == Close(t, S)
  <1>1. /\ \A g \in Fds : g \in S => u[g] = Closed
        /\ \A g \in Fds : g \notin S => u[g] = t[g]
    BY CloseFacts
  <1> HIDE DEF u
  <1>2. u[STDIN] = t[STDIN] /\ u[STDOUT] = t[STDOUT]
    BY <1>1, Std
  <1>3. \A g \in Fds : g > STDOUT => ~PipeEnd(u[g])
    BY <1>1, Descriptors
  <1> QED
    BY <1>2, <1>3 DEF u

\* When calls fail the shape is looser: all that may differ is what tmp_fd
\* refers to, and what it may be is read off the history.

\* What happened to the left of command i: the command whose pipe it is to read,
\* why it may find nothing of it, and the forks after which a number was closed
\* twice.
From(i) == { j \in 1 .. i - 1 : LeftPipe(i, j) }

Lost(i) == { j \in faulty : j \in From(i) } \cup { j \in { 0 } : 1 .. i - 1 \subseteq unpiped }

Twice(i) == { j \in faulty \ unpiped : j < i /\ proc[j] = "unborn" /\ Redirs(cmd[j]) # {} }

\* tmp when the shell or a child, with the table t, has p for its own pipe.
Feeds(t, tmp, p, from, lost, twice) ==
    \/ tmp \in Fds /\ \E j \in from : t[tmp] = << "rd", j >>
    \/ tmp = -1 /\ lost # {}
    \/ tmp \in Fds /\ t[tmp] = Closed /\ twice # {}
    \/ tmp \in Fds /\ tmp \in { p.rd, p.wr } /\ twice # {}

\* The shape of t at command i; the redirections from command lo on are open.
Loose(t, i, tmp, p, lo, from, lost, twice) ==
    /\ \A fd \in { STDIN, STDOUT, STDERR } : t[fd] = Tty
    /\ \A j \in Cmds : j >= lo =>
         /\ cmd[j].in # STDIN => t[cmd[j].in] = << "in", j >>
         /\ cmd[j].out # STDOUT => t[cmd[j].out] = << "out", j >>
    /\ Feeds(t, tmp, p, from, lost, twice)
    /\ \/ p = NoPipe
       \/ Real(p) /\ t[p.rd] = << "rd", i >> /\ t[p.wr] = << "wr", i >>
    /\ \A fd \in Fds : fd \notin { tmp, p.rd, p.wr } => ~PipeEnd(t[fd])

LEMMA ParsedLoose == Init => Loose(fds, 1, -1, NoPipe, 1, From(1), Lost(1), Twice(1))
PROOF
  <1> SUFFICES ASSUME Init PROVE Loose(fds, 1, -1, NoPipe, 1, From(1), Lost(1), Twice(1))
    OBVIOUS
  <1>1. Shape(cmd, fds, 1, -1, NoPipe) /\ DOMAIN cmd = Cmds
    BY ParsedShape DEF Cmds
  <1>2. 0 \in Lost(1)
    BY DEF Lost
  <1> QED
    BY <1>1, <1>2 DEF Loose, Feeds, Shape

\* The redirections of different commands have different numbers.
LEMMA RedirsApart ==
    ASSUME cmd \in CommandTables, NEW i \in Cmds, NEW j \in Cmds, i # j
    PROVE  /\ Redirs(cmd[i]) \cap Redirs(cmd[j]) = {}
           /\ Redirs(cmd[i]) \subseteq Fds \ { STDIN, STDOUT, STDERR }
PROOF
  <1>1. WellFormed(cmd)
    BY PipelineAssumption
  <1>2. /\ cmd[i].in = cmd[j].in => cmd[i].in = STDIN
        /\ cmd[i].out = cmd[j].out => cmd[i].out = STDOUT
        /\ cmd[i].in # cmd[j].out /\ cmd[j].in # cmd[i].out
    BY <1>1 DEF WellFormed, Owned, Cmds
  <1>3. Redirs(cmd[i]) \cap Redirs(cmd[j]) = {}
    BY <1>2 DEF Redirs
  <1>4. /\ cmd[i].in \in Fds /\ cmd[i].out \in Fds
        /\ cmd[i].in # STDIN => cmd[i].in > STDERR
        /\ cmd[i].out # STDOUT => cmd[i].out > STDERR
    BY CommandFacts
  <1>5. \A fd \in Redirs(cmd[i]) : fd \in Fds /\ fd > STDERR
    BY <1>4, Std DEF Redirs
  <1> QED
    BY <1>3, <1>5, Std

\* What tmp may refer to, and that it is no standard stream.
LEMMA TmpFacts ==
    ASSUME NEW t, NEW i, NEW tmp, NEW p, NEW lo, NEW from, NEW lost, NEW twice,
           Loose(t, i, tmp, p, lo, from, lost, twice)
    PROVE  /\ tmp \in Fds \cup { -1 }
           /\ tmp \in Fds => t[tmp] = Closed \/ PipeEnd(t[tmp])
           /\ tmp \notin { STDIN, STDOUT, STDERR }
           /\ p # NoPipe => /\ Real(p) /\ t[p.rd] = << "rd", i >> /\ t[p.wr] = << "wr", i >>
                            /\ p.rd \in Fds /\ p.wr \in Fds
                            /\ p.rd \notin { STDIN, STDOUT, STDERR }
                            /\ p.wr \notin { STDIN, STDOUT, STDERR }
PROOF
  <1>1. tmp \in Fds \cup { -1 }
    BY DEF Loose, Feeds
  <1>2. p # NoPipe => /\ Real(p) /\ t[p.rd] = << "rd", i >> /\ t[p.wr] = << "wr", i >>
                      /\ p.rd \in Fds /\ p.wr \in Fds
    BY DEF Loose, Real
  <1>3. p = NoPipe => p.rd = -1 /\ p.wr = -1
    BY DEF NoPipe
  <1>4. tmp \in Fds => t[tmp] = Closed \/ PipeEnd(t[tmp])
    <2> SUFFICES ASSUME tmp \in Fds PROVE t[tmp] = Closed \/ PipeEnd(t[tmp])
      OBVIOUS
    <2>1. CASE \E j \in from : t[tmp] = << "rd", j >>
      BY <2>1, Descriptors
    <2>2. CASE tmp \in { p.rd, p.wr }
      BY <1>2, <1>3, <2>2, Descriptors, Std
    <2> QED
      BY <2>1, <2>2, Std DEF Loose, Feeds
  <1>5. \A fd \in { STDIN, STDOUT, STDERR } : t[fd] = Tty /\ fd \in Fds
    BY Std DEF Loose
  <1>6. tmp \notin { STDIN, STDOUT, STDERR }
    BY <1>4, <1>5, Descriptors
  <1> QED
    BY <1>1, <1>2, <1>4, <1>5, <1>6, Descriptors

LEMMA PipeLoose ==
    ASSUME cmd \in CommandTables, NEW t \in Tables, NEW i \in Cmds,
           NEW tmp, NEW rd \in Fds, NEW wr \in Fds,
           NEW lo, NEW from, NEW lost, NEW twice,
           Loose(t, i, tmp, NoPipe, lo, from, lost, twice),
           LowestFree(t, rd), LowestFree(Bind(t, rd, << "rd", i >>), wr)
    PROVE  Loose(Bind(Bind(t, rd, << "rd", i >>), wr, << "wr", i >>),
                 i, tmp, [rd |-> rd, wr |-> wr], lo, from, lost, twice)
PROOF
  <1> DEFINE u == Bind(Bind(t, rd, << "rd", i >>), wr, << "wr", i >>)
             p == [rd |-> rd, wr |-> wr]
  <1>1. DOMAIN t = Fds
    BY DEF Tables
  <1>2. t[rd] = Closed
    BY DEF LowestFree
  <1>3. wr # rd /\ t[wr] = Closed
    BY <1>1, Descriptors DEF LowestFree, Bind
  <1>4. u[rd] = << "rd", i >> /\ u[wr] = << "wr", i >>
    BY <1>1, <1>3 DEF Bind
  <1>5. \A fd \in Fds : fd # rd /\ fd # wr => u[fd] = t[fd]
    BY <1>1 DEF Bind
  <1>6. \A fd \in Fds : t[fd] # Closed => u[fd] = t[fd]
    BY <1>1, <1>2, <1>3 DEF Bind
  <1>7. p.rd = rd /\ p.wr = wr /\ NoPipe.rd = -1 /\ NoPipe.wr = -1
    BY DEF NoPipe
  <1> HIDE DEF u, p
  <1>8. \A fd \in { STDIN, STDOUT, STDERR } : u[fd] = Tty
    BY <1>6, Descriptors, Std DEF Loose
  <1>9. \A j \in Cmds : j >= lo =>
          /\ cmd[j].in # STDIN => u[cmd[j].in] = << "in", j >>
          /\ cmd[j].out # STDOUT => u[cmd[j].out] = << "out", j >>
    BY <1>6, Descriptors, CommandFacts DEF Loose
  <1>10. Feeds(u, tmp, p, from, lost, twice)
    <2>1. CASE tmp \in Fds /\ \E j \in from : t[tmp] = << "rd", j >>
      BY <1>6, <2>1, Descriptors DEF Feeds
    <2>2. CASE tmp = -1 /\ lost # {}
      BY <2>2 DEF Feeds
    <2>3. CASE tmp \in Fds /\ t[tmp] = Closed /\ twice # {}
      BY <1>5, <1>7, <2>3 DEF Feeds
    <2> QED
      BY <1>7, <2>1, <2>2, <2>3, Std DEF Loose, Feeds
  <1>11. \A fd \in Fds : fd \notin { tmp, p.rd, p.wr } => ~PipeEnd(u[fd])
    BY <1>5, <1>7, Std DEF Loose
  <1>12. Real(p) /\ u[p.rd] = << "rd", i >> /\ u[p.wr] = << "wr", i >>
    BY <1>4, <1>7 DEF Real
  <1>13. Loose(u, i, tmp, p, lo, from, lost, twice)
    BY <1>8, <1>9, <1>10, <1>11, <1>12 DEF Loose
  <1> QED
    BY <1>13 DEF u, p

\* A failed fork closes the redirections of its command.
LEMMA UnforkedLoose ==
    ASSUME cmd \in CommandTables, NEW t \in Tables, NEW i \in Cmds, NEW tmp, NEW p,
           NEW from, NEW lost, NEW twice, p # NoPipe,
           Loose(t, i, tmp, p, i, from, lost, twice)
    PROVE  Loose(Close(t, Redirs(cmd[i])), i, tmp, p, i + 1, from, lost, twice)
PROOF
  <1> DEFINE u == Close(t, Redirs(cmd[i]))
  <1>1. /\ \A g \in Fds : g \in Redirs(cmd[i]) => u[g] = Closed
        /\ \A g \in Fds : g \notin Redirs(cmd[i]) => u[g] = t[g]
    BY CloseFacts DEF Tables
  <1> HIDE DEF u
  <1>2. /\ i \in Nat /\ i >= i /\ Cmds \subseteq Nat
        /\ \A j \in Cmds : cmd[j].in \in Fds /\ cmd[j].out \in Fds
    BY CommandFacts
  <1>3. /\ tmp \in Fds => t[tmp] = Closed \/ PipeEnd(t[tmp])
        /\ p.rd \in Fds /\ p.wr \in Fds /\ Real(p)
        /\ t[p.rd] = << "rd", i >> /\ t[p.wr] = << "wr", i >>
    BY TmpFacts
  <1>4. \A g \in Redirs(cmd[i]) : t[g] = << "in", i >> \/ t[g] = << "out", i >>
    BY <1>2 DEF Redirs, Loose
  <1>5. /\ u[p.rd] = << "rd", i >> /\ u[p.wr] = << "wr", i >>
        /\ tmp \in Fds => u[tmp] = t[tmp]
    BY <1>1, <1>3, <1>4, Descriptors
  <1>6. \A fd \in { STDIN, STDOUT, STDERR } : u[fd] = Tty
    <2>1. \A fd \in { STDIN, STDOUT, STDERR } : fd \in Fds /\ t[fd] = Tty
      BY Std DEF Loose
    <2> QED
      BY <1>1, <1>4, <2>1, Descriptors
  <1>7. ASSUME NEW j \in Cmds, j >= i + 1
        PROVE  /\ cmd[j].in # STDIN => u[cmd[j].in] = << "in", j >>
               /\ cmd[j].out # STDOUT => u[cmd[j].out] = << "out", j >>
    <2>1. j >= i /\ j # i
      BY <1>2, <1>7
    <2>2. /\ cmd[j].in # STDIN => t[cmd[j].in] = << "in", j >>
          /\ cmd[j].out # STDOUT => t[cmd[j].out] = << "out", j >>
      BY <2>1 DEF Loose
    <2>3. \A g \in Redirs(cmd[i]) : t[g] # << "in", j >> /\ t[g] # << "out", j >>
      BY <1>4, <2>1, Descriptors
    <2> QED
      BY <1>1, <1>2, <2>2, <2>3
  <1>8. Feeds(u, tmp, p, from, lost, twice)
    <2>1. Feeds(t, tmp, p, from, lost, twice)
      BY DEF Loose
    <2> QED
      BY <1>5, <2>1 DEF Feeds
  <1>9. \A fd \in Fds : fd \notin { tmp, p.rd, p.wr } => ~PipeEnd(u[fd])
    BY <1>1, Descriptors DEF Loose
  <1>10. Loose(u, i, tmp, p, i + 1, from, lost, twice)
    BY <1>3, <1>5, <1>6, <1>7, <1>8, <1>9 DEF Loose
  <1> QED
    BY <1>10 DEF u

\* clean_pipe(), if dup() succeeds.
LEMMA CleanLoose ==
    ASSUME cmd \in CommandTables, NEW t \in Tables, NEW i \in Cmds, NEW tmp, NEW p,
           NEW lo \in { i, i + 1 }, NEW from, NEW lost, NEW twice, p # NoPipe,
           Loose(t, i, tmp, p, lo, from, lost, twice),
           NEW fd \in Fds, NEW old, old = Close(t, { tmp }),
           IsOpen(old, p.rd), LowestFree(old, fd),
           NEW left, NEW again,
           twice # {} => again # {},
           lo = i + 1 /\ Redirs(cmd[i]) # {} => again # {}
    PROVE  Loose(Close(Bind(old, fd, old[p.rd]), Redirs(cmd[i]) \cup { p.rd, p.wr }),
                 i + 1, fd, NoPipe, i + 1, { i }, left, again)
PROOF
  <1> DEFINE gone == Redirs(cmd[i]) \cup { p.rd, p.wr }
             u    == Close(Bind(old, fd, old[p.rd]), gone)
  <1>1. DOMAIN t = Fds /\ DOMAIN old = Fds
    BY DEF Tables, Close
  <1>2. /\ i \in Nat /\ Cmds \subseteq Nat
        /\ \A j \in Cmds : cmd[j].in \in Fds /\ cmd[j].out \in Fds
    BY CommandFacts
  <1>3. /\ tmp \in Fds => t[tmp] = Closed \/ PipeEnd(t[tmp])
        /\ tmp \notin { STDIN, STDOUT, STDERR }
        /\ p.rd \in Fds /\ p.wr \in Fds
        /\ t[p.rd] = << "rd", i >> /\ t[p.wr] = << "wr", i >>
        /\ p.rd \notin { STDIN, STDOUT, STDERR } /\ p.wr \notin { STDIN, STDOUT, STDERR }
    BY TmpFacts
  <1>4. /\ \A g \in Fds : g = tmp => old[g] = Closed
        /\ \A g \in Fds : g # tmp => old[g] = t[g]
    BY <1>1 DEF Close
  <1>5. old[fd] = Closed /\ old[p.rd] # Closed
    BY DEF LowestFree, IsOpen
  <1>6. fd # p.rd /\ p.rd # tmp /\ old[p.rd] = << "rd", i >>
    BY <1>3, <1>4, <1>5
  <1>7. /\ \A g \in Fds : g \in gone => u[g] = Closed
        /\ \A g \in Fds : g \notin gone /\ g # fd => u[g] = old[g]
        /\ fd \notin gone => u[fd] = << "rd", i >>
    BY <1>1, <1>6 DEF Close, Bind
  <1>8. Redirs(cmd[i]) \cap { STDIN, STDOUT, STDERR } = {} /\ Redirs(cmd[i]) \subseteq Fds
    BY <1>2, CommandFacts, Std DEF Redirs
  <1>9. \A g \in Fds : t[g] # Closed /\ ~PipeEnd(t[g]) => g # tmp /\ g # fd /\ g # p.rd /\ g # p.wr
    BY <1>3, <1>4, <1>5, Descriptors
  <1> HIDE DEF u
  <1>10. ASSUME NEW g \in Fds, t[g] # Closed, ~PipeEnd(t[g]), g \notin Redirs(cmd[i])
         PROVE  u[g] = t[g]
    BY <1>4, <1>7, <1>9, <1>10
  <1>11. \A g \in { STDIN, STDOUT, STDERR } : u[g] = Tty
    <2>1. \A g \in { STDIN, STDOUT, STDERR } : g \in Fds /\ t[g] = Tty
      BY Std DEF Loose
    <2> QED
      BY <1>8, <1>10, <2>1, Descriptors
  <1>12. ASSUME NEW j \in Cmds, j >= i + 1
         PROVE  /\ cmd[j].in # STDIN => u[cmd[j].in] = << "in", j >>
                /\ cmd[j].out # STDOUT => u[cmd[j].out] = << "out", j >>
    <2>1. j >= lo /\ j # i
      BY <1>2, <1>12
    <2>2. /\ cmd[j].in # STDIN => t[cmd[j].in] = << "in", j >>
          /\ cmd[j].out # STDOUT => t[cmd[j].out] = << "out", j >>
      BY <2>1 DEF Loose
    <2>3. Redirs(cmd[i]) \cap Redirs(cmd[j]) = {}
      BY <2>1, RedirsApart
    <2>4. cmd[j].in # STDIN => u[cmd[j].in] = << "in", j >>
      <3> SUFFICES ASSUME cmd[j].in # STDIN PROVE u[cmd[j].in] = << "in", j >>
        OBVIOUS
      <3>1. cmd[j].in \notin Redirs(cmd[i])
        <4>1. cmd[j].in # STDOUT
          BY <1>2, CommandFacts, Std
        <4> QED
          BY <2>3, <4>1 DEF Redirs
      <3> QED
        BY <1>2, <1>10, <2>2, <3>1, Descriptors
    <2>5. cmd[j].out # STDOUT => u[cmd[j].out] = << "out", j >>
      <3> SUFFICES ASSUME cmd[j].out # STDOUT PROVE u[cmd[j].out] = << "out", j >>
        OBVIOUS
      <3>1. cmd[j].out \notin Redirs(cmd[i])
        <4>1. cmd[j].out # STDIN
          BY <1>2, CommandFacts, Std
        <4> QED
          BY <2>3, <4>1 DEF Redirs
      <3> QED
        BY <1>2, <1>10, <2>2, <3>1, Descriptors
    <2> QED
      BY <2>4, <2>5
  \* A number that is closed again is the new tmp_fd.
  <1>13. fd \in gone => again # {}
    <2> SUFFICES ASSUME fd \in gone PROVE again # {}
      OBVIOUS
    <2>1. CASE fd = p.wr
      <3>1. tmp = p.wr
        BY <1>3, <1>4, <1>5, <2>1, Descriptors
      <3>2. Feeds(t, tmp, p, from, lost, twice)
        BY DEF Loose
      <3>3. twice # {}
        BY <1>3, <3>1, <3>2, Descriptors, Std DEF Feeds
      <3> QED
        BY <3>3
    <2>2. CASE fd \in Redirs(cmd[i])
      <3>1. lo # i
        <4> SUFFICES ASSUME lo = i PROVE FALSE
          OBVIOUS
        <4>1. t[fd] = << "in", i >> \/ t[fd] = << "out", i >>
          BY <1>2, <2>2 DEF Redirs, Loose
        <4> QED
          BY <1>9, <4>1, Descriptors
      <3> QED
        BY <2>2, <3>1
    <2> QED
      BY <1>6, <2>1, <2>2
  <1>14. Feeds(u, fd, NoPipe, { i }, left, again)
    <2>1. fd \notin gone => \E j \in { i } : u[fd] = << "rd", j >>
      BY <1>7
    <2>2. fd \in gone => u[fd] = Closed /\ again # {}
      BY <1>7, <1>13
    <2> QED
      BY <2>1, <2>2 DEF Feeds
  <1>15. \A g \in Fds : g # fd => ~PipeEnd(u[g])
    <2> SUFFICES ASSUME NEW g \in Fds, g # fd PROVE ~PipeEnd(u[g])
      OBVIOUS
    <2>1. CASE g \in gone
      BY <1>7, <2>1, Descriptors
    <2>2. CASE g \notin gone
      <3>1. u[g] = old[g] /\ g # p.rd /\ g # p.wr
        BY <1>7, <2>2
      <3>2. g # tmp => ~PipeEnd(t[g])
        BY <3>1 DEF Loose
      <3> QED
        BY <1>4, <3>1, <3>2, Descriptors
    <2> QED
      BY <2>1, <2>2
  <1>16. Loose(u, i + 1, fd, NoPipe, i + 1, { i }, left, again)
    BY <1>11, <1>12, <1>14, <1>15 DEF Loose
  <1> QED
    BY <1>16 DEF u

\* clean_pipe(), if dup() fails.
LEMMA CleanLooseFails ==
    ASSUME cmd \in CommandTables, NEW t \in Tables, NEW i \in Cmds, NEW tmp, NEW p,
           NEW lo \in { i, i + 1 }, NEW from, NEW lost, NEW twice, p # NoPipe,
           Loose(t, i, tmp, p, lo, from, lost, twice),
           NEW left, left # {}, NEW again
    PROVE  Loose(Close(Close(t, { tmp }), Redirs(cmd[i]) \cup { p.rd, p.wr }),
                 i + 1, -1, NoPipe, i + 1, { i }, left, again)
PROOF
  <1> DEFINE gone == Redirs(cmd[i]) \cup { p.rd, p.wr }
             u    == Close(Close(t, { tmp }), gone)
  <1>1. DOMAIN t = Fds
    BY DEF Tables
  <1>2. /\ i \in Nat /\ Cmds \subseteq Nat
        /\ \A j \in Cmds : cmd[j].in \in Fds /\ cmd[j].out \in Fds
    BY CommandFacts
  <1>3. /\ tmp \in Fds => t[tmp] = Closed \/ PipeEnd(t[tmp])
        /\ tmp \notin { STDIN, STDOUT, STDERR }
        /\ p.rd \in Fds /\ p.wr \in Fds
        /\ t[p.rd] = << "rd", i >> /\ t[p.wr] = << "wr", i >>
        /\ p.rd \notin { STDIN, STDOUT, STDERR } /\ p.wr \notin { STDIN, STDOUT, STDERR }
    BY TmpFacts
  <1>4. /\ \A g \in Fds : g \in gone \/ g = tmp => u[g] = Closed
        /\ \A g \in Fds : g \notin gone /\ g # tmp => u[g] = t[g]
    BY <1>1 DEF Close
  <1>5. Redirs(cmd[i]) \cap { STDIN, STDOUT, STDERR } = {}
    BY <1>2, CommandFacts, Std DEF Redirs
  <1> HIDE DEF u
  <1>6. \A g \in { STDIN, STDOUT, STDERR } : u[g] = Tty
    <2>1. \A g \in { STDIN, STDOUT, STDERR } : g \in Fds /\ t[g] = Tty
      BY Std DEF Loose
    <2> QED
      BY <1>3, <1>4, <1>5, <2>1
  <1>7. ASSUME NEW j \in Cmds, j >= i + 1
        PROVE  /\ cmd[j].in # STDIN => u[cmd[j].in] = << "in", j >>
               /\ cmd[j].out # STDOUT => u[cmd[j].out] = << "out", j >>
    <2>1. j >= lo /\ j # i
      BY <1>2, <1>7
    <2>2. /\ cmd[j].in # STDIN => t[cmd[j].in] = << "in", j >>
          /\ cmd[j].out # STDOUT => t[cmd[j].out] = << "out", j >>
      BY <2>1 DEF Loose
    <2>3. Redirs(cmd[i]) \cap Redirs(cmd[j]) = {}
      BY <2>1, RedirsApart
    <2>4. /\ cmd[j].in # STDIN => cmd[j].in \in Redirs(cmd[j])
          /\ cmd[j].out # STDOUT => cmd[j].out \in Redirs(cmd[j])
      BY <1>2, CommandFacts, Std DEF Redirs
    <2> QED
      BY <1>2, <1>3, <1>4, <2>2, <2>3, <2>4, Descriptors
  <1>8. Feeds(u, -1, NoPipe, { i }, left, again)
    BY DEF Feeds
  <1>9. \A g \in Fds : ~PipeEnd(u[g])
    BY <1>4, Descriptors DEF Loose
  <1>10. Loose(u, i + 1, -1, NoPipe, i + 1, { i }, left, again)
    BY <1>6, <1>7, <1>8, <1>9 DEF Loose
  <1> QED
    BY <1>10 DEF u

-----------------------------------------------------------------------------
(* What exec_prep() makes of the shape a child inherits.                   *)

Fits(t, i, from, lost, twice) ==
    /\ t[STDOUT] = IdealOut(i)
    /\ IF cmd[i].in # STDIN \/ i = 1 THEN t[STDIN] = IdealIn(i)
       ELSE \/ \E j \in from : t[STDIN] = << "rd", j >>
            \/ t[STDIN] = Tty /\ (lost # {} \/ twice # {})
            \/ t[STDIN] \in { << "rd", i >>, << "wr", i >> } /\ twice # {}
    /\ \A fd \in Fds : fd > STDOUT => ~PipeEnd(t[fd])

\* What a child finds in the table it inherits.
Inherited(t, i, tmp, p, from, lost, twice) ==
    /\ DOMAIN t = Fds
    /\ t[STDIN] = Tty /\ t[STDOUT] = Tty
    /\ cmd[i].in \in Fds /\ cmd[i].out \in Fds
    /\ cmd[i].in # STDIN =>
         cmd[i].in > STDERR /\ t[cmd[i].in] = << "in", i >>
    /\ cmd[i].out # STDOUT =>
         cmd[i].out > STDERR /\ t[cmd[i].out] = << "out", i >>
    /\ p.rd \in Fds /\ p.rd > STDERR /\ t[p.rd] = << "rd", i >>
    /\ p.wr \in Fds /\ p.wr > STDERR /\ t[p.wr] = << "wr", i >>
    /\ tmp \in Fds \cup { -1 } /\ tmp # STDIN /\ tmp # STDOUT
    /\ tmp \in Fds => t[tmp] = Closed \/ PipeEnd(t[tmp])
    /\ Feeds(t, tmp, p, from, lost, twice)
    /\ \A fd \in Fds : fd \notin { tmp, p.rd, p.wr } => ~PipeEnd(t[fd])

LEMMA LooseFacts ==
    ASSUME cmd \in CommandTables, NEW t \in Tables, NEW i \in Cmds,
           NEW tmp, NEW p, Real(p), NEW from, NEW lost, NEW twice,
           Loose(t, i, tmp, p, i, from, lost, twice)
    PROVE  Inherited(t, i, tmp, p, from, lost, twice)
PROOF
  <1>1. /\ i >= i
        /\ cmd[i].in \in Fds /\ cmd[i].out \in Fds
        /\ cmd[i].in # STDIN => cmd[i].in > STDERR
        /\ cmd[i].out # STDOUT => cmd[i].out > STDERR
    BY CommandFacts DEF Cmds
  <1>2. /\ cmd[i].in # STDIN => t[cmd[i].in] = << "in", i >>
        /\ cmd[i].out # STDOUT => t[cmd[i].out] = << "out", i >>
    BY <1>1 DEF Loose
  <1>3. p # NoPipe
    BY Std DEF Real, NoPipe
  <1>4. /\ tmp \in Fds \cup { -1 }
        /\ tmp \in Fds => t[tmp] = Closed \/ PipeEnd(t[tmp])
        /\ tmp \notin { STDIN, STDOUT, STDERR }
        /\ t[p.rd] = << "rd", i >> /\ t[p.wr] = << "wr", i >>
        /\ p.rd \in Fds /\ p.wr \in Fds
        /\ p.rd \notin { STDIN, STDOUT, STDERR }
        /\ p.wr \notin { STDIN, STDOUT, STDERR }
    BY <1>3, TmpFacts
  <1>5. p.rd > STDERR /\ p.wr > STDERR
    BY <1>4, Std DEF Fds
  <1> QED
    BY <1>1, <1>2, <1>4, <1>5 DEF Inherited, Loose, Tables

LEMMA FirstFits ==
    ASSUME cmd \in CommandTables, NEW t \in Tables, NEW i \in Cmds, i = 1,
           NEW im, Real(im.pipe), NEW lost,
           Loose(t, i, im.tmp_fd, im.pipe, i, {}, lost, {})
    PROVE  Fits(ExecFirstPrep(t, cmd[i], im), i, {}, lost, {})
PROOF
  <1> DEFINE rd  == im.pipe.rd
             wr  == im.pipe.wr
             in  == cmd[i].in
             out == cmd[i].out
             a   == IF in # STDIN THEN Move(t, in, STDIN) ELSE t
             b   == Put(a, out, STDOUT, wr)
             u   == Close(b, { rd, wr })
  <1>0. Inherited(t, i, im.tmp_fd, im.pipe, {}, lost, {})
    BY LooseFacts
  <1>1. /\ DOMAIN t = Fds
        /\ t[STDIN] = Tty
        /\ in \in Fds /\ out \in Fds
        /\ in # STDIN => in > STDERR /\ t[in] = << "in", i >>
        /\ out # STDOUT => out > STDERR /\ t[out] = << "out", i >>
        /\ rd \in Fds /\ rd > STDERR /\ t[rd] = << "rd", i >>
        /\ wr \in Fds /\ wr > STDERR /\ t[wr] = << "wr", i >>
        /\ \A g \in Fds : g \notin { im.tmp_fd, rd, wr } => ~PipeEnd(t[g])
        /\ Feeds(t, im.tmp_fd, im.pipe, {}, lost, {})
    BY <1>0 DEF Inherited
  <1>2. \A g \in Fds : g \notin { rd, wr } => ~PipeEnd(t[g])
    <2>1. im.tmp_fd = -1
      BY <1>1 DEF Feeds
    <2> QED
      BY <1>1, <2>1, Std
  <1>3. /\ rd # STDIN /\ rd # STDOUT /\ wr # STDIN /\ wr # STDOUT
        /\ STDIN # STDOUT /\ STDIN \in Fds
        /\ \A g \in Fds : g > STDOUT => g # STDIN /\ g # STDOUT
        /\ in # STDIN => in # wr
        /\ in # STDIN /\ out # STDOUT => in # out
        /\ out # STDIN
    BY <1>1, Std, Descriptors DEF Fds
  <1>4. i = 1 /\ i # N
    BY CommandFacts
  <1> HIDE DEF rd, wr, in, out
  <1>5. /\ DOMAIN a = Fds
        /\ a[STDIN] = IdealIn(i)
        /\ a[wr] = << "wr", i >>
        /\ out # STDOUT => a[out] = << "out", i >>
        /\ \A g \in Fds : g > STDOUT /\ g \notin { rd, wr } => ~PipeEnd(a[g])
    <2>1. CASE in = STDIN
      BY <1>1, <1>2, <1>4, <2>1 DEF IdealIn, in
    <2>2. CASE in # STDIN
      <3>1. a = Put(t, in, STDIN, wr) /\ t[in] # Closed
        BY <1>1, <2>2, Descriptors DEF Put
      <3> HIDE DEF a
      <3>2. /\ DOMAIN a = Fds
            /\ a[STDIN] = << "in", i >>
            /\ \A g \in Fds : g # STDIN /\ g # in => a[g] = t[g]
            /\ \A g \in Fds : g # STDIN /\ ~PipeEnd(t[g]) => ~PipeEnd(a[g])
        <4>1. /\ in \in Fds /\ in > STDERR /\ t[in] # Closed
              /\ DOMAIN t = Fds
          BY <1>1, <2>2, <3>1
        <4>2. LET v == Put(t, in, STDIN, wr)
              IN  /\ DOMAIN v = Fds
                  /\ v[STDIN] = t[in]
                  /\ \A g \in Fds : g # STDIN /\ g # in => v[g] = t[g]
                  /\ \A g \in Fds : g # STDIN /\ ~PipeEnd(t[g]) => ~PipeEnd(v[g])
          BY <2>2, <4>1, PutFacts
        <4> QED
          BY <1>1, <2>2, <3>1, <4>2
      <3> QED
        BY <1>1, <1>2, <1>3, <2>2, <3>2 DEF IdealIn, in
    <2> QED
      BY <2>1, <2>2
  <1> HIDE DEF a
  <1>6. /\ DOMAIN b = Fds
        /\ out # STDOUT => b[STDOUT] = a[out]
        /\ out = STDOUT => b[STDOUT] = a[wr]
        /\ \A g \in Fds : g # STDOUT /\ g # out => b[g] = a[g]
        /\ \A g \in Fds : g # STDOUT /\ ~PipeEnd(a[g]) => ~PipeEnd(b[g])
    <2>1. /\ DOMAIN a = Fds /\ out \in Fds
          /\ out # STDOUT => out > STDERR /\ a[out] # Closed
          /\ IsOpen(a, wr)
      BY <1>1, <1>5, Descriptors DEF IsOpen
    <2> QED
      BY <2>1, PutFacts
  <1> HIDE DEF b
  <1>7. b[STDOUT] = IdealOut(i) /\ b[STDIN] = IdealIn(i)
    BY <1>1, <1>3, <1>4, <1>5, <1>6 DEF IdealOut, out
  <1>8. \A g \in Fds : g > STDOUT /\ g \notin { rd, wr } => ~PipeEnd(b[g])
    BY <1>3, <1>5, <1>6
  <1>9. /\ u[STDIN] = IdealIn(i) /\ u[STDOUT] = IdealOut(i)
        /\ \A g \in Fds : g > STDOUT => ~PipeEnd(u[g])
    BY <1>3, <1>6, <1>7, <1>8, ShutFacts
  <1>10. Fits(u, i, {}, lost, {})
    BY <1>4, <1>9 DEF Fits
  <1>11. u = ExecFirstPrep(t, cmd[i], im)
    BY DEF ExecFirstPrep, a, b, Put, in, out, rd, wr
  <1> QED
    BY <1>10, <1>11

LEMMA MidFits ==
    ASSUME cmd \in CommandTables, NEW t \in Tables, NEW i \in Cmds,
           i # 1, i # N,
           NEW im, Real(im.pipe), NEW from, NEW lost, NEW twice,
           Loose(t, i, im.tmp_fd, im.pipe, i, from, lost, twice)
    PROVE  Fits(ExecMidPrep(t, cmd[i], im), i, from, lost, twice)
PROOF
  <1> DEFINE rd  == im.pipe.rd
             wr  == im.pipe.wr
             tmp == im.tmp_fd
             in  == cmd[i].in
             out == cmd[i].out
             a   == Put(t, out, STDOUT, wr)
             b   == Put(a, in, STDIN, tmp)
             u   == Close(b, { rd, wr, tmp })
  <1>0. Inherited(t, i, im.tmp_fd, im.pipe, from, lost, twice)
    BY LooseFacts
  <1>1. /\ DOMAIN t = Fds /\ t[STDIN] = Tty
        /\ in \in Fds /\ out \in Fds
        /\ in # STDIN => in > STDERR /\ t[in] = << "in", i >>
        /\ out # STDOUT => out > STDERR /\ t[out] = << "out", i >>
        /\ rd \in Fds /\ rd > STDERR /\ t[rd] = << "rd", i >>
        /\ wr \in Fds /\ wr > STDERR /\ t[wr] = << "wr", i >>
        /\ tmp \in Fds \cup { -1 } /\ tmp # STDIN /\ tmp # STDOUT
        /\ tmp \in Fds => t[tmp] = Closed \/ PipeEnd(t[tmp])
        /\ Feeds(t, im.tmp_fd, im.pipe, from, lost, twice)
        /\ \A g \in Fds : g \notin { tmp, rd, wr } => ~PipeEnd(t[g])
    BY <1>0 DEF Inherited
  <1>2. /\ rd # STDIN /\ rd # STDOUT /\ wr # STDIN /\ wr # STDOUT
        /\ STDIN # STDOUT /\ STDOUT \in Fds /\ STDIN \in Fds
        /\ \A g \in Fds : g > STDOUT => g # STDIN /\ g # STDOUT
        /\ tmp \in Fds /\ out # STDOUT => out # tmp
        /\ in # STDIN /\ out # STDOUT => in # out
        /\ in # STDOUT /\ out # STDIN
    <2>1. /\ STDIN = 0 /\ STDOUT = 1 /\ STDERR = 2
          /\ STDOUT \in Fds /\ STDIN \in Fds
          /\ \A g \in Fds : g \in Nat
      BY Std
    <2>2. /\ tmp \in Fds /\ out # STDOUT => out # tmp
          /\ in # STDIN /\ out # STDOUT => in # out
      BY <1>1, Descriptors
    <2> HIDE DEF rd, wr, in, out, tmp
    <2> QED
      BY <1>1, <2>1, <2>2
  \* What is found of the pipe to the left.
  <1>3. \/ IsOpen(t, tmp) /\ \E j \in from : t[tmp] = << "rd", j >>
        \/ ~IsOpen(t, tmp) /\ (lost # {} \/ twice # {})
        \/ IsOpen(t, tmp) /\ t[tmp] \in { << "rd", i >>, << "wr", i >> } /\ twice # {}
    BY <1>1, Std, Descriptors DEF Feeds, IsOpen
  <1> HIDE DEF rd, wr, in, out, tmp
  <1>4. /\ DOMAIN a = Fds
        /\ out # STDOUT => a[STDOUT] = t[out]
        /\ out = STDOUT => a[STDOUT] = t[wr]
        /\ \A g \in Fds : g # STDOUT /\ g # out => a[g] = t[g]
        /\ \A g \in Fds : g # STDOUT /\ ~PipeEnd(t[g]) => ~PipeEnd(a[g])
    <2>1. /\ DOMAIN t = Fds /\ out \in Fds
          /\ out # STDOUT => out > STDERR /\ t[out] # Closed
          /\ IsOpen(t, wr)
      BY <1>1, Descriptors DEF IsOpen
    <2> QED
      BY <2>1, PutFacts
  <1> HIDE DEF a
  <1>5. /\ a[STDOUT] = IdealOut(i) /\ a[STDIN] = Tty
        /\ tmp \in Fds => a[tmp] = t[tmp]
        /\ IsOpen(a, tmp) <=> IsOpen(t, tmp)
        /\ in # STDIN => a[in] = << "in", i >>
    <2>1. /\ a[STDOUT] = IdealOut(i) /\ a[STDIN] = Tty
          /\ tmp \in Fds => a[tmp] = t[tmp]
          /\ in # STDIN => a[in] = << "in", i >>
      BY <1>1, <1>2, <1>4 DEF IdealOut, out
    <2> QED
      BY <1>1, <1>4, <2>1 DEF IsOpen
  <1>6. /\ DOMAIN b = Fds
        /\ in # STDIN => b[STDIN] = a[in]
        /\ in = STDIN /\ IsOpen(a, tmp) => b[STDIN] = a[tmp]
        /\ in = STDIN /\ ~IsOpen(a, tmp) => b[STDIN] = a[STDIN]
        /\ \A g \in Fds : g # STDIN /\ g # in => b[g] = a[g]
        /\ \A g \in Fds : g # STDIN /\ ~PipeEnd(a[g]) => ~PipeEnd(b[g])
    <2>1. /\ DOMAIN a = Fds /\ in \in Fds
          /\ in # STDIN => in > STDERR /\ a[in] # Closed
      BY <1>1, <1>4, <1>5, Descriptors
    <2> QED
      BY <2>1, PutFacts
  <1> HIDE DEF b
  <1>7. /\ b[STDOUT] = IdealOut(i)
        /\ in # STDIN => b[STDIN] = IdealIn(i)
    BY <1>2, <1>5, <1>6 DEF IdealIn, in
  <1>8. in = STDIN => \/ \E j \in from : b[STDIN] = << "rd", j >>
                      \/ b[STDIN] = Tty /\ (lost # {} \/ twice # {})
                      \/ b[STDIN] \in { << "rd", i >>, << "wr", i >> } /\ twice # {}
    <2> SUFFICES ASSUME in = STDIN
                 PROVE  \/ \E j \in from : b[STDIN] = << "rd", j >>
                        \/ b[STDIN] = Tty /\ (lost # {} \/ twice # {})
                        \/ b[STDIN] \in { << "rd", i >>, << "wr", i >> } /\ twice # {}
      OBVIOUS
    <2>1. /\ IsOpen(t, tmp) => b[STDIN] = t[tmp]
          /\ ~IsOpen(t, tmp) => b[STDIN] = Tty
      BY <1>1, <1>5, <1>6 DEF IsOpen
    <2> QED
      BY <1>3, <2>1
  <1>9. \A g \in Fds : g > STDOUT /\ g \notin { rd, wr, tmp } => ~PipeEnd(b[g])
    BY <1>1, <1>2, <1>4, <1>6
  <1>10. /\ u[STDIN] = b[STDIN] /\ u[STDOUT] = b[STDOUT]
         /\ \A g \in Fds : g > STDOUT => ~PipeEnd(u[g])
    BY <1>1, <1>2, <1>6, <1>9, ShutFacts
  <1>11. Fits(u, i, from, lost, twice)
    BY <1>7, <1>8, <1>10 DEF Fits, in
  <1>12. u = ExecMidPrep(t, cmd[i], im)
    BY DEF ExecMidPrep, a, b, Put, in, out, rd, wr, tmp
  <1> QED
    BY <1>11, <1>12

LEMMA LastFits ==
    ASSUME cmd \in CommandTables, NEW t \in Tables, NEW i \in Cmds,
           i # 1, i = N,
           NEW im, Real(im.pipe), NEW from, i \notin from, NEW lost, NEW twice,
           Loose(t, i, im.tmp_fd, im.pipe, i, from, lost, twice)
    PROVE  Fits(ExecLastPrep(t, cmd[i], im), i, from, lost, twice)
PROOF
  <1> DEFINE rd  == im.pipe.rd
             wr  == im.pipe.wr
             tmp == im.tmp_fd
             in  == cmd[i].in
             out == cmd[i].out
             a   == IF out # STDOUT THEN Move(t, out, STDOUT) ELSE t
             c   == Close(a, { rd, wr })
             b   == Put(c, in, STDIN, tmp)
             u   == Close(b, { tmp })
  <1>0. Inherited(t, i, im.tmp_fd, im.pipe, from, lost, twice)
    BY LooseFacts
  <1>1. /\ DOMAIN t = Fds /\ t[STDIN] = Tty /\ t[STDOUT] = Tty
        /\ in \in Fds /\ out \in Fds
        /\ in # STDIN => in > STDERR /\ t[in] = << "in", i >>
        /\ out # STDOUT => out > STDERR /\ t[out] = << "out", i >>
        /\ rd \in Fds /\ rd > STDERR /\ t[rd] = << "rd", i >>
        /\ wr \in Fds /\ wr > STDERR /\ t[wr] = << "wr", i >>
        /\ tmp \in Fds \cup { -1 } /\ tmp # STDIN /\ tmp # STDOUT
        /\ tmp \in Fds => t[tmp] = Closed \/ PipeEnd(t[tmp])
        /\ Feeds(t, im.tmp_fd, im.pipe, from, lost, twice)
        /\ \A g \in Fds : g \notin { tmp, rd, wr } => ~PipeEnd(t[g])
    BY <1>0 DEF Inherited
  <1>2. /\ rd # STDIN /\ rd # STDOUT /\ wr # STDIN /\ wr # STDOUT
        /\ STDIN # STDOUT /\ STDOUT \in Fds /\ STDIN \in Fds
        /\ \A g \in Fds : g > STDOUT => g # STDIN /\ g # STDOUT
        /\ tmp \in Fds /\ out # STDOUT => out # tmp
        /\ in # STDIN /\ out # STDOUT => in # out
        /\ in # STDIN => in # rd /\ in # wr
        /\ in # STDOUT /\ out # STDIN
    <2>1. /\ STDIN = 0 /\ STDOUT = 1 /\ STDERR = 2
          /\ STDOUT \in Fds /\ STDIN \in Fds
          /\ \A g \in Fds : g \in Nat
      BY Std
    <2>2. /\ tmp \in Fds /\ out # STDOUT => out # tmp
          /\ in # STDIN /\ out # STDOUT => in # out
          /\ in # STDIN => in # rd /\ in # wr
      BY <1>1, Descriptors
    <2> HIDE DEF rd, wr, in, out, tmp
    <2> QED
      BY <1>1, <2>1, <2>2
  \* What is found of the pipe to the left once the child's own is closed.
  <1>3. \/ tmp \in Fds /\ tmp \notin { rd, wr } /\ \E j \in from : t[tmp] = << "rd", j >>
        \/ (tmp \notin Fds \/ tmp \in { rd, wr } \/ t[tmp] = Closed) /\ (lost # {} \/ twice # {})
    BY <1>1, Std, Descriptors DEF Feeds
  <1> HIDE DEF rd, wr, in, out, tmp
  <1>4. /\ DOMAIN a = Fds
        /\ a[STDOUT] = IdealOut(i) /\ a[STDIN] = Tty
        /\ tmp \in Fds => a[tmp] = t[tmp]
        /\ in # STDIN => a[in] = << "in", i >>
        /\ \A g \in Fds : g > STDOUT /\ g \notin { rd, wr, tmp } => ~PipeEnd(a[g])
    <2>1. CASE out = STDOUT
      BY <1>1, <1>2, <2>1 DEF IdealOut, out
    <2>2. CASE out # STDOUT
      <3>1. a = Put(t, out, STDOUT, wr) /\ t[out] # Closed
        BY <1>1, <2>2, Descriptors DEF Put
      <3> HIDE DEF a
      <3>2. /\ DOMAIN a = Fds
            /\ a[STDOUT] = << "out", i >>
            /\ \A g \in Fds : g # STDOUT /\ g # out => a[g] = t[g]
            /\ \A g \in Fds : g # STDOUT /\ ~PipeEnd(t[g]) => ~PipeEnd(a[g])
        <4>1. /\ out \in Fds /\ out > STDERR /\ t[out] # Closed
              /\ DOMAIN t = Fds
          BY <1>1, <2>2, <3>1
        <4>2. LET v == Put(t, out, STDOUT, wr)
              IN  /\ DOMAIN v = Fds
                  /\ v[STDOUT] = t[out]
                  /\ \A g \in Fds : g # STDOUT /\ g # out => v[g] = t[g]
                  /\ \A g \in Fds : g # STDOUT /\ ~PipeEnd(t[g]) => ~PipeEnd(v[g])
          BY <2>2, <4>1, PutFacts
        <4> QED
          BY <1>1, <2>2, <3>1, <4>2
      <3> QED
        BY <1>1, <1>2, <2>2, <3>2 DEF IdealOut, out
    <2> QED
      BY <2>1, <2>2
  <1> HIDE DEF a
  <1>5. /\ DOMAIN c = Fds
        /\ \A g \in Fds : g \in { rd, wr } => c[g] = Closed
        /\ \A g \in Fds : g \notin { rd, wr } => c[g] = a[g]
    BY <1>4, CloseFacts
  <1> HIDE DEF c
  <1>6. /\ c[STDOUT] = IdealOut(i) /\ c[STDIN] = Tty
        /\ in # STDIN => c[in] = << "in", i >>
        /\ \A g \in Fds : g > STDOUT /\ g # tmp => ~PipeEnd(c[g])
    BY <1>1, <1>2, <1>4, <1>5, Descriptors
  <1>7. \/ IsOpen(c, tmp) /\ \E j \in from : c[tmp] = << "rd", j >>
        \/ ~IsOpen(c, tmp) /\ (lost # {} \/ twice # {})
    <2>1. CASE tmp \in Fds /\ tmp \notin { rd, wr } /\ \E j \in from : t[tmp] = << "rd", j >>
      BY <1>4, <1>5, <2>1, Descriptors DEF IsOpen
    <2>2. CASE (tmp \notin Fds \/ tmp \in { rd, wr } \/ t[tmp] = Closed) /\ (lost # {} \/ twice # {})
      <3>1. ~IsOpen(c, tmp)
        BY <1>4, <1>5, <2>2 DEF IsOpen
      <3> QED
        BY <2>2, <3>1
    <2> QED
      BY <1>3, <2>1, <2>2
  <1>8. /\ DOMAIN b = Fds
        /\ in # STDIN => b[STDIN] = c[in]
        /\ in = STDIN /\ IsOpen(c, tmp) => b[STDIN] = c[tmp]
        /\ in = STDIN /\ ~IsOpen(c, tmp) => b[STDIN] = c[STDIN]
        /\ \A g \in Fds : g # STDIN /\ g # in => b[g] = c[g]
        /\ \A g \in Fds : g # STDIN /\ ~PipeEnd(c[g]) => ~PipeEnd(b[g])
    <2>1. /\ DOMAIN c = Fds /\ in \in Fds
          /\ in # STDIN => in > STDERR /\ c[in] # Closed
      BY <1>1, <1>5, <1>6, Descriptors
    <2> QED
      BY <2>1, PutFacts
  <1> HIDE DEF b
  <1>9. /\ b[STDOUT] = IdealOut(i)
        /\ in # STDIN => b[STDIN] = IdealIn(i)
        /\ in = STDIN => \/ \E j \in from : b[STDIN] = << "rd", j >>
                         \/ b[STDIN] = Tty /\ (lost # {} \/ twice # {})
    <2>1. b[STDOUT] = IdealOut(i) /\ (in # STDIN => b[STDIN] = IdealIn(i))
      BY <1>2, <1>6, <1>8 DEF IdealIn, in
    <2>2. in = STDIN => \/ \E j \in from : b[STDIN] = << "rd", j >>
                        \/ b[STDIN] = Tty /\ (lost # {} \/ twice # {})
      BY <1>6, <1>7, <1>8
    <2> QED
      BY <2>1, <2>2
  <1>10. \A g \in Fds : g > STDOUT /\ g \notin { tmp } => ~PipeEnd(b[g])
    BY <1>2, <1>6, <1>8
  <1>11. /\ u[STDIN] = b[STDIN] /\ u[STDOUT] = b[STDOUT]
         /\ \A g \in Fds : g > STDOUT => ~PipeEnd(u[g])
    BY <1>1, <1>8, <1>10, ShutFacts
  <1>12. Fits(u, i, from, lost, twice)
    BY <1>9, <1>11 DEF Fits, in
  <1>13. u = ExecLastPrep(t, cmd[i], im)
    BY DEF ExecLastPrep, a, b, c, Put, in, out, rd, wr, tmp
  <1> QED
    BY <1>12, <1>13

-----------------------------------------------------------------------------
(* The invariant: what the shell holds when it turns to a command, and what *)
(* a child inherits, has the shape that exec_prep() copes with, whatever    *)
(* failed before it.                                                        *)

PipeMade ==
    /\ pc = "pipe" => pipe = NoPipe
    /\ pc \in { "fork", "clean" } => Real(pipe)

\* A fork that failed has closed the redirections of its command.
History ==
    /\ pc \in Setup => \A j \in unpiped : j < cur
    /\ pc = "clean" /\ proc[cur] = "unborn" => cur \in faulty

FirstOpen(i) == IF pc = "clean" /\ proc[i] = "unborn" THEN i + 1 ELSE i

ParentAt(i) == Loose(fds, i, tmp_fd, pipe, FirstOpen(i), From(i), Lost(i), Twice(i))

ParentLoose == \A i \in Cmds : i = cur /\ pc \in Setup => ParentAt(i)

ForkedAt(i) ==
    /\ Real(image[i].pipe)
    /\ Loose(cfds[i], i, image[i].tmp_fd, image[i].pipe, i, From(i), Lost(i), Twice(i))

RunningAt(i) == Fits(cfds[i], i, From(i), Lost(i), Twice(i))

ChildrenFit ==
    \A i \in Cmds : /\ proc[i] = "forked" => ForkedAt(i)
                    /\ proc[i] = "running" => RunningAt(i)

WireInv == TypeInv /\ WaitInv /\ PipeMade /\ History /\ ParentLoose /\ ChildrenFit

LEMMA InitWire == Init => WireInv
PROOF
  <1> SUFFICES ASSUME Init PROVE WireInv
    OBVIOUS
  <1>1. TypeInv /\ WaitInv
    BY InitTypes, InitWait
  <1>2. ParentLoose
    <2>1. pc = "pipe" /\ cur = 1 /\ tmp_fd = -1 /\ pipe = NoPipe
      BY DEF Init
    <2> QED
      BY <2>1, ParsedLoose DEF ParentLoose, ParentAt, FirstOpen
  <1>3. PipeMade /\ History /\ ChildrenFit
    BY DEF PipeMade, History, ChildrenFit, Init
  <1> QED
    BY <1>1, <1>2, <1>3 DEF WireInv

\* More may be known to have failed.
LEMMA LooseGrows ==
    ASSUME NEW t, NEW i, NEW tmp, NEW p, NEW lo, NEW from, NEW lost, NEW twice,
           Loose(t, i, tmp, p, lo, from, lost, twice),
           NEW left, lost \subseteq left, NEW again, twice \subseteq again
    PROVE  Loose(t, i, tmp, p, lo, from, left, again)
PROOF
  <1>1. Feeds(t, tmp, p, from, left, again)
    BY DEF Loose, Feeds
  <1> QED
    BY <1>1 DEF Loose

LEMMA FitsGrows ==
    ASSUME NEW t, NEW i, NEW from, NEW lost, NEW twice, Fits(t, i, from, lost, twice),
           NEW left, lost \subseteq left, NEW again, twice \subseteq again
    PROVE  Fits(t, i, from, left, again)
PROOF BY DEF Fits

\* What a step may add to the history: the command the shell works on.
Grows ==
    /\ cmd' = cmd
    /\ faulty \subseteq faulty'
    /\ unpiped \subseteq unpiped' /\ unpiped' \subseteq unpiped \cup { cur }
    /\ \A j \in Cmds : j # cur /\ proc[j] = "unborn" => proc'[j] = "unborn"

\* It changes nothing to the left of that command.
LEMMA LeftOf ==
    ASSUME TypeInv, Grows, NEW i \in 1 .. cur
    PROVE  /\ From(i)' = From(i)
           /\ Lost(i) \subseteq Lost(i)'
           /\ Twice(i) \subseteq Twice(i)'
PROOF
  <1>1. /\ N \in Nat /\ Cmds = 1 .. N /\ cur \in 1 .. N + 1 /\ faulty \subseteq Cmds
        /\ i \in Nat
    BY CommandFacts DEF TypeInv, TypeOK
  <1>2. \A k \in 1 .. i - 1 : k # cur /\ (k \in unpiped' <=> k \in unpiped)
    BY <1>1 DEF Grows
  <1>3. \A j \in 1 .. i - 1 : LeftPipe(i, j)' <=> LeftPipe(i, j)
    <2> SUFFICES ASSUME NEW j \in 1 .. i - 1 PROVE LeftPipe(i, j)' <=> LeftPipe(i, j)
      OBVIOUS
    <2>1. \A k \in j + 1 .. i - 1 : k \in 1 .. i - 1
      BY <1>1
    <2> QED
      BY <1>2, <2>1 DEF LeftPipe
  <1>4. From(i)' = From(i)
    BY <1>3 DEF From
  <1>5. Lost(i) \subseteq Lost(i)'
    <2>1. 1 .. i - 1 \subseteq unpiped => 1 .. i - 1 \subseteq unpiped'
      BY DEF Grows
    <2> QED
      BY <1>4, <2>1 DEF Lost, Grows
  <1>6. Twice(i) \subseteq Twice(i)'
    <2> SUFFICES ASSUME NEW j \in Twice(i) PROVE j \in Twice(i)'
      OBVIOUS
    <2>1. j \in faulty /\ j \notin unpiped /\ j < i /\ proc[j] = "unborn" /\ Redirs(cmd[j]) # {}
      BY DEF Twice
    <2>2. j \in Cmds /\ j # cur
      BY <1>1, <2>1
    <2> QED
      BY <2>1, <2>2 DEF Twice, Grows
  <1> QED
    BY <1>4, <1>5, <1>6

\* A child that was born is the shell's last command or to its left.
LEMMA ChildKept ==
    ASSUME WireInv, Grows, NEW i \in Cmds,
           image'[i] = image[i], cfds'[i] = cfds[i]
    PROVE  /\ proc[i] = "forked" => ForkedAt(i)'
           /\ proc[i] = "running" => RunningAt(i)'
PROOF
  <1> SUFFICES ASSUME proc[i] \in { "forked", "running" }
               PROVE  /\ proc[i] = "forked" => ForkedAt(i)'
                      /\ proc[i] = "running" => RunningAt(i)'
    OBVIOUS
  <1>1. i \in 1 .. cur
    <2>1. Cmds = 1 .. N /\ N \in Nat /\ cur \in 1 .. N + 1
      BY CommandFacts DEF WireInv, TypeInv, TypeOK
    <2>2. i < cur \/ i = cur
      BY DEF WireInv, WaitInv, Counted
    <2> QED
      BY <2>1, <2>2
  <1>2. /\ From(i)' = From(i)
        /\ Lost(i) \subseteq Lost(i)'
        /\ Twice(i) \subseteq Twice(i)'
    BY <1>1, LeftOf DEF WireInv
  <1>3. cmd' = cmd /\ Cmds' = Cmds /\ N' = N
    BY DEF Grows, Cmds, N
  <1>4. proc[i] = "forked" => ForkedAt(i)'
    <2> SUFFICES ASSUME proc[i] = "forked" PROVE ForkedAt(i)'
      OBVIOUS
    <2>1. /\ Real(image[i].pipe)
          /\ Loose(cfds[i], i, image[i].tmp_fd, image[i].pipe, i, From(i), Lost(i), Twice(i))
      BY DEF WireInv, ChildrenFit, ForkedAt
    <2>2. Loose(cfds[i], i, image[i].tmp_fd, image[i].pipe, i, From(i), Lost(i)', Twice(i)')
      BY <1>2, <2>1, LooseGrows
    <2> QED
      BY <1>2, <1>3, <2>1, <2>2 DEF ForkedAt, Loose
  <1>5. proc[i] = "running" => RunningAt(i)'
    <2> SUFFICES ASSUME proc[i] = "running" PROVE RunningAt(i)'
      OBVIOUS
    <2>1. Fits(cfds[i], i, From(i), Lost(i), Twice(i))
      BY DEF WireInv, ChildrenFit, RunningAt
    <2>2. Fits(cfds[i], i, From(i), Lost(i)', Twice(i)')
      BY <1>2, <2>1, FitsGrows
    <2> QED
      BY <1>2, <1>3, <2>2 DEF RunningAt, Fits, IdealIn, IdealOut
  <1> QED
    BY <1>4, <1>5

\* Steps that bring no child forward keep what is known of the children.
LEMMA ChildrenKept ==
    ASSUME WireInv, Grows,
           \A i \in Cmds : proc'[i] \in { "forked", "running" } =>
               proc'[i] = proc[i] /\ image'[i] = image[i] /\ cfds'[i] = cfds[i]
    PROVE  ChildrenFit'
PROOF
  <1>1. Cmds' = Cmds
    BY DEF Grows, Cmds
  <1> SUFFICES ASSUME NEW i \in Cmds
               PROVE  /\ proc'[i] = "forked" => ForkedAt(i)'
                      /\ proc'[i] = "running" => RunningAt(i)'
    BY <1>1 DEF ChildrenFit
  <1>2. CASE proc'[i] \in { "forked", "running" }
    BY <1>2, ChildKept
  <1> QED
    BY <1>2

\* Steps outside the set-up phase keep what is known of the shell, and so do
\* the steps of the children.
LEMMA ShellKept ==
    ASSUME pc' \notin Setup
    PROVE  PipeMade' /\ History' /\ ParentLoose'
PROOF BY DEF ParentLoose, PipeMade, History, Setup

LEMMA ShellUntouched ==
    ASSUME WireInv, Grows, UNCHANGED shellvars,
           \A i \in Cmds : proc'[i] = "unborn" <=> proc[i] = "unborn"
    PROVE  PipeMade' /\ History' /\ ParentLoose'
PROOF
  <1>1. Cmds' = Cmds /\ cmd' = cmd /\ UNCHANGED << pc, cur, fds, pipe, tmp_fd, faulty, unpiped >>
    BY DEF Grows, Cmds, shellvars
  <1>2. pc \in Setup => cur \in Cmds /\ cur \in 1 .. cur
    BY CommandFacts DEF WireInv, TypeInv, TypeOK
  <1>3. PipeMade'
    BY <1>1 DEF WireInv, PipeMade, Real
  <1>4. History'
    BY <1>1, <1>2 DEF WireInv, History, Setup
  <1>5. ParentLoose'
    <2> SUFFICES ASSUME NEW i \in Cmds, i = cur, pc \in Setup PROVE ParentAt(i)'
      BY <1>1 DEF ParentLoose
    <2>1. Loose(fds, i, tmp_fd, pipe, FirstOpen(i), From(i), Lost(i), Twice(i))
      BY DEF WireInv, ParentLoose, ParentAt
    <2>2. /\ From(i)' = From(i)
          /\ Lost(i) \subseteq Lost(i)'
          /\ Twice(i) \subseteq Twice(i)'
      BY <1>2, LeftOf DEF WireInv
    <2>3. Loose(fds, i, tmp_fd, pipe, FirstOpen(i), From(i), Lost(i)', Twice(i)')
      BY <2>1, <2>2, LooseGrows
    <2>4. FirstOpen(i)' = FirstOpen(i)
      BY <1>1 DEF FirstOpen
    <2> QED
      BY <1>1, <2>2, <2>3, <2>4 DEF ParentAt, Loose
  <1> QED
    BY <1>3, <1>4, <1>5

\* What the command i adds to the history of the one after it, when clean_pipe()
\* has run or its pipe() has failed.
LEMMA NextLeft ==
    ASSUME TypeInv, Grows, NEW i \in Cmds, i = cur, proc' = proc
    PROVE  /\ i \in unpiped' => /\ From(i + 1)' = From(i)
                                /\ Lost(i) \subseteq Lost(i + 1)'
           /\ i \notin unpiped' => /\ From(i + 1)' = { i }
                                   /\ i \in faulty' => i \in Lost(i + 1)'
           /\ Twice(i) \subseteq Twice(i + 1)'
           /\ i \in faulty' /\ i \notin unpiped' /\ proc[i] = "unborn" /\ Redirs(cmd[i]) # {}
                => i \in Twice(i + 1)'
PROOF
  <1>1. /\ N \in Nat /\ Cmds = 1 .. N /\ faulty \subseteq Cmds /\ i \in Nat /\ i >= 1
        /\ i + 1 - 1 = i /\ 1 .. i = (1 .. i - 1) \cup { i }
    BY CommandFacts DEF TypeInv, TypeOK
  <1>2. \A k \in 1 .. i - 1 : k # i /\ (k \in unpiped' <=> k \in unpiped)
    BY <1>1 DEF Grows
  <1>3. \A j \in 1 .. i - 1 : j + 1 .. (i + 1) - 1 = (j + 1 .. i - 1) \cup { i }
    BY <1>1
  <1>4. ASSUME i \in unpiped'
        PROVE  From(i + 1)' = From(i) /\ Lost(i) \subseteq Lost(i + 1)'
    <2>1. ASSUME NEW j \in 1 .. i - 1 PROVE LeftPipe(i + 1, j)' <=> LeftPipe(i, j)
      <3>1. \A k \in j + 1 .. i - 1 : k \in 1 .. i - 1
        BY <1>1
      <3>2. j \in 1 .. (i + 1) - 1
        BY <1>1
      <3> QED
        BY <1>2, <1>3, <1>4, <3>1, <3>2 DEF LeftPipe
    <2>2. ~LeftPipe(i + 1, i)'
      BY <1>4 DEF LeftPipe
    <2>3. From(i + 1)' = From(i)
      BY <1>1, <2>1, <2>2 DEF From
    <2>4. 1 .. i - 1 \subseteq unpiped => 1 .. (i + 1) - 1 \subseteq unpiped'
      BY <1>1, <1>2, <1>4
    <2>5. Lost(i) \subseteq Lost(i + 1)'
      <3> SUFFICES ASSUME NEW j \in Lost(i) PROVE j \in Lost(i + 1)'
        OBVIOUS
      <3>1. CASE j \in faulty /\ j \in From(i)
        BY <2>3, <3>1 DEF Lost, Grows
      <3>2. CASE j = 0 /\ 1 .. i - 1 \subseteq unpiped
        <4>1. 1 .. (i + 1) - 1 \subseteq unpiped'
          BY <2>4, <3>2
        <4> QED
          BY <3>2, <4>1 DEF Lost
      <3> QED
        BY <3>1, <3>2 DEF Lost
    <2> QED
      BY <2>3, <2>5
  <1>5. ASSUME i \notin unpiped'
        PROVE  From(i + 1)' = { i } /\ (i \in faulty' => i \in Lost(i + 1)')
    <2>1. ASSUME NEW j \in 1 .. i - 1 PROVE ~LeftPipe(i + 1, j)'
      <3>1. i \in j + 1 .. (i + 1) - 1
        BY <1>1
      <3> QED
        BY <1>5, <3>1 DEF LeftPipe
    <2>2. LeftPipe(i + 1, i)'
      <3>1. i \in 1 .. (i + 1) - 1 /\ i + 1 .. (i + 1) - 1 = {}
        BY <1>1
      <3> QED
        BY <1>5, <3>1 DEF LeftPipe
    <2>3. From(i + 1)' = { i }
      BY <1>1, <2>1, <2>2 DEF From
    <2> QED
      BY <2>3 DEF Lost
  <1>6. Twice(i) \subseteq Twice(i + 1)'
    <2> SUFFICES ASSUME NEW j \in Twice(i) PROVE j \in Twice(i + 1)'
      OBVIOUS
    <2>1. j \in faulty /\ j \notin unpiped /\ j < i /\ proc[j] = "unborn" /\ Redirs(cmd[j]) # {}
      BY DEF Twice
    <2>2. j \in Cmds /\ j # cur /\ j < i + 1
      BY <1>1, <2>1
    <2> QED
      BY <2>1, <2>2 DEF Twice, Grows
  <1>7. i \in faulty' /\ i \notin unpiped' /\ proc[i] = "unborn" /\ Redirs(cmd[i]) # {}
            => i \in Twice(i + 1)'
    <2>1. i < i + 1
      BY <1>1
    <2> QED
      BY <2>1 DEF Twice, Grows
  <1> QED
    BY <1>4, <1>5, <1>6, <1>7

LEMMA NextWire == WireInv /\ [Next]_vars => WireInv'
PROOF
  <1> SUFFICES ASSUME WireInv, [Next]_vars PROVE WireInv'
    OBVIOUS
  <1>1. TypeInv /\ TypeInv' /\ WaitInv'
    BY NextTypes, NextWait DEF WireInv
  <1>2. /\ cmd \in CommandTables
        /\ N \in Nat /\ N >= 2 /\ Cmds = 1 .. N
        /\ cur \in 1 .. N + 1
        /\ fds \in Tables
        /\ pc \in Setup => cur \in Cmds
        /\ faulty \subseteq Cmds /\ unpiped \subseteq faulty
        /\ DOMAIN proc = Cmds /\ DOMAIN image = Cmds /\ DOMAIN cfds = Cmds
    BY <1>1, CommandFacts DEF TypeInv, TypeOK, Tables, Descs
  <1>3. ASSUME cmd' = cmd PROVE Cmds' = Cmds /\ N' = N
    BY <1>3 DEF Cmds, N
  \* clean_pipe() or a pipe() that fails, and on to the next command.
  <1>4. ASSUME NextCommand, Grows, PipeMade', ChildrenFit', pc \in Setup, unpiped' # unpiped => pc = "pipe",
               NEW i \in Cmds, i = cur,
               Loose(fds', i + 1, tmp_fd', NoPipe, i + 1, From(i + 1)', Lost(i + 1)', Twice(i + 1)')
        PROVE  WireInv'
    <2>1. cur' = i + 1 /\ pc' \in { "pipe", "close", "wait" } /\ cmd' = cmd
      BY <1>4 DEF NextCommand, Grows
    <2>2. ParentLoose'
      <3> SUFFICES ASSUME pc' \in Setup PROVE ParentAt(i + 1)'
        BY <2>1 DEF ParentLoose
      <3>1. pc' = "pipe" /\ pipe' = NoPipe
        BY <1>4, <2>1 DEF Setup, PipeMade
      <3>2. FirstOpen(i + 1)' = i + 1
        BY <3>1 DEF FirstOpen
      <3> QED
        BY <1>3, <1>4, <2>1, <3>1, <3>2 DEF ParentAt, Loose
    <2>3. History'
      <3>1. \A j \in unpiped : j \in Int /\ j < cur
        BY <1>2, <1>4 DEF WireInv, History
      <3>2. \A j \in unpiped' : j < i + 1
        BY <1>2, <1>4, <3>1 DEF Grows
      <3> QED
        BY <2>1, <3>2 DEF History
    <2> QED
      BY <1>1, <1>4, <2>2, <2>3 DEF WireInv
  <1>5. CASE OpenPipe
    <2>1. PICK rd, wr \in Fds :
            /\ LowestFree(fds, rd)
            /\ LowestFree(Bind(fds, rd, << "rd", cur >>), wr)
            /\ fds' = Bind(Bind(fds, rd, << "rd", cur >>), wr, << "wr", cur >>)
            /\ pipe' = [rd |-> rd, wr |-> wr]
      BY <1>5 DEF OpenPipe
    <2>2. /\ pc = "pipe" /\ pc' = "fork" /\ cur \in Cmds /\ Grows /\ Cmds' = Cmds
          /\ UNCHANGED << cmd, cur, tmp_fd, proc, image, cfds, faulty, unpiped >>
      BY <1>2, <1>3, <1>5 DEF OpenPipe, Setup, Grows, childvars
    <2>3. ParentLoose'
      <3> SUFFICES ASSUME NEW i \in Cmds, i = cur PROVE ParentAt(i)'
        BY <2>2 DEF ParentLoose
      <3>1. Loose(fds, i, tmp_fd, NoPipe, i, From(i), Lost(i), Twice(i))
        BY <2>2 DEF WireInv, ParentLoose, ParentAt, PipeMade, FirstOpen, Setup
      <3>2. Loose(fds', i, tmp_fd, pipe', i, From(i), Lost(i), Twice(i))
        BY <1>2, <2>1, <3>1, PipeLoose
      <3>3. i \in 1 .. cur
        BY <1>2
      <3>4. /\ From(i)' = From(i)
            /\ Lost(i) \subseteq Lost(i)'
            /\ Twice(i) \subseteq Twice(i)'
        BY <1>1, <2>2, <3>3, LeftOf
      <3>5. Loose(fds', i, tmp_fd, pipe', i, From(i), Lost(i)', Twice(i)')
        BY <3>2, <3>4, LooseGrows
      <3>6. FirstOpen(i)' = i
        BY <2>2 DEF FirstOpen
      <3> QED
        BY <2>2, <3>4, <3>5, <3>6 DEF ParentAt, Loose
    <2>4. PipeMade' /\ History'
      BY <2>1, <2>2 DEF WireInv, PipeMade, Real, History, Setup
    <2>5. ChildrenFit'
      BY <2>2, ChildrenKept
    <2> QED
      BY <1>1, <2>3, <2>4, <2>5 DEF WireInv
  <1>6. CASE OpenPipeFails
    <2>1. /\ pc = "pipe" /\ cur \in Cmds /\ Grows /\ pipe = NoPipe /\ NextCommand
          /\ cur \in unpiped' /\ pc \in Setup
          /\ UNCHANGED << cmd, fds, pipe, tmp_fd, proc, image, cfds >>
      BY <1>2, <1>6
      DEF OpenPipeFails, Setup, Grows, childvars, WireInv, PipeMade
    <2>2. PICK i \in Cmds : i = cur
      BY <2>1
    <2>3. Loose(fds, i, tmp_fd, NoPipe, i, From(i), Lost(i), Twice(i))
      BY <2>1, <2>2 DEF WireInv, ParentLoose, ParentAt, FirstOpen
    <2>4. /\ From(i + 1)' = From(i)
          /\ Lost(i) \subseteq Lost(i + 1)'
          /\ Twice(i) \subseteq Twice(i + 1)'
      BY <1>1, <2>1, <2>2, NextLeft
    <2>5. Loose(fds, i, tmp_fd, NoPipe, i, From(i), Lost(i + 1)', Twice(i + 1)')
      BY <2>3, <2>4, LooseGrows
    <2>6. Loose(fds', i + 1, tmp_fd', NoPipe, i + 1, From(i + 1)', Lost(i + 1)', Twice(i + 1)')
      <3>1. \A j \in Cmds : j >= i + 1 => j >= i
        BY <1>2
      <3>2. ~Real(NoPipe)
        BY Std DEF Real, NoPipe
      <3> QED
        BY <2>1, <2>4, <2>5, <3>1, <3>2 DEF Loose
    <2>7. ChildrenFit'
      BY <2>1, ChildrenKept
    <2>8. PipeMade'
      BY <2>1 DEF PipeMade, NextCommand
    <2> QED
      BY <1>4, <2>1, <2>2, <2>6, <2>7, <2>8
  <1>7. CASE Fork
    <2>1. /\ pc = "fork" /\ pc' = "clean" /\ cur \in Cmds /\ Grows /\ Real(pipe) /\ Cmds' = Cmds
          /\ UNCHANGED << cmd, cur, fds, pipe, tmp_fd, faulty, unpiped >>
      BY <1>2, <1>3, <1>7 DEF Fork, Setup, Grows, WireInv, PipeMade
    <2>2. PICK i \in Cmds : i = cur
      BY <2>1
    <2>3. /\ proc'[i] = "forked" /\ cfds'[i] = fds
          /\ image'[i].pipe = pipe /\ image'[i].tmp_fd = tmp_fd
          /\ \A j \in Cmds : j # i =>
                proc'[j] = proc[j] /\ cfds'[j] = cfds[j] /\ image'[j] = image[j]
      BY <1>2, <1>7, <2>2 DEF Fork
    <2>4. Loose(fds, i, tmp_fd, pipe, i, From(i), Lost(i)', Twice(i)') /\ From(i)' = From(i)
      <3>1. Loose(fds, i, tmp_fd, pipe, i, From(i), Lost(i), Twice(i))
        BY <2>1, <2>2 DEF WireInv, ParentLoose, ParentAt, FirstOpen, Setup
      <3>2. i \in 1 .. cur
        BY <1>2, <2>2
      <3>3. /\ From(i)' = From(i)
            /\ Lost(i) \subseteq Lost(i)'
            /\ Twice(i) \subseteq Twice(i)'
        BY <1>1, <2>1, <3>2, LeftOf
      <3> QED
        BY <3>1, <3>3, LooseGrows
    <2>5. ParentLoose'
      <3> SUFFICES ParentAt(i)'
        BY <2>1, <2>2 DEF ParentLoose
      <3>1. FirstOpen(i)' = i
        BY <2>3 DEF FirstOpen
      <3> QED
        BY <2>1, <2>4, <3>1 DEF ParentAt, Loose
    <2>6. PipeMade' /\ History'
      <3>1. proc'[cur'] # "unborn"
        BY <2>1, <2>2, <2>3
      <3> QED
        BY <2>1, <3>1 DEF WireInv, PipeMade, History, Setup, Real
    <2>7. ChildrenFit'
      <3> SUFFICES ASSUME NEW j \in Cmds
                   PROVE  /\ proc'[j] = "forked" => ForkedAt(j)'
                          /\ proc'[j] = "running" => RunningAt(j)'
        BY <2>1 DEF ChildrenFit
      <3>1. CASE j = i
        BY <2>1, <2>3, <2>4, <3>1 DEF ForkedAt, Loose, Real
      <3>2. CASE j # i
        BY <2>1, <2>3, <3>2, ChildKept
      <3> QED
        BY <3>1, <3>2
    <2> QED
      BY <1>1, <2>5, <2>6, <2>7 DEF WireInv
  <1>8. CASE ForkFails
    <2>1. /\ pc = "fork" /\ pc' = "clean" /\ cur \in Cmds /\ Grows /\ Real(pipe) /\ Cmds' = Cmds
          /\ cur \in faulty'
          /\ fds' = Close(fds, Redirs(cmd[cur]))
          /\ UNCHANGED << cmd, cur, pipe, tmp_fd, proc, image, cfds, unpiped >>
      BY <1>2, <1>3, <1>8 DEF ForkFails, Setup, Grows, WireInv, PipeMade, childvars
    <2>2. PICK i \in Cmds : i = cur
      BY <2>1
    <2>3. proc[i] = "unborn"
      BY <1>2, <2>1, <2>2 DEF WireInv, WaitInv, Counted
    <2>4. ParentLoose'
      <3> SUFFICES ParentAt(i)'
        BY <2>1, <2>2 DEF ParentLoose
      <3>1. Loose(fds, i, tmp_fd, pipe, i, From(i), Lost(i), Twice(i))
        BY <2>1, <2>2 DEF WireInv, ParentLoose, ParentAt, FirstOpen, Setup
      <3>2. pipe # NoPipe
        BY <2>1, Std DEF Real, NoPipe
      <3>3. Loose(fds', i, tmp_fd, pipe, i + 1, From(i), Lost(i), Twice(i))
        BY <1>2, <2>1, <2>2, <3>1, <3>2, UnforkedLoose
      <3>4. i \in 1 .. cur
        BY <1>2, <2>2
      <3>5. /\ From(i)' = From(i)
            /\ Lost(i) \subseteq Lost(i)'
            /\ Twice(i) \subseteq Twice(i)'
        BY <1>1, <2>1, <3>4, LeftOf
      <3>6. Loose(fds', i, tmp_fd, pipe, i + 1, From(i), Lost(i)', Twice(i)')
        BY <3>3, <3>5, LooseGrows
      <3>7. FirstOpen(i)' = i + 1
        BY <2>1, <2>3 DEF FirstOpen
      <3> QED
        BY <2>1, <3>5, <3>6, <3>7 DEF ParentAt, Loose
    <2>5. PipeMade' /\ History'
      BY <2>1 DEF WireInv, PipeMade, History, Setup, Real
    <2>6. ChildrenFit'
      BY <2>1, ChildrenKept
    <2> QED
      BY <1>1, <2>4, <2>5, <2>6 DEF WireInv
  <1>9. CASE CleanPipe
    <2>1. /\ pc = "clean" /\ pc \in Setup /\ cur \in Cmds /\ Grows /\ Real(pipe) /\ NextCommand
          /\ pipe' = NoPipe
          /\ UNCHANGED << cmd, proc, image, cfds, unpiped >>
      BY <1>2, <1>9 DEF CleanPipe, Setup, Grows, WireInv, PipeMade, childvars
    <2>2. PICK i \in Cmds : i = cur
      BY <2>1
    <2>3. i \notin unpiped' /\ pipe # NoPipe
      <3>1. \A j \in unpiped : j < i
        BY <2>1, <2>2 DEF WireInv, History
      <3> QED
        BY <1>2, <2>1, <3>1, Std DEF Real, NoPipe
    <2>4. /\ FirstOpen(i) \in { i, i + 1 }
          /\ Loose(fds, i, tmp_fd, pipe, FirstOpen(i), From(i), Lost(i), Twice(i))
      BY <2>1, <2>2 DEF WireInv, ParentLoose, ParentAt, FirstOpen
    <2>5. /\ From(i + 1)' = { i }
          /\ i \in faulty' => i \in Lost(i + 1)'
          /\ Twice(i) # {} => Twice(i + 1)' # {}
          /\ FirstOpen(i) = i + 1 /\ Redirs(cmd[i]) # {} => Twice(i + 1)' # {}
      <3>1. FirstOpen(i) = i + 1 => proc[i] = "unborn"
        BY <1>2 DEF FirstOpen
      <3>2. proc[i] = "unborn" => i \in faulty'
        BY <2>1, <2>2 DEF WireInv, History, Grows
      <3> QED
        BY <1>1, <2>1, <2>2, <2>3, <3>1, <3>2, NextLeft
    <2>6. Loose(fds', i + 1, tmp_fd', NoPipe, i + 1, { i }, Lost(i + 1)', Twice(i + 1)')
      <3> DEFINE old  == Close(fds, { tmp_fd })
                 gone == Redirs(cmd[i]) \cup { pipe.rd, pipe.wr }
      <3>1. CASE \E fd \in Fds :
                   /\ IsOpen(old, pipe.rd)
                   /\ LowestFree(old, fd)
                   /\ tmp_fd' = fd
                   /\ fds' = Close(Bind(old, fd, old[pipe.rd]), gone)
        <4>1. PICK fd \in Fds :
                   /\ IsOpen(old, pipe.rd)
                   /\ LowestFree(old, fd)
                   /\ tmp_fd' = fd
                   /\ fds' = Close(Bind(old, fd, old[pipe.rd]), gone)
          BY <3>1
        <4> HIDE DEF old
        <4>2. Loose(Close(Bind(old, fd, old[pipe.rd]), gone),
                    i + 1, fd, NoPipe, i + 1, { i }, Lost(i + 1)', Twice(i + 1)')
          BY <1>2, <2>3, <2>4, <2>5, <4>1, CleanLoose DEF old
        <4> QED
          BY <4>1, <4>2
      <3>2. CASE /\ tmp_fd' = -1
                 /\ fds' = Close(old, gone)
                 /\ faulty' = faulty \cup { cur }
        <4>1. Lost(i + 1)' # {}
          BY <2>2, <2>5, <3>2
        <4>2. Loose(Close(Close(fds, { tmp_fd }), gone),
                    i + 1, -1, NoPipe, i + 1, { i }, Lost(i + 1)', Twice(i + 1)')
          BY <1>2, <2>3, <2>4, <4>1, CleanLooseFails
        <4> QED
          BY <3>2, <4>2
      <3> QED
        BY <1>9, <2>2, <3>1, <3>2 DEF CleanPipe
    <2>7. ChildrenFit'
      BY <2>1, ChildrenKept
    <2>8. PipeMade'
      BY <2>1 DEF PipeMade, NextCommand
    <2> QED
      BY <1>4, <2>1, <2>2, <2>5, <2>6, <2>7, <2>8
  <1>10. CASE WaitAny
    <2>1. pc' \notin Setup /\ Grows
      BY <1>2, <1>10 DEF WaitAny, Setup, Grows
    <2>2. \A i \in Cmds : proc'[i] \in { "forked", "running" } =>
               proc'[i] = proc[i] /\ image'[i] = image[i] /\ cfds'[i] = cfds[i]
      BY <1>2, <1>10 DEF WaitAny
    <2> QED
      BY <1>1, <2>1, <2>2, ChildrenKept, ShellKept DEF WireInv
  <1>11. CASE Finalize
    <2>1. pc' \notin Setup /\ Grows /\ UNCHANGED << proc, image, cfds >>
      BY <1>11 DEF Finalize, Setup, Grows, childvars
    <2> QED
      BY <1>1, <2>1, ChildrenKept, ShellKept DEF WireInv
  <1>12. CASE CloseTmp
    <2>1. pc' \notin Setup /\ Grows /\ UNCHANGED << proc, image, cfds >>
      BY <1>12 DEF CloseTmp, Setup, Grows, childvars
    <2> QED
      BY <1>1, <2>1, ChildrenKept, ShellKept DEF WireInv
  <1>13. ASSUME NEW k \in Cmds, ExecPrep(k) PROVE WireInv'
    <2>1. /\ proc[k] = "forked" /\ proc'[k] = "running"
          /\ \A j \in Cmds : j # k => proc'[j] = proc[j] /\ cfds'[j] = cfds[j]
          /\ UNCHANGED << cmd, image >> /\ UNCHANGED shellvars /\ Cmds' = Cmds
      BY <1>2, <1>3, <1>13 DEF ExecPrep
    <2>2. Grows
      BY <2>1 DEF Grows, shellvars
    <2>3. /\ cfds[k] \in Tables /\ Real(image[k].pipe)
          /\ Loose(cfds[k], k, image[k].tmp_fd, image[k].pipe, k, From(k), Lost(k), Twice(k))
      BY <1>1, <2>1 DEF WireInv, ChildrenFit, ForkedAt, TypeInv, TypeOK, Tables, Descs
    <2>4. Fits(cfds'[k], k, From(k), Lost(k), Twice(k))
      <3>1. CASE k = 1
        <4>1. From(k) = {} /\ Twice(k) = {}
          <5>1. 1 .. k - 1 = {} /\ \A j \in faulty : ~(j < k)
            BY <1>2, <3>1
          <5> QED
            BY <5>1 DEF From, Twice
        <4>2. cfds'[k] = ExecFirstPrep(cfds[k], cmd[k], image[k])
          BY <1>2, <1>13, <3>1 DEF ExecPrep
        <4> QED
          BY <1>2, <2>3, <3>1, <4>1, <4>2, FirstFits
      <3>2. CASE k # 1 /\ k = N
        <4>1. cfds'[k] = ExecLastPrep(cfds[k], cmd[k], image[k])
          BY <1>2, <1>13, <3>2 DEF ExecPrep
        <4>2. k \notin From(k)
          BY <1>2 DEF From
        <4> QED
          BY <1>2, <2>3, <3>2, <4>1, <4>2, LastFits
      <3>3. CASE k # 1 /\ k # N
        <4>1. cfds'[k] = ExecMidPrep(cfds[k], cmd[k], image[k])
          BY <1>2, <1>13, <3>3 DEF ExecPrep
        <4> QED
          BY <1>2, <2>3, <3>3, <4>1, MidFits
      <3> QED
        BY <3>1, <3>2, <3>3
    <2>5. RunningAt(k)'
      <3>1. k \in 1 .. cur
        <4>1. k < cur \/ k = cur
          BY <2>1 DEF WireInv, WaitInv, Counted
        <4> QED
          BY <1>2, <4>1
      <3>2. /\ From(k)' = From(k)
            /\ Lost(k) \subseteq Lost(k)'
            /\ Twice(k) \subseteq Twice(k)'
        BY <1>1, <2>2, <3>1, LeftOf
      <3>3. Fits(cfds'[k], k, From(k), Lost(k)', Twice(k)')
        BY <2>4, <3>2, FitsGrows
      <3> QED
        BY <1>3, <2>1, <3>2, <3>3 DEF RunningAt, Fits, IdealIn, IdealOut
    <2>6. ChildrenFit'
      <3> SUFFICES ASSUME NEW j \in Cmds
                   PROVE  /\ proc'[j] = "forked" => ForkedAt(j)'
                          /\ proc'[j] = "running" => RunningAt(j)'
        BY <2>1 DEF ChildrenFit
      <3>1. CASE j = k
        BY <2>1, <2>5, <3>1
      <3>2. CASE j # k
        BY <2>1, <2>2, <3>2, ChildKept
      <3> QED
        BY <3>1, <3>2
    <2>7. \A i \in Cmds : proc'[i] = "unborn" <=> proc[i] = "unborn"
      BY <2>1
    <2> QED
      BY <1>1, <2>1, <2>2, <2>6, <2>7, ShellUntouched DEF WireInv
  <1>14. ASSUME NEW K \in SUBSET { i \in Cmds : proc[i] = "running" }, NEW st, End(K, st)
         PROVE  WireInv'
    <2>1. /\ UNCHANGED << cmd, image >> /\ UNCHANGED shellvars
          /\ \A i \in Cmds : i \in K => proc[i] = "running" /\ proc'[i] = "ended"
          /\ \A i \in Cmds : i \notin K => proc'[i] = proc[i] /\ cfds'[i] = cfds[i]
      BY <1>14 DEF End
    <2>2. Grows
      BY <2>1 DEF Grows, shellvars
    <2>3. \A i \in Cmds : proc'[i] = "unborn" <=> proc[i] = "unborn"
      BY <2>1
    <2>4. \A i \in Cmds : proc'[i] \in { "forked", "running" } =>
               proc'[i] = proc[i] /\ image'[i] = image[i] /\ cfds'[i] = cfds[i]
      BY <2>1
    <2> QED
      BY <1>1, <2>1, <2>2, <2>3, <2>4, ChildrenKept, ShellUntouched DEF WireInv
  <1>15. ASSUME NEW i \in Cmds, Exit(i) PROVE WireInv'
    <2>1. PICK s \in Outcomes(cmd[i].prog) : End({ i }, [j \in { i } |-> s])
      BY <1>15 DEF Exit
    <2>2. { i } \in SUBSET { j \in Cmds : proc[j] = "running" }
      BY <1>15 DEF Exit
    <2> QED
      BY <1>14, <2>1, <2>2
  <1>16. CASE Interrupt
    <2>1. PICK K \in SUBSET { i \in Cmds : proc[i] = "running" } :
             End(K, [i \in K |-> Signaled(SIGINT)])
      BY <1>16 DEF Interrupt
    <2> QED
      BY <1>14, <2>1
  <1>17. CASE UNCHANGED vars
    <2>1. Grows /\ UNCHANGED << proc, image, cfds >> /\ UNCHANGED shellvars
      BY <1>17 DEF vars, shellvars, childvars, Grows
    <2> QED
      BY <1>1, <2>1, ChildrenKept, ShellUntouched DEF WireInv
  <1> QED
    BY <1>5, <1>6, <1>7, <1>8, <1>9, <1>10, <1>11, <1>12, <1>13, <1>15, <1>16, <1>17
    DEF Next, Shell, Child, Returned

\* Whatever the commands, their redirections, the numbers the kernel gives out
\* and the calls that fail, every program has its own output on stdout, on
\* stdin its redirection or what its neighbours left of a pipe, and no stray
\* pipe end (exec_prep() after clean_pipe()).
THEOREM WiringCorrect == Spec => []ChildrenWired
PROOF
  <1>1. Spec => []WireInv
    BY InitWire, NextWire, PTL DEF Spec
  <1>2. WireInv => ChildrenWired
    <2> SUFFICES ASSUME WireInv, NEW i \in Cmds, proc[i] = "running"
                 PROVE  /\ cfds[i][STDOUT] = IdealOut(i)
                        /\ IF cmd[i].in # STDIN \/ i = 1 THEN cfds[i][STDIN] = IdealIn(i)
                           ELSE MayRead(i, cfds[i][STDIN])
                        /\ \A fd \in Fds : fd > STDOUT => ~PipeEnd(cfds[i][fd])
      BY DEF ChildrenWired
    <2>1. Fits(cfds[i], i, From(i), Lost(i), Twice(i))
      BY DEF WireInv, ChildrenFit, RunningAt
    <2>2. \A j \in From(i) : j \in 1 .. i - 1 /\ LeftPipe(i, j)
      BY DEF From
    <2>3. Lost(i) # {} => 1 .. i - 1 \subseteq unpiped \/ \E j \in faulty : LeftPipe(i, j)
      BY <2>2 DEF Lost
    <2>4. Twice(i) # {} => ClosedTwice(i)
      BY DEF Twice, ClosedTwice
    <2> QED
      BY <2>1, <2>2, <2>3, <2>4 DEF Fits, MayRead
  <1> QED
    BY <1>1, <1>2, PTL

-----------------------------------------------------------------------------
(* What the shell itself holds.  A number beyond the standard streams is    *)
(* one of the current pipe, tmp_fd, or the redirection of a command still   *)
(* to come or of one whose pipe() failed.                                   *)

StdFds == { STDIN, STDOUT, STDERR }

Owed(i) == (i >= cur /\ pc \in Setup) \/ i \in unpiped

ShellFds ==
    /\ \A fd \in StdFds : fds[fd] = Tty
    /\ tmp_fd \notin StdFds /\ pipe.rd \notin StdFds /\ pipe.wr \notin StdFds
    /\ pc = "pipe" => pipe = NoPipe
    /\ pc \notin Setup => pipe = NoPipe
    /\ pc = "done" => tmp_fd = -1
    /\ \A fd \in Extra(fds) :
         \/ fd \in { tmp_fd, pipe.rd, pipe.wr }
         \/ \E i \in Cmds : Owed(i) /\ fd \in Redirs(cmd[i])

HoldInv == TypeInv /\ ShellFds

LEMMA InitHold == Init => HoldInv
PROOF
  <1> SUFFICES ASSUME Init PROVE HoldInv
    OBVIOUS
  <1>1. TypeInv
    BY InitTypes
  <1>2. fds = ParsedFds(cmd) /\ cmd \in CommandTables /\ DOMAIN fds = Fds
    BY DEF Init, ParsedFds
  <1>3. \A fd \in StdFds : fds[fd] = Tty
    BY <1>2, Std DEF ParsedFds, StdFds
  <1>4. ASSUME NEW fd \in Extra(fds)
        PROVE  \E i \in Cmds : Owed(i) /\ fd \in Redirs(cmd[i])
    <2>1. fd \in Fds /\ ~(fd <= STDERR) /\ fds[fd] # Closed
      BY <1>2, <1>4, Std DEF Extra, Fds
    <2>2. PICK i \in Cmds : cmd[i].in = fd \/ cmd[i].out = fd
      BY <1>2, <2>1 DEF ParsedFds, Cmds
    <2>3. fd \in Redirs(cmd[i])
      BY <2>1, <2>2, Std DEF Redirs
    <2>4. Owed(i)
      BY <1>2, CommandFacts DEF Owed, Init, Setup
    <2> QED
      BY <2>3, <2>4
  <1>5. -1 \notin StdFds
    BY Std DEF StdFds
  <1> QED
    BY <1>1, <1>3, <1>4, <1>5 DEF HoldInv, ShellFds, Init, NoPipe, Setup

LEMMA NextHold == HoldInv /\ [Next]_vars => HoldInv'
PROOF
  <1> SUFFICES ASSUME HoldInv, [Next]_vars PROVE HoldInv'
    OBVIOUS
  <1>1. TypeInv /\ TypeInv' /\ ShellFds
    BY NextTypes DEF HoldInv
  <1>2. /\ cmd \in CommandTables
        /\ N \in Nat /\ N >= 2 /\ Cmds = 1 .. N
        /\ cur \in 1 .. N + 1
        /\ pc \in Pcs
        /\ DOMAIN fds = Fds /\ DOMAIN fds' = Fds
        /\ tmp_fd \in Fds \cup { -1 }
        /\ unpiped \subseteq Cmds
        /\ StdFds \subseteq Fds
        /\ pc \in Setup => cur \in Cmds
    BY <1>1, CommandFacts, Std DEF TypeInv, TypeOK, StdFds
  <1>3. \A fd : fd \in Extra(fds) <=> fd \in Fds /\ fd \notin StdFds /\ fds[fd] # Closed
    BY <1>2, Std DEF Extra, StdFds, Fds
  <1>4. \A fd : fd \in Extra(fds)' <=> fd \in Fds /\ fd \notin StdFds /\ fds'[fd] # Closed
    BY <1>2, Std DEF Extra, StdFds, Fds
  <1>5. \A i \in Cmds : Redirs(cmd[i]) \cap StdFds = {}
    BY <1>2, CommandFacts, Std DEF Redirs, StdFds, Fds
  <1>6. ASSUME NextCommand, pc \in Setup
        PROVE  /\ pc' \in { "pipe", "wait", "close" }
               /\ pc' = "pipe" => cur < N
               /\ pc' # "pipe" => pc' \notin Setup
               /\ cur' = cur + 1
    BY <1>6 DEF NextCommand, Setup
  <1>7. CASE OpenPipe
    <2>1. PICK rd, wr \in Fds :
            /\ LowestFree(fds, rd)
            /\ LowestFree(Bind(fds, rd, << "rd", cur >>), wr)
            /\ fds' = Bind(Bind(fds, rd, << "rd", cur >>), wr, << "wr", cur >>)
            /\ pipe' = [rd |-> rd, wr |-> wr]
      BY <1>7 DEF OpenPipe
    <2>2. fds[rd] = Closed /\ rd # wr /\ fds[wr] = Closed
      BY <1>2, <2>1, Descriptors DEF LowestFree, Bind
    <2>3. rd \notin StdFds /\ wr \notin StdFds
      BY <1>1, <2>2, Descriptors DEF ShellFds
    <2>4. \A fd \in Fds : fd # rd /\ fd # wr => fds'[fd] = fds[fd]
      BY <1>2, <2>1 DEF Bind
    <2>5. \A i : Owed(i) => Owed(i)'
      BY <1>7 DEF OpenPipe, Owed, Setup
    <2>6. /\ tmp_fd' = tmp_fd /\ pc' = "fork" /\ cmd' = cmd /\ Cmds' = Cmds
          /\ pipe = NoPipe
      BY <1>1, <1>7 DEF OpenPipe, Cmds, ShellFds, Setup
    <2>7. \A fd \in Extra(fds)' :
            \/ fd \in { tmp_fd', pipe'.rd, pipe'.wr }
            \/ \E i \in Cmds : Owed(i)' /\ fd \in Redirs(cmd[i])
      <3> SUFFICES ASSUME NEW fd \in Extra(fds)', fd # rd, fd # wr
                   PROVE  \/ fd = tmp_fd
                          \/ \E i \in Cmds : Owed(i)' /\ fd \in Redirs(cmd[i])
        BY <2>1, <2>6
      <3>1. fd \in Extra(fds) /\ fd \in Fds
        BY <1>3, <1>4, <2>4
      <3>2. fd # -1
        BY <3>1, Std
      <3> QED
        BY <1>1, <2>5, <2>6, <3>1, <3>2 DEF ShellFds, NoPipe
    <2>8. \A fd \in StdFds : fds'[fd] = Tty
      BY <1>1, <1>2, <2>3, <2>4 DEF ShellFds
    <2> QED
      BY <1>1, <2>1, <2>3, <2>6, <2>7, <2>8
      DEF HoldInv, ShellFds, Setup
  <1>8. CASE OpenPipeFails
    <2>1. /\ pc = "pipe" /\ fds' = fds /\ tmp_fd' = tmp_fd /\ pipe' = pipe
          /\ cmd' = cmd /\ Cmds' = Cmds /\ unpiped' = unpiped \cup { cur }
          /\ pc' \in { "pipe", "wait", "close" } /\ cur' = cur + 1
          /\ pc' = "pipe" => cur < N
      BY <1>6, <1>8 DEF OpenPipeFails, Setup, Cmds
    <2>2. pipe = NoPipe
      BY <1>1, <2>1 DEF ShellFds, Setup
    <2>3. \A i \in Cmds : Owed(i) => Owed(i)'
      BY <1>2, <1>8, <2>1 DEF Owed, Setup, OpenPipeFails, NextCommand
    <2>4. \A fd \in Extra(fds)' :
            \/ fd \in { tmp_fd', pipe'.rd, pipe'.wr }
            \/ \E i \in Cmds : Owed(i)' /\ fd \in Redirs(cmd[i])
      BY <1>1, <1>3, <1>4, <2>1, <2>3 DEF ShellFds
    <2> QED
      BY <1>1, <2>1, <2>2, <2>4 DEF HoldInv, ShellFds, Setup
  <1>9. CASE Fork
    <2>1. /\ UNCHANGED << cmd, cur, fds, pipe, tmp_fd, unpiped >>
          /\ pc = "fork" /\ pc' = "clean" /\ Cmds' = Cmds
      BY <1>9 DEF Fork, Cmds
    <2>2. \A i : Owed(i) => Owed(i)'
      BY <2>1 DEF Owed, Setup
    <2>3. \A fd \in Extra(fds)' :
            \/ fd \in { tmp_fd', pipe'.rd, pipe'.wr }
            \/ \E i \in Cmds : Owed(i)' /\ fd \in Redirs(cmd[i])
      BY <1>1, <1>3, <1>4, <2>1, <2>2 DEF ShellFds
    <2> QED
      BY <1>1, <2>1, <2>3 DEF HoldInv, ShellFds, Setup
  <1>10. CASE ForkFails
    <2>1. /\ UNCHANGED << cmd, cur, pipe, tmp_fd >>
          /\ fds' = Close(fds, Redirs(cmd[cur]))
          /\ pc = "fork" /\ pc' = "clean" /\ Cmds' = Cmds /\ cur \in Cmds
          /\ unpiped' = unpiped
      BY <1>2, <1>10 DEF ForkFails, Cmds, Setup
    <2>2. \A i : Owed(i) => Owed(i)'
      BY <2>1 DEF Owed, Setup
    <2>3. /\ \A fd \in Fds : fds'[fd] = fds[fd] \/ fds'[fd] = Closed
          /\ \A fd \in Fds : fd \notin Redirs(cmd[cur]) => fds'[fd] = fds[fd]
      BY <1>2, <2>1, CloseFacts
    <2>4. \A fd \in Extra(fds)' : fd \in Extra(fds)
      BY <1>3, <1>4, <2>3
    <2>5. \A fd \in Extra(fds)' :
            \/ fd \in { tmp_fd', pipe'.rd, pipe'.wr }
            \/ \E i \in Cmds : Owed(i)' /\ fd \in Redirs(cmd[i])
      BY <1>1, <2>1, <2>2, <2>4 DEF ShellFds
    <2>6. \A fd \in StdFds : fds'[fd] = Tty
      BY <1>1, <1>2, <1>5, <2>1, <2>3 DEF ShellFds
    <2> QED
      BY <1>1, <2>1, <2>5, <2>6 DEF HoldInv, ShellFds, Setup
  <1>11. CASE CleanPipe
    <2> DEFINE old  == Close(fds, { tmp_fd })
               gone == Redirs(cmd[cur]) \cup { pipe.rd, pipe.wr }
    <2>1. /\ cmd' = cmd /\ Cmds' = Cmds /\ pipe' = NoPipe /\ unpiped' = unpiped
          /\ pc = "clean" /\ cur \in Cmds
          /\ pc' \in { "pipe", "wait", "close" } /\ cur' = cur + 1
      BY <1>2, <1>6, <1>11 DEF CleanPipe, Setup, Cmds
    <2>2. /\ DOMAIN old = Fds
          /\ \A fd \in Fds : fd = tmp_fd => old[fd] = Closed
          /\ \A fd \in Fds : fd # tmp_fd => old[fd] = fds[fd]
      BY <1>2, CloseFacts
    <2>3. gone \cap StdFds = {}
      BY <1>1, <1>5, <2>1 DEF ShellFds
    <2> HIDE DEF old, gone
    <2>4. /\ tmp_fd' \notin StdFds
          /\ \A fd \in Fds : fds'[fd] # Closed =>
                fd = tmp_fd' \/ (fds[fd] # Closed /\ fd # tmp_fd /\ fd \notin gone)
          /\ \A fd \in StdFds : fds'[fd] = Tty
      <3>1. CASE \E fd \in Fds : /\ LowestFree(old, fd)
                                 /\ tmp_fd' = fd
                                 /\ fds' = Close(Bind(old, fd, old[pipe.rd]), gone)
        <4>1. PICK fd \in Fds : /\ LowestFree(old, fd)
                                /\ tmp_fd' = fd
                                /\ fds' = Close(Bind(old, fd, old[pipe.rd]), gone)
          BY <3>1
        <4>2. \A g \in StdFds : old[g] = Tty
          BY <1>1, <1>2, <2>2 DEF ShellFds
        <4>3. fd \notin StdFds
          BY <4>1, <4>2, Descriptors DEF LowestFree
        <4>4. /\ \A g \in Fds : g \in gone => fds'[g] = Closed
              /\ \A g \in Fds : g \notin gone /\ g # fd => fds'[g] = old[g]
          BY <2>2, <4>1 DEF Close, Bind
        <4> QED
          BY <1>2, <2>2, <2>3, <4>1, <4>2, <4>3, <4>4
      <3>2. CASE /\ tmp_fd' = -1 /\ fds' = Close(old, gone)
        <4>1. /\ \A g \in Fds : g \in gone => fds'[g] = Closed
              /\ \A g \in Fds : g \notin gone => fds'[g] = old[g]
          BY <2>2, <3>2, CloseFacts
        <4>2. -1 \notin StdFds
          BY Std DEF StdFds
        <4>3. \A g \in StdFds : old[g] = Tty
          BY <1>1, <1>2, <2>2 DEF ShellFds
        <4> QED
          BY <1>2, <2>2, <2>3, <3>2, <4>1, <4>2, <4>3
      <3> QED
        BY <1>11, <3>1, <3>2 DEF CleanPipe, old, gone
    <2>5. \A i \in Cmds : Owed(i) /\ i # cur => Owed(i)'
      BY <1>2, <1>11, <2>1, <2>4 DEF Owed, Setup, CleanPipe, NextCommand
    <2>6. ASSUME NEW fd \in Extra(fds)', fd # tmp_fd'
          PROVE  \E i \in Cmds : Owed(i)' /\ fd \in Redirs(cmd[i])
      <3>1. fd \in Extra(fds) /\ fd # tmp_fd /\ fd \notin gone
        BY <1>3, <1>4, <2>4, <2>6
      <3>2. fd \notin { pipe.rd, pipe.wr } /\ fd \notin Redirs(cmd[cur])
        BY <3>1 DEF gone
      <3>3. PICK i \in Cmds : Owed(i) /\ fd \in Redirs(cmd[i])
        BY <1>1, <3>1, <3>2 DEF ShellFds
      <3> QED
        BY <2>5, <3>2, <3>3
    <2>7. pipe'.rd \notin StdFds /\ pipe'.wr \notin StdFds
      BY <2>1, Std DEF NoPipe, StdFds
    <2> QED
      BY <1>1, <2>1, <2>4, <2>6, <2>7 DEF HoldInv, ShellFds, Setup
  <1>12. CASE WaitAny
    <2>1. /\ UNCHANGED << cmd, cur, fds, pipe, tmp_fd, unpiped, pc >> /\ Cmds' = Cmds
      BY <1>12 DEF WaitAny, Cmds
    <2> QED
      BY <1>1, <2>1 DEF HoldInv, ShellFds, Setup, Extra, Owed
  <1>13. ASSUME /\ UNCHANGED << cmd, cur, pipe, unpiped >>
                /\ pc \in { "wait", "close" } /\ pc' \in { "close", "done" }
                /\ \/ fds' = fds /\ tmp_fd' = tmp_fd /\ pc' # "done"
                   \/ fds' = Close(fds, { tmp_fd }) /\ tmp_fd' = -1
         PROVE  HoldInv'
    <2>1. \A i : Owed(i)' <=> Owed(i)
      BY <1>13 DEF Owed, Setup
    <2>2. pipe = NoPipe /\ Cmds' = Cmds
      BY <1>1, <1>13 DEF ShellFds, Setup, Cmds
    <2>3. CASE fds' = fds /\ tmp_fd' = tmp_fd /\ pc' # "done"
      <3>1. \A fd \in Extra(fds)' : fd \in Extra(fds)
        BY <1>3, <1>4, <2>3
      <3> QED
        BY <1>1, <1>13, <2>1, <2>2, <2>3, <3>1 DEF HoldInv, ShellFds, Setup
    <2>4. CASE fds' = Close(fds, { tmp_fd }) /\ tmp_fd' = -1
      <3>1. /\ \A fd \in Fds : fd = tmp_fd => fds'[fd] = Closed
            /\ \A fd \in Fds : fd # tmp_fd => fds'[fd] = fds[fd]
        BY <1>2, <2>4, CloseFacts
      <3>2. \A fd \in Extra(fds)' : fd \in Extra(fds) /\ fd # tmp_fd
        BY <1>3, <1>4, <3>1
      <3>3. \A fd \in StdFds : fds'[fd] = Tty
        BY <1>1, <1>2, <3>1 DEF ShellFds
      <3>4. -1 \notin StdFds
        BY Std DEF StdFds
      <3>5. \A fd \in Extra(fds)' :
              \/ fd \in { tmp_fd', pipe'.rd, pipe'.wr }
              \/ \E i \in Cmds : Owed(i)' /\ fd \in Redirs(cmd[i])
        BY <1>1, <1>13, <2>1, <2>2, <3>2 DEF ShellFds
      <3> QED
        BY <1>1, <1>13, <2>2, <2>4, <3>3, <3>4, <3>5 DEF HoldInv, ShellFds, Setup
    <2> QED
      BY <1>13, <2>3, <2>4
  <1>14. CASE Finalize
    BY <1>13, <1>14 DEF Finalize
  <1>15. CASE CloseTmp
    BY <1>13, <1>15 DEF CloseTmp
  <1>16. ASSUME cmd' = cmd, UNCHANGED shellvars PROVE HoldInv'
    BY <1>1, <1>16 DEF HoldInv, ShellFds, shellvars, Setup, Extra, Owed, Cmds
  <1>17. ASSUME NEW i \in Cmds, Child(i) PROVE HoldInv'
    BY <1>16, <1>17 DEF Child, ExecPrep, Exit, End
  <1>18. CASE Interrupt
    BY <1>16, <1>18 DEF Interrupt, End
  <1>19. CASE UNCHANGED vars
    BY <1>16, <1>19 DEF vars
  <1> QED
    BY <1>7, <1>8, <1>9, <1>10, <1>11, <1>12, <1>14, <1>15, <1>17, <1>18, <1>19
    DEF Next, Shell, Returned

\* The shell's own standard streams survive every pipeline, failing calls and
\* the double close after a failed fork included (clean_pipe(), fork_error()).
THEOREM StdStreamsCorrect == Spec => []StdStreamsIntact
PROOF
  <1>1. Spec => []HoldInv
    BY InitHold, NextHold, PTL DEF Spec
  <1>2. HoldInv => StdStreamsIntact
    BY DEF HoldInv, ShellFds, StdStreamsIntact, StdFds
  <1> QED
    BY <1>1, <1>2, PTL

\* A pipeline leaves no descriptor behind, a failed fork() or dup() included,
\* except the redirections of the commands whose pipe() failed (exec_pipe()
\* returns before clean_pipe()).
THEOREM NothingLeftCorrect == Spec => []NothingLeftOpen
PROOF
  <1>1. Spec => []HoldInv
    BY InitHold, NextHold, PTL DEF Spec
  <1>2. HoldInv => NothingLeftOpen
    <2> SUFFICES ASSUME HoldInv, pc = "done", NEW fd \in Extra(fds)
                 PROVE  \E i \in unpiped : fd \in Redirs(cmd[i])
      BY DEF NothingLeftOpen
    <2>1. tmp_fd = -1 /\ pipe = NoPipe
      BY DEF HoldInv, ShellFds, Setup
    <2>2. fd # -1
      BY Std DEF Extra
    <2>3. PICK i \in Cmds : Owed(i) /\ fd \in Redirs(cmd[i])
      BY <2>1, <2>2 DEF HoldInv, ShellFds, NoPipe
    <2> QED
      BY <2>3 DEF Owed, Setup
  <1> QED
    BY <1>1, <1>2, PTL

-----------------------------------------------------------------------------
(* The pipeline as a job. As long as nothing fails the commands before cur  *)
(* have been forked, and when the shell waits all have.                     *)

Born == faulty = {} =>
            \A i \in Cmds : i < cur \/ (i = cur /\ pc = "clean") => proc[i] # "unborn"

Through == pc \notin Setup => cur = N + 1

JobInv == WireInv /\ WaitInv /\ Born /\ Through

LEMMA InitJob == Init => JobInv
PROOF
  <1> SUFFICES ASSUME Init PROVE Born /\ Through
    BY InitWire, InitWait DEF JobInv
  <1>1. cur = 1 /\ pc = "pipe" /\ Cmds = 1 .. N
    BY CommandFacts DEF Init
  <1> QED
    BY <1>1 DEF Born, Through, Setup

LEMMA NextOrder == JobInv /\ [Next]_vars => (Born /\ Through)'
PROOF
  <1> SUFFICES ASSUME JobInv, [Next]_vars PROVE (Born /\ Through)'
    OBVIOUS
  <1>1. /\ N \in Nat /\ Cmds = 1 .. N /\ cur \in 1 .. N + 1
        /\ pc \in Setup => cur <= N
        /\ DOMAIN proc = Cmds
    BY CommandFacts DEF JobInv, WireInv, TypeInv, TypeOK
  <1>2. Born /\ Through
    BY DEF JobInv
  \* A process that was born stays so.
  <1>3. ASSUME UNCHANGED << cmd, cur, pc, faulty >>,
               \A i \in Cmds : proc[i] # "unborn" => proc'[i] # "unborn"
        PROVE  (Born /\ Through)'
    BY <1>2, <1>3 DEF Born, Through, Cmds, N
  \* The next command, or the wait after the last.
  <1>4. ASSUME NextCommand, UNCHANGED << cmd, proc >>,
               faulty' = {} => faulty = {} /\ pc = "clean", cur <= N
        PROVE  (Born /\ Through)'
    <2>1. cur' = cur + 1 /\ pc' \in { "pipe", "wait", "close" }
          /\ (pc' # "pipe" => ~(cur < N)) /\ Cmds' = Cmds /\ N' = N
      BY <1>4 DEF NextCommand, Cmds, N
    <2>2. Through'
      BY <1>1, <1>4, <2>1 DEF Through, Setup
    <2>3. ASSUME faulty' = {}, NEW i \in Cmds, i < cur + 1 PROVE proc[i] # "unborn"
      BY <1>1, <1>2, <1>4, <2>3 DEF Born
    <2>4. Born'
      BY <1>4, <2>1, <2>3 DEF Born
    <2> QED
      BY <2>2, <2>4
  <1>5. CASE OpenPipe
    BY <1>2, <1>5 DEF OpenPipe, childvars, Born, Through, Setup, Cmds, N
  <1>6. CASE OpenPipeFails
    <2>1. NextCommand /\ UNCHANGED << cmd, proc >> /\ faulty' # {} /\ cur <= N
      BY <1>1, <1>6 DEF OpenPipeFails, childvars, Setup
    <2> QED
      BY <1>4, <2>1
  <1>7. CASE Fork
    <2>1. /\ cur \in Cmds /\ pc = "fork" /\ pc' = "clean" /\ UNCHANGED << cmd, cur, faulty >>
          /\ proc' = [proc EXCEPT ![cur] = "forked"]
      BY <1>1, <1>7 DEF Fork, Setup
    <2>2. \A i \in Cmds : proc'[i] = IF i = cur THEN "forked" ELSE proc[i]
      BY <1>1, <2>1
    <2> QED
      BY <1>1, <1>2, <2>1, <2>2 DEF Born, Through, Setup, Cmds
  <1>8. CASE ForkFails
    BY <1>2, <1>8 DEF ForkFails, Born, Through, Setup
  <1>9. CASE CleanPipe
    <2>1. NextCommand /\ UNCHANGED << cmd, proc >> /\ pc = "clean" /\ cur <= N
          /\ (faulty' = {} => faulty = {})
      BY <1>1, <1>9 DEF CleanPipe, childvars, Setup
    <2> QED
      BY <1>4, <2>1
  <1>10. CASE WaitAny
    <2>1. PICK i \in Cmds : proc' = [proc EXCEPT ![i] = "reaped"]
      BY <1>10 DEF WaitAny
    <2>2. \A j \in Cmds : proc[j] # "unborn" => proc'[j] # "unborn"
      BY <1>1, <2>1
    <2> QED
      BY <1>3, <1>10, <2>2 DEF WaitAny
  <1>11. CASE Finalize \/ CloseTmp
    BY <1>2, <1>11 DEF Finalize, CloseTmp, childvars, Born, Through, Setup, Cmds, N
  <1>12. ASSUME NEW i \in Cmds, ExecPrep(i) PROVE (Born /\ Through)'
    <2>1. \A j \in Cmds : proc[j] # "unborn" => proc'[j] # "unborn"
      BY <1>1, <1>12 DEF ExecPrep
    <2> QED
      BY <1>3, <1>12, <2>1 DEF ExecPrep, shellvars
  <1>13. ASSUME NEW K, NEW st, End(K, st) PROVE (Born /\ Through)'
    <2>1. \A j \in Cmds : proc[j] # "unborn" => proc'[j] # "unborn"
      BY <1>13 DEF End
    <2> QED
      BY <1>3, <1>13, <2>1 DEF End, shellvars
  <1>14. ASSUME NEW i \in Cmds, Exit(i) PROVE (Born /\ Through)'
    BY <1>13, <1>14 DEF Exit
  <1>15. CASE Interrupt
    BY <1>13, <1>15 DEF Interrupt
  <1>16. CASE UNCHANGED vars
    BY <1>3, <1>16 DEF vars, shellvars, childvars
  <1> QED
    BY <1>5, <1>6, <1>7, <1>8, <1>9, <1>10, <1>11, <1>12, <1>14, <1>15, <1>16
    DEF Next, Shell, Child, Returned

LEMMA NextJobInv == JobInv /\ [Next]_vars => JobInv'
PROOF BY NextWire, NextWait, NextOrder DEF JobInv

-----------------------------------------------------------------------------
(* What a stage sees. While the stage before can still write, some process  *)
(* holds the write end; until the stage after has ended, or if it does not  *)
(* read, some process or the shell holds the read end.                      *)

LEMMA StageIs ==
    /\ \A i \in Cmds :
         /\ StageOf[i] = "unborn" <=> proc[i] = "unborn"
         /\ StageOf[i] = "live" <=> proc[i] \in { "forked", "running" }
         /\ StageOf[i] \in { "unborn", "live", "ended" }
    /\ DOMAIN StageOf = Cmds /\ DOMAIN VerdictOf = Cmds
    /\ Job!Stages = Cmds /\ Job!Last = N
PROOF BY DEF StageOf, VerdictOf, Job!Stages, Job!Last, Cmds, N

\* What holds when nothing has failed: every command reads from the pipe of
\* the command before it.
Wired(t, i) ==
    /\ t[STDIN] = IdealIn(i)
    /\ t[STDOUT] = IdealOut(i)
    /\ \A fd \in Fds : fd > STDOUT => ~PipeEnd(t[fd])

LEMMA NoFaults ==
    ASSUME TypeInv, faulty = {}, NEW i \in Cmds
    PROVE  /\ i = 1 => From(i) = {}
           /\ i # 1 => From(i) = { i - 1 } /\ Lost(i) = {}
           /\ Twice(i) = {}
PROOF
  <1>1. unpiped = {} /\ i \in Nat /\ i >= 1
    BY CommandFacts DEF TypeInv, TypeOK
  <1>2. i = 1 => From(i) = {}
    BY <1>1 DEF From
  <1>3. i # 1 => From(i) = { i - 1 } /\ Lost(i) = {}
    <2> SUFFICES ASSUME i # 1 PROVE From(i) = { i - 1 } /\ Lost(i) = {}
      OBVIOUS
    <2>1. i - 1 \in 1 .. i - 1 /\ i - 1 + 1 .. i - 1 = {}
      BY <1>1
    <2>2. LeftPipe(i, i - 1)
      BY <1>1, <2>1 DEF LeftPipe
    <2>3. ASSUME NEW j \in 1 .. i - 1, LeftPipe(i, j) PROVE j = i - 1
      <3>1. j + 1 \notin j + 1 .. i - 1
        BY <1>1, <2>3 DEF LeftPipe
      <3> QED
        BY <1>1, <3>1
    <2>4. From(i) = { i - 1 }
      BY <2>1, <2>2, <2>3 DEF From
    <2>5. ~(1 .. i - 1 \subseteq unpiped)
      BY <1>1, <2>1
    <2> QED
      BY <2>4, <2>5 DEF Lost
  <1>4. Twice(i) = {}
    BY DEF Twice
  <1> QED
    BY <1>2, <1>3, <1>4

LEMMA LooseShape ==
    ASSUME TypeInv, faulty = {}, NEW t \in Tables, NEW i \in Cmds, NEW tmp, NEW p,
           Loose(t, i, tmp, p, i, From(i), Lost(i), Twice(i))
    PROVE  Shape(cmd, t, i, tmp, p)
PROOF
  <1>1. DOMAIN cmd = Cmds /\ i \in Nat /\ i >= 1
    BY CommandFacts DEF TypeInv, TypeOK, Cmds
  <1>2. Feeds(t, tmp, p, From(i), Lost(i), Twice(i))
    BY DEF Loose
  <1>3. /\ i = 1 => tmp = -1
        /\ i > 1 => tmp \in Fds /\ t[tmp] = << "rd", i - 1 >>
    BY <1>1, <1>2, NoFaults DEF Feeds
  <1> QED
    BY <1>1, <1>3 DEF Loose, Shape

\* What holds of the children when nothing has failed.
LEMMA Faultless ==
    ASSUME JobInv, faulty = {}
    PROVE  /\ \A i \in Cmds : proc[i] = "running" => Wired(cfds[i], i)
           /\ \A i \in Cmds : proc[i] = "forked" =>
                /\ Real(image[i].pipe)
                /\ Shape(cmd, cfds[i], i, image[i].tmp_fd, image[i].pipe)
           /\ pc \in Setup => Shape(cmd, fds, cur, tmp_fd, pipe)
PROOF
  <1>1. /\ TypeInv /\ ParentLoose /\ ChildrenFit /\ fds \in Tables
        /\ \A i \in Cmds : cfds[i] \in Tables
    BY DEF JobInv, WireInv, TypeInv, TypeOK, Tables, Descs
  <1>2. ASSUME NEW i \in Cmds, proc[i] = "running" PROVE Wired(cfds[i], i)
    <2>1. Fits(cfds[i], i, From(i), Lost(i), Twice(i))
      BY <1>1, <1>2 DEF ChildrenFit, RunningAt
    <2> QED
      BY <1>1, <2>1, NoFaults DEF Fits, Wired, IdealIn
  <1>3. ASSUME NEW i \in Cmds, proc[i] = "forked"
        PROVE  /\ Real(image[i].pipe)
               /\ Shape(cmd, cfds[i], i, image[i].tmp_fd, image[i].pipe)
    BY <1>1, <1>3, LooseShape DEF ChildrenFit, ForkedAt
  <1>4. ASSUME pc \in Setup PROVE Shape(cmd, fds, cur, tmp_fd, pipe)
    <2>1. cur \in Cmds
      BY <1>1, <1>4, CommandFacts DEF TypeInv, TypeOK
    <2>2. FirstOpen(cur) = cur
      BY <1>4, <2>1 DEF FirstOpen, JobInv, WireInv, History
    <2>3. Loose(fds, cur, tmp_fd, pipe, cur, From(cur), Lost(cur), Twice(cur))
      BY <1>1, <1>4, <2>1, <2>2 DEF ParentLoose, ParentAt
    <2> QED
      BY <1>1, <2>1, <2>3, LooseShape
  <1> QED
    BY <1>2, <1>3, <1>4

\* A live stage that writes to its pipe holds the write end.
LEMMA WriterHolds ==
    ASSUME JobInv, faulty = {}, NEW i \in Cmds, StageOf[i] = "live", Job!WritesPipe(i)
    PROVE  Held(<< "wr", i >>)
PROOF
  <1>1. i < N /\ cmd[i].out = 1 /\ N \in Nat /\ Cmds = 1 .. N
    BY StageIs, CommandFacts DEF Job!WritesPipe, JobInv, WireInv, TypeInv, TypeOK
  <1>2. CASE proc[i] = "running"
    <2>1. cfds[i][STDOUT] = << "wr", i >>
      <3>1. Wired(cfds[i], i)
        BY <1>2, Faultless
      <3>2. cmd[i].out = STDOUT /\ i # N
        BY <1>1, Std
      <3>3. IdealOut(i) = << "wr", i >>
        BY <3>2 DEF IdealOut
      <3> QED
        BY <3>1, <3>3 DEF Wired
    <2> QED
      BY <2>1, Std DEF Held
  <1>3. CASE proc[i] = "forked"
    <2>1. Real(image[i].pipe) /\ Shape(cmd, cfds[i], i, image[i].tmp_fd, image[i].pipe)
      BY <1>3, Faultless
    <2>2. image[i].pipe # NoPipe
      BY <2>1, Std DEF Real, NoPipe
    <2>3. cfds[i][image[i].pipe.wr] = << "wr", i >> /\ image[i].pipe.wr \in Fds
      BY <2>1, <2>2 DEF Shape, Real
    <2> QED
      BY <2>3 DEF Held
  <1> QED
    BY <1>2, <1>3, StageIs

\* The read end of a pipe is held until the stage after has ended, or from
\* when it was there and does not read.
LEMMA ReaderHolds ==
    ASSUME JobInv, faulty = {}, NEW i \in Cmds, proc[i] # "unborn", i < N,
           \/ StageOf[i + 1] = "unborn"
           \/ StageOf[i + 1] = "live" /\ cmd[i + 1].in = 0
    PROVE  Held(<< "rd", i >>)
PROOF
  <1>1. /\ N \in Nat /\ Cmds = 1 .. N /\ cur \in 1 .. N + 1 /\ i + 1 \in Cmds
        /\ i + 1 > 1 /\ i + 1 - 1 = i
    BY CommandFacts DEF JobInv, WireInv, TypeInv, TypeOK
  <1>2. CASE StageOf[i + 1] = "unborn"
    <2>1. proc[i + 1] = "unborn"
      BY <1>1, <1>2, StageIs
    <2>2. ~(i + 1 < cur \/ (i + 1 = cur /\ pc = "clean"))
      BY <1>1, <2>1 DEF JobInv, Born
    <2>3. i < cur \/ (i = cur /\ pc = "clean")
      BY DEF JobInv, WaitInv, Counted
    <2>4. pc \in Setup
      BY <1>1, <2>2 DEF JobInv, Through
    <2>5. Shape(cmd, fds, cur, tmp_fd, pipe)
      BY <2>4, Faultless
    <2>6. CASE cur = i + 1
      <3>1. tmp_fd \in Fds /\ fds[tmp_fd] = << "rd", i >>
        BY <1>1, <2>5, <2>6 DEF Shape
      <3> QED
        BY <3>1 DEF Held
    <2>7. CASE cur = i /\ pc = "clean"
      <3>1. Real(pipe) /\ pipe # NoPipe
        BY <2>7, Std DEF JobInv, WireInv, PipeMade, Real, NoPipe
      <3>2. pipe.rd \in Fds /\ fds[pipe.rd] = << "rd", i >>
        BY <2>5, <2>7, <3>1 DEF Shape, Real
      <3> QED
        BY <3>2 DEF Held
    <2> QED
      BY <1>1, <2>2, <2>3, <2>6, <2>7
  <1>3. CASE proc[i + 1] = "running" /\ cmd[i + 1].in = 0
    <2>1. cfds[i + 1][STDIN] = << "rd", i >>
      <3>1. Wired(cfds[i + 1], i + 1)
        BY <1>1, <1>3, Faultless
      <3>2. cmd[i + 1].in = STDIN /\ i + 1 # 1
        BY <1>1, <1>3, Std
      <3>3. IdealIn(i + 1) = << "rd", i >>
        BY <1>1, <3>2 DEF IdealIn
      <3> QED
        BY <3>1, <3>3 DEF Wired
    <2> QED
      BY <1>1, <2>1, Std DEF Held
  <1>4. CASE proc[i + 1] = "forked"
    <2>1. Shape(cmd, cfds[i + 1], i + 1, image[i + 1].tmp_fd, image[i + 1].pipe)
      BY <1>1, <1>4, Faultless
    <2>2. image[i + 1].tmp_fd \in Fds /\ cfds[i + 1][image[i + 1].tmp_fd] = << "rd", i >>
      BY <1>1, <2>1 DEF Shape
    <2> QED
      BY <1>1, <2>2 DEF Held
  <1> QED
    BY <1>1, <1>2, <1>3, <1>4, StageIs

\* A program that ends may end as PipelineJob has it.
LEMMA MayEnd ==
    ASSUME JobInv, faulty = {}, NEW i \in Cmds, proc[i] = "running", MayExit(i)
    PROVE  Job!CanEnd(i)
PROOF
  <1>1. /\ N \in Nat /\ Cmds = 1 .. N
        /\ cmd[i].prog = "filter" => AtEof(i)
        /\ cmd[i].prog = "source" => Broken(i)
    BY CommandFacts DEF MayExit, JobInv, WireInv, TypeInv, TypeOK
  <1>2. cfds[i][STDIN] = IdealIn(i) /\ cfds[i][STDOUT] = IdealOut(i)
    BY Faultless DEF Wired
  <1>3. ASSUME AtEof(i) PROVE Job!InputEnds(i)
    <2>1. CASE cmd[i].in # STDIN
      BY <2>1, Std DEF Job!InputEnds
    <2>2. CASE cmd[i].in = STDIN
      <3>1. \/ cfds[i][STDIN][1] \in { "in", "wr" }
            \/ cfds[i][STDIN][1] = "rd" /\ ~Held(<< "wr", cfds[i][STDIN][2] >>)
        BY <1>3 DEF AtEof
      <3>2. i # 1
        BY <1>2, <2>2, <3>1 DEF IdealIn, Tty
      <3>3. i > 1 /\ ~Held(<< "wr", i - 1 >>)
        BY <1>1, <1>2, <2>2, <3>1, <3>2 DEF IdealIn
      <3>4. i - 1 \in Cmds
        BY <1>1, <3>3
      <3>5. StageOf[i - 1] # "unborn"
        <4>1. i < cur \/ (i = cur /\ pc = "clean")
          BY DEF JobInv, WaitInv, Counted
        <4>2. i - 1 < cur
          BY <1>1, <4>1 DEF JobInv, WireInv, TypeInv, TypeOK
        <4> QED
          BY <3>4, <4>2, StageIs DEF JobInv, Born
      <3>6. ~(StageOf[i - 1] = "live" /\ Job!WritesPipe(i - 1))
        BY <3>3, <3>4, WriterHolds
      <3> QED
        BY <3>3, <3>4, <3>5, <3>6, StageIs DEF Job!InputEnds
    <2> QED
      BY <2>1, <2>2
  <1>4. ASSUME Broken(i) PROVE Job!ReadersGone(i)
    <2>1. cfds[i][STDOUT][1] = "wr" /\ ~Held(<< "rd", cfds[i][STDOUT][2] >>)
      BY <1>4 DEF Broken
    <2>2. cmd[i].out = STDOUT /\ i # N
      BY <1>2, <2>1 DEF IdealOut, Tty
    <2>3. i < N /\ ~Held(<< "rd", i >>) /\ i + 1 \in Cmds
      BY <1>1, <1>2, <2>1, <2>2 DEF IdealOut
    <2>4. ~(\/ StageOf[i + 1] = "unborn"
            \/ StageOf[i + 1] = "live" /\ cmd[i + 1].in = 0)
      BY <2>3, ReaderHolds
    <2>5. Job!WritesPipe(i)
      BY <2>2, <2>3, Std, StageIs DEF Job!WritesPipe
    <2>6. \/ StageOf[i + 1] = "ended"
          \/ StageOf[i + 1] = "live" /\ ~Job!ReadsPipe(i + 1)
      BY <2>3, <2>4, StageIs DEF Job!ReadsPipe
    <2> QED
      BY <2>5, <2>6 DEF Job!ReadersGone
  <1> QED
    BY <1>1, <1>3, <1>4 DEF Job!CanEnd

-----------------------------------------------------------------------------
(* The steps.                                                               *)

Over == pc \in { "close", "done" }

\* Steps that PipelineJob does not see.
LEMMA Unseen ==
    ASSUME UNCHANGED << cmd, code >>, UNCHANGED StageOf, UNCHANGED VerdictOf, Over' <=> Over
    PROVE  UNCHANGED Job!jobvars
PROOF BY DEF Job!jobvars, Over

LEMMA SameStages ==
    ASSUME UNCHANGED << cmd, proc, wstatus >>
    PROVE  UNCHANGED StageOf /\ UNCHANGED VerdictOf
PROOF BY DEF StageOf, VerdictOf, Cmds

LEMMA NextJob ==
    JobInv /\ faulty = {} /\ (faulty = {})' /\ [Next]_vars => [Job!Next]_Job!jobvars
PROOF
  <1> SUFFICES ASSUME JobInv, faulty = {}, faulty' = {}, [Next]_vars
               PROVE  [Job!Next]_Job!jobvars
    OBVIOUS
  <1>1. /\ N \in Nat /\ N >= 2 /\ Cmds = 1 .. N /\ cur \in 1 .. N + 1
        /\ pc \in Setup => cur \in Cmds
        /\ proc \in [Cmds -> ProcStates] /\ DOMAIN proc = Cmds
        /\ \A i \in Cmds : cmd[i].prog \in Programs
    BY CommandFacts DEF JobInv, WireInv, TypeInv, TypeOK
  <1>2. CASE OpenPipe
    BY <1>2, Unseen, SameStages DEF OpenPipe, childvars, Over
  <1>3. CASE Fork
    <2>1. /\ cur \in Cmds /\ proc[cur] = "unborn"
          /\ \A j \in 1 .. cur - 1 : j \in Cmds /\ proc[j] # "unborn"
      <3>1. pc = "fork" /\ cur \in Cmds
        BY <1>1, <1>3 DEF Fork, Setup
      <3> QED
        BY <1>1, <3>1 DEF JobInv, WaitInv, Counted, Born
    <2>2. /\ proc' = [proc EXCEPT ![cur] = "forked"]
          /\ UNCHANGED << cmd, wstatus, code >> /\ pc = "fork" /\ pc' = "clean"
      BY <1>3 DEF Fork
    <2>3. StageOf' = [StageOf EXCEPT ![cur] = "live"]
      BY <1>1, <2>1, <2>2 DEF StageOf, Cmds
    <2>4. VerdictOf' = VerdictOf
      BY <1>1, <2>1, <2>2 DEF VerdictOf, Cmds
    <2>5. Job!Launch(cur)
      BY <2>1, <2>2, <2>3, <2>4, StageIs DEF Job!Launch
    <2> QED
      BY <2>1, <2>5, StageIs DEF Job!Next
  <1>4. CASE OpenPipeFails \/ ForkFails
    BY <1>4 DEF OpenPipeFails, ForkFails
  <1>5. CASE CleanPipe
    <2>1. /\ pc = "clean" /\ NextCommand /\ UNCHANGED << cmd, proc, wstatus, code, count >>
      BY <1>5 DEF CleanPipe, childvars
    <2>2. count # 0
      <3>1. cur \in Unreaped
        BY <1>1, <2>1 DEF JobInv, WaitInv, Counted, Born, Setup, Unreaped, ProcStates
      <3> QED
        BY <3>1, UnreapedFinite DEF JobInv, WaitInv, Counted
    <2>3. ~Over /\ ~Over'
      BY <2>1, <2>2 DEF NextCommand, Over
    <2> QED
      BY <2>1, <2>3, Unseen, SameStages
  <1>6. CASE WaitAny
    <2>1. PICK i \in Cmds : proc[i] = "ended" /\ proc' = [proc EXCEPT ![i] = "reaped"]
      BY <1>6 DEF WaitAny
    <2>2. UNCHANGED << cmd, pc, wstatus, code >>
      BY <1>6 DEF WaitAny
    <2>3. \A j \in Cmds : proc'[j] = proc[j] \/ (proc[j] = "ended" /\ proc'[j] = "reaped")
      BY <1>1, <2>1
    <2>4. StageOf' = StageOf
      BY <2>2, <2>3 DEF StageOf, Cmds
    <2>5. VerdictOf' = VerdictOf
      BY <2>2, <2>3 DEF VerdictOf, Cmds
    <2> QED
      BY <2>2, <2>4, <2>5, Unseen DEF Over
  <1>7. CASE Finalize
    <2>1. /\ pc = "wait" /\ pc' = "close" /\ count = 0
          /\ UNCHANGED << cmd, proc, wstatus, last_child >>
      BY <1>7 DEF Finalize, childvars
    <2>2. Unreaped = {}
      BY <2>1, UnreapedFinite DEF JobInv, WaitInv, Counted
    <2>3. \A i \in Cmds : proc[i] = "reaped"
      BY <1>1, <2>1, <2>2 DEF JobInv, Born, Through, Setup, Unreaped, ProcStates
    <2>4. last_child = N
      <3>1. N \in Cmds /\ proc[N] # "unborn" /\ last_child \in 0 .. N
        BY <1>1, <2>3 DEF JobInv, WireInv, TypeInv, TypeOK
      <3>2. N <= last_child
        BY <3>1 DEF JobInv, WaitInv, Counted
      <3> QED
        BY <1>1, <3>1, <3>2
    <2>5. code' = VerdictOf[N]
      <3>1. JobInv' => code' = CodeOf(wstatus'[last_child'])
        BY <1>1, <2>1, <2>4 DEF JobInv, WaitInv, Counted
      <3>2. JobInv'
        BY NextJobInv
      <3> QED
        BY <1>1, <2>1, <2>3, <2>4, <3>1, <3>2 DEF VerdictOf
    <2>6. \A i \in Cmds : StageOf[i] = "ended"
      BY <2>3, StageIs
    <2>7. UNCHANGED StageOf /\ UNCHANGED VerdictOf
      BY <2>1, SameStages
    <2>8. Job!Return
      BY <2>1, <2>5, <2>6, <2>7, StageIs DEF Job!Return
    <2> QED
      BY <2>8 DEF Job!Next
  <1>8. CASE CloseTmp
    BY <1>8, Unseen, SameStages DEF CloseTmp, childvars, Over
  <1>9. ASSUME NEW i \in Cmds, ExecPrep(i) PROVE [Job!Next]_Job!jobvars
    <2>1. /\ proc[i] = "forked" /\ proc' = [proc EXCEPT ![i] = "running"]
          /\ UNCHANGED << cmd, pc, wstatus, code >>
      BY <1>9 DEF ExecPrep, shellvars
    <2>2. \A j \in Cmds : proc'[j] = proc[j] \/ (proc[j] = "forked" /\ proc'[j] = "running")
      BY <1>1, <2>1
    <2>3. StageOf' = StageOf
      BY <2>1, <2>2 DEF StageOf, Cmds
    <2>4. VerdictOf' = VerdictOf
      BY <2>1, <2>2 DEF VerdictOf, Cmds
    <2> QED
      BY <2>1, <2>3, <2>4, Unseen DEF Over
  \* The children of K end.
  <1>10. ASSUME NEW K \in SUBSET { i \in Cmds : proc[i] = "running" }, NEW st, End(K, st)
         PROVE  /\ StageOf' = [i \in Cmds |-> IF i \in K THEN "ended" ELSE StageOf[i]]
                /\ VerdictOf' = [i \in Cmds |-> IF i \in K THEN CodeOf(st[i]) ELSE VerdictOf[i]]
                /\ UNCHANGED << cmd, pc, code >>
                /\ \A i \in K : i \in Cmds /\ StageOf[i] = "live"
    <2>1. /\ proc' = [i \in Cmds |-> IF i \in K THEN "ended" ELSE proc[i]]
          /\ wstatus' = [i \in Cmds |-> IF i \in K THEN st[i] ELSE wstatus[i]]
          /\ UNCHANGED << cmd, pc, code >>
      BY <1>10 DEF End, shellvars
    <2>2. StageOf' = [i \in Cmds |-> IF i \in K THEN "ended" ELSE StageOf[i]]
      BY <2>1 DEF StageOf, Cmds
    <2>3. VerdictOf' = [i \in Cmds |-> IF i \in K THEN CodeOf(st[i]) ELSE VerdictOf[i]]
      BY <2>1 DEF VerdictOf, Cmds
    <2> QED
      BY <1>10, <2>1, <2>2, <2>3, StageIs
  <1>11. ASSUME NEW i \in Cmds, Exit(i) PROVE [Job!Next]_Job!jobvars
    <2>1. PICK s \in Outcomes(cmd[i].prog) : End({ i }, [j \in { i } |-> s])
      BY <1>11 DEF Exit
    <2>2. proc[i] = "running" /\ MayExit(i)
      BY <1>11 DEF Exit
    <2>3. { i } \in SUBSET { j \in Cmds : proc[j] = "running" }
      BY <2>2
    <2>4. /\ StageOf' = [j \in Cmds |-> IF j \in { i } THEN "ended" ELSE StageOf[j]]
          /\ VerdictOf' = [j \in Cmds |-> IF j \in { i } THEN CodeOf([l \in { i } |-> s][j])
                                          ELSE VerdictOf[j]]
          /\ UNCHANGED << cmd, pc, code >>
          /\ StageOf[i] = "live"
      BY <1>10, <2>1, <2>3
    <2>5. /\ StageOf' = [StageOf EXCEPT ![i] = "ended"]
          /\ VerdictOf' = [VerdictOf EXCEPT ![i] = CodeOf(s)]
      BY <2>4, StageIs
    <2>6. CodeOf(s) \in [p \in Programs |-> { CodeOf(t) : t \in Outcomes(p) }][cmd[i].prog]
      BY <1>1, <2>1
    <2>7. Job!CanEnd(i)
      BY <2>2, MayEnd
    <2>8. Job!EndStage(i)
      BY <2>4, <2>5, <2>6, <2>7 DEF Job!EndStage
    <2> QED
      BY <2>8, StageIs DEF Job!Next
  <1>12. CASE Interrupt
    <2>1. PICK K \in SUBSET { i \in Cmds : proc[i] = "running" } :
            End(K, [i \in K |-> Signaled(SIGINT)])
      BY <1>12 DEF Interrupt
    <2>2. \A i \in K : CodeOf([j \in K |-> Signaled(SIGINT)][i]) = EXIT_SIGINT
      BY DEF CodeOf, Signaled, EXIT_SIGINT
    <2>3. /\ StageOf' = [i \in Cmds |-> IF i \in K THEN "ended" ELSE StageOf[i]]
          /\ VerdictOf' = [i \in Cmds |-> IF i \in K THEN CodeOf([j \in K |-> Signaled(SIGINT)][i])
                                          ELSE VerdictOf[i]]
          /\ UNCHANGED << cmd, pc, code >>
          /\ \A i \in K : i \in Cmds /\ StageOf[i] = "live"
      BY <1>10, <2>1
    <2>4. VerdictOf' = [i \in Cmds |-> IF i \in K THEN EXIT_SIGINT ELSE VerdictOf[i]]
      BY <2>2, <2>3
    <2>5. Job!Interrupt
      BY <2>3, <2>4, StageIs DEF Job!Interrupt
    <2> QED
      BY <2>5 DEF Job!Next
  <1>13. CASE UNCHANGED vars
    BY <1>13, Unseen, SameStages DEF vars, shellvars, childvars, Over
  <1> QED
    BY <1>2, <1>3, <1>4, <1>5, <1>6, <1>7, <1>8, <1>9, <1>11, <1>12, <1>13
    DEF Next, Shell, Child, Returned

\* As long as no pipe(), fork() or dup() fails, exec_pipeline() is a pipeline
\* job: a stage sees the end of its input only when the stage before is
\* through, a broken pipe only when the stage after is, Ctrl-C or not, and the
\* shell comes back with the code of the last stage when all are through.
THEOREM ImplementsPipelineJob == Spec /\ [](faulty = {}) => Job!Spec
PROOF
  <1>1. Init => Job!Init
    <2> SUFFICES ASSUME Init PROVE Job!Init
      OBVIOUS
    <2>1. \A i \in Cmds : proc[i] = "unborn"
      BY DEF Init
    <2> QED
      BY <2>1, StageIs DEF Job!Init, Init, StageOf, VerdictOf
  <1>2. Spec => []JobInv
    BY InitJob, NextJobInv, PTL DEF Spec
  <1> QED
    BY <1>1, <1>2, NextJob, PTL DEF Spec, Job!Spec

-----------------------------------------------------------------------------
(* The other direction, on which progress rests: what may end as a job may  *)
(* end as a program. It takes that nobody keeps a pipe end he has no use    *)
(* for, and so holds only once the copies made by fork() are gone.          *)

\* Nobody is between fork() and the end of exec_prep() or of clean_pipe().
Settled == pc # "clean" /\ \A j \in Cmds : proc[j] # "forked"

\* As long as nothing failed, a program sees the end of its input or a broken
\* pipe exactly if the stages beside it are through.
EndsSeen ==
    faulty = {} /\ Settled =>
        \A i \in Cmds : proc[i] = "running" => (MayExit(i) <=> Job!CanEnd(i))

\* Who does not run holds nothing.
Silent == \A i \in Cmds : proc[i] \notin { "forked", "running" } => cfds[i] = NoFds

\* While it waits the shell has no pipe end but the last, which nobody uses.
LastEnd ==
    pc = "wait" /\ faulty = {} =>
        \A fd \in Fds : PipeEnd(fds[fd]) => fds[fd] = << "rd", N >>

EndsInv == JobInv /\ Silent /\ LastEnd

LEMMA InitEnds == Init => EndsInv
PROOF
  <1> SUFFICES ASSUME Init PROVE Silent /\ LastEnd
    BY InitJob DEF EndsInv
  <1>1. \A i \in Cmds : cfds[i] = NoFds
    BY DEF Init
  <1> QED
    BY <1>1 DEF Silent, LastEnd, Init

LEMMA NextSilent == TypeInv /\ Silent /\ [Next]_vars => Silent'
PROOF
  <1> SUFFICES ASSUME TypeInv, Silent, [Next]_vars PROVE Silent'
    OBVIOUS
  <1>1. DOMAIN proc = Cmds /\ DOMAIN cfds = Cmds /\ (pc \in Setup => cur \in Cmds)
    BY CommandFacts DEF TypeInv, TypeOK
  <1>2. CASE OpenPipe \/ OpenPipeFails \/ ForkFails \/ CleanPipe \/ Finalize \/ CloseTmp
    <2>1. UNCHANGED << cmd, proc, cfds >>
      BY <1>2 DEF OpenPipe, OpenPipeFails, ForkFails, CleanPipe, Finalize, CloseTmp, childvars
    <2> QED
      BY <2>1 DEF Silent, Cmds
  <1>3. CASE Fork
    <2>1. cur \in Cmds /\ cmd' = cmd
      BY <1>1, <1>3 DEF Fork, Setup
    <2>2. \A i \in Cmds : i # cur => proc'[i] = proc[i] /\ cfds'[i] = cfds[i]
      BY <1>1, <1>3 DEF Fork
    <2>3. proc'[cur] = "forked"
      BY <1>1, <1>3, <2>1 DEF Fork
    <2> QED
      BY <2>1, <2>2, <2>3 DEF Silent, Cmds
  <1>4. CASE WaitAny
    <2>1. PICK k \in Cmds : proc[k] = "ended" /\ proc' = [proc EXCEPT ![k] = "reaped"]
      BY <1>4 DEF WaitAny
    <2>2. cmd' = cmd /\ cfds' = cfds
      BY <1>4 DEF WaitAny
    <2>3. \A i \in Cmds : proc'[i] = IF i = k THEN "reaped" ELSE proc[i]
      BY <1>1, <2>1
    <2> QED
      BY <2>1, <2>2, <2>3 DEF Silent, Cmds
  <1>5. ASSUME NEW k \in Cmds, ExecPrep(k) PROVE Silent'
    <2>1. proc'[k] = "running" /\ cmd' = cmd
      BY <1>1, <1>5 DEF ExecPrep
    <2>2. \A i \in Cmds : i # k => proc'[i] = proc[i] /\ cfds'[i] = cfds[i]
      BY <1>1, <1>5 DEF ExecPrep
    <2> QED
      BY <2>1, <2>2 DEF Silent, Cmds
  <1>6. ASSUME NEW K, NEW st, End(K, st) PROVE Silent'
    <2>1. /\ cmd' = cmd
          /\ \A i \in Cmds : IF i \in K THEN cfds'[i] = NoFds
                             ELSE proc'[i] = proc[i] /\ cfds'[i] = cfds[i]
      BY <1>6 DEF End
    <2> QED
      BY <2>1 DEF Silent, Cmds
  <1>7. ASSUME NEW i \in Cmds, Exit(i) PROVE Silent'
    BY <1>6, <1>7 DEF Exit
  <1>8. CASE Interrupt
    BY <1>6, <1>8 DEF Interrupt
  <1>9. CASE UNCHANGED vars
    BY <1>9 DEF vars, childvars, Silent, Cmds
  <1> QED
    BY <1>2, <1>3, <1>4, <1>5, <1>7, <1>8, <1>9 DEF Next, Shell, Child, Returned

LEMMA NextLastEnd == JobInv /\ LastEnd /\ [Next]_vars => LastEnd'
PROOF
  <1> SUFFICES ASSUME JobInv, LastEnd, [Next]_vars, pc' = "wait", faulty' = {}
               PROVE  \A fd \in Fds : PipeEnd(fds'[fd]) => fds'[fd] = << "rd", N' >>
    BY DEF LastEnd
  <1>1. JobInv' /\ TypeInv /\ TypeInv'
    BY NextJobInv DEF JobInv, WireInv
  <1>2. /\ cmd \in CommandTables /\ N \in Nat /\ N >= 2 /\ Cmds = 1 .. N /\ cur \in 1 .. N + 1
        /\ fds \in Tables /\ pipe \in Pipes /\ tmp_fd \in Fds \cup { -1 }
        /\ pc \in Setup => cur \in Cmds
    BY <1>1, CommandFacts DEF TypeInv, TypeOK, Tables, Descs, Pipes
  \* Only clean_pipe() of the last command leads here.
  <1>3. CASE CleanPipe
    <2>1. /\ cur \in Cmds /\ Real(pipe) /\ faulty = {} /\ cmd' = cmd
          /\ cur' = cur + 1 /\ cur' = N + 1
      <3>1. cur' = N' + 1
        BY <1>1 DEF JobInv, Through, Setup
      <3>2. cmd' = cmd /\ cur \in Cmds /\ Real(pipe) /\ cur' = cur + 1
        BY <1>2, <1>3 DEF CleanPipe, NextCommand, JobInv, WireInv, PipeMade, Setup
      <3>3. faulty = {}
        BY <1>3 DEF CleanPipe
      <3> QED
        BY <3>1, <3>2, <3>3 DEF N
    <2>2. PICK fd \in Fds :
            LET old == Close(fds, { tmp_fd })
            IN  /\ IsOpen(old, pipe.rd) /\ LowestFree(old, fd)
                /\ fds' = Close(Bind(old, fd, old[pipe.rd]),
                                Redirs(cmd[cur]) \cup { pipe.rd, pipe.wr })
      BY <1>3 DEF CleanPipe
    <2>3. Loose(fds, cur, tmp_fd, pipe, cur, From(cur), Lost(cur), {})
      <3>1. pc = "clean"
        BY <1>3 DEF CleanPipe
      <3>2. proc[cur] # "unborn"
        BY <2>1, <3>1 DEF JobInv, WireInv, History
      <3>3. ParentAt(cur)
        BY <2>1, <3>1 DEF JobInv, WireInv, ParentLoose, Setup
      <3>4. Twice(cur) = {}
        BY <2>1 DEF Twice
      <3> QED
        BY <3>2, <3>3, <3>4 DEF ParentAt, FirstOpen
    <2>4. pipe # NoPipe
      BY <2>1, Std DEF Real, NoPipe
    <2>5. ASSUME NEW old, old = Close(fds, { tmp_fd }), IsOpen(old, pipe.rd), LowestFree(old, fd)
          PROVE  Loose(Close(Bind(old, fd, old[pipe.rd]), Redirs(cmd[cur]) \cup { pipe.rd, pipe.wr }),
                       cur + 1, fd, NoPipe, cur + 1, { cur }, {}, {})
      <3>1. cur # cur + 1
        BY <1>2
      <3> QED
        BY <1>2, <2>1, <2>3, <2>4, <2>5, <3>1, CleanLoose
    <2>6. Loose(fds', cur + 1, fd, NoPipe, cur + 1, { cur }, {}, {})
      BY <2>2, <2>5
    <2>7. cur = N
      BY <1>2, <2>1
    <2>8. /\ fds'[fd] = << "rd", N >>
          /\ \A g \in Fds : g # fd => ~PipeEnd(fds'[g])
      <3>1. Feeds(fds', fd, NoPipe, { cur }, {}, {})
        BY <2>6 DEF Loose
      <3>2. fds'[fd] = << "rd", cur >>
        BY <3>1 DEF Feeds
      <3>3. \A g \in Fds : g # fd => ~PipeEnd(fds'[g])
        BY <2>6, Std DEF Loose, NoPipe
      <3> QED
        BY <2>7, <3>2, <3>3
    <2> QED
      BY <2>1, <2>8 DEF N
  <1>4. CASE OpenPipeFails
    BY <1>4 DEF OpenPipeFails
  <1>5. CASE OpenPipe \/ Fork \/ ForkFails \/ Finalize \/ CloseTmp
    BY <1>5 DEF OpenPipe, Fork, ForkFails, Finalize, CloseTmp
  <1>6. ASSUME UNCHANGED << cmd, pc, fds, faulty >>
        PROVE  \A fd \in Fds : PipeEnd(fds'[fd]) => fds'[fd] = << "rd", N' >>
    BY <1>6 DEF LastEnd, N
  <1>7. CASE WaitAny
    BY <1>6, <1>7 DEF WaitAny
  <1>8. ASSUME NEW K, NEW st, End(K, st)
        PROVE  \A fd \in Fds : PipeEnd(fds'[fd]) => fds'[fd] = << "rd", N' >>
    BY <1>6, <1>8 DEF End, shellvars
  <1>9. ASSUME NEW i \in Cmds, Child(i)
        PROVE  \A fd \in Fds : PipeEnd(fds'[fd]) => fds'[fd] = << "rd", N' >>
    BY <1>6, <1>8, <1>9 DEF Child, ExecPrep, Exit, shellvars
  <1>10. CASE Interrupt
    BY <1>8, <1>10 DEF Interrupt
  <1>11. CASE UNCHANGED vars
    BY <1>6, <1>11 DEF vars, shellvars
  <1> QED
    BY <1>3, <1>4, <1>5, <1>7, <1>9, <1>10, <1>11 DEF Next, Shell, Returned

LEMMA NextEnds == EndsInv /\ [Next]_vars => EndsInv'
PROOF
  <1> SUFFICES ASSUME EndsInv, [Next]_vars PROVE EndsInv'
    OBVIOUS
  <1>1. JobInv /\ TypeInv /\ Silent /\ LastEnd
    BY DEF EndsInv, JobInv, WireInv
  <1> QED
    BY <1>1, NextJobInv, NextSilent, NextLastEnd DEF EndsInv

\* A pipe end that a child holds, once it has wired itself, is the one it uses.
LEMMA ChildHolds ==
    ASSUME EndsInv, faulty = {}, Settled, NEW j \in Cmds, NEW fd \in Fds, PipeEnd(cfds[j][fd])
    PROVE  /\ proc[j] = "running"
           /\ \/ cfds[j][fd] = << "rd", j - 1 >> /\ cmd[j].in = STDIN /\ j # 1
              \/ cfds[j][fd] = << "wr", j >> /\ cmd[j].out = STDOUT /\ j # N
PROOF
  <1>1. proc[j] = "running"
    <2>1. ~PipeEnd(NoFds[fd])
      BY Descriptors DEF NoFds
    <2> QED
      BY <2>1 DEF EndsInv, Silent, Settled
  <1>2. Wired(cfds[j], j)
    BY <1>1, Faultless DEF EndsInv
  <1>3. fd = STDIN \/ fd = STDOUT
    <2>1. ~(fd > STDOUT)
      BY <1>2 DEF Wired
    <2> QED
      BY <2>1, Std
  <1>4. CASE fd = STDIN
    BY <1>1, <1>2, <1>4, Descriptors DEF Wired, IdealIn
  <1>5. CASE fd = STDOUT
    BY <1>1, <1>2, <1>5, Descriptors DEF Wired, IdealOut
  <1> QED
    BY <1>3, <1>4, <1>5

\* A pipe end that the shell holds is of the pipe it sets up or the one before.
LEMMA ShellHolds ==
    ASSUME EndsInv, faulty = {}, Settled, pc \in Setup \cup { "wait" },
           NEW fd \in Fds, PipeEnd(fds[fd])
    PROVE  \/ pc \in Setup /\ fds[fd] = << "rd", cur - 1 >>
           \/ pc \in Setup /\ fds[fd] \in { << "rd", cur >>, << "wr", cur >> }
           \/ fds[fd] = << "rd", N >>
PROOF
  <1>1. CASE pc = "wait"
    BY <1>1 DEF EndsInv, LastEnd
  <1>2. CASE pc \in Setup
    <2>1. Shape(cmd, fds, cur, tmp_fd, pipe) /\ cur \in 1 .. N + 1 /\ N \in Nat
      BY <1>2, Faultless, CommandFacts DEF EndsInv, JobInv, WireInv, TypeInv, TypeOK
    <2>2. fd \in { tmp_fd, pipe.rd, pipe.wr }
      BY <2>1 DEF Shape
    <2>3. CASE fd = tmp_fd
      <3>1. cur > 1
        BY <2>1, <2>3, Std DEF Shape
      <3> QED
        BY <1>2, <2>1, <2>3, <3>1 DEF Shape
    <2>4. CASE fd \in { pipe.rd, pipe.wr }
      <3>1. pipe # NoPipe
        BY <2>4, Std DEF NoPipe
      <3> QED
        BY <1>2, <2>1, <2>4, <3>1 DEF Shape
    <2> QED
      BY <2>2, <2>3, <2>4
  <1> QED
    BY <1>1, <1>2

\* A program that may end as PipelineJob has it is let.
LEMMA EndIsSeen ==
    ASSUME EndsInv, faulty = {}, Settled, NEW i \in Cmds, proc[i] = "running", Job!CanEnd(i)
    PROVE  MayExit(i)
PROOF
  <1>1. /\ N \in Nat /\ Cmds = 1 .. N /\ cur \in 1 .. N + 1 /\ JobInv /\ TypeInv
        /\ cmd[i].prog = "filter" => Job!InputEnds(i)
        /\ cmd[i].prog = "source" => Job!ReadersGone(i)
    BY CommandFacts DEF Job!CanEnd, EndsInv, JobInv, WireInv, TypeInv, TypeOK
  <1>2. cfds[i][STDIN] = IdealIn(i) /\ cfds[i][STDOUT] = IdealOut(i)
    BY <1>1, Faultless DEF Wired
  <1>3. pc \in Setup \cup { "wait" }
    <2>1. count # 0
      <3>1. i \in Unreaped
        BY DEF Unreaped
      <3> QED
        BY <1>1, <3>1, UnreapedFinite DEF JobInv, WaitInv, Counted
    <2>2. pc \in Pcs
      BY <1>1 DEF TypeInv, TypeOK
    <2> QED
      BY <1>1, <2>1, <2>2 DEF JobInv, WaitInv, Counted, Pcs, Setup
  \* The commands before cur were forked, those from cur on were not.
  <1>4. \A j \in Cmds : j >= cur => proc[j] = "unborn"
    BY <1>1 DEF JobInv, WaitInv, Counted, Settled
  <1>5. i < cur
    BY <1>1, <1>4
  <1>6. ASSUME Job!InputEnds(i) PROVE AtEof(i)
    <2>1. CASE cmd[i].in # STDIN
      BY <1>2, <2>1 DEF AtEof, IdealIn
    <2>2. CASE cmd[i].in = STDIN
      <3>1. /\ i > 1 /\ i - 1 \in Cmds
            /\ \/ StageOf[i - 1] = "ended"
               \/ ~Job!WritesPipe(i - 1)
        BY <1>1, <1>6, <2>2, Std DEF Job!InputEnds
      <3>2. cfds[i][STDIN] = << "rd", i - 1 >>
        BY <1>2, <2>2, <3>1 DEF IdealIn
      <3>3. ASSUME NEW fd \in Fds, fds[fd] = << "wr", i - 1 >> PROVE FALSE
        <4>1. PipeEnd(fds[fd])
          BY <3>3, Descriptors
        <4>2. fds[fd] = << "wr", cur >>
          BY <1>3, <3>3, <4>1, ShellHolds DEF EndsInv
        <4> QED
          BY <1>1, <1>5, <3>3, <4>2
      <3>4. ASSUME NEW j \in Cmds, NEW fd \in Fds, cfds[j][fd] = << "wr", i - 1 >> PROVE FALSE
        <4>1. PipeEnd(cfds[j][fd])
          BY <3>4, Descriptors
        <4>2. /\ proc[j] = "running" /\ cmd[j].out = STDOUT /\ j # N
              /\ cfds[j][fd] = << "wr", j >>
          BY <3>4, <4>1, ChildHolds, Descriptors
        <4>3. j = i - 1
          BY <3>4, <4>2
        <4>4. Job!WritesPipe(i - 1) /\ StageOf[i - 1] = "live"
          BY <1>1, <4>2, <4>3, Std, StageIs DEF Job!WritesPipe
        <4> QED
          BY <3>1, <4>4
      <3>5. ~Held(<< "wr", i - 1 >>)
        BY <3>3, <3>4 DEF Held
      <3> QED
        BY <3>2, <3>5 DEF AtEof
    <2> QED
      BY <2>1, <2>2
  <1>7. ASSUME Job!ReadersGone(i) PROVE Broken(i)
    <2>1. /\ i < N /\ i + 1 \in Cmds /\ cmd[i].out = STDOUT /\ i # N
          /\ StageOf[i + 1] # "unborn"
          /\ StageOf[i + 1] = "ended" \/ ~Job!ReadsPipe(i + 1)
      BY <1>1, <1>7, Std, StageIs DEF Job!ReadersGone, Job!WritesPipe
    <2>2. cfds[i][STDOUT] = << "wr", i >>
      BY <1>2, <2>1 DEF IdealOut
    <2>3. i + 1 < cur
      BY <1>1, <1>4, <2>1, StageIs
    <2>4. ASSUME NEW fd \in Fds, fds[fd] = << "rd", i >> PROVE FALSE
      <3>1. PipeEnd(fds[fd])
        BY <2>4, Descriptors
      <3>2. fds[fd] \in { << "rd", cur - 1 >>, << "rd", cur >>, << "rd", N >> }
        BY <1>3, <2>4, <3>1, ShellHolds, Descriptors
      <3> QED
        BY <1>1, <2>1, <2>3, <2>4, <3>2
    <2>5. ASSUME NEW j \in Cmds, NEW fd \in Fds, cfds[j][fd] = << "rd", i >> PROVE FALSE
      <3>1. PipeEnd(cfds[j][fd])
        BY <2>5, Descriptors
      <3>2. /\ proc[j] = "running" /\ cmd[j].in = STDIN /\ j # 1
            /\ cfds[j][fd] = << "rd", j - 1 >>
        BY <2>5, <3>1, ChildHolds, Descriptors
      <3>3. j = i + 1
        BY <1>1, <2>5, <3>2
      <3>4. Job!ReadsPipe(i + 1) /\ StageOf[i + 1] = "live"
        BY <1>1, <3>2, <3>3, Std, StageIs DEF Job!ReadsPipe
      <3> QED
        BY <2>1, <3>4
    <2>6. ~Held(<< "rd", i >>)
      BY <2>4, <2>5 DEF Held
    <2> QED
      BY <2>2, <2>6 DEF Broken
  <1> QED
    BY <1>1, <1>6, <1>7 DEF MayExit

\* As long as no call fails no forgotten descriptor keeps a pipeline waiting,
\* however long it is and whatever its redirections: once every child is
\* through exec_prep() and the shell through clean_pipe(), a program is told
\* of the end of its input or of its broken pipe exactly when the stages beside
\* it are through.
THEOREM EndsSeenCorrect == Spec => []EndsSeen
PROOF
  <1>1. Spec => []EndsInv
    BY InitEnds, NextEnds, PTL DEF Spec
  <1>2. EndsInv => EndsSeen
    BY EndIsSeen, MayEnd DEF EndsInv, EndsSeen
  <1> QED
    BY <1>1, <1>2, PTL
==============================================================================
