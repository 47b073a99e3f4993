---------------------------- MODULE HeredocProof ----------------------------
(****************************************************************************)
(* Proofs about Heredoc, for every line, every pipe, any number of          *)
(* documents and of signals.                                                *)
(****************************************************************************)
EXTENDS Heredoc, SequenceTheorems, TLAPS

\* What TypeOK says of the child.
ChildType == [pc : { "none", "start", "read", "look", "write", "last", "ended" },
              sigint : { "default", "ignore", "close" },
              received : { "none", "int", "term" },
              stdin : BOOLEAN, line : Text \cup { Eof }]

\* Between two documents, and when the line is done.
Between ==
    pc \in { "parse", "done" } =>
        /\ child = None /\ ends = {}
        /\ sigint = "note"
        /\ heredoc_index = Len(bodies) - 1
        /\ evaluating => ~caught
        /\ pc = "parse" => evaluating
        /\ ~evaluating => code \in { EXIT_SIGINT, EXIT_HEREDOC_ERROR }

\* While a document is read.
Reading ==
    pc \in { "fork", "wait", "result" } =>
        /\ Len(bodies) < Len(delims)
        /\ heredoc_index = Len(bodies)
        /\ evaluating

InFork ==
    pc = "fork" =>
        /\ child = None /\ ends = { << "shell", "read" >>, << "shell", "write" >> }
        /\ sigint = "ignore" /\ ~caught
        /\ pipe = << >>

\* The child holds the only write end. What its handler catches it remembers.
InWait ==
    pc = "wait" =>
        /\ child.pc # "none"
        /\ ends = IF child.pc = "ended" THEN { << "shell", "read" >> }
                  ELSE { << "shell", "read" >>, << "child", "write" >> }
        /\ child.sigint = IF child.pc = "start" THEN "ignore" ELSE "close"
        /\ child.pc = "start" => ~caught
        /\ caught => child.received = "int"
        /\ child.stdin <=> ~caught
        /\ child.pc = "ended" /\ status = 0 => child.received # "int"
        /\ child.pc = "write" => child.line # Eof

InResult ==
    pc = "result" =>
        /\ child = None /\ ends = { << "shell", "read" >> }
        /\ sigint = "note"
        /\ status = 0 => ~caught

Control == Between /\ Reading /\ InFork /\ InWait /\ InResult

-----------------------------------------------------------------------------
(* Types and control.                                                       *)

LEMMA InitControl == Init => TypeOK /\ Control
<1> SUFFICES ASSUME Init PROVE TypeOK /\ Control
  OBVIOUS
<1>1. delims \in Seq(Text) /\ input \in Seq(Text) /\ before \in Seq(Text)
  BY HeredocAssumption DEF Init
<1>2. Len(<< >>) = 0 /\ << >> \in Seq(Text) /\ << >> \in Seq(Seq(Text))
  BY EmptySeq
<1>a. heredoc_index \in -1 .. MAX_HEREDOCS - 1
  <2>1. -1 \in Int /\ MAX_HEREDOCS - 1 \in Int /\ -1 <= MAX_HEREDOCS - 1
    BY HeredocAssumption
  <2> QED BY <2>1 DEF Init
<1>b. ends \subseteq { "shell", "child" } \X { "read", "write" }
  BY DEF Init
<1>c. child \in ChildType
  BY DEF Init, None, ChildType
<1>d. pipe \in Seq(Text) /\ Len(pipe) <= PipeCapacity /\ bodies \in Seq(Seq(Text))
  BY <1>2, HeredocAssumption DEF Init
<1>3. TypeOK
  BY <1>1, <1>a, <1>b, <1>c, <1>d DEF Init, TypeOK, ChildType
<1>4. Control
  BY <1>2 DEF Init, Control, Between, Reading, InFork, InWait, InResult
<1> QED BY <1>3, <1>4

\* The shell gives a line up.
LEMMA RefuseControl == TypeOK /\ Control /\ (Refuse \/ PipeFails) => (TypeOK /\ Control)'
BY DEF Refuse, PipeFails, Parsing, Abort, TypeOK, Control, Between, Reading, InFork, InWait, InResult

LEMMA EnterControl == TypeOK /\ Control /\ Enter => (TypeOK /\ Control)'
<1> SUFFICES ASSUME TypeOK, Control, Enter PROVE (TypeOK /\ Control)'
  OBVIOUS
<1>1. Len(bodies) \in Nat /\ Len(delims) \in Nat /\ Len(bodies) < Len(delims) /\ Len(delims) < MAX_HEREDOCS
  BY HeredocAssumption, LenProperties DEF Enter, Parsing, Refused, TypeOK
<1>2. heredoc_index = Len(bodies) - 1 /\ child = None /\ ends = {} /\ evaluating
  BY DEF Enter, Parsing, Control, Between
<1>3. heredoc_index' = Len(bodies) /\ heredoc_index' \in -1 .. MAX_HEREDOCS - 1
  BY <1>1, <1>2, HeredocAssumption DEF Enter
<1>4. pipe' \in Seq(Text) /\ Len(pipe') <= PipeCapacity
  BY EmptySeq, HeredocAssumption DEF Enter
<1>a. ends' \subseteq { "shell", "child" } \X { "read", "write" }
  BY <1>2 DEF Enter
<1>b. heredoc_index' \in -1 .. MAX_HEREDOCS - 1
  BY <1>3
<1>c. /\ UNCHANGED << delims, evaluating, code, input, received, child, status, bodies, before >>
      /\ pc' = "fork" /\ sigint' = "ignore" /\ caught' = FALSE
  BY DEF Enter
<1>t. /\ delims' \in Seq(Text) /\ input' \in Seq(Text) /\ before' \in Seq(Text)
      /\ bodies' \in Seq(Seq(Text))
      /\ status' \in { 0, EXIT_SIGINT, 128 + SIGTERM }
      /\ child' \in ChildType
  BY <1>c DEF TypeOK, ChildType
<1>u. /\ pc' \in { "parse", "fork", "wait", "result", "done" }
      /\ evaluating' \in BOOLEAN /\ caught' \in BOOLEAN
      /\ sigint' \in { "note", "ignore" } /\ received' \in { "none", "int", "term" }
      /\ code' \in { 0, EXIT_SIGINT, EXIT_HEREDOC_ERROR }
  BY <1>c DEF TypeOK
<1>5. TypeOK'
  BY Zenon, <1>4, <1>a, <1>b, <1>t, <1>u DEF TypeOK, ChildType
<1>6. Control'
  BY <1>1, <1>2, <1>3 DEF Enter, Control, Between, Reading, InFork, InWait, InResult
<1> QED BY <1>5, <1>6

LEMMA ForkControl == TypeOK /\ Control /\ Fork => (TypeOK /\ Control)'
<1> SUFFICES ASSUME TypeOK, Control, Fork PROVE (TypeOK /\ Control)'
  OBVIOUS
<1>1. /\ child'.pc = "start" /\ child'.sigint = "ignore" /\ child'.stdin = TRUE
      /\ child'.received \in { "none", "int", "term" } /\ child'.line = Eof
      /\ child' = [pc |-> "start", sigint |-> "ignore", received |-> received,
                   stdin |-> TRUE, line |-> Eof]
  BY DEF Fork, Control, InFork, None, TypeOK
<1>2. ends' = { << "shell", "read" >>, << "child", "write" >> }
  BY DEF Fork, Control, InFork
<1>a. ends' \subseteq { "shell", "child" } \X { "read", "write" }
  BY <1>2
<1>b. child' \in ChildType
  BY <1>1 DEF TypeOK, ChildType
<1>3. TypeOK'
  BY <1>a, <1>b DEF Fork, TypeOK, ChildType, shell
<1>4. Control'
  BY <1>1, <1>2 DEF Fork, Control, Between, Reading, InFork, InWait, InResult, shell
<1> QED BY <1>3, <1>4

LEMMA ForkFailsControl == TypeOK /\ Control /\ ForkFails => (TypeOK /\ Control)'
<1> SUFFICES ASSUME TypeOK, Control, ForkFails PROVE (TypeOK /\ Control)'
  OBVIOUS
<1>1. heredoc_index = Len(bodies) /\ Len(bodies) \in Nat /\ child = None
  BY LenProperties DEF ForkFails, Control, Reading, InFork, TypeOK
<1>2. ends' = {} /\ heredoc_index' = Len(bodies) - 1 /\ heredoc_index' \in -1 .. MAX_HEREDOCS - 1
  BY <1>1, HeredocAssumption DEF ForkFails, Control, InFork, TypeOK
<1>a. code' \in { 0, EXIT_SIGINT, EXIT_HEREDOC_ERROR }
  BY DEF ForkFails, Abort
<1>b. ends' \subseteq { "shell", "child" } \X { "read", "write" }
  BY <1>2
<1>c. heredoc_index' \in -1 .. MAX_HEREDOCS - 1
  BY <1>2
<1>d. /\ UNCHANGED << delims, input, child, status, pipe, bodies, before, caught >>
      /\ pc' = "done" /\ evaluating' = FALSE /\ received' = "none"
      /\ sigint' \in { "note", "ignore" }
  BY DEF ForkFails, Abort, TypeOK
<1>t. /\ delims' \in Seq(Text) /\ input' \in Seq(Text) /\ before' \in Seq(Text)
      /\ bodies' \in Seq(Seq(Text))
      /\ status' \in { 0, EXIT_SIGINT, 128 + SIGTERM }
      /\ child' \in ChildType
  BY <1>d DEF TypeOK, ChildType
<1>u. /\ pc' \in { "parse", "fork", "wait", "result", "done" }
      /\ evaluating' \in BOOLEAN /\ caught' \in BOOLEAN
      /\ sigint' \in { "note", "ignore" } /\ received' \in { "none", "int", "term" }
      /\ pipe' \in Seq(Text) /\ Len(pipe') <= PipeCapacity
  BY <1>d DEF TypeOK
<1>3. TypeOK'
  BY Zenon, <1>a, <1>b, <1>c, <1>t, <1>u DEF TypeOK, ChildType
<1>4. Control'
  BY <1>1, <1>2 DEF ForkFails, Abort, Control, Between, Reading, InFork, InWait, InResult
<1> QED BY <1>3, <1>4

LEMMA WaitControl == TypeOK /\ Control /\ Wait => (TypeOK /\ Control)'
<1> SUFFICES ASSUME TypeOK, Control, Wait PROVE (TypeOK /\ Control)'
  OBVIOUS
<1>1. TypeOK'
  BY DEF Wait, TypeOK, None, shell
<1>2. Control'
  BY DEF Wait, Control, Between, Reading, InFork, InWait, InResult, shell
<1> QED BY <1>1, <1>2

LEMMA AcceptControl == TypeOK /\ Control /\ Accept => (TypeOK /\ Control)'
<1> SUFFICES ASSUME TypeOK, Control, Accept PROVE (TypeOK /\ Control)'
  OBVIOUS
<1>1. bodies' \in Seq(Seq(Text)) /\ Len(bodies') = Len(bodies) + 1 /\ Len(bodies) \in Nat
  BY AppendProperties, LenProperties DEF Accept, TypeOK
<1>2. ends' = {}
  BY DEF Accept, Control, InResult
<1>3. TypeOK'
  BY <1>1, <1>2 DEF Accept, TypeOK, shell
<1>4. Control'
  BY <1>1, <1>2 DEF Accept, Control, Between, Reading, InFork, InWait, InResult, shell
<1> QED BY <1>3, <1>4

LEMMA GiveUpControl == TypeOK /\ Control /\ GiveUp => (TypeOK /\ Control)'
<1> SUFFICES ASSUME TypeOK, Control, GiveUp PROVE (TypeOK /\ Control)'
  OBVIOUS
<1>1. heredoc_index = Len(bodies) /\ Len(bodies) \in Nat
  BY LenProperties DEF GiveUp, Control, Reading, TypeOK
<1>2. ends' = {} /\ heredoc_index' = Len(bodies) - 1 /\ heredoc_index' \in -1 .. MAX_HEREDOCS - 1
  BY <1>1, HeredocAssumption DEF GiveUp, Control, InResult, TypeOK
<1>a. code' \in { 0, EXIT_SIGINT, EXIT_HEREDOC_ERROR }
  BY DEF GiveUp, Abort
<1>b. ends' \subseteq { "shell", "child" } \X { "read", "write" }
  BY <1>2
<1>c. heredoc_index' \in -1 .. MAX_HEREDOCS - 1
  BY <1>2
<1>d. /\ UNCHANGED << delims, input, child, status, pipe, bodies, before, caught >>
      /\ pc' = "done" /\ evaluating' = FALSE /\ received' = "none"
      /\ sigint' \in { "note", "ignore" }
  BY DEF GiveUp, Abort, TypeOK
<1>t. /\ delims' \in Seq(Text) /\ input' \in Seq(Text) /\ before' \in Seq(Text)
      /\ bodies' \in Seq(Seq(Text))
      /\ status' \in { 0, EXIT_SIGINT, 128 + SIGTERM }
      /\ child' \in ChildType
  BY <1>d DEF TypeOK, ChildType
<1>u. /\ pc' \in { "parse", "fork", "wait", "result", "done" }
      /\ evaluating' \in BOOLEAN /\ caught' \in BOOLEAN
      /\ sigint' \in { "note", "ignore" } /\ received' \in { "none", "int", "term" }
      /\ pipe' \in Seq(Text) /\ Len(pipe') <= PipeCapacity
  BY <1>d DEF TypeOK
<1>3. TypeOK'
  BY Zenon, <1>a, <1>b, <1>c, <1>t, <1>u DEF TypeOK, ChildType
<1>4. Control'
  BY <1>1, <1>2 DEF GiveUp, Abort, Control, Between, Reading, InFork, InWait, InResult
<1> QED BY <1>3, <1>4

LEMMA FinishControl == TypeOK /\ Control /\ Finish => (TypeOK /\ Control)'
BY DEF Finish, TypeOK, Control, Between, Reading, InFork, InWait, InResult, shell

\* A step of the child happens while the shell waits.
LEMMA ChildAlive ==
    ASSUME TypeOK, Control, child.pc \notin { "none", "ended" }
    PROVE  /\ pc = "wait"
           /\ ends = { << "shell", "read" >>, << "child", "write" >> }
BY DEF TypeOK, Control, Between, InFork, InWait, InResult, None

\* One that leaves the pipe's ends alone.
LEMMA ChildControl ==
    ASSUME TypeOK, Control, child.pc \notin { "none", "ended" }, UnchangedByChild,
           UNCHANGED << status, ends >>,
           input' \in Seq(Text), pipe' \in Seq(Text), Len(pipe') <= PipeCapacity,
           NEW to \in { "read", "look", "write", "last" },
           NEW line \in Text \cup { Eof }, to = "write" => line # Eof,
           child' = [child EXCEPT !.pc = to, !.sigint = "close", !.line = line]
    PROVE  (TypeOK /\ Control)'
<1>1. pc = "wait" /\ ends = { << "shell", "read" >>, << "child", "write" >> }
  BY ChildAlive
<1>2. /\ child'.pc = to /\ child'.sigint = "close" /\ child'.line = line
      /\ child'.received = child.received /\ child'.stdin = child.stdin
  BY DEF TypeOK
<1>3. TypeOK'
  BY <1>1, <1>2 DEF TypeOK, UnchangedByChild, shell
<1>4. Control'
  BY <1>1, <1>2 DEF Control, Between, Reading, InFork, InWait, InResult, UnchangedByChild, shell
<1> QED BY <1>3, <1>4

\* Past its start the child has its own disposition.
LEMMA ChildCloses ==
    ASSUME TypeOK, Control, child.pc \in { "read", "look", "write", "last" }
    PROVE  child.sigint = "close"
BY ChildAlive DEF Control, InWait

LEMMA InstallControl == TypeOK /\ Control /\ Install => (TypeOK /\ Control)'
<1> SUFFICES ASSUME TypeOK, Control, Install PROVE (TypeOK /\ Control)'
  OBVIOUS
<1>1. child.pc = "start" /\ UnchangedByChild /\ UNCHANGED << input, status, pipe, ends >>
  BY DEF Install, Child
<1>2. child.line \in Text \cup { Eof }
  BY DEF TypeOK
<1>3. child' = [child EXCEPT !.pc = "read", !.sigint = "close", !.line = child.line]
  BY DEF Install, TypeOK
<1>4. input' \in Seq(Text) /\ pipe' \in Seq(Text) /\ Len(pipe') <= PipeCapacity
  BY <1>1 DEF TypeOK
<1> QED BY <1>1, <1>2, <1>3, <1>4, ChildControl

LEMMA ReadLineControl == TypeOK /\ Control /\ ReadLine => (TypeOK /\ Control)'
<1> SUFFICES ASSUME TypeOK, Control, ReadLine PROVE (TypeOK /\ Control)'
  OBVIOUS
<1>1. child.pc = "read" /\ child.sigint = "close" /\ UnchangedByChild /\ UNCHANGED << status, pipe, ends >>
  BY ChildCloses DEF ReadLine, Child
<1>2. Head(input) \in Text \cup { Eof } /\ Tail(input) \in Seq(Text)
  BY HeadTailProperties DEF TypeOK, ReadLine
<1>3. child' = [child EXCEPT !.pc = "look", !.sigint = "close", !.line = Head(input)]
  BY <1>1 DEF ReadLine, TypeOK
<1>4. input' \in Seq(Text) /\ pipe' \in Seq(Text) /\ Len(pipe') <= PipeCapacity
  BY <1>1, <1>2 DEF TypeOK, ReadLine
<1> QED BY <1>1, <1>2, <1>3, <1>4, ChildControl

LEMMA ReadNothingControl == TypeOK /\ Control /\ ReadNothing => (TypeOK /\ Control)'
<1> SUFFICES ASSUME TypeOK, Control, ReadNothing PROVE (TypeOK /\ Control)'
  OBVIOUS
<1>1. child.pc = "read" /\ child.sigint = "close" /\ UnchangedByChild /\ UNCHANGED << input, status, pipe, ends >>
  BY ChildCloses DEF ReadNothing, Child
<1>2. child' = [child EXCEPT !.pc = "look", !.sigint = "close", !.line = Eof]
  BY <1>1 DEF ReadNothing, TypeOK
<1>3. input' \in Seq(Text) /\ pipe' \in Seq(Text) /\ Len(pipe') <= PipeCapacity
  BY <1>1 DEF TypeOK
<1> QED BY <1>1, <1>2, <1>3, ChildControl

LEMMA LookControl == TypeOK /\ Control /\ LookAtLine => (TypeOK /\ Control)'
<1> SUFFICES ASSUME TypeOK, Control, LookAtLine PROVE (TypeOK /\ Control)'
  OBVIOUS
<1>1. child.pc = "look" /\ child.sigint = "close" /\ UnchangedByChild /\ UNCHANGED << input, status, pipe, ends >>
  BY ChildCloses DEF LookAtLine, Child
<1>2. child.line \in Text \cup { Eof }
  BY DEF TypeOK
<1>3. PICK to \in { "last", "write" } :
           /\ child' = [child EXCEPT !.pc = to]
           /\ to = "write" => child.line # Eof
  BY DEF LookAtLine, ChildGoes
<1>4. child' = [child EXCEPT !.pc = to, !.sigint = "close", !.line = child.line]
  BY <1>1, <1>3 DEF TypeOK
<1>5. input' \in Seq(Text) /\ pipe' \in Seq(Text) /\ Len(pipe') <= PipeCapacity
  BY <1>1 DEF TypeOK
<1> QED BY <1>1, <1>2, <1>3, <1>4, <1>5, ChildControl

LEMMA WriteControl ==
    TypeOK /\ Control /\ Write => child.line \in Text /\ (TypeOK /\ Control)'
<1> SUFFICES ASSUME TypeOK, Control, Write
             PROVE  child.line \in Text /\ (TypeOK /\ Control)'
  OBVIOUS
<1>0. child.pc = "write" /\ child.line \in Text
  BY ChildAlive DEF Write, Child, TypeOK, Control, InWait
<1>1. child.pc = "write" /\ child.sigint = "close" /\ UnchangedByChild /\ UNCHANGED << input, status, ends >>
  BY ChildCloses DEF Write, Child
<1>2. child' = [child EXCEPT !.pc = "read", !.sigint = "close", !.line = child.line]
  BY <1>1 DEF Write, ChildGoes, TypeOK
<1>3. pipe' \in Seq(Text) /\ Len(pipe') = Len(pipe) + 1 /\ Len(pipe) \in Nat
  BY <1>0, AppendProperties, LenProperties DEF Write, TypeOK
<1>4. Len(pipe') <= PipeCapacity
  BY <1>3, HeredocAssumption DEF Write, Full, TypeOK
<1>5. input' \in Seq(Text)
  BY <1>1 DEF TypeOK
<1>6. (TypeOK /\ Control)'
  BY <1>0, <1>1, <1>2, <1>3, <1>4, <1>5, ChildControl
<1> QED BY <1>0, <1>6

\* The child ends with the status its last look calls for.
LEMMA LeaveControl == TypeOK /\ Control /\ Leave => (TypeOK /\ Control)'
<1> SUFFICES ASSUME TypeOK, Control, Leave PROVE (TypeOK /\ Control)'
  OBVIOUS
<1>1. child.pc = "last" /\ child.sigint = "close" /\ UnchangedByChild /\ UNCHANGED << input, pipe >>
  BY ChildCloses DEF Leave, Child, End
<1>2. pc = "wait" /\ ends = { << "shell", "read" >>, << "child", "write" >> }
  BY <1>1, ChildAlive
<1>3. /\ child'.pc = "ended" /\ child'.sigint = "close"
      /\ child'.received = child.received /\ child'.stdin = child.stdin
      /\ child' = [child EXCEPT !.pc = "ended"]
  BY <1>1 DEF Leave, End, ChildGoes, TypeOK
<1>4. ends' = { << "shell", "read" >> }
  BY <1>2 DEF Leave, End
<1>5. /\ status' \in { 0, EXIT_SIGINT, 128 + SIGTERM }
      /\ status' = 0 => child.received # "int"
  BY DEF Leave, End, EXIT_SIGINT
<1>6. ends' \subseteq { "shell", "child" } \X { "read", "write" }
  BY <1>4
<1>7. TypeOK'
  BY <1>1, <1>3, <1>5, <1>6 DEF TypeOK, UnchangedByChild, shell
<1>8. Control'
  BY <1>1, <1>2, <1>3, <1>4, <1>5
  DEF Control, Between, Reading, InFork, InWait, InResult, UnchangedByChild, shell
<1> QED BY <1>7, <1>8

-----------------------------------------------------------------------------
(* The signals.                                                             *)

LEMMA InterruptControl == TypeOK /\ Control /\ Interrupt => (TypeOK /\ Control)'
<1> SUFFICES ASSUME TypeOK, Control, Interrupt PROVE (TypeOK /\ Control)'
  OBVIOUS
<1>1. /\ UNCHANGED << shell, input, pc, sigint, status, pipe, ends, bodies, before >>
      /\ received' \in { "none", "int", "term" }
  BY DEF Interrupt, TypeOK
<1>2. CASE ChildCatches
  <2>1. child.pc \in { "read", "look", "write", "last" } /\ child.sigint = "close" /\ pc = "wait"
    BY <1>2, ChildAlive DEF ChildCatches
  <2>2. PICK to \in { "read", "look", "write", "last" } :
             /\ child' = [child EXCEPT !.received = "int", !.stdin = FALSE, !.pc = to]
             /\ to = "write" => child.pc = "write"
    BY <1>2, <2>1 DEF ChildCatches
  <2>3. /\ child'.pc = to /\ child'.sigint = "close"
        /\ child'.received = "int" /\ child'.stdin = FALSE /\ child'.line = child.line
    BY <2>1, <2>2 DEF TypeOK
  <2>4. caught' = TRUE
    BY <1>2 DEF ChildCatches
  <2>5. TypeOK'
    <3>1. child' \in ChildType
      BY <2>2 DEF TypeOK, ChildType
    <3> QED BY <1>1, <2>4, <3>1 DEF TypeOK, ChildType, shell
  <2>6. Control'
    BY <1>1, <2>1, <2>2, <2>3, <2>4
    DEF Control, Between, Reading, InFork, InWait, InResult, shell
  <2> QED BY <2>5, <2>6
<1>3. CASE UNCHANGED << child, caught >>
  <2>1. TypeOK'
    BY <1>1, <1>3 DEF TypeOK, shell
  <2>2. Control'
    BY <1>1, <1>3 DEF Control, Between, Reading, InFork, InWait, InResult, shell
  <2> QED BY <2>1, <2>2
<1> QED BY <1>2, <1>3 DEF Interrupt

LEMMA KillShellControl == TypeOK /\ Control /\ KillShell => (TypeOK /\ Control)'
BY DEF KillShell, TypeOK, Control, Between, Reading, InFork, InWait, InResult, shell

LEMMA KillChildControl == TypeOK /\ Control /\ KillChild => (TypeOK /\ Control)'
<1> SUFFICES ASSUME TypeOK, Control, KillChild PROVE (TypeOK /\ Control)'
  OBVIOUS
<1>1. /\ UNCHANGED << shell, input, pc, sigint, received, pipe, bodies, before, caught >>
      /\ child.pc \notin { "none", "ended" }
  BY DEF KillChild
<1>2. pc = "wait" /\ ends = { << "shell", "read" >>, << "child", "write" >> }
  BY <1>1, ChildAlive
<1>3. CASE child.pc = "start" /\ child' = [child EXCEPT !.received = "term"] /\ UNCHANGED << status, ends >>
  <2>1. /\ child'.pc = "start" /\ child'.sigint = child.sigint
        /\ child'.received = "term" /\ child'.stdin = child.stdin
    BY <1>3 DEF TypeOK
  <2>2. ~caught
    BY <1>2, <1>3, <2>1 DEF Control, InWait
  <2>3. TypeOK'
    <3>1. child' \in ChildType
      BY <1>3 DEF TypeOK, ChildType
    <3> QED BY <1>1, <1>3, <3>1 DEF TypeOK, ChildType, shell
  <2>4. Control'
    BY <1>1, <1>2, <1>3, <2>1, <2>2 DEF Control, Between, Reading, InFork, InWait, InResult, shell
  <2> QED BY <2>3, <2>4
<1>4. CASE /\ child.pc # "start" /\ child' = [child EXCEPT !.pc = "ended"]
           /\ status' = 128 + SIGTERM /\ ends' = ends \ { << "child", "write" >> }
  <2>1. /\ child'.pc = "ended" /\ child'.sigint = child.sigint
        /\ child'.received = child.received /\ child'.stdin = child.stdin
    BY <1>4 DEF TypeOK
  <2>2. ends' = { << "shell", "read" >> }
    BY <1>2, <1>4
  <2>3. status' # 0
    BY <1>4 DEF SIGTERM
  <2>4. ends' \subseteq { "shell", "child" } \X { "read", "write" }
    BY <2>2
  <2>5. status' \in { 0, EXIT_SIGINT, 128 + SIGTERM }
    BY <1>4
  <2>6. TypeOK'
    BY <1>1, <1>4, <2>4, <2>5 DEF TypeOK, shell
  <2>7. Control'
    BY <1>1, <1>2, <1>4, <2>1, <2>2, <2>3
    DEF Control, Between, Reading, InFork, InWait, InResult, shell
  <2> QED BY <2>6, <2>7
<1> QED BY <1>3, <1>4 DEF KillChild, Child, ChildGoes

-----------------------------------------------------------------------------
(* The bodies.                                                              *)

\* What is left of it behind its first n lines.
Behind(n) == SubSeq(before, n + 1, Len(before))

\* The first n lines are read, the pipe holds lines of them.
Taken(n) == n <= Len(before) /\ input = Behind(n)

Held ==
    /\ Len(pipe) <= Len(before)
    /\ \A i \in 1 .. Len(pipe) : pipe[i] = before[i] /\ pipe[i] # Delimiter

\* The pipe has all there was before the delimiter, which is read too.
Whole ==
    /\ Held
    /\ \/ Taken(Len(pipe)) /\ Len(pipe) = Len(before)
       \/ Taken(Len(pipe) + 1) /\ before[Len(pipe) + 1] = Delimiter

\* The child has not been told to give up.
GoesOn(at) == pc = "wait" /\ child.received # "int" /\ child.pc \in at

Untouched == pc \in { "parse", "fork" } \/ (pc = "wait" /\ child.pc = "start") => input = before

AtStart == pc = "wait" /\ child.pc = "start" => pipe = << >>

AtRead == GoesOn({ "read" }) => Held /\ Taken(Len(pipe))

AtLine ==
    GoesOn({ "look", "write", "last" }) =>
        /\ Held
        /\ IF child.line = Eof
           THEN child.pc # "write" /\ Taken(Len(pipe)) /\ Len(pipe) = Len(before)
           ELSE Taken(Len(pipe) + 1) /\ child.line = before[Len(pipe) + 1]
        /\ child.pc = "write" => child.line # Delimiter
        /\ child.pc = "last" => child.line \in { Eof, Delimiter }

AtEnd == (GoesOn({ "ended" }) \/ pc = "result") /\ status = 0 => Whole

Body == Untouched /\ AtStart /\ AtRead /\ AtLine /\ AtEnd

HeredocInv == TypeOK /\ Control /\ Body

LEMMA InitBody == Init => Body
<1> SUFFICES ASSUME Init PROVE Body
  OBVIOUS
<1> QED BY DEF Init, Body, Untouched, AtStart, AtRead, AtLine, AtEnd, GoesOn, None

\* Whoever does not read, write or count bodies leaves what is held as it is.
LEMMA SameBody ==
    ASSUME UNCHANGED << input, before, pipe, delims, bodies >>
    PROVE  /\ Held' <=> Held
           /\ \A n : Taken(n)' <=> Taken(n)
           /\ Whole' <=> Whole
           /\ Delimiter' = Delimiter
BY DEF Held, Taken, Whole, Behind, Delimiter

LEMMA ShellBody ==
    ASSUME TypeOK, Control, Body, Refuse \/ PipeFails \/ Enter \/ Fork \/ ForkFails \/ GiveUp \/ Finish
    PROVE  Body'
<1>1. CASE Refuse \/ PipeFails \/ ForkFails \/ GiveUp \/ Finish
  BY <1>1 DEF Refuse, PipeFails, ForkFails, GiveUp, Finish, Abort,
     Body, Untouched, AtStart, AtRead, AtLine, AtEnd, GoesOn
<1>2. CASE Enter
  BY <1>2 DEF Enter, Parsing, Body, Untouched, AtStart, AtRead, AtLine, AtEnd, GoesOn
<1>3. CASE Fork
  <2>1. child'.pc = "start" /\ pc' = "wait" /\ pipe' = << >> /\ input' = before'
    BY <1>3 DEF Fork, TypeOK, Control, InFork, None, Body, Untouched
  <2> QED BY <2>1 DEF Body, Untouched, AtStart, AtRead, AtLine, AtEnd, GoesOn
<1> QED BY <1>1, <1>2, <1>3

LEMMA WaitBody == TypeOK /\ Control /\ Body /\ Wait => Body'
<1> SUFFICES ASSUME TypeOK, Control, Body, Wait PROVE Body'
  OBVIOUS
<1>1. pc = "wait" /\ child.pc = "ended" /\ pc' = "result" /\ status' = status
      /\ UNCHANGED << input, before, pipe, delims, bodies >>
  BY DEF Wait, shell
<1>2. status = 0 => Whole
  BY <1>1 DEF Control, InWait, Body, AtEnd, GoesOn
<1>3. status' = 0 => Whole'
  BY <1>1, <1>2, SameBody
<1> QED BY <1>1, <1>3 DEF Body, Untouched, AtStart, AtRead, AtLine, AtEnd, GoesOn

LEMMA AcceptBody == TypeOK /\ Control /\ Body /\ Accept => Body'
BY DEF Accept, Body, Untouched, AtStart, AtRead, AtLine, AtEnd, GoesOn

-----------------------------------------------------------------------------
LEMMA InstallBody == TypeOK /\ Control /\ Body /\ Install => Body'
<1> SUFFICES ASSUME TypeOK, Control, Body, Install PROVE Body'
  OBVIOUS
<1>1. child.pc = "start" /\ pc = "wait" /\ pc' = "wait"
      /\ UNCHANGED << input, before, pipe, delims, bodies >>
  BY ChildAlive DEF Install, Child, UnchangedByChild, shell
<1>2. child'.pc = "read"
  BY DEF Install, TypeOK
<1>3. input = before /\ pipe = << >>
  BY <1>1 DEF Body, Untouched, AtStart
<1>4. Held
  BY <1>3, EmptySeq, LenProperties DEF Held, TypeOK
<1>5. Taken(Len(pipe))
  <2>1. Len(pipe) = 0 /\ Len(before) \in Nat /\ SubSeq(before, 1, Len(before)) = before
    BY <1>3, EmptySeq, SubSeqFull, LenProperties DEF TypeOK
  <2> QED BY <1>3, <2>1 DEF Taken, Behind
<1>6. Held' /\ Taken(Len(pipe))'
  BY <1>1, <1>4, <1>5, SameBody DEF Taken, Behind
<1> QED BY <1>1, <1>2, <1>6 DEF Body, Untouched, AtStart, AtRead, AtLine, AtEnd, GoesOn

\* Reading a line takes one more.
LEMMA OneMore ==
    ASSUME TypeOK, NEW n \in Nat, Taken(n), input # << >>
    PROVE  /\ n + 1 <= Len(before)
           /\ Head(input) = before[n + 1]
           /\ Tail(input) = Behind(n + 1)
<1>1. Len(before) \in Nat /\ n <= Len(before) /\ input = SubSeq(before, n + 1, Len(before))
  BY LenProperties DEF Taken, Behind, TypeOK
<1>2. n + 1 <= Len(before)
  <2> SUFFICES ASSUME ~(n + 1 <= Len(before)) PROVE FALSE
    OBVIOUS
  <2>1. Len(before) < n + 1 /\ n + 1 \in Int /\ Len(before) \in Int
    BY <1>1
  <2>2. SubSeq(before, n + 1, Len(before)) = << >>
    BY <2>1, SubSeqEmpty
  <2> QED BY <1>1, <2>2
<1>3. before \in Seq(Text) /\ n + 1 \in 1 .. Len(before) /\ Len(before) \in (n + 1) .. Len(before)
  BY <1>1, <1>2 DEF TypeOK
<1>4. /\ Head(SubSeq(before, n + 1, Len(before))) = before[n + 1]
      /\ Tail(SubSeq(before, n + 1, Len(before))) = SubSeq(before, (n + 1) + 1, Len(before))
  BY <1>3, HeadTailOfSubSeq
<1> QED BY <1>1, <1>2, <1>4 DEF Behind

\* At the end of the input all is read.
LEMMA NothingMore ==
    ASSUME TypeOK, NEW n \in Nat, Taken(n), input = << >>
    PROVE  n = Len(before)
<1>1. Len(before) \in Nat /\ n <= Len(before) /\ << >> = SubSeq(before, n + 1, Len(before))
  BY LenProperties DEF Taken, Behind, TypeOK
<1>2. \A i \in n + 1 .. Len(before) : before[i] \in Text
  BY LenProperties DEF TypeOK
<1>3. Len(SubSeq(before, n + 1, Len(before))) = IF n + 1 <= Len(before) THEN Len(before) - (n + 1) + 1 ELSE 0
  BY <1>1, <1>2, SubSeqProperties, n + 1 \in Int
<1>4. Len(<< >>) = 0
  BY EmptySeq
<1>5. 0 = IF n + 1 <= Len(before) THEN Len(before) - (n + 1) + 1 ELSE 0
  BY <1>1, <1>3, <1>4, Zenon
<1>6. Len(before) \in Nat /\ n <= Len(before)
  BY <1>1
<1> QED BY <1>5, <1>6

LEMMA ReadLineBody == TypeOK /\ Control /\ Body /\ ReadLine => Body'
<1> SUFFICES ASSUME TypeOK, Control, Body, ReadLine PROVE Body'
  OBVIOUS
<1>1. /\ child.pc = "read" /\ pc = "wait" /\ pc' = "wait" /\ input # << >>
      /\ UNCHANGED << before, pipe, delims, bodies, status >> /\ input' = Tail(input)
  BY ChildAlive DEF ReadLine, Child, UnchangedByChild, shell
<1>2. child'.pc = "look" /\ child'.line = Head(input) /\ child'.received = child.received
  BY DEF ReadLine, TypeOK
<1>3. ASSUME child.received # "int"
      PROVE  Held' /\ Taken(Len(pipe) + 1)' /\ child'.line = before'[Len(pipe') + 1]
  <2>1. Held /\ Taken(Len(pipe))
    BY <1>1, <1>3 DEF Body, AtRead, GoesOn
  <2>2. Len(pipe) \in Nat
    BY LenProperties DEF TypeOK
  <2>3. /\ Len(pipe) + 1 <= Len(before) /\ Head(input) = before[Len(pipe) + 1]
        /\ Tail(input) = Behind(Len(pipe) + 1)
    BY <1>1, <2>1, <2>2, OneMore
  <2>4. Held'
    BY <1>1, <2>1 DEF Held, Delimiter
  <2> QED BY <1>1, <1>2, <2>3, <2>4 DEF Taken, Behind
<1>4. child'.line \in Text /\ child'.line # Eof
  BY <1>1, <1>2, HeadTailProperties, HeredocAssumption DEF TypeOK
<1> QED BY <1>1, <1>2, <1>3, <1>4 DEF Body, Untouched, AtStart, AtRead, AtLine, AtEnd, GoesOn

LEMMA ReadNothingBody == TypeOK /\ Control /\ Body /\ ReadNothing => Body'
<1> SUFFICES ASSUME TypeOK, Control, Body, ReadNothing PROVE Body'
  OBVIOUS
<1>1. /\ child.pc = "read" /\ pc = "wait" /\ pc' = "wait"
      /\ UNCHANGED << input, before, pipe, delims, bodies, status >>
  BY ChildAlive DEF ReadNothing, Child, UnchangedByChild, shell
<1>2. child'.pc = "look" /\ child'.line = Eof /\ child'.received = child.received
  BY DEF ReadNothing, TypeOK
<1>3. ASSUME child.received # "int"
      PROVE  Held' /\ Taken(Len(pipe))' /\ Len(pipe') = Len(before')
  <2>1. Held /\ Taken(Len(pipe)) /\ input = << >>
    BY <1>1, <1>3 DEF Body, AtRead, GoesOn, ReadNothing, Control, InWait, TypeOK
  <2>2. Len(pipe) \in Nat
    BY LenProperties DEF TypeOK
  <2>3. Len(pipe) = Len(before)
    BY <2>1, <2>2, NothingMore
  <2> QED BY <1>1, <2>1, <2>3, SameBody DEF Taken, Behind
<1> QED BY <1>1, <1>2, <1>3 DEF Body, Untouched, AtStart, AtRead, AtLine, AtEnd, GoesOn

LEMMA LookBody == TypeOK /\ Control /\ Body /\ LookAtLine => Body'
<1> SUFFICES ASSUME TypeOK, Control, Body, LookAtLine PROVE Body'
  OBVIOUS
<1>1. /\ child.pc = "look" /\ pc = "wait" /\ pc' = "wait"
      /\ UNCHANGED << input, before, pipe, delims, bodies, status >>
  BY ChildAlive DEF LookAtLine, Child, UnchangedByChild, shell
<1>2. /\ child'.pc = IF child.received = "int" \/ child.line \in { Eof, Delimiter }
                     THEN "last" ELSE "write"
      /\ child'.line = child.line /\ child'.received = child.received
  BY DEF LookAtLine, ChildGoes, TypeOK
<1>3. Delimiter' = Delimiter /\ (Held' <=> Held) /\ (Taken(Len(pipe))' <=> Taken(Len(pipe)))
      /\ (Taken(Len(pipe) + 1)' <=> Taken(Len(pipe) + 1))
  BY <1>1, SameBody DEF Taken, Behind
<1> QED BY <1>1, <1>2, <1>3 DEF Body, Untouched, AtStart, AtRead, AtLine, AtEnd, GoesOn

LEMMA WriteBody == TypeOK /\ Control /\ Body /\ Write => Body'
<1> SUFFICES ASSUME TypeOK, Control, Body, Write PROVE Body'
  OBVIOUS
<1>1. /\ child.pc = "write" /\ pc = "wait" /\ pc' = "wait" /\ pipe' = Append(pipe, child.line)
      /\ UNCHANGED << input, before, delims, bodies, status >>
  BY ChildAlive DEF Write, Child, UnchangedByChild, shell
<1>2. child'.pc = "read" /\ child'.received = child.received
  BY DEF Write, ChildGoes, TypeOK
<1>3. child.line \in Text /\ child.line # Eof
  BY WriteControl, HeredocAssumption
<1>4. /\ Len(pipe) \in Nat /\ Len(pipe') = Len(pipe) + 1
      /\ \A i \in 1 .. Len(pipe) : pipe'[i] = pipe[i]
      /\ pipe'[Len(pipe) + 1] = child.line
  BY <1>1, <1>3, AppendProperties, LenProperties DEF TypeOK
<1>5. ASSUME child.received # "int" PROVE Held' /\ Taken(Len(pipe))'
  <2>1. /\ Held /\ Taken(Len(pipe) + 1) /\ child.line = before[Len(pipe) + 1]
        /\ child.line # Delimiter
    BY <1>1, <1>3, <1>5 DEF Body, AtLine, GoesOn
  <2>2. Len(pipe') <= Len(before)
    BY <1>4, <2>1 DEF Taken
  <2>3. ASSUME NEW i \in 1 .. Len(pipe')
        PROVE  pipe'[i] = before[i] /\ pipe'[i] # Delimiter
    BY <1>4, <2>1 DEF Held
  <2>4. Held'
    BY <1>1, <2>2, <2>3 DEF Held, Delimiter
  <2> QED BY <1>1, <1>4, <2>1, <2>4 DEF Taken, Behind
<1> QED BY <1>1, <1>2, <1>5 DEF Body, Untouched, AtStart, AtRead, AtLine, AtEnd, GoesOn

LEMMA LeaveBody == TypeOK /\ Control /\ Body /\ Leave => Body'
<1> SUFFICES ASSUME TypeOK, Control, Body, Leave PROVE Body'
  OBVIOUS
<1>1. /\ child.pc = "last" /\ pc = "wait" /\ pc' = "wait"
      /\ UNCHANGED << input, before, pipe, delims, bodies >>
  BY ChildAlive DEF Leave, Child, End, UnchangedByChild, shell
<1>2. child'.pc = "ended" /\ child'.received = child.received
  BY DEF Leave, End, ChildGoes, TypeOK
<1>3. ASSUME child.received # "int" PROVE Whole'
  <2>1. Whole
    BY <1>1, <1>3 DEF Body, AtLine, GoesOn, Whole
  <2> QED BY <1>1, <2>1, SameBody
<1> QED BY <1>1, <1>2, <1>3 DEF Body, Untouched, AtStart, AtRead, AtLine, AtEnd, GoesOn

LEMMA SignalBody ==
    ASSUME TypeOK, Control, Body, Interrupt \/ KillShell \/ KillChild
    PROVE  Body'
<1>1. UNCHANGED << input, before, pipe, delims, bodies, pc >>
  BY DEF Interrupt, KillShell, KillChild, shell
<1>2. Delimiter' = Delimiter /\ (Held' <=> Held) /\ (Whole' <=> Whole)
      /\ (Taken(Len(pipe))' <=> Taken(Len(pipe))) /\ (Taken(Len(pipe) + 1)' <=> Taken(Len(pipe) + 1))
  BY <1>1, SameBody DEF Taken, Behind
<1>3. CASE UNCHANGED << child, status >>
  BY <1>1, <1>2, <1>3 DEF Body, Untouched, AtStart, AtRead, AtLine, AtEnd, GoesOn
<1>4. CASE Interrupt /\ ChildCatches
  <2>1. /\ child'.received = "int" /\ child'.pc # "start"
        /\ pc = "wait" /\ status' = status
    BY <1>4, ChildAlive DEF Interrupt, ChildCatches, TypeOK
  <2> QED BY <1>1, <2>1 DEF Body, Untouched, AtStart, AtRead, AtLine, AtEnd, GoesOn
<1>5. CASE KillChild
  <2>1. pc = "wait"
    BY <1>5, ChildAlive DEF KillChild
  <2>2. CASE child.pc = "start" /\ child' = [child EXCEPT !.received = "term"]
    <3>1. child'.pc = "start"
      BY <2>2 DEF TypeOK
    <3> QED BY <1>1, <2>1, <2>2, <3>1 DEF Body, Untouched, AtStart, AtRead, AtLine, AtEnd, GoesOn
  <2>3. CASE child' = [child EXCEPT !.pc = "ended"] /\ status' = 128 + SIGTERM
    <3>1. child'.pc = "ended" /\ status' # 0
      BY <2>3 DEF TypeOK, SIGTERM
    <3> QED BY <1>1, <2>1, <3>1 DEF Body, Untouched, AtStart, AtRead, AtLine, AtEnd, GoesOn
  <2> QED BY <1>5, <2>2, <2>3 DEF KillChild, Child, ChildGoes
<1> QED BY <1>3, <1>4, <1>5 DEF Interrupt, KillShell

-----------------------------------------------------------------------------
(* The theorems.                                                            *)

LEMMA InvStep == HeredocInv /\ [Next]_vars => HeredocInv'
<1> SUFFICES ASSUME TypeOK, Control, Body, [Next]_vars PROVE (TypeOK /\ Control)' /\ Body'
  BY DEF HeredocInv
<1>1. CASE Refuse \/ PipeFails \/ Enter \/ Fork \/ ForkFails \/ GiveUp \/ Finish
  <2>1. (TypeOK /\ Control)'
    BY <1>1, RefuseControl, EnterControl, ForkControl, ForkFailsControl, GiveUpControl, FinishControl
  <2> QED BY <1>1, <2>1, ShellBody
<1>2. CASE Wait
  BY <1>2, WaitControl, WaitBody
<1>3. CASE Accept
  BY <1>3, AcceptControl, AcceptBody
<1>4. CASE Install
  BY <1>4, InstallControl, InstallBody
<1>5. CASE ReadLine
  BY <1>5, ReadLineControl, ReadLineBody
<1>6. CASE ReadNothing
  BY <1>6, ReadNothingControl, ReadNothingBody
<1>7. CASE LookAtLine
  BY <1>7, LookControl, LookBody
<1>8. CASE Write
  BY <1>8, WriteControl, WriteBody
<1>9. CASE Leave
  BY <1>9, LeaveControl, LeaveBody
<1>10. CASE Interrupt \/ KillShell \/ KillChild
  <2>1. (TypeOK /\ Control)'
    BY <1>10, InterruptControl, KillShellControl, KillChildControl
  <2> QED BY <1>10, <2>1, SignalBody
<1>11. CASE UNCHANGED vars
  <2>1. TypeOK' /\ Control'
    BY <1>11 DEF vars, shell, TypeOK, Control, Between, Reading, InFork, InWait, InResult
  <2>2. Delimiter' = Delimiter /\ (Held' <=> Held) /\ (Whole' <=> Whole)
        /\ (Taken(Len(pipe))' <=> Taken(Len(pipe))) /\ (Taken(Len(pipe) + 1)' <=> Taken(Len(pipe) + 1))
    BY <1>11, SameBody DEF vars, shell, Taken, Behind
  <2>3. Body'
    BY <1>11, <2>2 DEF vars, shell, Body, Untouched, AtStart, AtRead, AtLine, AtEnd, GoesOn
  <2> QED BY <2>1, <2>3
<1> QED BY <1>1, <1>2, <1>3, <1>4, <1>5, <1>6, <1>7, <1>8, <1>9, <1>10, <1>11
        DEF Next, ShellStep, ChildStep

LEMMA Invariance == Spec => []HeredocInv
<1>1. Init => HeredocInv
  BY InitControl, InitBody DEF HeredocInv
<1> QED BY <1>1, InvStep, PTL DEF Spec

\* Every variable has its type: the pipe never holds more than its capacity,
\* and heredoc_index stays in heredoc_delim[], whichever call fails.
THEOREM TypeCorrect == Spec => []TypeOK
<1>1. HeredocInv => TypeOK
  BY DEF HeredocInv
<1> QED BY <1>1, Invariance, PTL

\* No process holds an end of the pipe when a body is handed over or the line
\* is done: close() is called on every path of handle_heredoc() and of the
\* child, the failed fork() and the child killed by a signal included.
THEOREM EndsCorrect == Spec => []EndsClosed
<1>1. HeredocInv => EndsClosed
  BY DEF HeredocInv, Control, Between, EndsClosed
<1> QED BY <1>1, Invariance, PTL

\* A Ctrl-C caught by the child before its last look always gives the line up.
THEOREM CancelCorrect == Spec => []CancelRespected
<1>1. HeredocInv => CancelRespected
  BY DEF HeredocInv, Control, Between, CancelRespected, TypeOK
<1> QED BY <1>1, Invariance, PTL

\* sh_abort() leaves a code that says so, heredoc_index at the last body read
\* and the shell's own disposition of SIGINT, from wherever it is called.
THEOREM GivenUpCorrect == Spec => []GivenUpClean
<1>1. HeredocInv => GivenUpClean
  BY DEF HeredocInv, Control, Between, GivenUpClean
<1> QED BY <1>1, Invariance, PTL

-----------------------------------------------------------------------------
(* The two processes implement HeredocJob.                                  *)

LEMMA InitImplements == Init => Job!Init
BY DEF Init, Job!Init

\* The body that is accepted is the lines up to the delimiter.
LEMMA AcceptReads ==
    ASSUME HeredocInv, Accept
    PROVE  Job!Read
<1>1. Whole /\ pc = "result" /\ bodies' = Append(bodies, pipe) /\ before' = input
      /\ UNCHANGED << delims, code >> /\ pc' = "parse"
  BY DEF Accept, HeredocInv, Body, AtEnd, shell
<1>2. Len(bodies) < Len(delims)
  BY <1>1 DEF HeredocInv, Control, Reading
<1>3. /\ before \in Seq(Text) /\ pipe \in Seq(Text)
      /\ Len(before) \in Nat /\ Len(pipe) \in Nat /\ DOMAIN before = 1 .. Len(before)
      /\ \A i \in 1 .. Len(before) : before[i] \in Text
  BY LenProperties DEF HeredocInv, TypeOK
<1>4. /\ Len(pipe) <= Len(before)
      /\ \A i \in 1 .. Len(pipe) : pipe[i] = before[i] /\ before[i] # Delimiter
  BY <1>1 DEF Whole, Held
<1>5. Job!Delimiter = Delimiter
  BY DEF Job!Delimiter, Delimiter
<1>6. CASE Taken(Len(pipe)) /\ Len(pipe) = Len(before)
  <2>1. pipe = before
    BY <1>3, <1>4, <1>6, SeqEqual
  <2>2. input = << >>
    <3>1. Len(before) < Len(before) + 1 /\ Len(before) + 1 \in Int /\ Len(before) \in Int
      BY <1>3
    <3>2. SubSeq(before, Len(before) + 1, Len(before)) = << >>
      BY <3>1, SubSeqEmpty
    <3> QED BY <1>6, <3>2 DEF Taken, Behind
  <2>3. \A i \in DOMAIN before : before[i] # Job!Delimiter
    BY <1>3, <1>4, <1>5, <1>6
  <2> QED BY <1>1, <1>2, <2>1, <2>2, <2>3 DEF Job!Read
<1>7. CASE Taken(Len(pipe) + 1) /\ before[Len(pipe) + 1] = Delimiter
  <2> DEFINE i == Len(pipe) + 1
  <2>1. i \in DOMAIN before /\ i - 1 = Len(pipe) /\ before[i] = Job!Delimiter /\ i \in Nat
    BY <1>3, <1>5, <1>7 DEF Taken
  <2>2. \A j \in 1 .. i - 1 : before[j] # Job!Delimiter
    BY <1>4, <1>5, <2>1
  <2>3. input = SubSeq(before, i + 1, Len(before))
    BY <1>7 DEF Taken, Behind
  <2>4. pipe = SubSeq(before, 1, i - 1)
    <3>1. \A j \in 1 .. i - 1 : before[j] \in Text
      BY <1>3, <1>4, <2>1
    <3>2. 1 \in Int /\ i - 1 \in Int
      BY <2>1
    <3>3. /\ SubSeq(before, 1, i - 1) \in Seq(Text)
          /\ Len(SubSeq(before, 1, i - 1)) = IF 1 <= i - 1 THEN i - 1 - 1 + 1 ELSE 0
          /\ \A j \in 1 .. i - 1 - 1 + 1 : SubSeq(before, 1, i - 1)[j] = before[1 + j - 1]
      BY <3>1, <3>2, SubSeqProperties
    <3> HIDE DEF i
    <3> DEFINE s == SubSeq(before, 1, i - 1)
    <3>4. s \in Seq(Text) /\ Len(s) = Len(pipe)
      BY <1>3, <2>1, <3>3
    <3>5. \A j \in 1 .. Len(s) : s[j] = pipe[j]
      <4> SUFFICES ASSUME NEW j \in 1 .. Len(s) PROVE s[j] = pipe[j]
        OBVIOUS
      <4>1. j \in 1 .. i - 1 - 1 + 1 /\ 1 + j - 1 = j /\ j \in 1 .. Len(pipe)
        BY <1>3, <2>1, <3>4
      <4>2. s[j] = before[j]
        BY <3>3, <4>1
      <4> QED BY <1>4, <4>1, <4>2
    <3> HIDE DEF s
    <3>6. s = pipe
      BY <1>3, <3>4, <3>5, SeqEqual
    <3> QED BY <3>6 DEF s
  <2> QED BY <1>1, <1>2, <2>1, <2>2, <2>3, <2>4 DEF Job!Read
<1> QED BY <1>1, <1>6, <1>7 DEF Whole

\* Every step of the shell, the child and the signals is a step of HeredocJob
\* or leaves it alone.
LEMMA StepImplements == HeredocInv /\ [Next]_vars => [Job!Next]_(Job!jobvars)
<1> SUFFICES ASSUME HeredocInv, [Next]_vars PROVE [Job!Next]_(Job!jobvars)
  OBVIOUS
<1> USE DEF Job!jobvars
<1>1. CASE Refuse \/ PipeFails
  BY <1>1 DEF Refuse, PipeFails, Parsing, Abort, Job!Next, Job!GiveUp
<1>2. CASE ForkFails
  BY <1>2 DEF ForkFails, Abort, Job!Next, Job!GiveUp
<1>3. CASE GiveUp
  BY <1>3 DEF GiveUp, Abort, Job!Next, Job!GiveUp
<1>4. CASE Finish
  BY <1>4 DEF Finish, shell, Job!Next, Job!Finish
<1>5. CASE Accept
  BY <1>5, AcceptReads DEF Job!Next
<1>6. CASE Enter \/ Fork \/ Wait
  BY <1>6 DEF Enter, Fork, Wait, Parsing, shell
<1>7. CASE ChildStep
  BY <1>7 DEF ChildStep, Install, ReadLine, ReadNothing, LookAtLine, Write, Leave, End,
              UnchangedByChild, shell
<1>8. CASE Interrupt \/ KillShell \/ KillChild
  BY <1>8 DEF Interrupt, KillShell, KillChild, shell
<1>9. CASE UNCHANGED vars
  BY <1>9 DEF vars, shell
<1> QED BY <1>1, <1>2, <1>3, <1>4, <1>5, <1>6, <1>7, <1>8, <1>9 DEF Next, ShellStep

\* Whatever the interleaving of the two processes and the signals, a body
\* handed to a command is the lines up to its delimiter, in order and whole.
THEOREM ImplementsHeredocJob == Spec => ImplementsJob
<1>1. Init => Job!Init
  BY InitImplements
<1>2. HeredocInv /\ [Next]_vars => [Job!Next]_(Job!jobvars)
  BY StepImplements
<1> QED BY <1>1, <1>2, Invariance, PTL DEF Spec, ImplementsJob, Job!Spec

-----------------------------------------------------------------------------
(* How the reading of documents ends: a bound on the steps that are left,   *)
(* and who can take the next one.                                           *)

\* The steps the child and its shell have left for the document being read,
\* the lines of the input left aside. A line in hand is still to be written.
Place(p, c) ==
    CASE p = "fork"   -> 7
      [] p = "result" -> 1
      [] p = "wait"   ->
           2 + CASE c.pc = "ended"               -> 0
                 [] c.pc = "last"                -> 1
                 [] c.pc = "look" /\ c.line = Eof -> 2
                 [] c.pc = "look" /\ c.line # Eof -> 5
                 [] c.pc = "read"                -> 3
                 [] c.pc \in { "start", "write" } -> 4

\* n lines and d documents are left.
RankOf(p, c, n, d) ==
    CASE p = "done"  -> 3 * n
      [] p = "parse" -> 3 * n + 8 * d + 1
      [] p \in { "fork", "wait", "result" } -> 3 * n + 8 * d - 7 + Place(p, c)

Documents == Len(delims) - Len(bodies)
Rank      == RankOf(pc, child, Len(input), Documents)

\* Every step of the shell or of the child brings the end nearer, and no
\* signal takes it further away.
Nearer == /\ Rank' <= Rank
          /\ ShellStep \/ ChildStep => Rank' < Rank

\* The shell or the child can take a step.
Movable ==
    \/ Parsing \/ (pc = "parse" /\ Len(bodies) = Len(delims))
    \/ pc \in { "fork", "result" }
    \/ child.pc \in { "start", "read", "look", "last", "ended" }
    \/ Child("write") /\ ~Full

\* Only a child that waits for room, and was not interrupted, holds a line up.
HangsOnlyFull == pc = "done" \/ Movable \/ (Child("write") /\ Full /\ ~caught)

\* No more bodies than documents; a child that caught Ctrl-C does not wait.
Unblocked == /\ Len(bodies) <= Len(delims)
             /\ caught /\ Child("write") => ~Full

LEMMA PlaceIs ==
    ASSUME NEW c
    PROVE  /\ Place("fork", c) = 7 /\ Place("result", c) = 1
           /\ c.pc = "ended" => Place("wait", c) = 2
           /\ c.pc = "last"  => Place("wait", c) = 3
           /\ c.pc = "look" /\ c.line = Eof => Place("wait", c) = 4
           /\ c.pc = "look" /\ c.line # Eof => Place("wait", c) = 7
           /\ c.pc = "read" => Place("wait", c) = 5
           /\ c.pc \in { "start", "write" } => Place("wait", c) = 6
BY DEF Place

LEMMA RankIs ==
    ASSUME NEW p, NEW c, NEW n \in Nat, NEW d \in Nat
    PROVE  /\ p = "done"   => RankOf(p, c, n, d) = 3 * n
           /\ p = "parse"  => RankOf(p, c, n, d) = 3 * n + 8 * d + 1
           /\ p = "fork"   => RankOf(p, c, n, d) = 3 * n + 8 * d
           /\ p = "result" => RankOf(p, c, n, d) = 3 * n + 8 * d - 6
           /\ p = "wait"   => RankOf(p, c, n, d) = 3 * n + 8 * d - 7 + Place("wait", c)
BY PlaceIs DEF RankOf

\* The rank before and after a step that leaves the documents as they are,
\* with the numbers of lines and documents and the places by name.
LEMMA RankMoves ==
    ASSUME TypeOK, TypeOK', Len(bodies) <= Len(delims), UNCHANGED << delims, bodies >>
    PROVE  \E n, m, d \in Nat :
             /\ n = Len(input) /\ m = Len(input') /\ d = Documents /\ d = Documents'
             /\ Rank = RankOf(pc, child, n, d) /\ Rank' = RankOf(pc', child', m, d)
<1>1. Len(input) \in Nat /\ Len(input') \in Nat /\ Len(delims) \in Nat /\ Len(bodies) \in Nat
  BY LenProperties DEF TypeOK
<1>2. Documents \in Nat /\ Documents' = Documents
  BY <1>1 DEF Documents
<1> QED BY <1>1, <1>2 DEF Rank

LEMMA RankInt ==
    ASSUME TypeOK, Control, Len(bodies) <= Len(delims)
    PROVE  Rank \in Int
<1>1. Len(input) \in Nat /\ Len(delims) \in Nat /\ Len(bodies) \in Nat
  BY LenProperties DEF TypeOK
<1>2. PICK n, d \in Nat : Rank = RankOf(pc, child, n, d)
  BY <1>1 DEF Rank, Documents
<1>3. child \in ChildType /\ (pc = "wait" => child.pc # "none")
  BY DEF TypeOK, ChildType, Control, InWait
<1>4. pc \in { "fork", "wait", "result" } => Place(pc, child) \in Int
  BY <1>3, PlaceIs DEF ChildType
<1>5. pc \in { "parse", "fork", "wait", "result", "done" }
  BY DEF TypeOK
<1> QED BY <1>2, <1>4, <1>5, RankIs

LEMMA ShellNearer ==
    HeredocInv /\ HeredocInv' /\ Unblocked /\ ShellStep => Rank' < Rank /\ Rank' <= Rank
<1> SUFFICES ASSUME TypeOK, TypeOK', Control, Len(bodies) <= Len(delims), ShellStep
             PROVE  Rank' < Rank /\ Rank' <= Rank
  BY DEF HeredocInv, Unblocked
<1>1. Len(input) \in Nat /\ Len(delims) \in Nat /\ Len(bodies) \in Nat
  BY LenProperties DEF TypeOK
<1>2. CASE Refuse \/ PipeFails \/ Finish
  <2>1. UNCHANGED << delims, bodies, input >> /\ pc = "parse" /\ pc' = "done"
    BY <1>2 DEF Refuse, PipeFails, Finish, Parsing, Abort, shell
  <2> QED BY <2>1, RankMoves, RankIs
<1>3. CASE Enter
  <2>1. UNCHANGED << delims, bodies, input >> /\ pc = "parse" /\ pc' = "fork"
    BY <1>3 DEF Enter, Parsing
  <2> QED BY <2>1, RankMoves, RankIs, PlaceIs
<1>4. CASE Fork
  <2>1. /\ UNCHANGED << delims, bodies, input >> /\ pc = "fork" /\ pc' = "wait"
        /\ child'.pc = "start"
    BY <1>4 DEF Fork, shell, None
  <2> QED BY <2>1, RankMoves, RankIs, PlaceIs
<1>5. CASE ForkFails \/ GiveUp
  <2>1. /\ UNCHANGED << delims, bodies, input >> /\ pc \in { "fork", "result" } /\ pc' = "done"
    BY <1>5 DEF ForkFails, GiveUp, Abort
  <2>2. Documents >= 1
    BY <1>1, <2>1 DEF Control, Reading, Documents
  <2>3. PICK n, d \in Nat :
          /\ d = Documents /\ Rank = RankOf(pc, child, n, d) /\ Rank' = RankOf(pc', child', n, d)
    BY <2>1, RankMoves
  <2>4. Rank \in { 3 * n + 8 * d, 3 * n + 8 * d - 6 } /\ Rank' = 3 * n
    BY <2>1, <2>3, RankIs
  <2> QED BY <2>2, <2>3, <2>4
<1>6. CASE Wait
  <2>1. /\ UNCHANGED << delims, bodies, input >> /\ pc = "wait" /\ pc' = "result"
        /\ child.pc = "ended"
    BY <1>6 DEF Wait, shell
  <2> QED BY <2>1, RankMoves, RankIs, PlaceIs
<1>7. CASE Accept
  <2>1. /\ UNCHANGED << delims, input >> /\ pc = "result" /\ pc' = "parse"
        /\ bodies' = Append(bodies, pipe)
    BY <1>7 DEF Accept, shell
  <2>2. Len(bodies) < Len(delims)
    BY <2>1 DEF Control, Reading
  <2>3. Len(bodies') = Len(bodies) + 1
    BY <2>1, AppendProperties DEF TypeOK
  <2>4. Documents \in Nat /\ Documents' \in Nat /\ Documents' = Documents - 1
    BY <1>1, <2>1, <2>2, <2>3 DEF Documents
  <2>5. PICK n, d, e \in Nat :
          /\ e = d - 1
          /\ Rank = RankOf(pc, child, n, d) /\ Rank' = RankOf(pc', child', n, e)
    BY <1>1, <2>1, <2>4 DEF Rank
  <2>6. Rank = 3 * n + 8 * d - 6 /\ Rank' = 3 * n + 8 * e + 1
    BY <2>1, <2>5, RankIs
  <2> QED BY <2>5, <2>6
<1> QED BY <1>2, <1>3, <1>4, <1>5, <1>6, <1>7 DEF ShellStep

\* Steps of the child, and signals: the shell waits.
LEMMA ChildNearer ==
    HeredocInv /\ HeredocInv' /\ Unblocked /\ ChildStep => Rank' < Rank /\ Rank' <= Rank
<1> SUFFICES ASSUME TypeOK, TypeOK', Control, Len(bodies) <= Len(delims), ChildStep
             PROVE  Rank' < Rank /\ Rank' <= Rank
  BY DEF HeredocInv, Unblocked
<1>1. pc = "wait" /\ UnchangedByChild
  BY ChildAlive DEF ChildStep, Install, ReadLine, ReadNothing, LookAtLine, Write, Leave, Child, End
<1>2. UNCHANGED << delims, bodies, pc >>
  BY <1>1 DEF UnchangedByChild, shell
<1>3. PICK n, m, d \in Nat :
        /\ n = Len(input) /\ m = Len(input')
        /\ Rank = 3 * n + 8 * d - 7 + Place("wait", child)
        /\ Rank' = 3 * m + 8 * d - 7 + Place("wait", child')
  <2>1. PICK n, m, d \in Nat :
          /\ n = Len(input) /\ m = Len(input')
          /\ Rank = RankOf(pc, child, n, d) /\ Rank' = RankOf(pc', child', m, d)
    BY <1>2, RankMoves
  <2>2. pc = "wait" /\ pc' = "wait"
    BY <1>1, <1>2
  <2>3. /\ Rank = 3 * n + 8 * d - 7 + Place("wait", child)
        /\ Rank' = 3 * m + 8 * d - 7 + Place("wait", child')
    BY <2>1, <2>2, RankIs
  <2> QED BY <2>1, <2>3
<1>4. child \in ChildType /\ child.line \in Text \cup { Eof }
  BY DEF TypeOK, ChildType
<1>5. CASE Install
  <2>1. child.pc = "start" /\ child'.pc = "read" /\ input' = input
    BY <1>4, <1>5 DEF Install, Child, ChildType
  <2> QED BY <1>3, <2>1, PlaceIs
<1>6. CASE ReadLine
  <2>1. child.pc = "read" /\ child'.pc = "look" /\ input # << >> /\ input' = Tail(input)
        /\ child'.line = Head(input)
    BY <1>4, <1>6 DEF ReadLine, Child, ChildType
  <2>2. Head(input) \in Text /\ Len(Tail(input)) = Len(input) - 1
    BY <2>1, HeadTailProperties DEF TypeOK
  <2>3. child'.line # Eof /\ m = n - 1
    BY <1>3, <2>1, <2>2, HeredocAssumption
  <2> QED BY <1>3, <2>1, <2>3, PlaceIs
<1>7. CASE ReadNothing
  <2>1. child.pc = "read" /\ child'.pc = "look" /\ child'.line = Eof /\ input' = input
    BY <1>4, <1>7 DEF ReadNothing, Child, ChildType
  <2> QED BY <1>3, <2>1, PlaceIs
<1>8. CASE LookAtLine
  <2>1. /\ child.pc = "look" /\ input' = input
        /\ child'.pc = "last" \/ (child'.pc = "write" /\ child.line # Eof)
    BY <1>4, <1>8 DEF LookAtLine, Child, ChildGoes, ChildType
  <2> QED BY <1>3, <2>1, PlaceIs
<1>9. CASE Write
  <2>1. child.pc = "write" /\ child'.pc = "read" /\ input' = input
    BY <1>4, <1>9 DEF Write, Child, ChildGoes, ChildType
  <2> QED BY <1>3, <2>1, PlaceIs
<1>10. CASE Leave
  <2>1. child.pc = "last" /\ child'.pc = "ended" /\ input' = input
    BY <1>4, <1>10 DEF Leave, End, Child, ChildGoes, ChildType
  <2> QED BY <1>3, <2>1, PlaceIs
<1> QED BY <1>5, <1>6, <1>7, <1>8, <1>9, <1>10 DEF ChildStep

LEMMA SignalNearer ==
    HeredocInv /\ HeredocInv' /\ Unblocked /\ (Interrupt \/ KillShell \/ KillChild)
        => Rank' <= Rank
<1> SUFFICES ASSUME TypeOK, TypeOK', Control, Len(bodies) <= Len(delims),
                    Interrupt \/ KillShell \/ KillChild
             PROVE  Rank' <= Rank
  BY DEF HeredocInv, Unblocked
<1>1. UNCHANGED << delims, bodies, input, pc >>
  BY DEF Interrupt, KillShell, KillChild, shell
<1>2. PICK n, d \in Nat :
        Rank = RankOf(pc, child, n, d) /\ Rank' = RankOf(pc, child', n, d)
  BY <1>1, RankMoves
<1>3. child \in ChildType
  BY DEF TypeOK, ChildType
<1>4. CASE child' = child
  BY <1>2, <1>4, RankInt
<1>5. ASSUME child'.pc = child.pc /\ child'.line = child.line, child.pc \notin { "none", "ended" }
      PROVE  Rank' <= Rank
  <2>1. pc = "wait"
    BY <1>5, ChildAlive
  <2>2. Place("wait", child') = Place("wait", child) /\ Place("wait", child) \in Int
    BY <1>3, <1>5, PlaceIs DEF ChildType
  <2> QED BY <1>2, <2>1, <2>2, RankIs
<1>6. ASSUME child.pc = "write" /\ child'.pc = "read" PROVE Rank' <= Rank
  <2>1. pc = "wait"
    BY <1>6, ChildAlive
  <2> QED BY <1>2, <1>6, <2>1, RankIs, PlaceIs
<1>7. ASSUME child.pc \notin { "none", "ended" }, child'.pc = "ended" PROVE Rank' <= Rank
  <2>1. pc = "wait"
    BY <1>7, ChildAlive
  <2>2. Place("wait", child') = 2 /\ Place("wait", child) \in 2 .. 7
    BY <1>3, <1>7, PlaceIs DEF ChildType
  <2> QED BY <1>2, <2>1, <2>2, RankIs
<1>8. CASE Interrupt
  <2>1. CASE ChildCatches
    BY <1>3, <1>5, <1>6, <2>1 DEF ChildCatches, ChildType
  <2>2. CASE child' = child
    BY <1>4, <2>2
  <2> QED BY <1>8, <2>1, <2>2 DEF Interrupt
<1>9. CASE KillShell
  BY <1>4, <1>9 DEF KillShell
<1>10. CASE KillChild
  BY <1>3, <1>5, <1>7, <1>10 DEF KillChild, Child, ChildGoes, ChildType
<1> QED BY <1>8, <1>9, <1>10

LEMMA NextUnblocked == HeredocInv /\ HeredocInv' /\ Unblocked /\ [Next]_vars => Unblocked'
<1> SUFFICES ASSUME TypeOK, TypeOK', Control, Control', Unblocked, [Next]_vars PROVE Unblocked'
  BY DEF HeredocInv
<1>1. Len(delims) \in Nat /\ Len(bodies) \in Nat
  BY LenProperties DEF TypeOK
<1>2. (Len(bodies) <= Len(delims))'
  <2>1. CASE Accept
    <3>1. Len(bodies) < Len(delims)
      BY <2>1 DEF Accept, Control, Reading
    <3>2. Len(bodies') = Len(bodies) + 1 /\ delims' = delims
      BY <2>1, AppendProperties DEF Accept, TypeOK, shell
    <3> QED BY <1>1, <3>1, <3>2
  <2>2. CASE ~Accept
    <3>1. UNCHANGED << delims, bodies >>
      BY <2>2 DEF Next, ShellStep, ChildStep, Refuse, Enter, PipeFails, Fork, ForkFails, Wait,
                  GiveUp, Finish, Install, ReadLine, ReadNothing, LookAtLine, Write, Leave, End,
                  Interrupt, KillShell, KillChild, UnchangedByChild, shell, vars
    <3> QED BY <3>1 DEF Unblocked
  <2> QED BY <2>1, <2>2
<1>3. ASSUME caught', Child("write")' PROVE ~Full'
  <2>1. child'.pc = "write" /\ pc' = "wait" /\ child \in ChildType
    BY <1>3 DEF Child, TypeOK, ChildType, Control, Between, InFork, InResult, None
  \* A child that caught the signal goes to its last look.
  <2>2. CASE LookAtLine
    <3>1. child.pc = "look" /\ pc = "wait" /\ caught
      BY <1>3, <2>2, ChildAlive DEF LookAtLine, Child, UnchangedByChild
    <3>2. child.received = "int"
      BY <3>1 DEF Control, InWait
    <3>3. child'.pc = "last"
      BY <2>1, <2>2, <3>2 DEF LookAtLine, ChildGoes, ChildType
    <3> QED BY <2>1, <3>3
  <2>3. CASE Interrupt
    <3>1. pipe' = pipe
      BY <2>3 DEF Interrupt
    <3>2. CASE ChildCatches
      <4>1. ~Full
        BY <2>1, <3>2 DEF ChildCatches, ChildType
      <4> QED BY <3>1, <4>1 DEF Full
    <3>3. CASE UNCHANGED << child, caught >>
      BY <1>3, <3>1, <3>3 DEF Unblocked, Child, Full
    <3> QED BY <2>3, <3>2, <3>3 DEF Interrupt
  <2>4. CASE Refuse \/ PipeFails \/ Enter \/ Fork \/ ForkFails \/ Wait \/ Accept \/ GiveUp \/ Finish
    <3>1. pc' # "wait" \/ child'.pc = "start"
      BY <2>4 DEF Refuse, PipeFails, Enter, Fork, ForkFails, Wait, Accept, GiveUp, Finish, Abort, None
    <3> QED BY <2>1, <3>1
  <2>5. CASE Install \/ ReadLine \/ ReadNothing \/ Write \/ Leave
    <3>1. child'.pc # "write"
      BY <2>1, <2>5 DEF Install, ReadLine, ReadNothing, Write, Leave, End, ChildGoes, ChildType
    <3> QED BY <2>1, <3>1
  <2>6. CASE KillShell \/ UNCHANGED vars
    <3>1. UNCHANGED << child, caught, pipe >>
      BY <2>6 DEF KillShell, vars
    <3> QED BY <1>3, <3>1 DEF Unblocked, Child, Full
  <2>7. CASE KillChild
    <3>1. child'.pc \in { "start", "ended" }
      BY <2>1, <2>7 DEF KillChild, Child, ChildGoes, ChildType
    <3> QED BY <2>1, <3>1
  <2> QED BY <2>2, <2>3, <2>4, <2>5, <2>6, <2>7 DEF Next, ShellStep, ChildStep
<1> QED BY <1>2, <1>3 DEF Unblocked

LEMMA UnblockedAlways == Spec => []Unblocked
<1>1. Init => Unblocked
  <2> SUFFICES ASSUME Init PROVE Len(bodies) <= Len(delims) /\ ~caught
    BY DEF Unblocked
  <2>1. delims \in Seq(Text) /\ bodies = << >> /\ ~caught
    BY HeredocAssumption DEF Init
  <2> QED BY <2>1, LenProperties, EmptySeq
<1>2. HeredocInv /\ HeredocInv' /\ Unblocked /\ [Next]_vars => Unblocked'
  BY NextUnblocked
<1> QED BY <1>1, <1>2, Invariance, PTL DEF Spec

\* Reading the documents of a line takes a bounded number of steps of the
\* shell and the child, whatever the lines and the signals: no loop of
\* hd_read_loop() or of the parser goes round without using up a line or a
\* document, and no signal sends either back.
THEOREM NearerCorrect == Spec => [][Nearer]_vars
<1>1. HeredocInv /\ HeredocInv' /\ Unblocked /\ [Next]_vars => [Nearer]_vars
  <2> SUFFICES ASSUME HeredocInv, HeredocInv', Unblocked, Next PROVE Nearer
    OBVIOUS
  <2>1. CASE ShellStep \/ ChildStep
    BY <2>1, ShellNearer, ChildNearer DEF Nearer
  <2>2. CASE ~(ShellStep \/ ChildStep)
    BY <2>2, SignalNearer DEF Next, Nearer
  <2> QED BY <2>1, <2>2
<1> QED BY <1>1, Invariance, UnblockedAlways, PTL DEF Spec

\* A line is held up only by a child that waits for room in the pipe, with a
\* body that does not fit it, and by none that Ctrl-C has reached: in every
\* other state the shell or the child has a step to take.
THEOREM HangsCorrect == Spec => []HangsOnlyFull
<1>1. HeredocInv /\ Unblocked => HangsOnlyFull
  <2> SUFFICES ASSUME HeredocInv, Unblocked PROVE HangsOnlyFull
    OBVIOUS
  <2>1. TypeOK /\ Control /\ Len(bodies) \in Nat /\ Len(delims) \in Nat
    BY LenProperties DEF HeredocInv, TypeOK
  <2>2. CASE pc = "parse"
    BY <2>1, <2>2 DEF HangsOnlyFull, Movable, Parsing, Unblocked
  <2>3. CASE pc = "wait"
    <3>1. child.pc \in { "start", "read", "look", "write", "last", "ended" }
      BY <2>1, <2>3 DEF TypeOK, Control, InWait
    <3> QED BY <2>3, <3>1 DEF HangsOnlyFull, Movable, Child, Unblocked
  <2> QED BY <2>1, <2>2, <2>3 DEF HangsOnlyFull, Movable, TypeOK
<1> QED BY <1>1, Invariance, UnblockedAlways, PTL
==============================================================================
