------------------------------- MODULE EnvMap -------------------------------
(****************************************************************************)
(* The environment as the user of the shell sees it: for each name a stack  *)
(* of values, of which the first counts. The shell gives no name a second   *)
(* value, but may be started with one. The requests of one command are      *)
(* dealt with in order; a bad one is reported in the code and stops nothing.*)
(****************************************************************************)
EXTENDS Sequences, Integers

CONSTANTS NextLevel, FirstLevel  \* the value SHLVL gets, with and without one

VARIABLES env, pending, code

mapvars == << env, pending, code >>

Stack(n) == IF n \in DOMAIN env THEN env[n] ELSE << >>

Put(n, stack) ==
    LET names == IF stack = << >> THEN DOMAIN env \ { n } ELSE DOMAIN env \cup { n }
    IN  env' = [m \in names |-> IF m = n THEN stack ELSE env[m]]

\* The value that counts is replaced.
Assign(n, v) == Put(n, << v >> \o Tail(IF Stack(n) = << >> THEN << v >> ELSE Stack(n)))

\* unset NAME strikes the value that counts; unset NAME=x, with x followed by
\* another "=" in the value, the first such value.
Strikes(key, v) == Len(key) <= Len(v) /\ SubSeq(v, 1, Len(key) - 1) = Tail(key)

Remove(key) ==
    LET stack == Stack(key[1])
        first(i) == /\ Strikes(key, stack[i])
                    /\ \A j \in 1 .. i - 1 : ~Strikes(key, stack[j])
    IN  \/ /\ \A i \in DOMAIN stack : ~Strikes(key, stack[i])
           /\ UNCHANGED env
        \/ \E i \in DOMAIN stack :
              /\ first(i)
              /\ Put(key[1], SubSeq(stack, 1, i - 1) \o SubSeq(stack, i + 1, Len(stack)))

Handle(r) ==
    \/ /\ r.op = "set"
       /\ Assign(r.key[1], r.value)
       /\ UNCHANGED code
    \/ /\ r.op = "level"
       /\ Assign(r.key[1], IF Stack(r.key[1]) # << >>
                           THEN NextLevel[Stack(r.key[1])[1]] ELSE FirstLevel)
       /\ UNCHANGED code
    \/ /\ r.op = "unset"
       /\ Remove(r.key)
       /\ UNCHANGED code
    \/ r.op = "bad" /\ code' = 1 /\ UNCHANGED env
    \/ r.op = "plain" /\ UNCHANGED << env, code >>

\* A command is read; which one is open. One that fails has no requests.
Begin ==
    /\ pending = << >>
    /\ code' \in 0 .. 1
    /\ code' = 1 => pending' = << >>
    /\ UNCHANGED env

Advance ==
    /\ pending # << >>
    /\ Handle(Head(pending))
    /\ pending' = Tail(pending)

Next == Begin \/ Advance

Spec == [][Next]_mapvars
==============================================================================
