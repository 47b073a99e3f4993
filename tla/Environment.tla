----------------------------- MODULE Environment -----------------------------
(****************************************************************************)
(* The shell's environment: shell->heap_env, a NULL-terminated array of     *)
(* strings "name=value" in the permanent arena, its count and its capacity. *)
(* One step handles one request: a round of the loop of export or unset     *)
(* over its arguments, or one set_env_var() of the shell's own.             *)
(*                                                                          *)
(* A string is the sequence of its parts between "=" signs, << "A", "b" >>  *)
(* for A=b, so that a prefix test followed by a test for "=" is a test for  *)
(* a proper prefix.  An allocation of more than the arena's capacity        *)
(* returns NULL, which set_env_var() and its callers do not test: the next  *)
(* access ends the shell.                                                   *)
(****************************************************************************)
EXTENDS Integers, Sequences

CONSTANTS
    Environs,       \* the environments the shell may be started with
    Exports,        \* the argument lists of export: sequences of requests
    Unsets,         \* the argument lists of unset: sequences of keys
    Dirs,           \* values of PWD and OLDPWD
    Parts,          \* the texts a string can have between its "=" signs
    Values,         \* every value a variable may have
    NextLevel,      \* NextLevel[v] is ft_itoa(ft_atoi(v) + 1)
    FirstLevel,     \* "1"
    ShellPath,      \* av[0]
    Oversized,      \* the strings longer than an arena
    ArenaWords      \* pointers an arena holds: ARENA_CAP / sizeof(char *)

Null == << >>       \* what arena_strdup() makes of an oversized string

NoValue == << >>    \* of a request that gives none

Request(op, key, value) == [op |-> op, key |-> key, value |-> value]

IsEntry(s) == s \in Seq(Parts) /\ (Len(s) > 1 => Tail(s) \in Values)
EntriesOK(e) == e \in Seq(Seq(Parts)) /\ \A i \in DOMAIN e : IsEntry(e[i])
IsKey(k)   == k \in Seq(Parts) /\ k # << >>

Requests == [op : { "set", "level", "unset", "bad", "plain" },
             key : Seq(Parts), value : Seq(Parts)]

GoodRequest(r) ==
    /\ r \in Requests
    /\ IsKey(r.key)
    /\ r.op # "unset" => Len(r.key) = 1
    /\ r.op = "set" => r.value \in Values

ASSUME EnvironmentAssumption ==
    /\ { "SHELL", "SHLVL", "PWD", "OLDPWD" } \subseteq Parts
    /\ \A v \in Values : IsKey(v)
    /\ \A e \in Environs : EntriesOK(e) /\ \A i \in DOMAIN e : e[i] # Null
    /\ \A a \in Exports : /\ a \in Seq(Requests)
                          /\ \A i \in DOMAIN a : GoodRequest(a[i])
    /\ \A a \in Unsets : a \in Seq(Seq(Parts)) /\ \A i \in DOMAIN a : IsKey(a[i])
    /\ Dirs \subseteq Values
    /\ NextLevel \in [Values -> Values]
    /\ FirstLevel \in Values
    /\ ShellPath \in Values
    /\ ArenaWords \in Nat

VARIABLES
    heap_env,       \* the entries before the terminator; env_count is its length
    env_capacity,   \* one less than the pointers the array was allocated with
    alive,          \* FALSE once a NULL pointer has been followed
    pending,        \* the requests of the running command not yet handled
    code            \* $?

vars == << heap_env, env_capacity, alive, pending, code >>

-----------------------------------------------------------------------------
(* The scan of get_env_var(), set_env_var() and unset_env_var().            *)

Match(entry, key) == Len(key) < Len(entry) /\ SubSeq(entry, 1, Len(key)) = key

FirstAt(key, i) ==
    /\ i \in DOMAIN heap_env
    /\ Match(heap_env[i], key)
    /\ \A j \in 1 .. i - 1 : ~Match(heap_env[j], key)

Absent(key) == \A i \in DOMAIN heap_env : ~Match(heap_env[i], key)

\* Mutant: an unset name is taken for one that runs past the end.
FaultsPastEnd(key) == Absent(key)

\* A NULL entry is compared before the key is found.
Faults(key) ==
    \E i \in DOMAIN heap_env :
        /\ heap_env[i] = Null
        /\ \A j \in 1 .. i - 1 : ~Match(heap_env[j], key)

ValueOf(i, key) == SubSeq(heap_env[i], Len(key) + 1, Len(heap_env[i]))

Fits(capacity) == capacity + 1 <= ArenaWords

Crash == alive' = FALSE /\ UNCHANGED << heap_env, env_capacity, pending, code >>

\* Mutant: the statuses of the names are added up.
HandledAddingUp(c) ==
    pending' = Tail(pending) /\ code' = code + c /\ UNCHANGED alive

Handled(c) == pending' = Tail(pending) /\ code' = c /\ UNCHANGED alive

-----------------------------------------------------------------------------
(* set_env_var()                                                            *)

\* Mutant: the array grows only once it is over-full.
ExpandedLate == IF Len(heap_env) > env_capacity THEN 2 * env_capacity
                ELSE env_capacity

Expanded == IF Len(heap_env) >= env_capacity - 1
            THEN IF env_capacity = 0 THEN 8 ELSE 2 * env_capacity
            ELSE env_capacity

\* update_shell_env_data(), after expand_env_capacity() where it is needed.
AppendEntry(key, value) ==
    /\ Absent(key)
    /\ heap_env' = Append(heap_env, key \o value)
    /\ env_capacity' = Expanded

Replace(key, value) ==
    \E i \in DOMAIN heap_env :
        /\ FirstAt(key, i)
        /\ heap_env' = [heap_env EXCEPT ![i] = key \o value]
        /\ UNCHANGED env_capacity

\* The allocations of a call: the string, and the array if it must grow.
CannotSet(key, value) ==
    \/ Faults(key)
    \/ key \o value \in Oversized
    \/ Absent(key) /\ Expanded # env_capacity /\ ~Fits(Expanded)

Set(key, value) ==
    \/ CannotSet(key, value) /\ Crash
    \/ /\ ~CannotSet(key, value)
       /\ Replace(key, value) \/ AppendEntry(key, value)
       /\ Handled(code)

-----------------------------------------------------------------------------
(* The requests.                                                            *)

\* export NAME=value, or a set_env_var() of cd or of the start.
SetStep ==
    /\ alive /\ pending # << >> /\ Head(pending).op = "set"
    /\ Set(Head(pending).key, Head(pending).value)

\* The SHLVL of init_shell_env(): read, then set.
LevelStep ==
    LET key == Head(pending).key IN
    /\ alive /\ pending # << >> /\ Head(pending).op = "level"
    /\ \/ Faults(key) /\ Crash
       \/ Absent(key) /\ ~Faults(key) /\ Set(key, FirstLevel)
       \/ \E i \in DOMAIN heap_env :
             FirstAt(key, i) /\ ~Faults(key) /\ Set(key, NextLevel[ValueOf(i, key)])

\* Mutant: the last entry is not moved down.
WithoutShort(i) == [j \in 1 .. Len(heap_env) - 1 |->
    IF j < i \/ j = Len(heap_env) - 1 THEN heap_env[j] ELSE heap_env[j + 1]]

\* unset_env_var(): the entries behind the first that matches move up.
Without(i) == [j \in 1 .. Len(heap_env) - 1 |->
                  IF j < i THEN heap_env[j] ELSE heap_env[j + 1]]

UnsetStep ==
    LET key == Head(pending).key IN
    /\ alive /\ pending # << >> /\ Head(pending).op = "unset"
    /\ \/ Faults(key) /\ Crash
       \/ /\ ~Faults(key)
          /\ \/ Absent(key) /\ UNCHANGED heap_env
             \/ \E i \in DOMAIN heap_env : FirstAt(key, i) /\ heap_env' = Without(i)
          /\ UNCHANGED env_capacity
          /\ Handled(code)

\* process_export_arg() of a name that is none, which the loop survives, and
\* of a name without "=", which does nothing.
ExportOther ==
    /\ alive /\ pending # << >> /\ Head(pending).op \in { "bad", "plain" }
    /\ Handled(IF Head(pending).op = "bad" THEN 1 ELSE code)
    /\ UNCHANGED << heap_env, env_capacity >>

-----------------------------------------------------------------------------
(* The commands.                                                            *)

Start(requests) ==
    /\ alive /\ pending = << >>
    /\ pending' = requests
    /\ code' = 0
    /\ UNCHANGED << heap_env, env_capacity, alive >>

Export == \E a \in Exports : Start(a)

Unset == \E a \in Unsets :
    Start([i \in DOMAIN a |-> Request("unset", a[i], NoValue)])

\* update_pwd_env(). working_directory is never empty: a shell that could not
\* read it at the start ends before its first command.
Cd == \E old, new \in Dirs :
    Start(<< Request("set", << "OLDPWD" >>, old), Request("set", << "PWD" >>, new) >>)

\* export without an argument compares every entry with every other.
List ==
    /\ alive /\ pending = << >>
    /\ \/ /\ \E i \in DOMAIN heap_env : heap_env[i] = Null
          /\ Crash
       \/ /\ \A i \in DOMAIN heap_env : heap_env[i] # Null
          /\ code' = 0
          /\ UNCHANGED << heap_env, env_capacity, alive, pending >>

\* Any other builtin leaves a status and no variable: echo, env, pwd, and a
\* cd that fails.
Other ==
    /\ alive /\ pending = << >>
    /\ code' \in 0 .. 1
    /\ UNCHANGED << heap_env, env_capacity, alive, pending >>

-----------------------------------------------------------------------------
\* init_env(), with the requests of init_shell_env() still to come.
Copied(e) == [i \in DOMAIN e |-> IF e[i] \in Oversized THEN Null ELSE e[i]]

Opening(d) ==
    << Request("set", << "SHELL" >>, ShellPath),
       Request("level", << "SHLVL" >>, NoValue),
       Request("set", << "PWD" >>, d) >>

Init ==
    \E e \in Environs, d \in Dirs :
        /\ heap_env = Copied(e)
        /\ env_capacity = IF Len(e) > 0 THEN 2 * Len(e) ELSE 8
        /\ alive = Fits(env_capacity)
        /\ pending = Opening(d)
        /\ code = 0

Next == SetStep \/ LevelStep \/ UnsetStep \/ ExportOther
        \/ Export \/ Unset \/ Cd \/ List \/ Other

Spec == Init /\ [][Next]_vars
-----------------------------------------------------------------------------
(* Properties.                                                              *)

\* Every variable has its type.
TypeOK ==
    /\ EntriesOK(heap_env)
    /\ env_capacity \in Nat
    /\ alive \in BOOLEAN
    /\ pending \in Seq(Requests)
    /\ \A i \in DOMAIN pending : GoodRequest(pending[i])
    /\ code \in 0 .. 1

\* The array always has a slot for the terminating NULL that env, execve()
\* and the next growth rely on, after any sequence of insertions (in place,
\* at the end, with and without growth) and removals.
TerminatorFits == alive => Len(heap_env) < env_capacity + 1

\* No name has two entries.
NameOf(s) == s[1]
Unique(e) == \A i, j \in DOMAIN e :
    Len(e[i]) > 1 /\ Len(e[j]) > 1 /\ NameOf(e[i]) = NameOf(e[j]) => i = j

\* No command gives a variable a second entry, which unset would uncover.
UniqueKept == [][Unique(heap_env) => Unique(heap_env')]_vars

\* The shell ends on its environment only at the arena's limit: an oversized
\* string, at the start or now, or more entries than an arena has room for.
CrashOnlyAtLimits ==
    ~alive =>
        \/ \E i \in DOMAIN heap_env : heap_env[i] = Null
        \/ ~Fits(env_capacity)
        \/ ~Fits(2 * env_capacity) /\ Len(heap_env) >= env_capacity - 1
        \/ /\ pending # << >>
           /\ \/ Head(pending).key \o Head(pending).value \in Oversized
              \/ Head(pending).op = "level"
                 /\ \E v \in Values : Head(pending).key \o v \in Oversized

\* The array holds what EnvMap keeps, whatever the order of its entries: for
\* each name the values of its entries, in order.
Gives(e, n) == Len(e) > 1 /\ NameOf(e) = n
Stacks(h, n) ==     \* of the first k entries, for each k
    LET First[k \in 0 .. Len(h)] ==
            IF k = 0 THEN << >>
            ELSE IF Gives(h[k], n) THEN Append(First[k - 1], Tail(h[k]))
            ELSE First[k - 1]
    IN  First
Names == { NameOf(heap_env[i]) : i \in { j \in DOMAIN heap_env : Len(heap_env[j]) > 1 } }
EnvOf == [n \in Names |-> Stacks(heap_env, n)[Len(heap_env)]]

Map == INSTANCE EnvMap WITH env <- EnvOf

\* A command changes the variables it names, each to the value it gives, a
\* bad argument changes none and stops none, and no other variable changes.
RefinesMap == Map!Spec
==============================================================================
