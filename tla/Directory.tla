------------------------------ MODULE Directory ------------------------------
(****************************************************************************)
(* The directory the shell is in, which it knows four times: the kernel's   *)
(* cwd of the process, working_directory, which getcwd() fills, and the     *)
(* variables PWD and OLDPWD. cd changes all of them, one after the other,   *)
(* and other processes make, remove and rename directories meanwhile.       *)
(*                                                                          *)
(* Every other command is the environment's; a cd that succeeds starts the  *)
(* two set_env_var() of its Cd.                                             *)
(****************************************************************************)
EXTENDS Environment

CONSTANT Deep           \* directories with a path longer than PATH_MAX

Gone == << >>           \* where a process is whose directory was removed

VARIABLES
    cwd,                \* the directory the kernel has for the shell
    dirs,               \* the directories there are, besides the deep ones
    working_directory,
    moving,             \* << from >> between chdir() and getcwd(), else << >>
    moved,              \* the directory was renamed since the last getcwd()
    named,              \* history: the last name that a getcwd() gave
    left                \* history: what cd should have left in OLDPWD; Gone when
                        \* no cd did or something else named OLDPWD since

dvars == << cwd, dirs, working_directory, moving, moved, named, left >>

DirectoryAssumption ==
    /\ Deep \cap Dirs = {}
    /\ Gone \notin Deep \cup Dirs
ASSUME DirectoryAssumption

DirInit ==
    /\ Init
    /\ working_directory = pending[Len(pending)].value  \* getcwd() at the start
    /\ cwd = working_directory
    /\ dirs \in { d \in SUBSET Dirs : cwd \in d }
    /\ moving = << >>
    /\ moved = FALSE
    /\ named = cwd
    /\ left = Gone

-----------------------------------------------------------------------------
(* cd                                                                       *)

AtPrompt == alive /\ pending = << >> /\ moving = << >>

Fail == Other /\ code' = 1

\* The name the shell can have for where it is: where the place is deep, gone or
\* was renamed, the last one it was given.
Known == IF cwd \in dirs /\ ~moved THEN cwd ELSE named

\* chdir(path), which moves the shell or fails.
Chdir(path) ==
    \/ /\ path \in dirs \cup Deep
       /\ cwd' = path
       /\ moving' = << Known >>
       /\ moved' = FALSE
       /\ UNCHANGED << vars, dirs, working_directory, named, left >>
    \/ path \notin dirs \cup Deep /\ Fail /\ UNCHANGED dvars

\* cd DIR
CdTo == \E d \in Dirs \cup Deep : AtPrompt /\ Chdir(d)

\* cd . works where the directory is gone.
CdHere ==
    /\ AtPrompt
    /\ moving' = << Known >>
    /\ UNCHANGED << vars, cwd, dirs, working_directory, moved, named, left >>

\* cd without an argument, and cd -.
CdVariable == \E key \in { << "HOME" >>, << "OLDPWD" >> } :
    /\ AtPrompt
    /\ \/ Faults(key) /\ Crash /\ UNCHANGED dvars
       \/ ~Faults(key) /\ Absent(key) /\ Fail /\ UNCHANGED dvars
       \/ ~Faults(key) /\ \E i \in DOMAIN heap_env :
             FirstAt(key, i) /\ Chdir(ValueOf(i, key))

\* Two arguments, or a failing command of another kind; echo and env.
OtherBuiltin == AtPrompt /\ Other /\ UNCHANGED dvars

Moved(new) ==
    << Request("set", << "OLDPWD" >>, working_directory),
       Request("set", << "PWD" >>, new) >>

\* Mutant: working_directory is left to pwd.
GetcwdForgets ==
    /\ moving # << >>
    /\ moving' = << >>
    /\ \/ /\ cwd \in dirs
          /\ Start(Moved(cwd))
          /\ moved' = FALSE
          /\ named' = cwd
          /\ left' = moving[1]
          /\ UNCHANGED working_directory
       \/ /\ cwd \notin dirs
          /\ Fail
          /\ UNCHANGED << working_directory, moved, named, left >>
    /\ UNCHANGED << cwd, dirs >>

\* The rest of cd. A failure leaves the shell where chdir() brought it.
Getcwd ==
    /\ moving # << >>
    /\ moving' = << >>
    /\ \/ /\ cwd \in dirs
          /\ Start(Moved(cwd))
          /\ working_directory' = cwd
          /\ moved' = FALSE
          /\ named' = cwd
          /\ left' = moving[1]
       \/ /\ cwd \notin dirs
          /\ Fail
          /\ UNCHANGED << working_directory, moved, named, left >>
    /\ UNCHANGED << cwd, dirs >>

\* pwd prints working_directory where getcwd() fails. It does not set PWD.
Pwd ==
    /\ AtPrompt
    /\ Other /\ code' = 0
    /\ \/ cwd \in dirs /\ working_directory' = cwd /\ named' = cwd /\ moved' = FALSE
       \/ cwd \notin dirs /\ UNCHANGED << working_directory, named, moved >>
    /\ UNCHANGED << cwd, dirs, moving, left >>

-----------------------------------------------------------------------------
(* Other processes. The requests of a running command read no directory, so *)
(* what happens during them may as well happen after them.                  *)

Make(d) ==
    /\ d \in Dirs \ dirs
    /\ dirs' = dirs \cup { d }
    /\ UNCHANGED << cwd, moved >>

Remove(d) ==
    /\ d \in dirs
    /\ dirs' = dirs \ { d }
    /\ cwd' = IF cwd = d THEN Gone ELSE cwd
    /\ UNCHANGED moved

Rename(d, e) ==
    /\ d \in dirs /\ e \in Dirs \ dirs
    /\ dirs' = (dirs \ { d }) \cup { e }
    /\ cwd' = IF cwd = d THEN e ELSE cwd
    /\ moved' = (moved \/ cwd = d)

Others ==
    /\ alive /\ pending = << >>
    /\ \E d, e \in Dirs : Make(d) \/ Remove(d) \/ Rename(d, e)
    /\ UNCHANGED << vars, working_directory, moving, named, left >>

-----------------------------------------------------------------------------
\* An export or unset that names OLDPWD ends the claim on it.
Touches(r) == r.op \notin { "bad", "plain" } /\ r.key[1] = "OLDPWD"

\* Everything else: the commands of the environment and their requests.
EnvStep ==
    /\ moving = << >>
    /\ SetStep \/ LevelStep \/ UnsetStep \/ ExportOther \/ Export \/ Unset \/ List
    /\ left' = IF pending = << >> /\ \E i \in DOMAIN pending' : Touches(pending'[i])
               THEN Gone ELSE left
    /\ UNCHANGED << cwd, dirs, working_directory, moving, moved, named >>

DirNext == EnvStep \/ CdTo \/ CdHere \/ CdVariable \/ Getcwd \/ Pwd \/ OtherBuiltin
           \/ Others

DirSpec == DirInit /\ [][DirNext]_<< vars, dvars >>
-----------------------------------------------------------------------------
(* Properties.                                                              *)

Holds(name, value) ==
    \E i \in DOMAIN heap_env :
        FirstAt(<< name >>, i) /\ ValueOf(i, << name >>) = value

\* Outside cd, working_directory is where the process is; where other processes
\* renamed or removed that place, or its path is too long for getcwd(), it is the
\* last place that the shell was told it is in, and nothing else.
Believes == moving = << >> => working_directory = Known

\* Believes, and between commands OLDPWD is where the last cd that succeeded
\* started, or, where that place had no name or a new one, the last place the
\* shell was told it is in: however other processes change the directories, and
\* whichever cds failed before or after chdir() in between. Only an export or
\* unset that names OLDPWD, as a user may, ends the claim.
DirectoriesAgree ==
    /\ Believes
    /\ AtPrompt /\ left # Gone => Holds("OLDPWD", left)
==============================================================================
