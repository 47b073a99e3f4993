-------------------------- MODULE MCSingleCommand --------------------------
(* Instances of SingleCommand for TLC.                                      *)
EXTENDS SingleCommand

\* Every combination of redirections; a command without words has one.
SomeLines ==
    { line \in [in : BOOLEAN, out : BOOLEAN,
                prog : { "builtin", "exit", "any", "enoent", "empty" }] :
        line.prog = "empty" => line.in \/ line.out }
============================================================================
