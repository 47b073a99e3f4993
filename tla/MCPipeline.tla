----------------------------- MODULE MCPipeline -----------------------------
(* Instances of Pipeline for TLC.                                           *)
EXTENDS Pipeline

C(in, out, prog) == [in |-> in, out |-> out, prog |-> prog]

\* Pipelines without redirections, of two and three commands: every order in
\* which ends of input and broken pipes can travel along them.
Plain ==
    { << C(0, 1, a), C(0, 1, b) >> :
          a \in { "source", "any", "filter" }, b \in { "filter", "any" } }
    \cup { << C(0, 1, a), C(0, 1, b), C(0, 1, c) >> :
          a \in { "source", "any" }, b \in { "source", "filter" },
          c \in { "filter", "enoent" } }

\* Pipelines with redirections at their ends and in the middle.
Redirected ==
    { << C(3, 1, "filter"), C(0, 4, "filter") >>,
      << C(0, 3, "any"), C(0, 1, "filter") >>,
      << C(0, 1, "source"), C(3, 1, "any") >>,
      << C(3, 4, "filter"), C(0, 5, "source"), C(6, 1, "eacces") >>,
      << C(0, 1, "source"), C(3, 4, "filter"), C(0, 1, "filter") >>,
      << C(0, 1, "any"), C(0, 3, "filter"), C(0, 4, "filter") >> }

OkTables == Plain \cup Redirected

\* With eight descriptors: the first pipe, its duplicate, or no call at all
\* finds the table full.
FaultTables ==
    { << C(3, 4, "any"), C(5, 1, "any"), C(0, 1, "filter") >>,
      << C(3, 4, "any"), C(5, 6, "any") >>,
      << C(0, 1, "source"), C(3, 1, "any") >>,
      << C(3, 4, "filter"), C(0, 5, "any") >>,
      << C(0, 1, "any"), C(3, 1, "filter"), C(0, 4, "filter") >>,
      << C(3, 1, "any"), C(0, 4, "any"), C(0, 1, "any"), C(0, 1, "any") >> }
==============================================================================
