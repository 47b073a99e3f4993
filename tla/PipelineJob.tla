----------------------------- MODULE PipelineJob -----------------------------
(****************************************************************************)
(* What running a pipeline promises, without descriptors or processes: the  *)
(* stages start from left to right, run side by side, see the end of their  *)
(* input when the stage before is through and a broken pipe when the stage  *)
(* after is; the job is over when every stage is, and its code is that of   *)
(* the last stage, whatever the order in which they ended.                  *)
(****************************************************************************)
EXTENDS Integers, Sequences

CONSTANTS
    StageCodes,     \* StageCodes[p]: the codes a program p can end with
    Interrupted     \* the code of a stage that Ctrl-C ended

VARIABLES
    table,  \* the stages: records [in, out, prog]
    stage,  \* "unborn", "live" or "ended", for each of them
    verdict,\* the code of each stage that has ended
    over,   \* the shell has its prompt back
    code    \* $?

jobvars == << table, stage, verdict, over, code >>

Stages == DOMAIN table
Last   == Len(table)

\* No redirection takes the place of the pipe or of the terminal.
ReadsPipe(i)  == i > 1 /\ table[i].in = 0
WritesPipe(i) == i < Last /\ table[i].out = 1

InputEnds(i) ==
    \/ table[i].in # 0
    \/ i > 1 /\ (stage[i - 1] = "ended"
                  \/ (stage[i - 1] = "live" /\ ~WritesPipe(i - 1)))

ReadersGone(i) ==
    /\ WritesPipe(i)
    /\ \/ stage[i + 1] = "ended"
       \/ stage[i + 1] = "live" /\ ~ReadsPipe(i + 1)

CanEnd(i) ==
    CASE table[i].prog = "filter" -> InputEnds(i)
      [] table[i].prog = "source" -> ReadersGone(i)
      [] OTHER                    -> TRUE

Init ==
    /\ stage = [i \in Stages |-> "unborn"]
    /\ verdict = [i \in Stages |-> 0]
    /\ over = FALSE

Launch(i) ==
    /\ stage[i] = "unborn"
    /\ \A j \in 1 .. i - 1 : stage[j] # "unborn"
    /\ stage' = [stage EXCEPT ![i] = "live"]
    /\ UNCHANGED << table, verdict, over, code >>

EndStage(i) ==
    /\ stage[i] = "live"
    /\ CanEnd(i)
    /\ \E c \in StageCodes[table[i].prog] : verdict' = [verdict EXCEPT ![i] = c]
    /\ stage' = [stage EXCEPT ![i] = "ended"]
    /\ UNCHANGED << table, over, code >>

\* Ctrl-C ends any of the stages that are live.
Interrupt ==
    /\ \E K \in SUBSET { i \in Stages : stage[i] = "live" } :
         /\ stage' = [i \in Stages |-> IF i \in K THEN "ended" ELSE stage[i]]
         /\ verdict' = [i \in Stages |->
                           IF i \in K THEN Interrupted ELSE verdict[i]]
    /\ UNCHANGED << table, over, code >>

Return ==
    /\ ~over
    /\ \A i \in Stages : stage[i] = "ended"
    /\ over' = TRUE
    /\ code' = verdict[Last]
    /\ UNCHANGED << table, stage, verdict >>

Next ==
    \/ \E i \in Stages : Launch(i) \/ EndStage(i)
    \/ Interrupt \/ Return

Spec == Init /\ [][Next]_jobvars

-----------------------------------------------------------------------------
CONSTANT MaxStages  \* no table has more stages

(* What must happen, stated without ENABLED so that it can be checked under *)
(* a refinement mapping: stages are launched, a stage that can end does,    *)
(* and the shell comes back when all have.                                  *)
Progress ==
    /\ \A i \in 1 .. MaxStages :
         /\ i \in Stages ~> i \in Stages /\ stage[i] # "unborn"
         /\ i \in Stages /\ stage[i] = "live" /\ CanEnd(i)
                ~> i \in Stages /\ stage[i] = "ended"
    /\ (\A i \in Stages : stage[i] = "ended") ~> over

Promise == Spec /\ Progress
==============================================================================
