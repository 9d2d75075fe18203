----------------------------------- MODULE Roi -----------------------------------
(***************************************************************************)
(* The return on the runs of a workflow (roi/compute.py): the value and    *)
(* cost of each run, their sums, and the figures derived from them, under  *)
(* any assumptions a workflow's file may make.                             *)
(*                                                                         *)
(* Money is counted in units of a small sum, so that the labor rate of a   *)
(* minute is an integer; a rate or a number of minutes is a pair of a      *)
(* numerator and a denominator.                                            *)
(***************************************************************************)
EXTENDS Integers, Sequences, Functions

CONSTANTS
  Minutes, Rate,   \* minutes of the assumptions, labor rates of a minute
  MachineCost,     \* llm and tool costs of a run
  Multipliers,     \* sensitivity: minutes_multipliers
  MaxRoiRuns       \* bound of the model

ASSUME RoiAssumption ==
  /\ Minutes \subseteq Nat /\ Rate \subseteq Nat \ {0} /\ MachineCost \subseteq Nat
  /\ Multipliers \subseteq Nat /\ MaxRoiRuns \in Nat

VARIABLES
  economics,  \* Economics
  runList     \* [success, llm, tool], tool may be UseConfigured

roiVars == <<economics, runList>>

Economics == [minutes : Minutes, rate : Rate, review : Minutes, fix : Minutes, tool : MachineCost]
UseConfigured == -1
CompletedRun == [success : {0, 1}, llm : MachineCost, tool : MachineCost \cup {UseConfigured}]

RoiTypeOK == economics \in Economics /\ runList \in Seq(CompletedRun)

RoiInit == economics \in Economics /\ runList = <<>>

CompleteRun ==
  /\ Len(runList) < MaxRoiRuns
  /\ \E run \in CompletedRun : runList' = Append(runList, run)
  /\ UNCHANGED economics

RoiNext == CompleteRun
RoiSpec == RoiInit /\ [][RoiNext]_roiVars

-----------------------------------------------------------------------------
\* task_roi

TaskValue(run, e) == run.success * e.minutes * e.rate

\* Mutant: failures are not repaired.
ReviewOnly(run, e) == e.review * e.rate

HumanCost(run, e) == (e.review + (1 - run.success) * e.fix) * e.rate
TaskMachineCost(run, e) == run.llm + (IF run.tool = UseConfigured THEN e.tool ELSE run.tool)

-----------------------------------------------------------------------------
\* summarize_runs, of at least one run

NSuccess == SumFunction([i \in DOMAIN runList |-> runList[i].success])
RunsValue(e) == SumFunction([i \in DOMAIN runList |-> TaskValue(runList[i], e)])
RunsMachineCost(e) == SumFunction([i \in DOMAIN runList |-> TaskMachineCost(runList[i], e)])
RunsHumanCost(e) == SumFunction([i \in DOMAIN runList |-> HumanCost(runList[i], e)])
RunsCost(e) == RunsHumanCost(e) + RunsMachineCost(e)
NetRoi(e) == RunsValue(e) - RunsCost(e)

\* break_even_success_rate of the mean machine cost; none above 1.
BreakEvenRate(e) ==
  LET numerator == RunsMachineCost(e) + Len(runList) * (e.review + e.fix) * e.rate
      denominator == Len(runList) * (e.minutes + e.fix) * e.rate
  IN  {rate \in {<<numerator, denominator>>} : rate[2] > 0 /\ rate[1] <= rate[2]}

\* break_even_minutes_per_task: the total cost of a success, in minutes of labor.
BreakEvenMinutes(e) == {<<RunsCost(e), n * e.rate>> : n \in {NSuccess} \ {0}}

\* o_above_break_even, of a path and model configuration's records in run_e3.
AboveBreakEven(e) == \E be \in BreakEvenRate(e) : NSuccess * be[2] >= be[1] * Len(runList)

\* sensitivity_grid
Scenario(multiplier, rate) == [economics EXCEPT !.minutes = multiplier * @, !.rate = rate]
Grid == {Scenario(multiplier, rate) : multiplier \in Multipliers, rate \in Rate}

-----------------------------------------------------------------------------

(***************************************************************************)
(* The figures agree, under the assumptions of the workflow and in every   *)
(* cell of the grid: runs that are reported above break-even lose nothing, *)
(* runs that gain are reported above it, and they lose nothing exactly     *)
(* when the minutes of a task are at least the break-even minutes.         *)
(***************************************************************************)
BreakEvenMeansZero ==
  runList # <<>> =>
    \A e \in {economics} \cup Grid :
      /\ AboveBreakEven(e) => NetRoi(e) >= 0
      /\ NetRoi(e) > 0 => AboveBreakEven(e)
      /\ \A m \in BreakEvenMinutes(e) : NetRoi(e) >= 0 <=> e.minutes * m[2] >= m[1]
=============================================================================
