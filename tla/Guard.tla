-------------------------------- MODULE Guard --------------------------------
(***************************************************************************)
(* The ROI guard of one workflow (guard/service.py, guard/state_machine.py)*)
(* with what runs beside it in the API process: the run endpoint, whose    *)
(* runs one lock serialises, the resume endpoint and restarts.             *)
(*                                                                         *)
(* An evaluation, by the scheduler or by the evaluate endpoint, holds the  *)
(* event loop from load_state to record_action, three transactions.  The   *)
(* run endpoint is on the same loop and never sees it half done.  The      *)
(* resume endpoint is synchronous, so it runs in a thread of its own, and  *)
(* a process may die anywhere.                                             *)
(*                                                                         *)
(* Runs are numbered by started_at; of a run only its net ROI is kept, and *)
(* of the workflow's alerts whether the last one owed was posted.          *)
(***************************************************************************)
EXTENDS Integers, FiniteSets, SequencesExt

CONSTANTS
  Evaluator,    \* concurrent calls of evaluate_workflow
  Resumer,      \* concurrent calls of resume_workflow
  Path,         \* execution paths: numbers, in the order of their names
  DefaultPath,
  Stats,        \* path statistics path_stats_for may return
  Nets,         \* net ROI of a run
  MinRuns,      \* min_runs
  MaxRuns, MaxWaiting, MaxActions  \* bounds of the model

ASSUME GuardAssumption ==
  /\ Path \subseteq Nat /\ DefaultPath \in Path
  /\ Nets \subseteq Int /\ MinRuns \in Nat \ {0}
  /\ \A stats \in Stats :
       /\ DOMAIN stats \subseteq Path
       /\ \A p \in DOMAIN stats : stats[p] \in [qualifies : BOOLEAN, cost : Nat]
  /\ MaxRuns \in Nat /\ MaxWaiting \in Nat /\ MaxActions \in Nat

VARIABLES
  row,       \* the workflow's row of workflow_state
  runs,      \* its production runs
  expired,   \* how many of them started before the trailing window
  active,    \* the run that holds the lock, 0 for none
  waiting,   \* run requests waiting for the lock
  pc,        \* where each evaluation is
  decision,  \* its decision and the state it was taken from
  resuming,  \* the state each resume call has loaded
  log,       \* guard_actions, with the runs each action judged
  torn,      \* history: an action is missing from the log or was overwritten
  alert      \* history: the alert of the last pause

vars == <<row, runs, expired, active, waiting, pc, decision, resuming, log, torn, alert>>
queue == <<active, waiting>>
history == <<log, torn, alert>>

Row == [path : Path, phase : {"normal", "downgraded", "paused"}, offset : 0 .. MaxRuns]
Action == {"none", "downgrade", "pause", "recover"}
Decision == [action : Action, old : Row, new : Row, judged : SUBSET (1 .. MaxRuns)]

\* An unresumed call holds nothing.
NotLoaded == [phase |-> "unloaded"]
InitialRow == [path |-> DefaultPath, phase |-> "normal", offset |-> 0]
NoDecision == [action |-> "none", old |-> InitialRow, new |-> InitialRow, judged |-> {}]

TypeOK ==
  /\ row \in Row
  /\ runs \in Seq([net : Nets \cup {0}, done : BOOLEAN]) /\ Len(runs) <= MaxRuns
  /\ expired \in 0 .. Len(runs)
  /\ active \in 0 .. Len(runs) /\ waiting \in 0 .. MaxWaiting
  /\ pc \in [Evaluator -> {"idle", "decided", "saved", "alerting"}]
  /\ decision \in [Evaluator -> Decision]
  /\ resuming \in [Resumer -> Row \cup {NotLoaded}]
  /\ log \in Seq([action : Action, from : Path, to : Path, judged : SUBSET (1 .. MaxRuns)])
  /\ torn \in BOOLEAN
  /\ alert \in {"none", "owed", "posted"}

Init ==
  /\ row = InitialRow
  /\ runs = <<>> /\ expired = 0 /\ active = 0 /\ waiting = 0
  /\ pc = [e \in Evaluator |-> "idle"]
  /\ decision = [e \in Evaluator |-> NoDecision]
  /\ resuming = [t \in Resumer |-> NotLoaded]
  /\ log = <<>> /\ torn = FALSE /\ alert = "none"

-----------------------------------------------------------------------------

\* trailing_runs: finished runs only, numbered from 0 in the order of their start.
Finished == {i \in DOMAIN runs : runs[i].done}
SeqNo(i) == Cardinality({j \in Finished : j < i})
Trailing == {i \in Finished : i > expired}

\* Mutant: the downgraded phase looks at the last runs, like the normal phase.
WindowAlwaysLast(s) == {i \in Trailing : Cardinality({j \in Trailing : j > i}) < MinRuns}

\* window_for: the first MinRuns runs since the downgrade, else the last MinRuns.
WindowFor(s) ==
  LET since == {i \in Trailing : SeqNo(i) >= s.offset}
  IN  IF s.phase = "downgraded"
      THEN {i \in since : Cardinality({j \in since : j < i}) < MinRuns}
      ELSE {i \in Trailing : Cardinality({j \in Trailing : j > i}) < MinRuns}

\* cheapest_qualifying_path, as the set of at most one path.
CheapestQualifying(stats) ==
  LET qualifying == {p \in DOMAIN stats : stats[p].qualifies}
  IN  {p \in qualifying :
         \A q \in qualifying :
            \/ stats[p].cost < stats[q].cost
            \/ stats[p].cost = stats[q].cost /\ p <= q}

Net(window) == SumFunctionOnSet([i \in DOMAIN runs |-> runs[i].net], window)

\* evaluate: the action and the phase it leads to.
ActionFor(s, window) ==
  IF s.phase = "paused" \/ Cardinality(window) < MinRuns THEN "none"
  ELSE IF s.phase = "normal" THEN (IF Net(window) >= 0 THEN "none" ELSE "downgrade")
  ELSE IF Net(window) < 0 THEN "pause" ELSE "recover"

PhaseAfter == [downgrade |-> "downgraded", pause |-> "paused", recover |-> "normal"]

PathAfter(s, action, stats) ==
  IF action # "downgrade" \/ CheapestQualifying(stats) = {} THEN s.path
  ELSE CHOOSE p \in CheapestQualifying(stats) : TRUE

\* No evaluation is between load_state and record_action.
LoopFree == \A e \in Evaluator : pc[e] \notin {"decided", "saved"}

-----------------------------------------------------------------------------

\* load_state, trailing_runs and evaluate; without an action nothing is written.
Evaluate(e) ==
  /\ LoopFree /\ pc[e] = "idle" /\ Len(log) < MaxActions
  /\ LET window == WindowFor(row)
         action == ActionFor(row, window)
     IN  /\ action # "none"
         /\ \E stats \in Stats :
              decision' = [decision EXCEPT ![e] =
                [action |-> action, old |-> row, judged |-> window,
                 new |-> [path |-> PathAfter(row, action, stats),
                          phase |-> PhaseAfter[action], offset |-> Cardinality(Finished)]]]
  /\ pc' = [pc EXCEPT ![e] = "decided"]
  /\ UNCHANGED <<row, runs, expired, queue, resuming, history>>

\* save_state
Save(e) ==
  /\ pc[e] = "decided"
  /\ row' = decision[e].new
  /\ pc' = [pc EXCEPT ![e] = "saved"]
  /\ alert' = IF decision[e].action = "pause" THEN "owed" ELSE alert
  /\ UNCHANGED <<runs, expired, queue, decision, resuming, log, torn>>

\* record_action; after a pause the evaluation awaits the notifier.
Record(e) ==
  /\ pc[e] = "saved"
  /\ log' = Append(log, [action |-> decision[e].action, from |-> decision[e].old.path,
                         to |-> decision[e].new.path, judged |-> decision[e].judged])
  /\ pc' = [pc EXCEPT ![e] = IF decision[e].action = "pause" THEN "alerting" ELSE "idle"]
  /\ decision' = [decision EXCEPT ![e] = NoDecision]
  /\ UNCHANGED <<row, runs, expired, queue, resuming, torn, alert>>

\* The notifier posts the alert; or there is no runner, or posting it raises.
Notify(e) ==
  /\ pc[e] = "alerting"
  /\ alert' \in {alert, "posted"}
  /\ pc' = [pc EXCEPT ![e] = "idle"]
  /\ UNCHANGED <<row, runs, expired, queue, decision, resuming, log, torn>>

\* A database error ends the evaluation; run_forever logs it and goes on.
Abort(e) ==
  /\ pc[e] \in {"decided", "saved"}
  /\ pc' = [pc EXCEPT ![e] = "idle"]
  /\ decision' = [decision EXCEPT ![e] = NoDecision]
  /\ torn' = (torn \/ pc[e] = "saved")
  /\ UNCHANGED <<row, runs, expired, queue, resuming, log, alert>>

-----------------------------------------------------------------------------

\* resume_workflow: load_state and save_state, with no look at the phase.
LoadForResume(t) ==
  /\ resuming[t] = NotLoaded
  /\ resuming' = [resuming EXCEPT ![t] = row]
  /\ UNCHANGED <<row, runs, expired, queue, pc, decision, history>>

\* Mutant: a resume goes back to the default path.
ResumeToDefault(t) ==
  /\ resuming[t] # NotLoaded
  /\ row' = [resuming[t] EXCEPT !.phase = "normal", !.path = DefaultPath]
  /\ resuming' = [resuming EXCEPT ![t] = NotLoaded]
  /\ torn' = (torn \/ row.offset # resuming[t].offset \/ row.path # resuming[t].path)
  /\ UNCHANGED <<runs, expired, queue, pc, decision, log, alert>>

Resume(t) ==
  /\ resuming[t] # NotLoaded
  /\ row' = [resuming[t] EXCEPT !.phase = "normal"]
  /\ resuming' = [resuming EXCEPT ![t] = NotLoaded]
  /\ torn' = (torn \/ row.offset # resuming[t].offset \/ row.path # resuming[t].path)
  /\ UNCHANGED <<runs, expired, queue, pc, decision, log, alert>>

\* TaskRunner.run inserts its row when the lock is its own.
Begin ==
  /\ runs' = Append(runs, [net |-> 0, done |-> FALSE])
  /\ active' = Len(runs) + 1

\* run_workflow: refused while paused; a lock nobody holds or awaits is taken in
\* the same step, otherwise the request waits for it.
Request ==
  /\ LoopFree /\ row.phase # "paused" /\ Len(runs) < MaxRuns
  /\ IF active = 0 /\ waiting = 0
     THEN Begin /\ UNCHANGED waiting
     ELSE waiting < MaxWaiting /\ waiting' = waiting + 1 /\ UNCHANGED <<runs, active>>
  /\ UNCHANGED <<row, expired, pc, decision, resuming, history>>

\* Mutant: a released lock starts a run nobody waits for.
DequeueUnasked ==
  /\ LoopFree /\ active = 0 /\ Len(runs) < MaxRuns
  /\ waiting' = waiting - 1
  /\ Begin
  /\ UNCHANGED <<row, expired, pc, decision, resuming, history>>

\* The lock passes to a waiting request, which goes on where it was.
Dequeue ==
  /\ LoopFree /\ active = 0 /\ waiting > 0 /\ Len(runs) < MaxRuns
  /\ waiting' = waiting - 1
  /\ Begin
  /\ UNCHANGED <<row, expired, pc, decision, resuming, history>>

Complete ==
  /\ LoopFree /\ active # 0
  /\ \E net \in Nets : runs' = [runs EXCEPT ![active] = [net |-> net, done |-> TRUE]]
  /\ active' = 0
  /\ UNCHANGED <<row, expired, waiting, pc, decision, resuming, history>>

\* An exception leaves the row RUNNING for good.
Break ==
  /\ LoopFree /\ active # 0
  /\ active' = 0
  /\ UNCHANGED <<row, runs, expired, waiting, pc, decision, resuming, history>>

-----------------------------------------------------------------------------

\* The oldest run of the trailing window leaves it.
Age ==
  /\ expired < Len(runs)
  /\ expired' = expired + 1
  /\ UNCHANGED <<row, runs, queue, pc, decision, resuming, history>>

\* The process dies and starts again; the database is what is left of it.
Restart ==
  /\ pc' = [e \in Evaluator |-> "idle"]
  /\ decision' = [e \in Evaluator |-> NoDecision]
  /\ resuming' = [t \in Resumer |-> NotLoaded]
  /\ active' = 0 /\ waiting' = 0
  /\ torn' = (torn \/ \E e \in Evaluator : pc[e] = "saved")
  /\ UNCHANGED <<row, runs, expired, log, alert>>

Next ==
  \/ \E e \in Evaluator : Evaluate(e) \/ Save(e) \/ Record(e) \/ Notify(e) \/ Abort(e)
  \/ \E t \in Resumer : LoadForResume(t) \/ Resume(t)
  \/ Request \/ Dequeue \/ Complete \/ Break
  \/ Age \/ Restart

\* The scheduler evaluates for ever, and an evaluation it began goes on.
Fairness ==
  \A e \in Evaluator :
     WF_vars(Evaluate(e)) /\ WF_vars(Save(e) \/ Record(e) \/ Abort(e)) /\ WF_vars(Notify(e))

Spec == Init /\ [][Next]_vars /\ Fairness

-----------------------------------------------------------------------------

(***************************************************************************)
(* D-011, "the pause decision must come after exactly the next 20 runs":   *)
(* in the log a pause or a recovery comes right after a downgrade, is      *)
(* decided on MinRuns runs, and none of them counted for the downgrade,    *)
(* whatever resumes, restarts and unfinished runs came between.            *)
(***************************************************************************)
PauseJudgesNewRuns ==
  ~torn => \A i \in DOMAIN log : log[i].action \in {"pause", "recover"} =>
     /\ i > 1 /\ log[i - 1].action = "downgrade"
     /\ Cardinality(log[i].judged) = MinRuns
     /\ log[i].judged \cap log[i - 1].judged = {}

(***************************************************************************)
(* The log accounts for the workflow's row once an evaluation is over: the *)
(* path is the one the last action went to, and a workflow is downgraded   *)
(* or paused only by the last action, so that resuming it is the one       *)
(* change the log does not show.                                           *)
(***************************************************************************)
LogTellsState ==
  ~torn /\ (\A e \in Evaluator : pc[e] # "saved") =>
     /\ row.path = IF log = <<>> THEN DefaultPath ELSE Last(log).to
     /\ row.phase # "normal" => log # <<>> /\ PhaseAfter[Last(log).action] = row.phase

(***************************************************************************)
(* run_workflow's docstring: a run is "refused with 409 while the guard    *)
(* has the workflow paused".                                               *)
(***************************************************************************)
NoRunWhilePaused == [][row.phase = "paused" => Len(runs') = Len(runs)]_vars

(***************************************************************************)
(* configs/guard.yaml: "the workflow is paused and a Slack alert is        *)
(* posted": its alert is posted before somebody has to resume it.          *)
(***************************************************************************)
PauseIsAlerted ==
  row.phase = "paused" /\ alert = "owed" ~> row.phase # "paused" \/ alert = "posted"
=============================================================================
