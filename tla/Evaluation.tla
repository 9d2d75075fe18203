------------------------------- MODULE Evaluation -------------------------------
(***************************************************************************)
(* A checkpointed evaluation (evaluation/checkpoint.py) as run_e1 and      *)
(* run_e2 (e1_steps.py, e2_tasks.py) drive it: a loop over work items that *)
(* skips those with a record, measures the others and appends a line for   *)
(* each.  The process may die anywhere, also in the middle of a line, and  *)
(* is started again with what can be read of the file.                     *)
(*                                                                         *)
(* A record is known by its item and the number of its measurement.  A     *)
(* line is the sequence of the records written on it, in full or in part.  *)
(***************************************************************************)
EXTENDS Integers, Sequences, FiniteSets, Functions

CONSTANTS
  Tasks, Repeats, Variants,  \* Variants: step and model in E1, path and configuration in E2;
                             \* tasks and variants are numbered in the order of their lists
  MaxCrashes, MaxStarts      \* bounds of the model

Item == Tasks \X Variants \X (1 .. Repeats)
Record == [item : Item, measured : Nat, success : BOOLEAN, full : BOOLEAN]
Outcomes == [successes : Nat, trials : Nat]

ASSUME EvaluationAssumption ==
  /\ Repeats \in Nat \ {0} /\ MaxCrashes \in Nat /\ MaxStarts \in Nat
  /\ Tasks \subseteq Nat /\ IsFiniteSet(Tasks) /\ Tasks # {}
  /\ Variants \subseteq Nat /\ IsFiniteSet(Variants) /\ Variants # {}

VARIABLES
  lines,      \* of the checkpoint file
  open,       \* the last line has no newline yet
  known,      \* the records in memory
  loop,       \* where the process is: the items left, "down" or "done"
  results,    \* the results file, and the outcomes of each variant in it
  measured,   \* measurements begun, for each item
  crashes, starts

evalVars == <<lines, open, known, loop, results, measured, crashes, starts>>

NoResults == [file |-> "none", rates |-> <<>>]

EvalTypeOK ==
  /\ lines \in Seq(Seq(Record)) /\ open \in BOOLEAN
  /\ known \in SUBSET Record
  /\ loop.at \in {"down", "next", "measured", "done"} /\ loop.left \subseteq Item
  /\ results.file \in {"none", "damaged", "written"}
  /\ results.rates \in {<<>>} \cup [Variants -> Outcomes]
  /\ measured \in [Item -> Nat]
  /\ crashes \in 0 .. MaxCrashes /\ starts \in 0 .. MaxStarts

EvalInit ==
  /\ lines = <<>> /\ open = FALSE /\ known = {} /\ loop = [at |-> "down", left |-> {}]
  /\ results = NoResults /\ measured = [i \in Item |-> 0] /\ crashes = 0 /\ starts = 0

-----------------------------------------------------------------------------
\* Checkpoint

\* Checkpoint.key, over KEY_FIELDS.
ItemKey(item) == item

\* What json.loads accepts: one record in full.
Readable(line) == Len(line) = 1 /\ line[1].full

\* Mutant: an unreadable line ends the load.
ReadUpToError == {i \in DOMAIN lines : \A j \in 1 .. i : Readable(lines[j])}

\* Unreadable lines are skipped.
ReadLines == {i \in DOMAIN lines : Readable(lines[i])}

\* The last line of a key counts.
LoadedRecords ==
  {lines[i][1] : i \in {j \in ReadLines :
     \A k \in ReadLines : ItemKey(lines[k][1].item) = ItemKey(lines[j][1].item) => k <= j}}

Done(item) == \E r \in known : ItemKey(r.item) = ItemKey(item)

\* The append continues a line without newline.
Appended(record) ==
  IF open THEN [lines EXCEPT ![Len(lines)] = Append(@, record)] ELSE Append(lines, <<record>>)

-----------------------------------------------------------------------------
\* run_e1, run_e2

\* Repeats, then tasks, then steps and models or paths and configurations.
Earlier(i, j) ==
  \/ i[3] < j[3]
  \/ i[3] = j[3] /\ i[1] < j[1]
  \/ i[3] = j[3] /\ i[1] = j[1] /\ i[2] < j[2]

\* The next of the items left.
NextOf(items) == CHOOSE i \in items : \A j \in items : ~Earlier(j, i)

StartEvaluation ==
  /\ loop.at \in {"down", "done"} /\ starts < MaxStarts
  /\ starts' = starts + 1
  /\ known' = LoadedRecords
  /\ loop' = [at |-> "next", left |-> Item]
  /\ UNCHANGED <<lines, open, results, measured, crashes>>

\* o_run_from_scratch unlinks the file; the count of measurements starts anew with it.
StartFromScratch ==
  /\ loop.at \in {"down", "done"} /\ starts < MaxStarts /\ lines # <<>>
  /\ starts' = starts + 1
  /\ lines' = <<>> /\ open' = FALSE /\ known' = {}
  /\ loop' = [at |-> "next", left |-> Item]
  /\ measured' = [i \in Item |-> 0] /\ crashes' = 0 /\ UNCHANGED results

\* A work item that has a record is skipped, another is measured.
NextItem ==
  /\ loop.at = "next" /\ loop.left # {}
  /\ IF Done(NextOf(loop.left))
     THEN loop' = [loop EXCEPT !.left = @ \ {NextOf(@)}] /\ UNCHANGED measured
     ELSE /\ loop' = [loop EXCEPT !.at = "measured"]
          /\ measured' = [measured EXCEPT ![NextOf(loop.left)] = @ + 1]
  /\ UNCHANGED <<lines, open, known, results, crashes, starts>>

Current(success, full) ==
  [item |-> NextOf(loop.left), measured |-> measured[NextOf(loop.left)], success |-> success, full |-> full]

\* Checkpoint.add; failures of the model or the plan are records like others.
AddRecord ==
  /\ loop.at = "measured"
  /\ \E success \in BOOLEAN :
       LET record == Current(success, TRUE)
       IN  /\ lines' = Appended(record)
           /\ known' = {r \in known : ItemKey(r.item) # ItemKey(record.item)} \cup {record}
  /\ open' = FALSE
  /\ loop' = [at |-> "next", left |-> loop.left \ {NextOf(loop.left)}]
  /\ UNCHANGED <<results, measured, crashes, starts>>

\* The process dies: anywhere, or with a part of the line written, or all but its newline, or
\* with a part of the results file written.
Crash ==
  /\ loop.at \in {"next", "measured"} /\ crashes < MaxCrashes
  /\ crashes' = crashes + 1
  /\ loop' = [at |-> "down", left |-> {}] /\ known' = {}
  /\ \/ UNCHANGED <<lines, open, results>>
     \/ /\ loop.at = "measured"
        /\ \E success, full \in BOOLEAN : lines' = Appended(Current(success, full))
        /\ open' = TRUE /\ UNCHANGED results
     \/ /\ loop.left = {}
        /\ results' = [file |-> "damaged", rates |-> <<>>]
        /\ UNCHANGED <<lines, open>>
  /\ UNCHANGED <<measured, starts>>

\* summarize_group
SummarizeGroup(records) ==
  [successes |-> Cardinality({r \in records : r.success}), trials |-> Cardinality(records)]

\* aggregate: the groups that the records name.
Aggregate(records) ==
  [v \in {r.item[2] : r \in records} |-> SummarizeGroup({r \in records : r.item[2] = v})]

\* write_results replaces the file.
WriteResults(rates) == results' = [file |-> "written", rates |-> rates]

Summarize ==
  /\ loop.at = "next" /\ loop.left = {}
  /\ loop' = [loop EXCEPT !.at = "done"]
  /\ WriteResults(Aggregate(known))
  /\ UNCHANGED <<lines, open, known, measured, crashes, starts>>

\* read_results, as path_stats_for uses it: nothing without a file, an error when it is damaged.
ResultsRead == results.file = "written"

\* path_stats_for: the success rate of each variant in the file.
PathStats ==
  [v \in DOMAIN results.rates |-> <<results.rates[v].successes, results.rates[v].trials>>]

EvalNext ==
  \/ StartEvaluation \/ StartFromScratch \/ NextItem \/ AddRecord \/ Crash \/ Summarize

EvalSpec == EvalInit /\ [][EvalNext]_evalVars

-----------------------------------------------------------------------------

\* How often each item was measured again.
Again == [i \in Item |-> IF measured[i] = 0 THEN 0 ELSE measured[i] - 1]

(***************************************************************************)
(* The records that are summarized are one for every work item, its latest *)
(* measurement or one that was read back, whatever crashed before, and the *)
(* results file, as the guard reads it, cannot be read or judges every     *)
(* variant by all of its work items, also while a later evaluation runs.   *)
(* "the corresponding work item simply runs again": a crash costs at most  *)
(* two measurements, that of the item it hit and that of the one whose     *)
(* record is appended to the damaged line.                                 *)
(***************************************************************************)
ResultsComplete ==
  /\ loop.at = "done" =>
       /\ {r.item : r \in known} = Item
       /\ \A r, q \in known : r.item = q.item => r = q
       /\ \A r \in known : r.full /\ r.measured <= measured[r.item]
  /\ ResultsRead =>
       /\ DOMAIN PathStats = Variants
       /\ \A v \in Variants : PathStats[v][1] <= PathStats[v][2]
                            /\ PathStats[v][2] = Cardinality(Tasks) * Repeats
  /\ SumFunction(Again) <= 2 * crashes
=============================================================================
