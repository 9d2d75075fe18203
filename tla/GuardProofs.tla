----------------------------- MODULE GuardProofs -----------------------------
(***************************************************************************)
(* The ROI guard's types, that a pause judges runs its downgrade has not   *)
(* seen, that the log accounts for the state, and that a pause is left     *)
(* only by a resume: for any number of evaluations and resume calls, any   *)
(* runs and any restarts.                                                  *)
(***************************************************************************)
EXTENDS Guard, GatewayLemmas, FiniteSetTheorems, TLAPS

-----------------------------------------------------------------------------
\* Counting runs

\* As many as n members of a set have fewer than n members before them.
LEMMA FirstFew ==
  ASSUME NEW S, S \subseteq Nat, IsFiniteSet(S), NEW n \in Nat
  PROVE  Cardinality({i \in S : Cardinality({j \in S : j < i}) < n}) <= n
<1> DEFINE Before(i) == {j \in S : j < i}
           First == {i \in S : Cardinality(Before(i)) < n}
           rank == [i \in First |-> Cardinality(Before(i))]
<1>1. /\ IsFiniteSet(First) /\ Cardinality(First) \in Nat
      /\ \A i \in S : IsFiniteSet(Before(i)) /\ Cardinality(Before(i)) \in Nat
  <2>1. First \in SUBSET S /\ \A i \in S : Before(i) \in SUBSET S
    OBVIOUS
  <2> QED BY <2>1, FS_Subset, FS_CardinalityType
<1>2. IsFiniteSet(0 .. n - 1) /\ Cardinality(0 .. n - 1) = n
  <2>1. 0 \in Int /\ n - 1 \in Int
    OBVIOUS
  <2>2. Cardinality(0 .. n - 1) = IF 0 > n - 1 THEN 0 ELSE n - 1 - 0 + 1
    BY <2>1, FS_Interval
  <2> QED BY <2>1, <2>2, FS_Interval
<1>3. rank \in [First -> 0 .. n - 1]
  <2> SUFFICES ASSUME NEW i \in S, Cardinality(Before(i)) < n
               PROVE  Cardinality(Before(i)) \in 0 .. n - 1
    OBVIOUS
  <2>1. Cardinality(Before(i)) \in Nat
    BY <1>1
  <2> HIDE DEF Before
  <2> QED BY <2>1
<1>4. SUFFICES ASSUME n < Cardinality(First) PROVE FALSE
  BY <1>1
<1> HIDE DEF First
<1>5. PICK x \in First, y \in First : x # y /\ rank[x] = rank[y]
  <2> HIDE DEF rank
  <2>1. Cardinality(0 .. n - 1) < Cardinality(First)
    BY <1>2, <1>4
  <2> QED BY <1>1, <1>2, <1>3, <2>1, FS_PigeonHole
<1>6. First \subseteq S
  BY DEF First
<1>7. \A a \in First, b \in First : rank[a] = rank[b] => ~(a < b)
  <2> SUFFICES ASSUME NEW a \in First, NEW b \in First, rank[a] = rank[b], a < b
               PROVE  FALSE
    OBVIOUS
  <2>1. a \in S /\ b \in S /\ a \in Nat /\ b \in Nat
    BY <1>6
  <2>2. Before(a) \in SUBSET Before(b)
    <3> SUFFICES ASSUME NEW j \in S, j < a PROVE j < b
      OBVIOUS
    <3>1. j \in Nat
      OBVIOUS
    <3> QED BY <2>1, <3>1
  <2>3. a \in Before(b) /\ a \notin Before(a)
    BY <2>1
  <2>4. Cardinality(Before(a)) = Cardinality(Before(b))
    OBVIOUS
  <2>5. IsFiniteSet(Before(b))
    BY <1>1, <2>1
  <2> HIDE DEF Before
  <2>6. Before(b) = Before(a)
    BY <2>2, <2>4, <2>5, FS_Subset
  <2> QED BY <2>3, <2>6
<1>8. x \in Nat /\ y \in Nat
  BY <1>6
<1> QED BY <1>5, <1>7, <1>8

RunsTyped == runs \in Seq([net : Nets \cup {0}, done : BOOLEAN]) /\ Len(runs) <= MaxRuns

LEMMA FinishedFinite ==
  ASSUME RunsTyped
  PROVE  /\ Finished \subseteq 1 .. Len(runs) /\ Len(runs) \in Nat /\ Finished \subseteq 1 .. MaxRuns
         /\ IsFiniteSet(Finished)
         /\ Cardinality(Finished) \in 0 .. MaxRuns
         /\ \A i \in Finished : SeqNo(i) \in Nat /\ SeqNo(i) < Cardinality(Finished)
<1>1. MaxRuns \in Nat /\ Len(runs) \in Nat
  BY GuardAssumption DEF RunsTyped
<1>2. Finished \in SUBSET (1 .. Len(runs)) /\ Finished \in SUBSET (1 .. MaxRuns)
  BY <1>1 DEF Finished, RunsTyped
<1>3. IsFiniteSet(1 .. MaxRuns) /\ Cardinality(1 .. MaxRuns) = MaxRuns
  <2>1. Cardinality(1 .. MaxRuns) = IF 1 > MaxRuns THEN 0 ELSE MaxRuns - 1 + 1
    BY <1>1, FS_Interval
  <2> QED BY <1>1, <2>1, FS_Interval
<1>4. IsFiniteSet(Finished) /\ Cardinality(Finished) <= MaxRuns
  BY <1>2, <1>3, FS_Subset
<1>5. Cardinality(Finished) \in Nat
  BY <1>4, FS_CardinalityType
<1>6. ASSUME NEW i \in Finished
      PROVE  SeqNo(i) \in Nat /\ SeqNo(i) < Cardinality(Finished)
  <2> DEFINE B == {j \in Finished : j < i}
  <2>1. B \in SUBSET Finished /\ i \notin B
    BY <1>2
  <2>2. /\ IsFiniteSet(B) /\ Cardinality(B) <= Cardinality(Finished)
        /\ Cardinality(Finished) = Cardinality(B) => Finished = B
    <3> HIDE DEF B
    <3> QED BY <1>4, <2>1, FS_Subset
  <2>3. Cardinality(B) \in Nat
    BY <2>2, FS_CardinalityType
  <2>4. Cardinality(B) # Cardinality(Finished)
    BY <2>1, <2>2
  <2> QED BY <1>5, <2>2, <2>3, <2>4 DEF SeqNo
<1> QED BY <1>1, <1>2, <1>4, <1>5, <1>6

-----------------------------------------------------------------------------
\* The inductive invariant

InLoop(e) == pc[e] \in {"decided", "saved"}
NoneSaved == \A e \in Evaluator : pc[e] # "saved"

\* One evaluation at a time is between load_state and record_action.
LoopAlone == \A e, f \in Evaluator : InLoop(e) /\ InLoop(f) => e = f

\* The run that holds the lock is the last one that began.
ActiveIsLast == active # 0 => active = Len(runs)

\* Runs a decision judged count for the offset it stores.
Counted(judged, offset) == \A i \in judged : i \in Finished /\ SeqNo(i) < offset

\* A decision stores as offset the finished runs, all it judged among them.
DecisionCounts ==
  \A e \in Evaluator : InLoop(e) =>
    /\ decision[e].new.phase = PhaseAfter[decision[e].action]
    /\ decision[e].action # "none"
    /\ Counted(decision[e].judged, decision[e].new.offset)

\* A pause or a recovery is decided on runs its downgrade has not judged.
VerdictIsNew(action, judged) ==
  action \in {"pause", "recover"} =>
    /\ log # <<>> /\ Last(log).action = "downgrade"
    /\ Cardinality(judged) = MinRuns
    /\ judged \cap Last(log).judged = {}

DecisionIsNew ==
  ~torn => \A e \in Evaluator : InLoop(e) => VerdictIsNew(decision[e].action, decision[e].judged)

\* A decision that was saved is the row, unless somebody resumed since.
SavedIsRow ==
  ~torn => \A e \in Evaluator : pc[e] = "saved" =>
    /\ row.path = decision[e].new.path
    /\ row.phase # "normal" => row.phase = decision[e].new.phase
    /\ row.phase = "downgraded" => row.offset = decision[e].new.offset

\* Since a downgrade the offset has kept its runs out of the window.
OffsetCountsDowngrade ==
  ~torn /\ NoneSaved /\ row.phase = "downgraded" =>
    /\ log # <<>> /\ Last(log).action = "downgrade"
    /\ Counted(Last(log).judged, row.offset)

Judging == DecisionCounts /\ DecisionIsNew /\ SavedIsRow /\ OffsetCountsDowngrade
Control == TypeOK /\ LoopAlone /\ ActiveIsLast
IInv == Control /\ Judging /\ LogTellsState /\ PauseJudgesNewRuns

LEMMA TypedRuns == ASSUME TypeOK PROVE RunsTyped
  BY DEF TypeOK, RunsTyped

LEMMA InitIInv == Init => IInv
<1> SUFFICES ASSUME Init PROVE IInv
  OBVIOUS
<1>1. InitialRow \in Row /\ NoDecision \in Decision
  BY GuardAssumption DEF InitialRow, Row, NoDecision, Decision, Action
<1>2. TypeOK
  <2>1. runs \in Seq([net : Nets \cup {0}, done : BOOLEAN]) /\ Len(runs) = 0
    BY DEF Init
  <2>2. log \in Seq([action : Action, from : Path, to : Path, judged : SUBSET (1 .. MaxRuns)])
    BY DEF Init
  <2>3. /\ decision \in [Evaluator -> Decision]
        /\ pc \in [Evaluator -> {"idle", "decided", "saved", "alerting"}]
        /\ resuming \in [Resumer -> Row \cup {NotLoaded}]
    BY <1>1 DEF Init
  <2>4. /\ expired \in 0 .. Len(runs) /\ active \in 0 .. Len(runs) /\ waiting \in 0 .. MaxWaiting
        /\ Len(runs) <= MaxRuns
    BY <2>1, GuardAssumption DEF Init
  <2> QED BY <1>1, <2>1, <2>2, <2>3, <2>4 DEF Init, TypeOK
<1>3. \A e \in Evaluator : ~InLoop(e)
  BY DEF Init, InLoop
<1>4. Judging
  BY <1>3 DEF Init, InitialRow, Judging, DecisionCounts, DecisionIsNew, SavedIsRow,
              OffsetCountsDowngrade, InLoop
<1> QED BY <1>2, <1>3, <1>4 DEF Init, InitialRow, IInv, Control, LoopAlone, ActiveIsLast,
              LogTellsState, PauseJudgesNewRuns

-----------------------------------------------------------------------------
\* Steps that leave the decisions, the row and the log alone

\* What the other parts say depends on these only.
LEMMA JudgingKept ==
  ASSUME Judging, LogTellsState, PauseJudgesNewRuns, UNCHANGED <<row, log, torn>>,
         \A e \in Evaluator : (pc'[e] = "saved" <=> pc[e] = "saved") /\ (InLoop(e)' => InLoop(e)),
         \A e \in Evaluator : InLoop(e)' => decision'[e] = decision[e],
         \A i \in Finished : i \in Finished' /\ SeqNo(i)' = SeqNo(i)
  PROVE  Judging' /\ LogTellsState' /\ PauseJudgesNewRuns'
<1>1. \A judged, offset : Counted(judged, offset) => Counted(judged, offset)'
  BY DEF Counted
<1>2. DecisionCounts'
  BY <1>1 DEF Judging, DecisionCounts
<1>3. DecisionIsNew'
  BY DEF Judging, DecisionIsNew, VerdictIsNew
<1>4. SavedIsRow'
  BY DEF Judging, SavedIsRow, InLoop
<1>5. OffsetCountsDowngrade'
  BY <1>1 DEF Judging, OffsetCountsDowngrade, NoneSaved
<1> QED BY <1>2, <1>3, <1>4, <1>5 DEF Judging, LogTellsState, PauseJudgesNewRuns

LEMMA SameRuns ==
  ASSUME UNCHANGED runs
  PROVE  Finished' = Finished /\ \A i \in Finished : i \in Finished' /\ SeqNo(i)' = SeqNo(i)
  BY DEF Finished, SeqNo

LEMMA NotifyKeeps == ASSUME IInv, NEW e \in Evaluator, Notify(e) PROVE IInv'
<1>1. pc' \in [Evaluator -> {"idle", "decided", "saved", "alerting"}] /\ TypeOK'
  BY DEF IInv, Control, TypeOK, Notify, queue
<1>2. \A f \in Evaluator : (pc'[f] = "saved" <=> pc[f] = "saved") /\ (InLoop(f)' => InLoop(f))
  BY DEF IInv, Control, TypeOK, Notify, InLoop
<1>3. Judging' /\ LogTellsState' /\ PauseJudgesNewRuns'
  BY <1>2, SameRuns, JudgingKept DEF IInv, Notify
<1> QED BY <1>1, <1>2, <1>3 DEF IInv, Control, LoopAlone, ActiveIsLast, Notify, queue

LEMMA LoadKeeps == ASSUME IInv, NEW t \in Resumer, LoadForResume(t) PROVE IInv'
<1>1. TypeOK'
  BY DEF IInv, Control, TypeOK, LoadForResume, queue, history
<1>2. \A f \in Evaluator : (pc'[f] = "saved" <=> pc[f] = "saved") /\ (InLoop(f)' <=> InLoop(f))
  BY DEF LoadForResume, InLoop
<1>3. Judging' /\ LogTellsState' /\ PauseJudgesNewRuns'
  BY <1>2, SameRuns, JudgingKept DEF IInv, LoadForResume, history
<1> QED BY <1>1, <1>2, <1>3 DEF IInv, Control, LoopAlone, ActiveIsLast, LoadForResume, queue

LEMMA AgeKeeps == ASSUME IInv, Age PROVE IInv'
<1>1. TypeOK'
  BY DEF IInv, Control, TypeOK, Age, queue, history
<1>2. \A f \in Evaluator : (pc'[f] = "saved" <=> pc[f] = "saved") /\ (InLoop(f)' <=> InLoop(f))
  BY DEF Age, InLoop
<1>3. Judging' /\ LogTellsState' /\ PauseJudgesNewRuns'
  BY <1>2, SameRuns, JudgingKept DEF IInv, Age, history
<1> QED BY <1>1, <1>2, <1>3 DEF IInv, Control, LoopAlone, ActiveIsLast, Age, queue

\* A run that begins is not finished.
LEMMA BeginKeeps ==
  ASSUME IInv, Begin, Len(runs) < MaxRuns
  PROVE  /\ runs' \in Seq([net : Nets \cup {0}, done : BOOLEAN]) /\ Len(runs') <= MaxRuns
         /\ Len(runs') = Len(runs) + 1 /\ Len(runs) \in Nat
         /\ active' = Len(runs')
         /\ \A i \in Finished : i \in Finished' /\ SeqNo(i)' = SeqNo(i)
<1>1. /\ runs \in Seq([net : Nets \cup {0}, done : BOOLEAN]) /\ Len(runs) \in Nat
      /\ MaxRuns \in Nat
  BY GuardAssumption DEF IInv, Control, TypeOK
<1>2. /\ runs' \in Seq([net : Nets \cup {0}, done : BOOLEAN]) /\ Len(runs') = Len(runs) + 1
      /\ runs'[Len(runs) + 1] = [net |-> 0, done |-> FALSE]
      /\ \A i \in 1 .. Len(runs) : runs'[i] = runs[i]
  BY <1>1 DEF Begin
<1>3. DOMAIN runs = 1 .. Len(runs) /\ DOMAIN runs' = 1 .. Len(runs) + 1
  BY <1>1, <1>2
<1>4. Finished' = Finished
  BY <1>1, <1>2, <1>3 DEF Finished
<1> QED BY <1>1, <1>2, <1>4 DEF Begin, SeqNo

LEMMA RequestKeeps == ASSUME IInv, Request PROVE IInv'
<1>1. CASE active = 0 /\ waiting = 0
  <2>1. /\ Begin /\ Len(runs) < MaxRuns
        /\ UNCHANGED <<row, expired, waiting, pc, decision, resuming, log, torn, alert>>
    BY <1>1 DEF Request, history
  <2>2. TypeOK' /\ ActiveIsLast'
    BY <2>1, BeginKeeps DEF IInv, Control, TypeOK, ActiveIsLast
  <2>3. \A f \in Evaluator : (pc'[f] = "saved" <=> pc[f] = "saved") /\ (InLoop(f)' <=> InLoop(f))
    BY <2>1 DEF InLoop
  <2>4. Judging' /\ LogTellsState' /\ PauseJudgesNewRuns'
    BY <2>1, <2>3, BeginKeeps, JudgingKept DEF IInv
  <2> QED BY <2>2, <2>3, <2>4 DEF IInv, Control, LoopAlone
<1>2. CASE ~(active = 0 /\ waiting = 0)
  <2>1. /\ waiting < MaxWaiting /\ waiting' = waiting + 1
        /\ UNCHANGED <<row, runs, expired, active, pc, decision, resuming, log, torn, alert>>
    BY <1>2 DEF Request, history
  <2>2. TypeOK' /\ ActiveIsLast'
    BY <2>1, GuardAssumption DEF IInv, Control, TypeOK, ActiveIsLast
  <2>3. \A f \in Evaluator : (pc'[f] = "saved" <=> pc[f] = "saved") /\ (InLoop(f)' <=> InLoop(f))
    BY <2>1 DEF InLoop
  <2>4. Judging' /\ LogTellsState' /\ PauseJudgesNewRuns'
    BY <2>1, <2>3, SameRuns, JudgingKept DEF IInv
  <2> QED BY <2>2, <2>3, <2>4 DEF IInv, Control, LoopAlone
<1> QED BY <1>1, <1>2

LEMMA DequeueKeeps == ASSUME IInv, Dequeue PROVE IInv'
<1>1. /\ Begin /\ Len(runs) < MaxRuns /\ waiting > 0 /\ waiting' = waiting - 1
      /\ UNCHANGED <<row, expired, pc, decision, resuming, log, torn, alert>>
  BY DEF Dequeue, history
<1>2. TypeOK' /\ ActiveIsLast'
  BY <1>1, BeginKeeps, GuardAssumption DEF IInv, Control, TypeOK, ActiveIsLast
<1>3. \A f \in Evaluator : (pc'[f] = "saved" <=> pc[f] = "saved") /\ (InLoop(f)' <=> InLoop(f))
  BY <1>1 DEF InLoop
<1>4. Judging' /\ LogTellsState' /\ PauseJudgesNewRuns'
  BY <1>1, <1>3, BeginKeeps, JudgingKept DEF IInv
<1> QED BY <1>2, <1>3, <1>4 DEF IInv, Control, LoopAlone

\* The run that finishes comes after all the finished ones.
LEMMA CompleteKeeps == ASSUME IInv, Complete PROVE IInv'
<1>1. /\ active # 0 /\ active' = 0
      /\ UNCHANGED <<row, expired, waiting, pc, decision, resuming, log, torn, alert>>
  BY DEF Complete, history
<1>2. PICK net \in Nets : runs' = [runs EXCEPT ![active] = [net |-> net, done |-> TRUE]]
  BY DEF Complete
<1>3. /\ runs \in Seq([net : Nets \cup {0}, done : BOOLEAN]) /\ Len(runs) \in Nat
      /\ active \in 1 .. Len(runs) /\ active = Len(runs) /\ DOMAIN runs = 1 .. Len(runs)
  BY <1>1 DEF IInv, Control, TypeOK, ActiveIsLast
<1>4. /\ runs' \in Seq([net : Nets \cup {0}, done : BOOLEAN]) /\ Len(runs') = Len(runs)
      /\ DOMAIN runs' = 1 .. Len(runs)
  BY <1>2, <1>3
<1>5. TypeOK' /\ ActiveIsLast'
  BY <1>1, <1>3, <1>4 DEF IInv, Control, TypeOK, ActiveIsLast
<1>6. Finished' = Finished \cup {active}
  BY <1>2, <1>3, <1>4 DEF Finished
<1>7. ASSUME NEW i \in Finished PROVE i \in Finished' /\ SeqNo(i)' = SeqNo(i)
  <2>1. i \in 1 .. Len(runs)
    BY <1>3 DEF Finished
  <2>2. {j \in Finished' : j < i} = {j \in Finished : j < i}
    BY <1>3, <1>6, <2>1
  <2> QED BY <1>6, <2>2 DEF SeqNo
<1>8. \A f \in Evaluator : (pc'[f] = "saved" <=> pc[f] = "saved") /\ (InLoop(f)' <=> InLoop(f))
  BY <1>1 DEF InLoop
<1>9. Judging' /\ LogTellsState' /\ PauseJudgesNewRuns'
  BY <1>1, <1>7, <1>8, JudgingKept DEF IInv
<1> QED BY <1>5, <1>8, <1>9 DEF IInv, Control, LoopAlone

LEMMA BreakKeeps == ASSUME IInv, Break PROVE IInv'
<1>1. TypeOK' /\ ActiveIsLast'
  BY DEF IInv, Control, TypeOK, Break, history, ActiveIsLast
<1>2. \A f \in Evaluator : (pc'[f] = "saved" <=> pc[f] = "saved") /\ (InLoop(f)' <=> InLoop(f))
  BY DEF Break, InLoop
<1>3. Judging' /\ LogTellsState' /\ PauseJudgesNewRuns'
  BY <1>2, SameRuns, JudgingKept DEF IInv, Break, history
<1> QED BY <1>1, <1>2, <1>3 DEF IInv, Control, LoopAlone

-----------------------------------------------------------------------------
\* The steps of a resume call

\* A resume that overwrites nothing changes the phase alone.
LEMMA ResumeKeeps == ASSUME IInv, NEW t \in Resumer, Resume(t) PROVE IInv'
<1>1. /\ resuming[t] \in Row
      /\ row' = [resuming[t] EXCEPT !.phase = "normal"]
      /\ resuming' = [resuming EXCEPT ![t] = NotLoaded]
      /\ torn' = (torn \/ row.offset # resuming[t].offset \/ row.path # resuming[t].path)
      /\ UNCHANGED <<runs, expired, active, waiting, pc, decision, log, alert>>
  BY DEF IInv, Control, TypeOK, Resume, queue
<1>2. row' \in Row /\ row'.phase = "normal" /\ row'.path = resuming[t].path
  BY <1>1 DEF Row
<1>3. TypeOK'
  BY <1>1, <1>2 DEF IInv, Control, TypeOK
<1>4. ~torn' => ~torn /\ row'.path = row.path
  BY <1>1, <1>2
<1>5. \A e \in Evaluator : InLoop(e)' <=> InLoop(e)
  BY <1>1 DEF InLoop
<1>6. \A judged, offset : Counted(judged, offset) => Counted(judged, offset)'
  BY <1>1 DEF Counted, Finished, SeqNo
<1>7. DecisionCounts'
  BY <1>1, <1>5, <1>6 DEF IInv, Judging, DecisionCounts
<1>8. DecisionIsNew'
  BY <1>1, <1>4, <1>5 DEF IInv, Judging, DecisionIsNew, VerdictIsNew
<1>9. SavedIsRow'
  BY <1>1, <1>2, <1>4 DEF IInv, Judging, SavedIsRow
<1>10. OffsetCountsDowngrade'
  BY <1>2 DEF OffsetCountsDowngrade
<1>11. LogTellsState'
  BY <1>1, <1>2, <1>4 DEF IInv, LogTellsState
<1>12. PauseJudgesNewRuns'
  BY <1>1, <1>4 DEF IInv, PauseJudgesNewRuns
<1> QED BY <1>1, <1>3, <1>5, <1>7, <1>8, <1>9, <1>10, <1>11, <1>12
        DEF IInv, Control, Judging, LoopAlone, ActiveIsLast

-----------------------------------------------------------------------------
\* The steps of an evaluation

\* A decision is taken on enough finished runs; in the downgraded phase on
\* exactly MinRuns, none of them counted by the offset.
LEMMA Decides ==
  ASSUME RunsTyped, row \in Row, expired \in 0 .. Len(runs),
         ActionFor(row, WindowFor(row)) # "none"
  PROVE  LET action == ActionFor(row, WindowFor(row))
             window == WindowFor(row)
         IN  /\ action \in Action
             /\ window \subseteq Finished
             /\ action \in {"pause", "recover"} =>
                  /\ row.phase = "downgraded" /\ Cardinality(window) = MinRuns
                  /\ \A i \in window : ~(SeqNo(i) < row.offset)
<1> DEFINE window == WindowFor(row)
           action == ActionFor(row, window)
           since == {i \in Trailing : SeqNo(i) >= row.offset}
           first == {i \in since : Cardinality({j \in since : j < i}) < MinRuns}
<1>1. MinRuns \in Nat /\ row.offset \in Nat
  BY GuardAssumption DEF Row
<1>2. Trailing \subseteq Finished /\ Finished \subseteq Nat /\ IsFiniteSet(Finished)
  BY FinishedFinite DEF Trailing
<1>3. window \subseteq Finished
  BY <1>2 DEF WindowFor
<1>4. row.phase = "downgraded" => window = first
  BY DEF WindowFor
<1>5. IsFiniteSet(window) /\ Cardinality(window) \in Nat
  <2> HIDE DEF window
  <2> QED BY <1>2, <1>3, FS_Subset, FS_CardinalityType
<1>6. /\ action \in Action
      /\ action # "none" => ~(Cardinality(window) < MinRuns)
      /\ action \in {"pause", "recover"} => row.phase = "downgraded"
  <2> HIDE DEF window
  <2> QED BY DEF ActionFor, Action, Row
<1>7. ASSUME row.phase = "downgraded" PROVE Cardinality(window) <= MinRuns
  <2>1. since \subseteq Nat /\ since \in SUBSET Finished
    BY <1>2
  <2>2. IsFiniteSet(since)
    <3> HIDE DEF since
    <3> QED BY <1>2, <2>1, FS_Subset
  <2>3. Cardinality(first) <= MinRuns
    <3> HIDE DEF since
    <3> QED BY <1>1, <2>1, <2>2, FirstFew
  <2> QED BY <1>4, <1>7, <2>3
<1>8. ASSUME row.phase = "downgraded" PROVE \A i \in window : ~(SeqNo(i) < row.offset)
  <2>1. \A i \in window : i \in Finished /\ SeqNo(i) >= row.offset
    BY <1>2, <1>4, <1>8
  <2> HIDE DEF window
  <2> QED BY <1>1, <2>1, FinishedFinite
<1>9. action # "none"
  OBVIOUS
<1> HIDE DEF window, action
<1>10. action \in {"pause", "recover"} => Cardinality(window) = MinRuns
  BY <1>1, <1>5, <1>6, <1>7, <1>9
<1> QED BY <1>3, <1>6, <1>8, <1>10 DEF window, action

LEMMA PathTyped ==
  ASSUME NEW s \in Row, NEW action, NEW stats \in Stats
  PROVE  PathAfter(s, action, stats) \in Path
  BY GuardAssumption DEF PathAfter, CheapestQualifying, Row

LEMMA EvaluateKeeps == ASSUME IInv, NEW e \in Evaluator, Evaluate(e) PROVE IInv'
<1> DEFINE window == WindowFor(row)
           action == ActionFor(row, window)
<1>1. /\ LoopFree /\ pc[e] = "idle" /\ action # "none"
      /\ pc' = [pc EXCEPT ![e] = "decided"]
      /\ UNCHANGED <<row, runs, expired, active, waiting, resuming, log, torn, alert>>
  BY DEF Evaluate, queue, history
<1>2. PICK stats \in Stats :
        decision' = [decision EXCEPT ![e] =
          [action |-> action, old |-> row, judged |-> window,
           new |-> [path |-> PathAfter(row, action, stats),
                    phase |-> PhaseAfter[action], offset |-> Cardinality(Finished)]]]
  BY DEF Evaluate
<1>3. RunsTyped /\ row \in Row /\ expired \in 0 .. Len(runs)
  BY TypedRuns DEF IInv, Control, TypeOK
<1>4. /\ action \in Action /\ window \subseteq Finished
      /\ action \in {"pause", "recover"} =>
           /\ row.phase = "downgraded" /\ Cardinality(window) = MinRuns
           /\ \A i \in window : ~(SeqNo(i) < row.offset)
  BY <1>1, <1>3, Decides
<1> HIDE DEF action, window
<1>5. PathAfter(row, action, stats) \in Path
  BY <1>3, PathTyped
<1>6. PhaseAfter[action] \in {"normal", "downgraded", "paused"}
  BY <1>1, <1>4 DEF PhaseAfter, Action
<1>7. Finished \subseteq 1 .. MaxRuns /\ Cardinality(Finished) \in 0 .. MaxRuns
  BY <1>3, FinishedFinite
<1> DEFINE made == [action |-> action, old |-> row, judged |-> window,
                    new |-> [path |-> PathAfter(row, action, stats),
                             phase |-> PhaseAfter[action], offset |-> Cardinality(Finished)]]
<1>8. made \in Decision
  <2>1. window \in SUBSET (1 .. MaxRuns)
    BY <1>4, <1>7
  <2>2. made.new \in Row
    BY <1>5, <1>6, <1>7 DEF Row
  <2> QED BY <1>3, <1>4, <2>1, <2>2 DEF Decision
<1>9. decision' = [decision EXCEPT ![e] = made]
  BY <1>2
<1>10. /\ made.action = action /\ made.judged = window /\ made.new.phase = PhaseAfter[action]
       /\ made.new.offset = Cardinality(Finished)
  OBVIOUS
<1> HIDE DEF made
<1>11. TypeOK'
  BY <1>1, <1>8, <1>9 DEF IInv, Control, TypeOK
<1>12. \A f \in Evaluator : ~InLoop(f) /\ (InLoop(f)' => f = e) /\ pc'[f] # "saved"
  BY <1>1 DEF IInv, Control, TypeOK, LoopFree, InLoop
<1>13. decision'[e] = made
  BY <1>9 DEF IInv, Control, TypeOK
<1>14. \A judged, offset : Counted(judged, offset) => Counted(judged, offset)'
  BY <1>1 DEF Counted, Finished, SeqNo
<1>15. Counted(window, Cardinality(Finished))
  BY <1>3, <1>4, FinishedFinite DEF Counted
<1>16. DecisionCounts'
  BY <1>1, <1>10, <1>12, <1>13, <1>14, <1>15 DEF DecisionCounts
<1>17. NoneSaved
  BY <1>12 DEF NoneSaved, InLoop
<1>18. ~torn => VerdictIsNew(action, window)
  BY <1>4, <1>17 DEF IInv, Judging, OffsetCountsDowngrade, VerdictIsNew, Counted
<1>19. DecisionIsNew'
  BY <1>1, <1>10, <1>12, <1>13, <1>18 DEF DecisionIsNew, VerdictIsNew
<1>20. SavedIsRow'
  BY <1>12 DEF SavedIsRow
<1>21. OffsetCountsDowngrade'
  BY <1>1, <1>14, <1>17 DEF IInv, Judging, OffsetCountsDowngrade
<1>22. LogTellsState'
  BY <1>1, <1>12, <1>17 DEF IInv, LogTellsState, NoneSaved
<1>23. PauseJudgesNewRuns'
  BY <1>1 DEF IInv, PauseJudgesNewRuns
<1> QED BY <1>1, <1>11, <1>12, <1>16, <1>19, <1>20, <1>21, <1>22, <1>23
        DEF IInv, Control, Judging, LoopAlone, ActiveIsLast

LEMMA SaveKeeps == ASSUME IInv, NEW e \in Evaluator, Save(e) PROVE IInv'
<1>1. /\ pc[e] = "decided" /\ row' = decision[e].new /\ pc' = [pc EXCEPT ![e] = "saved"]
      /\ alert' \in {alert, "owed"}
      /\ UNCHANGED <<runs, expired, active, waiting, decision, resuming, log, torn>>
  BY DEF Save, queue
<1>2. decision[e] \in Decision
  BY DEF IInv, Control, TypeOK
<1>3. TypeOK'
  BY <1>1, <1>2 DEF IInv, Control, TypeOK, Decision
<1>4. \A f \in Evaluator : (InLoop(f)' => InLoop(f) /\ f = e)
  BY <1>1 DEF IInv, Control, TypeOK, LoopAlone, InLoop
<1>5. ~NoneSaved'
  BY <1>1 DEF IInv, Control, TypeOK, NoneSaved
<1>6. DecisionCounts'
  BY <1>1, <1>4 DEF IInv, Judging, DecisionCounts, Counted, Finished, SeqNo
<1>7. DecisionIsNew'
  BY <1>1, <1>4 DEF IInv, Judging, DecisionIsNew, VerdictIsNew
<1>8. SavedIsRow'
  BY <1>1, <1>4 DEF SavedIsRow, InLoop
<1>9. OffsetCountsDowngrade' /\ LogTellsState'
  BY <1>5 DEF OffsetCountsDowngrade, LogTellsState, NoneSaved
<1>10. PauseJudgesNewRuns'
  BY <1>1 DEF IInv, PauseJudgesNewRuns
<1> QED BY <1>1, <1>3, <1>4, <1>6, <1>7, <1>8, <1>9, <1>10
        DEF IInv, Control, Judging, LoopAlone, ActiveIsLast

LEMMA RecordKeeps == ASSUME IInv, NEW e \in Evaluator, Record(e) PROVE IInv'
<1> DEFINE entry == [action |-> decision[e].action, from |-> decision[e].old.path,
                     to |-> decision[e].new.path, judged |-> decision[e].judged]
<1>1. /\ pc[e] = "saved" /\ log' = Append(log, entry)
      /\ pc' = [pc EXCEPT ![e] = IF decision[e].action = "pause" THEN "alerting" ELSE "idle"]
      /\ decision' = [decision EXCEPT ![e] = NoDecision]
      /\ UNCHANGED <<row, runs, expired, active, waiting, resuming, torn, alert>>
  BY DEF Record, queue
<1>2. decision[e] \in Decision /\ NoDecision \in Decision
  BY GuardAssumption DEF IInv, Control, TypeOK, NoDecision, Decision, Action, InitialRow, Row
<1> DEFINE Entry == [action : Action, from : Path, to : Path, judged : SUBSET (1 .. MaxRuns)]
<1>3. entry \in Entry /\ log \in Seq(Entry)
  BY <1>2 DEF IInv, Control, TypeOK, Decision, Row
<1>4. /\ log' \in Seq(Entry) /\ Len(log') = Len(log) + 1 /\ log' # <<>> /\ Last(log') = entry
      /\ log'[Len(log) + 1] = entry /\ \A i \in 1 .. Len(log) : log'[i] = log[i]
      /\ DOMAIN log = 1 .. Len(log) /\ DOMAIN log' = 1 .. Len(log) + 1 /\ Len(log) \in Nat
  <2> HIDE DEF entry, Entry
  <2>1. /\ log' \in Seq(Entry) /\ Len(log') = Len(log) + 1 /\ Len(log) \in Nat
        /\ log'[Len(log) + 1] = entry /\ \A i \in 1 .. Len(log) : log'[i] = log[i]
    BY <1>1, <1>3
  <2> QED BY <1>3, <2>1 DEF Last
<1>5. /\ entry.action = decision[e].action /\ entry.to = decision[e].new.path
      /\ entry.judged = decision[e].judged
  OBVIOUS
<1>6. TypeOK'
  BY <1>1, <1>2, <1>4 DEF IInv, Control, TypeOK
<1> HIDE DEF entry, Entry
<1>7. \A f \in Evaluator : ~InLoop(f)'
  BY <1>1 DEF IInv, Control, TypeOK, LoopAlone, InLoop
<1>8. DecisionCounts' /\ DecisionIsNew' /\ SavedIsRow'
  BY <1>7 DEF DecisionCounts, DecisionIsNew, SavedIsRow, InLoop
<1>9. /\ decision[e].new.phase = PhaseAfter[decision[e].action]
      /\ Counted(decision[e].judged, decision[e].new.offset)
      /\ decision[e].action \in Action \ {"none"}
  BY <1>1, <1>2 DEF IInv, Judging, DecisionCounts, InLoop, Decision
<1>10. ~torn =>
         /\ row.path = entry.to
         /\ row.phase # "normal" => row.phase = PhaseAfter[entry.action]
         /\ row.phase = "downgraded" => row.offset = decision[e].new.offset
  BY <1>1, <1>5, <1>9 DEF IInv, Judging, SavedIsRow
<1>11. OffsetCountsDowngrade'
  <2> SUFFICES ASSUME ~torn, row.phase = "downgraded"
               PROVE  /\ entry.action = "downgrade"
                      /\ \A i \in entry.judged : i \in Finished' /\ SeqNo(i)' < row.offset
    BY <1>1, <1>4 DEF OffsetCountsDowngrade, Counted
  <2>1. PhaseAfter[entry.action] = "downgraded" /\ entry.action \in Action \ {"none"}
    BY <1>5, <1>9, <1>10
  <2>2. entry.action = "downgrade"
    BY <2>1 DEF PhaseAfter, Action
  <2>3. Counted(entry.judged, row.offset)
    BY <1>5, <1>9, <1>10
  <2> QED BY <1>1, <2>2, <2>3 DEF Counted, Finished, SeqNo
<1>12. LogTellsState'
  BY <1>1, <1>4, <1>10 DEF LogTellsState
<1>13. PauseJudgesNewRuns'
  <2> SUFFICES ASSUME ~torn, NEW i \in DOMAIN log', log'[i].action \in {"pause", "recover"}
               PROVE  /\ i > 1 /\ log'[i - 1].action = "downgrade"
                      /\ Cardinality(log'[i].judged) = MinRuns
                      /\ log'[i].judged \cap log'[i - 1].judged = {}
    BY <1>1 DEF PauseJudgesNewRuns
  <2>1. CASE i \in 1 .. Len(log)
    <3>1. log'[i] = log[i] /\ i \in DOMAIN log /\ i \in Nat
      BY <1>4, <2>1
    <3>2. /\ i > 1 /\ log[i - 1].action = "downgrade"
          /\ Cardinality(log[i].judged) = MinRuns
          /\ log[i].judged \cap log[i - 1].judged = {}
      BY <3>1 DEF IInv, PauseJudgesNewRuns
    <3>3. log'[i - 1] = log[i - 1]
      BY <1>4, <2>1, <3>1, <3>2
    <3> QED BY <3>1, <3>2, <3>3
  <2>2. CASE i = Len(log) + 1
    <3>1. log'[i] = entry
      BY <1>4, <2>2
    <3>2. VerdictIsNew(entry.action, entry.judged)
      BY <1>1, <1>5 DEF IInv, Judging, DecisionIsNew, InLoop
    <3>3. /\ log # <<>> /\ Last(log).action = "downgrade"
          /\ Cardinality(entry.judged) = MinRuns
          /\ entry.judged \cap Last(log).judged = {}
      BY <3>1, <3>2 DEF VerdictIsNew
    <3>4. Len(log) >= 1 /\ Last(log) = log[Len(log)]
      BY <1>3, <1>4, <3>3 DEF Last
    <3>5. i > 1 /\ log'[i - 1] = Last(log)
      BY <1>4, <2>2, <3>4
    <3> QED BY <3>1, <3>3, <3>5
  <2> QED BY <1>4, <2>1, <2>2
<1> QED BY <1>1, <1>6, <1>7, <1>8, <1>11, <1>12, <1>13
        DEF IInv, Control, Judging, LoopAlone, ActiveIsLast

\* A decision that is dropped once saved tears the log; before, nothing shows it.
LEMMA DropKeeps ==
  ASSUME IInv, UNCHANGED <<row, runs, log>>, torn' \in BOOLEAN,
         \A e \in Evaluator : (InLoop(e)' => InLoop(e) /\ decision'[e] = decision[e]),
         torn => torn',
         ~torn' => \A e \in Evaluator : pc[e] = "saved" <=> pc'[e] = "saved"
  PROVE  Judging' /\ LogTellsState' /\ PauseJudgesNewRuns'
<1>1. \A judged, offset : Counted(judged, offset) => Counted(judged, offset)'
  BY DEF Counted, Finished, SeqNo
<1>2. DecisionCounts'
  BY <1>1 DEF IInv, Judging, DecisionCounts
<1>3. DecisionIsNew'
  BY DEF IInv, Judging, DecisionIsNew, VerdictIsNew
<1>4. SavedIsRow'
  BY DEF IInv, Judging, SavedIsRow, InLoop
<1>5. OffsetCountsDowngrade'
  BY <1>1 DEF IInv, Judging, OffsetCountsDowngrade, NoneSaved
<1>6. LogTellsState'
  BY DEF IInv, LogTellsState
<1>7. PauseJudgesNewRuns'
  BY DEF IInv, PauseJudgesNewRuns
<1> QED BY <1>2, <1>3, <1>4, <1>5, <1>6, <1>7 DEF Judging

LEMMA AbortKeeps == ASSUME IInv, NEW e \in Evaluator, Abort(e) PROVE IInv'
<1>1. /\ InLoop(e) /\ pc' = [pc EXCEPT ![e] = "idle"]
      /\ decision' = [decision EXCEPT ![e] = NoDecision]
      /\ torn' = (torn \/ pc[e] = "saved")
      /\ UNCHANGED <<row, runs, expired, active, waiting, resuming, log, alert>>
  BY DEF Abort, InLoop, queue
<1>2. NoDecision \in Decision
  BY GuardAssumption DEF NoDecision, Decision, Action, InitialRow, Row
<1>3. TypeOK'
  BY <1>1, <1>2 DEF IInv, Control, TypeOK
<1>4. \A f \in Evaluator : ~InLoop(f)'
  BY <1>1 DEF IInv, Control, TypeOK, LoopAlone, InLoop
<1>5. ~torn' => \A f \in Evaluator : pc[f] = "saved" <=> pc'[f] = "saved"
  BY <1>1, <1>4 DEF IInv, Control, TypeOK, InLoop, LoopAlone
<1>6. Judging' /\ LogTellsState' /\ PauseJudgesNewRuns'
  BY <1>1, <1>3, <1>4, <1>5, DropKeeps DEF TypeOK
<1> QED BY <1>1, <1>3, <1>4, <1>6 DEF IInv, Control, LoopAlone, ActiveIsLast

LEMMA RestartKeeps == ASSUME IInv, Restart PROVE IInv'
<1>1. /\ pc' = [e \in Evaluator |-> "idle"] /\ decision' = [e \in Evaluator |-> NoDecision]
      /\ resuming' = [t \in Resumer |-> NotLoaded] /\ active' = 0 /\ waiting' = 0
      /\ torn' = (torn \/ \E e \in Evaluator : pc[e] = "saved")
      /\ UNCHANGED <<row, runs, expired, log, alert>>
  BY DEF Restart
<1>2. NoDecision \in Decision
  BY GuardAssumption DEF NoDecision, Decision, Action, InitialRow, Row
<1>3. TypeOK'
  <2>1. torn' \in BOOLEAN
    BY <1>1 DEF IInv, Control, TypeOK
  <2>2. /\ pc' \in [Evaluator -> {"idle", "decided", "saved", "alerting"}]
        /\ decision' \in [Evaluator -> Decision]
        /\ resuming' \in [Resumer -> Row \cup {NotLoaded}]
    BY <1>1, <1>2
  <2>3. active' \in 0 .. Len(runs) /\ waiting' \in 0 .. MaxWaiting
    BY <1>1, GuardAssumption DEF IInv, Control, TypeOK
  <2> QED BY <1>1, <2>1, <2>2, <2>3 DEF IInv, Control, TypeOK
<1>4. \A f \in Evaluator : ~InLoop(f)' /\ pc'[f] = "idle"
  BY <1>1 DEF InLoop
<1>5. (torn => torn') /\ (~torn' => \A f \in Evaluator : pc[f] = "saved" <=> pc'[f] = "saved")
  BY <1>1, <1>4
<1>6. Judging' /\ LogTellsState' /\ PauseJudgesNewRuns'
  BY <1>1, <1>3, <1>4, <1>5, DropKeeps DEF TypeOK
<1> QED BY <1>1, <1>3, <1>4, <1>6 DEF IInv, Control, LoopAlone, ActiveIsLast

LEMMA NextIInv == IInv /\ [Next]_vars => IInv'
<1> SUFFICES ASSUME IInv, [Next]_vars PROVE IInv'
  OBVIOUS
<1>1. CASE UNCHANGED vars
  <2>1. /\ UNCHANGED <<row, runs, expired, active, waiting, pc, decision, resuming, log, torn, alert>>
    BY <1>1 DEF vars
  <2>2. \A f \in Evaluator : (pc'[f] = "saved" <=> pc[f] = "saved") /\ (InLoop(f)' <=> InLoop(f))
    BY <2>1 DEF InLoop
  <2>3. Judging' /\ LogTellsState' /\ PauseJudgesNewRuns'
    BY <2>1, <2>2, SameRuns, JudgingKept DEF IInv
  <2> QED BY <2>1, <2>2, <2>3 DEF IInv, Control, TypeOK, LoopAlone, ActiveIsLast
<1>2. ASSUME NEW e \in Evaluator, Evaluate(e) \/ Save(e) \/ Record(e) \/ Notify(e) \/ Abort(e)
      PROVE  IInv'
  BY <1>2, EvaluateKeeps, SaveKeeps, RecordKeeps, NotifyKeeps, AbortKeeps
<1>3. ASSUME NEW t \in Resumer, LoadForResume(t) \/ Resume(t) PROVE IInv'
  BY <1>3, LoadKeeps, ResumeKeeps
<1>4. CASE Request \/ Dequeue \/ Complete \/ Break \/ Age \/ Restart
  BY <1>4, RequestKeeps, DequeueKeeps, CompleteKeeps, BreakKeeps, AgeKeeps, RestartKeeps
<1> QED BY <1>1, <1>2, <1>3, <1>4 DEF Next

LEMMA AlwaysIInv == Spec => []IInv
  BY InitIInv, NextIInv, PTL DEF Spec

-----------------------------------------------------------------------------

(***************************************************************************)
(* The workflow's row, its runs and every call's copy of them keep their   *)
(* types (guard/service.py, state_machine.py, api/workflows endpoints).    *)
(***************************************************************************)
THEOREM TypeCorrect == Spec => []TypeOK
<1>1. IInv => TypeOK
  BY DEF IInv, Control
<1> QED BY <1>1, AlwaysIInv, PTL

(***************************************************************************)
(* For any number of evaluations, resume calls, runs and restarts, and any *)
(* min_runs: a pause or a recovery follows its downgrade in the log and is *)
(* decided on exactly min_runs runs the downgrade has not judged           *)
(* (window_for's offset), unless an action was lost or overwritten.        *)
(***************************************************************************)
THEOREM PauseOnNewRuns == Spec => []PauseJudgesNewRuns
<1>1. IInv => PauseJudgesNewRuns
  BY DEF IInv
<1> QED BY <1>1, AlwaysIInv, PTL

(***************************************************************************)
(* For the same: between evaluations the action log accounts for the path  *)
(* and the phase load_state returns.                                       *)
(***************************************************************************)
THEOREM LogAccounts == Spec => []LogTellsState
<1>1. IInv => LogTellsState
  BY DEF IInv
<1> QED BY <1>1, AlwaysIInv, PTL

-----------------------------------------------------------------------------
\* What a step may do to a pause and to the stored offset

(***************************************************************************)
(* evaluate in state_machine.py, "paused until resumed": a pause is left   *)
(* by the step of a resume call alone, whatever an evaluation has decided  *)
(* before.  And the offset that separates judged runs from new ones never  *)
(* goes back, unless an action was lost or overwritten.                    *)
(***************************************************************************)
PauseHolds ==
  [][/\ row.phase = "paused" /\ row'.phase # "paused" =>
          \E t \in Resumer : resuming[t] # NotLoaded /\ resuming'[t] = NotLoaded
     /\ ~torn' => row.offset <= row'.offset]_vars

\* Nobody pauses a workflow between an evaluation's load_state and its save_state,
\* and no run ends there.
DecidedIsCurrent ==
  \A e \in Evaluator : pc[e] = "decided" =>
    /\ row.phase # "paused"
    /\ decision[e].new.offset = Cardinality(Finished)

OffsetIsReached == ~torn => row.offset <= Cardinality(Finished)

Current == DecidedIsCurrent /\ OffsetIsReached

\* A step that leaves the row and the finished runs alone, and decides nothing.
LEMMA CurrentKept ==
  ASSUME Current, row' = row, torn => torn', Cardinality(Finished)' = Cardinality(Finished),
         \A e \in Evaluator : pc'[e] = "decided" => pc[e] = "decided" /\ decision'[e] = decision[e]
  PROVE  Current'
  BY DEF Current, DecidedIsCurrent, OffsetIsReached

LEMMA BeginFinishesNone == ASSUME IInv, Begin PROVE Finished' = Finished
<1>1. runs \in Seq([net : Nets \cup {0}, done : BOOLEAN]) /\ Len(runs) \in Nat
  BY DEF IInv, Control, TypeOK
<1>2. /\ Len(runs') = Len(runs) + 1
      /\ runs'[Len(runs) + 1] = [net |-> 0, done |-> FALSE]
      /\ \A i \in 1 .. Len(runs) : runs'[i] = runs[i]
      /\ DOMAIN runs = 1 .. Len(runs) /\ DOMAIN runs' = 1 .. Len(runs) + 1
  BY <1>1 DEF Begin
<1> QED BY <1>1, <1>2 DEF Finished

LEMMA InitCurrent == Init => Current
<1> SUFFICES ASSUME Init PROVE Current
  OBVIOUS
<1>1. Finished = {}
  BY DEF Init, Finished
<1>2. Cardinality(Finished) = 0
  BY <1>1, FS_EmptySet
<1> QED BY <1>2 DEF Init, InitialRow, Current, DecidedIsCurrent, OffsetIsReached

LEMMA EvaluateCurrent == ASSUME IInv, Current, NEW e \in Evaluator, Evaluate(e) PROVE Current'
<1>1. /\ LoopFree /\ pc' = [pc EXCEPT ![e] = "decided"]
      /\ UNCHANGED <<row, runs, torn>>
  BY DEF Evaluate, queue, history
<1>2. row.phase # "paused"
  BY DEF Evaluate, ActionFor
<1>3. decision'[e].new.offset = Cardinality(Finished)
  BY DEF Evaluate, IInv, Control, TypeOK
<1>4. Finished' = Finished
  BY <1>1, SameRuns
<1>5. \A f \in Evaluator : pc'[f] = "decided" => f = e
  BY <1>1 DEF LoopFree, IInv, Control, TypeOK
<1> QED BY <1>1, <1>2, <1>3, <1>4, <1>5 DEF Current, DecidedIsCurrent, OffsetIsReached

LEMMA SaveCurrent == ASSUME IInv, Current, NEW e \in Evaluator, Save(e) PROVE Current'
<1>1. /\ pc[e] = "decided" /\ row' = decision[e].new
      /\ pc' = [pc EXCEPT ![e] = "saved"] /\ UNCHANGED <<runs, decision, torn>>
  BY DEF Save, queue
<1>2. \A f \in Evaluator : pc'[f] # "decided"
  BY <1>1 DEF IInv, Control, TypeOK, LoopAlone, InLoop
<1>3. row'.offset = Cardinality(Finished) /\ Finished' = Finished
  BY <1>1, SameRuns DEF Current, DecidedIsCurrent
<1>4. Cardinality(Finished) \in Nat
  BY TypedRuns, FinishedFinite DEF IInv, Control
<1> QED BY <1>2, <1>3, <1>4 DEF Current, DecidedIsCurrent, OffsetIsReached

LEMMA ResumeCurrent == ASSUME IInv, Current, NEW t \in Resumer, Resume(t) PROVE Current'
<1>1. /\ resuming[t] \in Row /\ row' = [resuming[t] EXCEPT !.phase = "normal"]
      /\ torn' = (torn \/ row.offset # resuming[t].offset \/ row.path # resuming[t].path)
      /\ UNCHANGED <<runs, pc, decision>>
  BY DEF Resume, queue, IInv, Control, TypeOK
<1>2. row'.phase = "normal" /\ (~torn' => ~torn /\ row'.offset = row.offset)
  BY <1>1 DEF Row
<1>3. Finished' = Finished
  BY <1>1, SameRuns
<1> QED BY <1>1, <1>2, <1>3 DEF Current, DecidedIsCurrent, OffsetIsReached

LEMMA CompleteCurrent == ASSUME IInv, IInv', Current, Complete PROVE Current'
<1>1. UNCHANGED <<row, pc, decision, torn>>
  BY DEF Complete, history
<1>2. \A e \in Evaluator : pc'[e] # "decided"
  BY <1>1 DEF Complete, LoopFree
<1>3. Finished \subseteq Finished'
  <2>1. PICK net \in Nets : runs' = [runs EXCEPT ![active] = [net |-> net, done |-> TRUE]]
    BY DEF Complete
  <2> QED BY <2>1 DEF Finished, IInv, Control, TypeOK
<1>4. /\ IsFiniteSet(Finished') /\ Cardinality(Finished) \in Nat
      /\ Cardinality(Finished') \in Nat
  <2>1. Len(runs') \in Int /\ Finished' \subseteq 1 .. Len(runs')
    BY DEF IInv, Control, TypeOK, Finished
  <2>2. IsFiniteSet(1 .. Len(runs'))
    <3>1. 1 \in Int
      OBVIOUS
    <3> QED BY <2>1, <3>1, FS_Interval
  <2>3. IsFiniteSet(Finished')
    <3> DEFINE F == Finished'
    <3>1. F \in SUBSET (1 .. Len(runs'))
      BY <2>1
    <3> HIDE DEF F
    <3>2. IsFiniteSet(F)
      BY <2>2, <3>1, FS_Subset
    <3> QED BY <3>2 DEF F
  <2> QED BY <1>3, <2>3, FS_Subset, FS_CardinalityType
<1>5. Cardinality(Finished) <= Cardinality(Finished')
  BY <1>3, <1>4, FS_Subset
<1>6. row.offset \in Nat
  BY GuardAssumption DEF IInv, Control, TypeOK, Row
<1> QED BY <1>1, <1>2, <1>4, <1>5, <1>6 DEF Current, DecidedIsCurrent, OffsetIsReached

\* The steps that leave the row alone and finish no run.
LEMMA OtherCurrent ==
  ASSUME IInv, Current,
         \/ UNCHANGED vars
         \/ \E e \in Evaluator : Record(e) \/ Notify(e) \/ Abort(e)
         \/ \E t \in Resumer : LoadForResume(t)
         \/ Request \/ Dequeue \/ Break \/ Age \/ Restart
  PROVE  row' = row /\ Current'
<1>1. CASE UNCHANGED vars
  BY <1>1, SameRuns, CurrentKept DEF vars
<1>2. ASSUME NEW e \in Evaluator, Record(e) \/ Notify(e) \/ Abort(e)
      PROVE  row' = row /\ Current'
  <2>1. UNCHANGED <<row, runs>> /\ (torn => torn')
    <3>1. CASE Record(e) \/ Notify(e)
      BY <3>1 DEF Record, Notify
    <3>2. CASE Abort(e)
      BY <3>2 DEF Abort
    <3> QED BY <1>2, <3>1, <3>2
  <2>2. \A f \in Evaluator : pc'[f] = "decided" => pc[f] = "decided" /\ decision'[f] = decision[f]
    BY <1>2 DEF Record, Notify, Abort, IInv, Control, TypeOK
  <2> QED BY <2>1, <2>2, SameRuns, CurrentKept
<1>3. ASSUME NEW t \in Resumer, LoadForResume(t) PROVE row' = row /\ Current'
  BY <1>3, SameRuns, CurrentKept DEF LoadForResume, queue, history
<1>4. CASE Request \/ Dequeue
  <2>1. /\ UNCHANGED <<row, pc, decision, torn>> /\ (Begin \/ UNCHANGED runs)
    BY <1>4 DEF Request, Dequeue, history
  <2>2. Finished' = Finished
    BY <2>1, SameRuns, BeginFinishesNone
  <2> QED BY <2>1, <2>2, CurrentKept
<1>5. CASE Break \/ Age
  BY <1>5, SameRuns, CurrentKept DEF Break, Age, queue, history
<1>6. CASE Restart
  <2>1. UNCHANGED <<row, runs>> /\ (torn => torn') /\ \A f \in Evaluator : pc'[f] # "decided"
    BY <1>6 DEF Restart
  <2> QED BY <2>1, SameRuns, CurrentKept
<1> QED BY <1>1, <1>2, <1>3, <1>4, <1>5, <1>6

LEMMA NextCurrent == IInv /\ IInv' /\ Current /\ [Next]_vars => Current'
<1> SUFFICES ASSUME IInv, IInv', Current, [Next]_vars PROVE Current'
  OBVIOUS
<1> QED BY EvaluateCurrent, SaveCurrent, ResumeCurrent, CompleteCurrent, OtherCurrent DEF Next

(***************************************************************************)
(* For any number of evaluations, resume calls, runs and restarts: no      *)
(* evaluation lifts a pause, not even one that loaded the state before the *)
(* resume of an earlier pause, and the runs it has counted stay counted    *)
(* (state_machine.py's PAUSED, service.py's save_state).                   *)
(***************************************************************************)
THEOREM PauseIsHeld == Spec => PauseHolds
<1> DEFINE Held ==
      /\ row.phase = "paused" /\ row'.phase # "paused" =>
           \E t \in Resumer : resuming[t] # NotLoaded /\ resuming'[t] = NotLoaded
      /\ ~torn' => row.offset <= row'.offset
<1>1. IInv /\ IInv' /\ Current /\ [Next]_vars => Held
  <2> SUFFICES ASSUME IInv, IInv', Current, [Next]_vars PROVE Held
    OBVIOUS
  <2>0. row.offset \in Nat
    BY GuardAssumption DEF IInv, Control, TypeOK, Row
  <2>1. ASSUME row' = row PROVE Held
    BY <2>0, <2>1
  <2>2. ASSUME NEW e \in Evaluator, Save(e) PROVE Held
    <3>1. row.phase # "paused" /\ row'.offset = Cardinality(Finished) /\ torn' = torn
      BY <2>2 DEF Save, Current, DecidedIsCurrent
    <3> QED BY <3>1 DEF Current, OffsetIsReached
  <2>3. ASSUME NEW t \in Resumer, Resume(t) PROVE Held
    <3>1. resuming[t] # NotLoaded /\ resuming'[t] = NotLoaded
      BY <2>3 DEF Resume, IInv, Control, TypeOK
    <3>2. ~torn' => row'.offset = row.offset
      BY <2>3 DEF Resume, IInv, Control, TypeOK, Row
    <3> QED BY <2>0, <3>1, <3>2
  <2>4. ASSUME Complete \/ \E e \in Evaluator : Evaluate(e) PROVE row' = row
    BY <2>4 DEF Complete, Evaluate
  <2> QED BY <2>1, <2>2, <2>3, <2>4, OtherCurrent DEF Next
<1> QED BY <1>1, AlwaysIInv, InitCurrent, NextCurrent, PTL DEF Spec, PauseHolds

=============================================================================
