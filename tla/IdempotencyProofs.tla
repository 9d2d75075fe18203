-------------------------- MODULE IdempotencyProofs --------------------------
(***************************************************************************)
(* First-result-wins, one write, and the promise of WritePromise, for any  *)
(* number of calls and resets.  What the first and the last rest on is who *)
(* owns the row: while the workspace and the keys are at one, at most one  *)
(* call is between its claim and the end of its write, and the row is      *)
(* pending as long as one is; until the first reset nobody has returned a  *)
(* result the row does not hold.  One write is a count: a row answers for  *)
(* one write at most.                                                      *)
(***************************************************************************)
EXTENDS Idempotency, GatewayLemmas, FiniteSetTheorems, TLAPS

Where == {"idle", "claim", "poll", "write", "written", "release", "over"}

Typed ==
  /\ pc \in [Caller -> Where]
  /\ returned \in [Caller -> Caller \cup {Nobody}]
  /\ entry \in {"absent", "pending", "done"} /\ result \in Caller \cup {Nobody}
  /\ slips \in Nat /\ resets \in Nat /\ effects \in Nat
  /\ mode \in {"live", "sandbox", "wiped"}
  /\ mode = "wiped" => resets > 0
  /\ mode = "sandbox" /\ resets = 0 => slips = 0
  /\ \A c \in Caller : pc[c] # "over" => returned[c] = Nobody

\* The claim is one call's, and the row says so.
OneOwner ==
  /\ \A c, d \in Holders : c = d
  /\ Holders # {} => entry = "pending"

\* What has been returned is what the row holds.
RowTells ==
  /\ entry # "done" => \A c \in Caller : returned[c] = Nobody
  /\ entry = "done" =>
       /\ result \in Caller /\ returned[result] = result
       /\ \A c \in Caller : returned[c] \in {Nobody, result}

Inv == Typed /\ (Whole => OneOwner) /\ (resets = 0 => RowTells)

LEMMA InitInv == Init => Inv
  BY DEF Init, Inv, Typed, Where, OneOwner, RowTells, Holders

\* The types need nothing but themselves.
LEMMA TypedStep == ASSUME Typed, [Next]_vars PROVE Typed'
<1>1. Holders \subseteq Caller
  BY DEF Holders
<1>2. Cardinality(Holders) \in Nat
  BY <1>1, FS_Subset, FS_CardinalityType, IdempotencyAssumption
<1>3. CASE UNCHANGED vars
  BY <1>3 DEF Typed, vars, row
<1>4. ASSUME NEW c \in Caller, Start(c) \/ Step(c) \/ Die(c) PROVE Typed'
  <2>1. CASE Start(c)
    BY <2>1 DEF Typed, Where, Start, Goto, row
  <2>2. CASE Claim(c)
    BY <2>2 DEF Typed, Where, Claim, Goto
  <2>3. CASE Poll(c)
    BY <2>3 DEF Typed, Where, Poll, Goto, Return, row
  <2>4. CASE TimeOut(c)
    BY <2>4 DEF Typed, Where, TimeOut, Goto, row
  <2>5. CASE Apply(c)
    BY <2>5 DEF Typed, Where, Apply, Goto, row
  <2>6. CASE Raise(c)
    BY <2>6 DEF Typed, Where, Raise, Goto, row
  <2>7. CASE Release(c)
    BY <2>7 DEF Typed, Where, Release, Goto
  <2>8. CASE Complete(c)
    BY <2>8 DEF Typed, Where, Complete, Goto, Return, row
  <2>9. CASE Die(c)
    BY <2>9 DEF Typed, Where, Die, Goto, row
  <2> QED BY <1>4, <2>1, <2>2, <2>3, <2>4, <2>5, <2>6, <2>7, <2>8, <2>9 DEF Step
<1>5. CASE Wipe
  BY <1>5 DEF Typed, Wipe, row
<1>6. CASE Clear
  BY <1>2, <1>6 DEF Typed, Clear
<1> QED BY <1>3, <1>4, <1>5, <1>6 DEF Next

\* Until the first reset, the workspace and the keys are at one.
LEMMA WholeAtFirst == Typed /\ resets = 0 => Whole
  BY DEF Typed, Whole

\* What a reset has parted stays parted, unless nothing was written beside it.
LEMMA WholeBefore == ASSUME Typed, [Next]_vars, Whole', ~Clear PROVE Whole /\ ~Wipe
<1>1. CASE UNCHANGED vars
  BY <1>1 DEF Whole, Wipe, vars
<1>2. ASSUME NEW c \in Caller, Start(c) \/ Step(c) \/ Die(c) PROVE Whole /\ ~Wipe
  BY <1>2 DEF Typed, Whole, Wipe, Start, Step, Claim, Poll, TimeOut, Apply, Raise, Release,
              Complete, Die
<1>3. ~Wipe
  BY DEF Whole, Wipe
<1> QED BY <1>1, <1>2, <1>3 DEF Next

LEMMA CleanReset ==
  ASSUME Typed, Clear, Whole' PROVE slips = 0 /\ effects = 0 /\ Holders = {} /\ Holders' = {}
<1>1. Holders \in SUBSET Caller
  BY DEF Holders
<1>2. IsFiniteSet(Holders) /\ Cardinality(Holders) \in Nat
  BY <1>1, FS_Subset, FS_CardinalityType, IdempotencyAssumption
<1>3. slips + effects + Cardinality(Holders) = 0
  BY DEF Clear, Whole
<1>4. slips = 0 /\ effects = 0 /\ Cardinality(Holders) = 0
  BY <1>2, <1>3 DEF Typed
<1>5. Holders = {}
  BY <1>2, <1>4, FS_EmptySet
<1> QED BY <1>4, <1>5 DEF Clear, Holders

\* No step of a call disturbs the ownership of the row.
LEMMA OwnerStep ==
  ASSUME Typed, OneOwner, NEW c \in Caller, Start(c) \/ Step(c) \/ Die(c)
  PROVE  OneOwner'
<1>1. \A d \in Caller :
        d \in Holders <=> pc[d] \in {"write", "written", "release"}
  BY DEF Holders
<1>2. \A d \in Caller :
        d \in Holders' <=> pc'[d] \in {"write", "written", "release"}
  BY DEF Holders
<1>3. Holders \subseteq Caller /\ Holders' \subseteq Caller
  BY DEF Holders
\* Steps that take no claim and leave the row alone.
<1>4. ASSUME UNCHANGED row, Holders' \subseteq Holders PROVE OneOwner'
  BY <1>4 DEF OneOwner, row
<1>5. CASE Start(c)
  BY <1>1, <1>2, <1>3, <1>4, <1>5 DEF Typed, Start, Goto
<1>6. CASE Claim(c)
  <2>1. CASE entry = "absent"
    <3>1. Holders = {}
      BY <2>1 DEF OneOwner
    <3>2. Holders' = {c} /\ entry' = "pending"
      BY <1>1, <1>2, <1>3, <1>6, <2>1, <3>1 DEF Typed, Claim, Goto
    <3> QED BY <3>2 DEF OneOwner
  <2>2. CASE entry # "absent"
    BY <1>1, <1>2, <1>3, <1>4, <1>6, <2>2 DEF Typed, Claim, Goto, row
  <2> QED BY <2>1, <2>2
<1>7. CASE Poll(c)
  BY <1>1, <1>2, <1>3, <1>4, <1>7 DEF Typed, Poll, Goto, Return
<1>8. CASE TimeOut(c)
  BY <1>1, <1>2, <1>3, <1>4, <1>8 DEF Typed, TimeOut, Goto
<1>9. CASE Apply(c)
  BY <1>1, <1>2, <1>3, <1>4, <1>9 DEF Typed, Apply, Goto
<1>10. CASE Raise(c)
  BY <1>1, <1>2, <1>3, <1>4, <1>10 DEF Typed, Raise, Goto
<1>11. CASE Release(c) \/ Complete(c)
  <2>1. Holders = {c}
    BY <1>1, <1>11 DEF Release, Complete, OneOwner
  <2>2. Holders' = {}
    BY <1>1, <1>2, <1>3, <1>11, <2>1 DEF Typed, Release, Complete, Return, Goto
  <2> QED BY <2>2 DEF OneOwner
<1>12. CASE Die(c)
  BY <1>1, <1>2, <1>3, <1>4, <1>12 DEF Typed, Die, Goto
<1> QED BY <1>5, <1>6, <1>7, <1>8, <1>9, <1>10, <1>11, <1>12 DEF Step

\* What a call returns is what the row holds.
LEMMA RowStep ==
  ASSUME Typed, OneOwner, RowTells, NEW c \in Caller, Start(c) \/ Step(c) \/ Die(c)
  PROVE  RowTells'
<1>1. Nobody \notin Caller
  BY IdempotencyAssumption
<1>2. CASE UNCHANGED <<row, returned>>
  BY <1>2 DEF RowTells, row
<1>3. CASE Claim(c)
  BY <1>2, <1>3 DEF Claim, RowTells, row
<1>4. CASE Poll(c) /\ entry = "done"
  <2>1. UNCHANGED row /\ returned' = [returned EXCEPT ![c] = result]
    BY <1>4 DEF Poll, Return
  <2>2. /\ \A d \in Caller : returned'[d] \in {Nobody, result}
        /\ returned'[result] = result
    BY <1>4, <2>1 DEF Typed, RowTells
  <2> QED BY <1>4, <2>1, <2>2 DEF RowTells, row
<1>5. CASE Release(c)
  <2>1. entry = "pending"
    BY <1>5 DEF Release, OneOwner, Holders
  <2> QED BY <1>5, <2>1 DEF Release, RowTells
<1>6. CASE Complete(c)
  <2>1. entry = "pending"
    BY <1>6 DEF Complete, OneOwner, Holders
  <2>2. entry' = "done" /\ result' = c /\ returned' = [returned EXCEPT ![c] = c]
    BY <1>6, <2>1 DEF Complete, Return
  <2>3. \A d \in Caller : returned'[d] = IF d = c THEN c ELSE Nobody
    BY <2>1, <2>2 DEF Typed, RowTells
  <2> QED BY <2>2, <2>3 DEF RowTells
<1> QED BY <1>2, <1>3, <1>4, <1>5, <1>6
    DEF Step, Start, Poll, TimeOut, Apply, Raise, Die

LEMMA InvStep == Inv /\ [Next]_vars => Inv'
<1> SUFFICES ASSUME Inv, [Next]_vars PROVE Inv'
  OBVIOUS
<1>1. Typed /\ Typed'
  BY TypedStep DEF Inv
<1>2. CASE UNCHANGED vars
  BY <1>1, <1>2 DEF Inv, Whole, OneOwner, RowTells, Holders, vars, row
<1>3. ASSUME NEW c \in Caller, Start(c) \/ Step(c) \/ Die(c) PROVE Inv'
  <2>1. ~Clear /\ resets' = resets
    BY <1>3 DEF Clear, Start, Step, Claim, Poll, TimeOut, Apply, Raise, Release, Complete, Die,
                Typed, Goto, Return
  <2>2. Whole' => Whole
    BY <1>1, <2>1, WholeBefore
  <2>3. Whole => OneOwner'
    BY <1>1, <1>3, OwnerStep DEF Inv
  <2>4. resets = 0 => RowTells'
    BY <1>1, <1>3, RowStep, WholeAtFirst DEF Inv
  <2> QED BY <1>1, <2>1, <2>2, <2>3, <2>4 DEF Inv
<1>4. CASE Wipe
  BY <1>1, <1>4 DEF Inv, Wipe, Whole, Typed
<1>5. CASE Clear
  <2>1. resets' # 0
    BY <1>1, <1>5 DEF Clear, Typed
  <2>2. Whole' => OneOwner'
    BY <1>1, <1>5, CleanReset DEF OneOwner
  <2> QED BY <1>1, <2>1, <2>2 DEF Inv
<1> QED BY <1>2, <1>3, <1>4, <1>5 DEF Next

(***************************************************************************)
(* First-result-wins (IdempotencyStore): all the calls with one key that   *)
(* return, return the result of the same one, which wrote it itself.       *)
(***************************************************************************)
THEOREM OneResult == Spec => []FirstResultWins
<1>1. Inv => FirstResultWins
  <2> SUFFICES ASSUME Inv, resets = 0, NEW c \in Caller, NEW d \in Caller,
                      returned[c] # Nobody, returned[d] # Nobody
               PROVE  returned[c] = returned[d] /\ returned[returned[c]] = returned[c]
    BY DEF FirstResultWins
  <2>1. entry = "done"
    BY DEF Inv, RowTells
  <2> QED BY <2>1 DEF Inv, RowTells
<1> QED BY InitInv, InvStep, <1>1, PTL DEF Spec

-----------------------------------------------------------------------------
\* How often the key is written

Within(places) == {c \in Caller : pc[c] \in places}
Number(places) == Cardinality(Within(places))

\* Calls that may still write, and those that will not any more.
Unwritten == {"idle", "claim", "poll", "write"}

\* Calls that go on to write or to delete the row.
Undecided == {"write", "release"}

\* Each call writes once at most.
WritesLeft == effects + Number(Unwritten) <= Cardinality(Caller)

\* A row is what stands between one write and the next: a write the store has not
\* lost track of, or a call on its way to one, has a row of its own.
RowPaysForWrite == effects + Number(Undecided) <= slips + (IF entry = "absent" THEN 0 ELSE 1)

CountInv == TypeOK /\ WritesLeft /\ RowPaysForWrite

LEMMA NumberTyped == ASSUME NEW places PROVE /\ IsFiniteSet(Within(places)) /\ Number(places) \in Nat
                                              /\ Number(places)' \in Nat
<1>1. Within(places) \in SUBSET Caller /\ Within(places)' \in SUBSET Caller
  BY DEF Within
<1> QED BY <1>1, FS_Subset, FS_CardinalityType, IdempotencyAssumption DEF Number

\* One call moves: the number changes by that call.
LEMMA NumberMoves ==
  ASSUME pc \in [Caller -> Where], NEW c \in Caller, NEW to, pc' = [pc EXCEPT ![c] = to], NEW places
  PROVE  Number(places)' = Number(places) + (IF to \in places THEN 1 ELSE 0)
                                          - (IF pc[c] \in places THEN 1 ELSE 0)
<1>1. \A d \in Caller : pc'[d] = IF d = c THEN to ELSE pc[d]
  OBVIOUS
<1>2. IsFiniteSet(Within(places)) /\ Number(places) \in Nat
  BY NumberTyped
<1>3. CASE to \in places
  <2>1. Within(places)' = Within(places) \cup {c}
    BY <1>1, <1>3 DEF Within
  <2>2. c \in Within(places) <=> pc[c] \in places
    BY DEF Within
  <2>3. Cardinality(Within(places) \cup {c}) =
          IF c \in Within(places) THEN Number(places) ELSE Number(places) + 1
    BY <1>2, FS_AddElement DEF Number
  <2>4. Number(places)' = Cardinality(Within(places) \cup {c})
    BY <2>1 DEF Number
  <2> QED BY <1>2, <1>3, <2>2, <2>3, <2>4
<1>4. CASE to \notin places
  <2>1. Within(places)' = Within(places) \ {c}
    BY <1>1, <1>4 DEF Within
  <2>2. c \in Within(places) <=> pc[c] \in places
    BY DEF Within
  <2>3. Cardinality(Within(places) \ {c}) =
          IF c \in Within(places) THEN Number(places) - 1 ELSE Number(places)
    BY <1>2, FS_RemoveElement DEF Number
  <2> QED BY <1>2, <1>4, <2>1, <2>2, <2>3 DEF Number
<1> QED BY <1>3, <1>4

LEMMA NumberStays ==
  ASSUME UNCHANGED pc PROVE Number(Unwritten)' = Number(Unwritten) /\ Number(Undecided)' = Number(Undecided)
  BY DEF Number, Within, Unwritten, Undecided

LEMMA InitCountInv == Init => CountInv
<1> SUFFICES ASSUME Init PROVE CountInv
  OBVIOUS
<1>1. Cardinality(Caller) \in Nat
  BY IdempotencyAssumption, FS_CardinalityType
<1>2. Within(Unwritten) = Caller /\ Within(Undecided) = {}
  BY DEF Init, Within, Unwritten, Undecided
<1>3. Number(Unwritten) = Cardinality(Caller) /\ Number(Undecided) = 0
  BY <1>2, FS_EmptySet DEF Number
<1>4. TypeOK
  <2>1. /\ pc \in [Caller -> {"idle", "claim", "poll", "write", "written", "release", "over"}]
        /\ returned \in [Caller -> Caller \cup {Nobody}]
    BY DEF Init
  <2> QED BY <1>1, <2>1, IdempotencyAssumption DEF Init, TypeOK
<1> QED BY <1>1, <1>3, <1>4 DEF Init, CountInv, WritesLeft, RowPaysForWrite

\* A step of a call.
LEMMA CallCounts == ASSUME CountInv, NEW c \in Caller, Start(c) \/ Step(c) \/ Die(c) PROVE CountInv'
<1>1. /\ Number(Unwritten) \in Nat /\ Number(Undecided) \in Nat /\ Cardinality(Caller) \in Nat
      /\ effects \in Nat /\ slips \in Nat /\ Nobody \notin Caller
  BY NumberTyped, IdempotencyAssumption, FS_CardinalityType DEF CountInv, TypeOK
<1>2. pc \in [Caller -> Where] /\ pc[c] \in Where
  BY DEF CountInv, TypeOK, Where
\* What is to be shown of a step, besides the types of what it assigns.
<1>3. ASSUME NEW to \in Where, pc' = [pc EXCEPT ![c] = to]
      PROVE  /\ Number(Unwritten)' = Number(Unwritten) + (IF to \in Unwritten THEN 1 ELSE 0)
                                                     - (IF pc[c] \in Unwritten THEN 1 ELSE 0)
             /\ Number(Undecided)' = Number(Undecided) + (IF to \in Undecided THEN 1 ELSE 0)
                                                     - (IF pc[c] \in Undecided THEN 1 ELSE 0)
             /\ pc' \in [Caller -> Where]
  BY <1>2, <1>3, NumberMoves
<1>4. \A d \in Caller : returned[d] \in Caller \cup {Nobody}
  BY DEF CountInv, TypeOK
<1>5. /\ effects + Number(Unwritten) <= Cardinality(Caller)
      /\ effects + Number(Undecided) <= slips + (IF entry = "absent" THEN 0 ELSE 1)
  BY DEF CountInv, WritesLeft, RowPaysForWrite
<1>6. /\ mode \in {"live", "sandbox", "wiped"} /\ entry \in {"absent", "pending", "done"}
      /\ result \in Caller \cup {Nobody} /\ (entry = "done" <=> result # Nobody)
      /\ returned \in [Caller -> Caller \cup {Nobody}] /\ resets \in 0 .. MaxResets
  BY DEF CountInv, TypeOK
<1> DEFINE Goal == /\ pc' \in [Caller -> Where]
                   /\ mode' \in {"live", "sandbox", "wiped"} /\ entry' \in {"absent", "pending", "done"}
                   /\ result' \in Caller \cup {Nobody} /\ (entry' = "done" <=> result' # Nobody)
                   /\ returned' \in [Caller -> Caller \cup {Nobody}] /\ resets' \in 0 .. MaxResets
                   /\ effects' \in Nat /\ slips' \in Nat
                   /\ effects' + Number(Unwritten)' <= Cardinality(Caller)
                   /\ effects' + Number(Undecided)' <= slips' + (IF entry' = "absent" THEN 0 ELSE 1)
<1>7. SUFFICES Goal
  <2>1. Goal => effects' <= Cardinality(Caller)
    <3>1. Number(Unwritten)' \in Nat
      BY NumberTyped
    <3> QED BY <1>1, <3>1
  <2>2. Goal => TypeOK'
    BY <1>1, <2>1 DEF TypeOK, Where
  <2> QED BY <2>2 DEF CountInv, WritesLeft, RowPaysForWrite
<1>8. CASE Start(c)
  BY <1>1, <1>2, <1>3, <1>5, <1>6, <1>8 DEF Start, Goto, row, Where, Unwritten, Undecided
<1>9. CASE Claim(c)
  BY <1>1, <1>2, <1>3, <1>5, <1>6, <1>9 DEF Claim, Goto, row, Where, Unwritten, Undecided
<1>10. CASE Poll(c)
  BY <1>1, <1>2, <1>3, <1>5, <1>6, <1>10 DEF Poll, Goto, Return, row, Where, Unwritten, Undecided
<1>11. CASE TimeOut(c)
  BY <1>1, <1>2, <1>3, <1>5, <1>6, <1>11 DEF TimeOut, Goto, row, Where, Unwritten, Undecided
<1>12. CASE Apply(c)
  BY <1>1, <1>2, <1>3, <1>5, <1>6, <1>12 DEF Apply, Goto, row, Where, Unwritten, Undecided
<1>13. CASE Raise(c)
  BY <1>1, <1>2, <1>3, <1>5, <1>6, <1>13 DEF Raise, Goto, row, Where, Unwritten, Undecided
<1>14. CASE Release(c)
  BY <1>1, <1>2, <1>3, <1>5, <1>6, <1>14 DEF Release, Goto, row, Where, Unwritten, Undecided
<1>15. CASE Complete(c)
  BY <1>1, <1>2, <1>3, <1>5, <1>6, <1>15 DEF Complete, Goto, Return, row, Where, Unwritten, Undecided
<1>16. CASE Die(c)
  BY <1>1, <1>2, <1>3, <1>5, <1>6, <1>16 DEF Die, Goto, row, Where, Unwritten, Undecided
<1> QED BY <1>8, <1>9, <1>10, <1>11, <1>12, <1>13, <1>14, <1>15, <1>16 DEF Step

LEMMA CountStep == CountInv /\ [Next]_vars => CountInv'
<1> SUFFICES ASSUME CountInv, [Next]_vars PROVE CountInv'
  OBVIOUS
<1>1. /\ Number(Unwritten) \in Nat /\ Number(Undecided) \in Nat /\ Cardinality(Caller) \in Nat
      /\ effects \in Nat /\ slips \in Nat
  BY NumberTyped, IdempotencyAssumption, FS_CardinalityType DEF CountInv, TypeOK
<1>2. CASE UNCHANGED vars
  BY <1>2, NumberStays DEF CountInv, TypeOK, WritesLeft, RowPaysForWrite, vars, row
<1>3. ASSUME NEW c \in Caller, Start(c) \/ Step(c) \/ Die(c) PROVE CountInv'
  BY <1>3, CallCounts
<1>4. CASE Wipe
  <2>1. /\ effects' = 0 /\ resets' = resets + 1 /\ resets < MaxResets /\ mode' = "wiped"
        /\ UNCHANGED <<entry, result, pc, returned, slips>>
    BY <1>4 DEF Wipe, row
  <2>2. /\ resets \in 0 .. MaxResets /\ MaxResets \in Nat
    BY IdempotencyAssumption DEF CountInv, TypeOK
  <2>3. resets' \in 0 .. MaxResets /\ effects' \in 0 .. Cardinality(Caller)
    BY <1>1, <2>1, <2>2
  <2>4. TypeOK'
    BY <2>1, <2>3 DEF CountInv, TypeOK
  <2>5. /\ Number(Unwritten) <= Cardinality(Caller)
        /\ Number(Undecided) <= slips + (IF entry = "absent" THEN 0 ELSE 1)
    BY <1>1 DEF CountInv, WritesLeft, RowPaysForWrite
  <2> QED BY <1>1, <2>1, <2>4, <2>5, NumberStays DEF CountInv, WritesLeft, RowPaysForWrite
<1>5. CASE Clear
  <2>1. /\ mode' = "sandbox" /\ entry' = "absent" /\ result' = Nobody
        /\ slips' = slips + effects + Cardinality(Holders) /\ UNCHANGED <<pc, returned, effects, resets>>
    BY <1>5 DEF Clear
  <2>2. IsFiniteSet(Holders) /\ Cardinality(Holders) \in Nat /\ Within(Undecided) \in SUBSET Holders
    <3>1. Holders \in SUBSET Caller
      BY DEF Holders
    <3>2. Within(Undecided) \in SUBSET Holders
      BY DEF Within, Undecided, Holders
    <3> QED BY <3>1, <3>2, IdempotencyAssumption, FS_Subset, FS_CardinalityType
  <2>3. Number(Undecided) <= Cardinality(Holders)
    BY <2>2, FS_Subset DEF Number
  <2>4. TypeOK'
    BY <1>1, <2>1, <2>2 DEF CountInv, TypeOK
  <2> QED BY <1>1, <2>1, <2>2, <2>3, <2>4, NumberStays DEF CountInv, WritesLeft, RowPaysForWrite
<1> QED BY <1>2, <1>3, <1>4, <1>5 DEF Next

(***************************************************************************)
(* The row, the calls and the counters keep their types; in particular no  *)
(* more writes take effect than there are calls.                           *)
(***************************************************************************)
THEOREM TypeCorrect == Spec => []TypeOK
<1>1. CountInv => TypeOK
  BY DEF CountInv
<1> QED BY InitCountInv, CountStep, <1>1, PTL DEF Spec

(***************************************************************************)
(* idempotent_write, "at most once per idempotency key", for any number of *)
(* calls, crashes and resets: the workspace holds at most one write more   *)
(* than slipped.                                                           *)
(***************************************************************************)
THEOREM OneWrite == Spec => []WrittenOnceButForSlips
<1>1. CountInv => WrittenOnceButForSlips
  <2> SUFFICES ASSUME CountInv PROVE effects <= slips + 1
    BY DEF WrittenOnceButForSlips
  <2>1. Number(Undecided) \in Nat /\ effects \in Nat /\ slips \in Nat
    BY NumberTyped DEF CountInv, TypeOK
  <2> QED BY <2>1 DEF CountInv, RowPaysForWrite
<1> QED BY InitCountInv, CountStep, <1>1, PTL DEF Spec

-----------------------------------------------------------------------------
\* The promise

LEMMA UnansweredIs ==
  /\ Cardinality(Unanswered) = Number({"written"})
  /\ Cardinality(Unanswered)' = Number({"written"})'
BY DEF Unanswered, Number, Within

\* A call that leaves the table answers, ...
LEMMA AnswerMaps ==
  ASSUME Typed, NEW c \in Caller, pc[c] \notin {"release", "over"},
         NEW to \in {"release", "over"}, pc' = [pc EXCEPT ![c] = to],
         NEW whose, returned' = [returned EXCEPT ![c] = whose]
  PROVE  Promise!Answer(c, whose)
<1>1. \A d \in Caller : pc'[d] = IF d = c THEN to ELSE pc[d]
  BY DEF Typed
<1>2. c \notin Answered
  BY DEF Answered
<1>3. Answered' = Answered \cup {c}
  BY <1>1 DEF Answered
<1> QED BY <1>2, <1>3 DEF Promise!Answer

\* ... an error if it returns nothing.
LEMMA ErrorMaps ==
  ASSUME Typed, NEW c \in Caller, pc[c] \notin {"release", "over"},
         NEW to \in {"release", "over"}, pc' = [pc EXCEPT ![c] = to], UNCHANGED returned
  PROVE  Promise!Answer(c, Nobody)
<1>1. returned' = [returned EXCEPT ![c] = Nobody]
  BY DEF Typed
<1> QED BY <1>1, AnswerMaps

\* The other steps of a call answer nothing.
LEMMA NoAnswer ==
  ASSUME Typed, NEW c \in Caller, NEW to, pc' = [pc EXCEPT ![c] = to],
         pc[c] \in {"release", "over"} <=> to \in {"release", "over"}
  PROVE  Answered' = Answered
<1>1. \A d \in Caller : pc'[d] = IF d = c THEN to ELSE pc[d]
  BY DEF Typed
<1> QED BY <1>1 DEF Answered

\* Beside or after a reset that parted the two, whatever a call does is allowed.
LEMMA PartedStep ==
  ASSUME Typed, ~Whole, NEW c \in Caller, Start(c) \/ Step(c) \/ Die(c)
  PROVE  [Promise!Next]_(Promise!vars)
<1>1. ~Whole' /\ mode' = mode /\ (slips = 0 <=> slips' = 0)
  BY DEF Typed, Whole, Start, Step, Claim, Poll, TimeOut, Apply, Raise, Release, Complete, Die
<1>2. ASSUME Answered' = Answered, UNCHANGED returned PROVE UNCHANGED Promise!vars
  BY <1>1, <1>2 DEF Promise!vars
<1>3. ASSUME NEW whose \in Caller \cup {Nobody}, Promise!Answer(c, whose)
      PROVE  Promise!Next
  BY <1>1, <1>3 DEF Promise!Next, Promise!Unpromised
<1>4. CASE Start(c)
  BY <1>2, <1>4, NoAnswer DEF Start, Goto
<1>5. CASE Claim(c)
  BY <1>2, <1>5, NoAnswer DEF Claim, Goto
<1>6. CASE Poll(c)
  <2>1. CASE entry = "absent" /\ Goto(c, "claim") /\ UNCHANGED returned
    BY <1>2, <1>6, <2>1, NoAnswer DEF Poll, Goto
  <2>2. CASE entry = "done" /\ Return(c, result)
    BY <1>3, <1>6, <2>2, AnswerMaps DEF Poll, Goto, Return, Typed
  <2> QED BY <1>6, <2>1, <2>2 DEF Poll
<1>7. CASE TimeOut(c)
  BY <1>3, <1>7, ErrorMaps DEF TimeOut, Goto
<1>8. CASE Apply(c)
  BY <1>2, <1>8, NoAnswer DEF Apply, Goto
<1>9. CASE Raise(c)
  BY <1>3, <1>9, ErrorMaps DEF Raise, Goto
<1>10. CASE Release(c)
  BY <1>2, <1>10, NoAnswer DEF Release, Goto
<1>11. CASE Complete(c)
  BY <1>3, <1>11, AnswerMaps DEF Complete, Goto, Return
<1>12. CASE Die(c)
  <2>1. CASE pc[c] = "release"
    BY <1>2, <1>12, <2>1, NoAnswer DEF Die, Goto
  <2>2. CASE pc[c] # "release"
    BY <1>3, <1>12, <2>2, ErrorMaps DEF Die, Goto
  <2> QED BY <2>1, <2>2
<1> QED BY <1>4, <1>5, <1>6, <1>7, <1>8, <1>9, <1>10, <1>11, <1>12 DEF Step

\* While the two are at one, a step of a call is its step of the promise, or none.
LEMMA WholeStep ==
  ASSUME CountInv, Typed, Whole, OneOwner, NEW c \in Caller, Start(c) \/ Step(c) \/ Die(c)
  PROVE  [Promise!Next]_(Promise!vars)
<1>. DEFINE n == Cardinality(Unanswered)
            claim == IF Whole /\ entry = "pending" /\ Holders = {} THEN "lost" ELSE "open"
<1>1. Whole' /\ mode' = mode
  BY DEF Typed, Whole, Start, Step, Claim, Poll, TimeOut, Apply, Raise, Release, Complete, Die
<1>2. effects \in Nat /\ n \in Nat /\ n' \in Nat
  <2>1. Number({"written"}) \in Nat /\ Number({"written"})' \in Nat
    BY NumberTyped
  <2> QED BY <2>1, UnansweredIs DEF Typed
<1>3. /\ \A d \in Caller : d \in Holders <=> pc[d] \in {"write", "written", "release"}
      /\ \A d \in Caller : d \in Holders' <=> pc'[d] \in {"write", "written", "release"}
      /\ Holders \subseteq Caller /\ Holders' \subseteq Caller
  BY DEF Holders
<1>4. entry = "done" <=> result # Nobody
  BY DEF CountInv, TypeOK
<1>5. OneOwner'
  BY OwnerStep
<1>6. ASSUME NEW to \in Where, pc' = [pc EXCEPT ![c] = to]
      PROVE  n' = n + (IF to = "written" THEN 1 ELSE 0) - (IF pc[c] = "written" THEN 1 ELSE 0)
  <2>1. Number({"written"})' = Number({"written"}) + (IF to \in {"written"} THEN 1 ELSE 0)
                                                   - (IF pc[c] \in {"written"} THEN 1 ELSE 0)
    BY <1>6, NumberMoves DEF Typed
  <2>2. Cardinality(Unanswered)' = Number({"written"})'
    BY UnansweredIs
  <2> QED BY <2>1, <2>2, UnansweredIs
<1>7. ASSUME Answered' = Answered, effects' - n' = effects - n, UNCHANGED <<result, returned>>,
             claim' = claim
      PROVE  UNCHANGED Promise!vars
  BY <1>1, <1>7 DEF Promise!vars
<1>8. ASSUME Promise!Replay(c) \/ Promise!Write(c) \/ Promise!Fail(c) \/ Promise!Lose PROVE Promise!Next
  BY <1>1, <1>8 DEF Promise!Next, Promise!Promised
<1>9. CASE Start(c)
  <2>1. Answered' = Answered /\ n' = n /\ Holders' = Holders
    BY <1>2, <1>3, <1>6, <1>9, NoAnswer DEF Start, Goto, Where, Typed
  <2> QED BY <1>1, <1>7, <1>9, <2>1 DEF Start, row
<1>10. CASE Claim(c)
  <2>1. Answered' = Answered /\ n' = n
    BY <1>2, <1>6, <1>10, NoAnswer DEF Claim, Goto, Where
  <2>2. claim' = claim
    <3>1. CASE entry = "absent"
      BY <1>3, <1>10, <3>1 DEF Claim, Goto, Typed
    <3>2. CASE entry # "absent"
      <4>1. Holders' = Holders
        BY <1>3, <1>10, <3>2 DEF Claim, Goto, Typed
      <4> QED BY <1>1, <1>10, <3>2, <4>1 DEF Claim
    <3> QED BY <3>1, <3>2
  <2> QED BY <1>7, <1>10, <2>1, <2>2 DEF Claim
<1>11. CASE Poll(c) /\ entry = "absent"
  <2>1. Answered' = Answered /\ n' = n
    BY <1>2, <1>6, <1>11, NoAnswer DEF Poll, Goto, Where
  <2> QED BY <1>7, <1>11, <2>1 DEF Poll, row
<1>12. CASE Poll(c) /\ entry = "done"
  <2>1. pc' = [pc EXCEPT ![c] = "over"] /\ returned' = [returned EXCEPT ![c] = result] /\ pc[c] = "poll"
    BY <1>12 DEF Poll, Return, Goto
  <2>2. Promise!Answer(c, result)
    BY <2>1, AnswerMaps
  <2>3. n' = n
    BY <1>2, <1>6, <2>1 DEF Where
  <2>4. UNCHANGED <<entry, result, effects>>
    BY <1>12 DEF Poll, row
  <2>5. Promise!Replay(c)
    BY <1>1, <1>4, <1>12, <2>2, <2>3, <2>4 DEF Promise!Replay
  <2> QED BY <1>8, <2>5
<1>13. CASE TimeOut(c)
  <2>1. Promise!Answer(c, Nobody) /\ n' = n /\ Holders' = Holders
    BY <1>2, <1>3, <1>6, <1>13, ErrorMaps DEF TimeOut, Goto, Where, Typed
  <2>2. Promise!Fail(c)
    BY <1>1, <1>13, <2>1 DEF TimeOut, row, Promise!Fail
  <2> QED BY <1>8, <2>2
<1>14. CASE Apply(c)
  <2>1. Answered' = Answered /\ n' = n + 1
    <3>1. pc' = [pc EXCEPT ![c] = "written"] /\ pc[c] = "write"
      BY <1>14 DEF Apply, Goto
    <3>2. Answered' = Answered
      BY <3>1, NoAnswer
    <3> QED BY <1>2, <1>6, <3>1, <3>2 DEF Where
  <2>2. claim' = claim
    BY <1>3, <1>14 DEF Apply, Goto, Typed
  <2>3. effects' - n' = effects - n
    BY <1>2, <1>14, <2>1 DEF Apply
  <2> QED BY <1>7, <1>14, <2>1, <2>2, <2>3 DEF Apply, row
<1>15. CASE Raise(c)
  <2>1. Promise!Answer(c, Nobody) /\ n' = n - (IF pc[c] = "written" THEN 1 ELSE 0)
    <3>1. pc' = [pc EXCEPT ![c] = "release"] /\ pc[c] \in {"write", "written"} /\ UNCHANGED returned
      BY <1>15 DEF Raise, Goto
    <3>2. Promise!Answer(c, Nobody)
      BY <3>1, ErrorMaps
    <3> QED BY <1>2, <1>6, <3>1, <3>2 DEF Where
  <2>2. entry = "pending" /\ result = Nobody /\ claim = "open" /\ claim' = "open"
    BY <1>3, <1>4, <1>15 DEF Raise, Goto, Typed, OneOwner
  <2>3. UNCHANGED <<result, effects>>
    BY <1>15 DEF Raise, row
  <2>4. effects' - n' \in {effects - n, effects - n + 1}
    BY <1>2, <2>1, <2>3
  <2>5. Promise!Fail(c)
    BY <1>1, <2>1, <2>2, <2>3, <2>4 DEF Promise!Fail, Promise!Free
  <2> QED BY <1>8, <2>5
<1>16. CASE Release(c)
  <2>1. Answered' = Answered /\ n' = n
    <3>1. pc' = [pc EXCEPT ![c] = "over"] /\ pc[c] = "release"
      BY <1>16 DEF Release, Goto
    <3>2. Answered' = Answered
      BY <3>1, NoAnswer
    <3> QED BY <1>2, <1>6, <3>1, <3>2 DEF Where
  <2>2. entry = "pending" /\ result = Nobody /\ claim = "open" /\ claim' = "open"
    BY <1>3, <1>4, <1>16 DEF Release, OneOwner
  <2> QED BY <1>7, <1>16, <2>1, <2>2 DEF Release
<1>17. CASE Complete(c)
  <2>1. entry = "pending" /\ result = Nobody /\ claim = "open"
    BY <1>3, <1>4, <1>17 DEF Complete, OneOwner
  <2>2. /\ pc' = [pc EXCEPT ![c] = "over"] /\ returned' = [returned EXCEPT ![c] = c] /\ pc[c] = "written"
        /\ entry' = "done" /\ result' = c /\ UNCHANGED effects
    BY <1>17, <2>1 DEF Complete, Return, Goto
  <2>3. Promise!Answer(c, c)
    BY <2>2, AnswerMaps
  <2>4. n' = n - 1
    BY <1>2, <1>6, <2>2 DEF Where
  <2>5. effects' - n' = effects - n + 1 /\ claim' = "open"
    BY <1>2, <2>2, <2>4
  <2>6. Promise!Write(c)
    BY <1>1, <2>1, <2>2, <2>3, <2>5 DEF Promise!Write, Promise!Free
  <2> QED BY <1>8, <2>6
<1>18. CASE Die(c) /\ c \notin Holders
  <2>1. Promise!Answer(c, Nobody) /\ n' = n /\ Holders' = Holders
    BY <1>2, <1>3, <1>6, <1>18, ErrorMaps DEF Die, Goto, Where, Typed
  <2>2. Promise!Fail(c)
    BY <1>1, <1>18, <2>1 DEF Die, row, Promise!Fail
  <2> QED BY <1>8, <2>2
<1>19. CASE Die(c) /\ c \in Holders
  <2>1. entry = "pending" /\ result = Nobody /\ claim = "open" /\ Holders = {c}
    BY <1>4, <1>19 DEF OneOwner
  <2>2. claim' = "lost"
    <3>1. Holders' = {}
      BY <1>3, <1>19, <2>1 DEF Die, Goto, Typed
    <3> QED BY <1>1, <1>19, <2>1, <3>1 DEF Die, row
  <2>3. UNCHANGED <<result, effects, returned>> /\ pc' = [pc EXCEPT ![c] = "over"]
    BY <1>19 DEF Die, row, Goto
  <2>4. n' = n - (IF pc[c] = "written" THEN 1 ELSE 0)
    BY <1>2, <1>6, <2>3 DEF Where
  <2>5. CASE pc[c] = "release"
    <3>1. c \in Answered /\ returned[c] = Nobody
      BY <2>5 DEF Answered, Typed
    <3>2. Answered' = Answered
      BY <2>3, <2>5, NoAnswer
    <3>3. effects' - n' = effects - n
      BY <1>2, <2>3, <2>4, <2>5
    <3>4. Promise!Lose
      BY <1>1, <2>1, <2>2, <2>3, <3>1, <3>2, <3>3 DEF Promise!Lose, Promise!Free
    <3> QED BY <1>8, <3>4
  <2>6. CASE pc[c] # "release"
    <3>1. Promise!Answer(c, Nobody)
      BY <1>19, <2>3, <2>6, ErrorMaps DEF Die
    <3>2. effects' - n' \in {effects - n, effects - n + 1}
      BY <1>2, <2>3, <2>4
    <3>3. Promise!Fail(c)
      BY <1>1, <2>1, <2>2, <2>3, <3>1, <3>2 DEF Promise!Fail, Promise!Free
    <3> QED BY <1>8, <3>3
  <2> QED BY <2>5, <2>6
<1> QED BY <1>9, <1>10, <1>11, <1>12, <1>13, <1>14, <1>15, <1>16, <1>17, <1>18, <1>19 DEF Step, Poll

(***************************************************************************)
(* idempotent_write over its table keeps the promise of WritePromise, for  *)
(* any number of calls, crashes and resets.                                *)
(***************************************************************************)
THEOREM WritesKeepPromise == Spec => KeepsWritePromise
<1>1. ASSUME Init PROVE Promise!Init
  <2>1. Unanswered = {} /\ Answered = {} /\ Whole
    BY <1>1 DEF Init, Unanswered, Answered, Whole
  <2>2. effects - Cardinality(Unanswered) = 0
    BY <1>1, <2>1, FS_EmptySet DEF Init
  <2> QED BY <1>1, <2>1, <2>2 DEF Init, Promise!Init
<1>2. ASSUME CountInv, Inv, [Next]_vars PROVE [Promise!Next]_(Promise!vars)
  <2>1. CASE UNCHANGED vars
    <3>1. Unanswered' = Unanswered /\ Answered' = Answered /\ Holders' = Holders
      BY <2>1 DEF Unanswered, Answered, Holders, vars
    <3> QED BY <2>1, <3>1 DEF Whole, vars, row, Promise!vars
  <2>2. ASSUME NEW c \in Caller, Start(c) \/ Step(c) \/ Die(c)
        PROVE  [Promise!Next]_(Promise!vars)
    BY <1>2, <2>2, PartedStep, WholeStep DEF Inv
  <2>3. CASE Wipe
    <3>1. ~Whole' /\ Answered' = Answered /\ slips' = slips /\ returned' = returned
      BY <2>3 DEF Wipe, Whole, Answered
    <3>2. CASE Whole
      <4>1. slips = 0
        BY <2>3, <3>2 DEF Wipe, Whole
      <4> QED BY <3>1, <3>2, <4>1 DEF Promise!Next, Promise!BeginReset
    <3>3. CASE ~Whole
      BY <3>1, <3>3 DEF Promise!vars
    <3> QED BY <3>2, <3>3
  <2>4. CASE Clear
    <3>1. ~Whole /\ Answered' = Answered /\ UNCHANGED <<effects, returned>> /\ Typed
      BY <1>2, <2>4 DEF Clear, Whole, Answered, Inv
    <3>2. CASE Whole'
      <4>1. slips = 0 /\ effects = 0 /\ Holders = {} /\ Holders' = {}
        BY <2>4, <3>1, <3>2, CleanReset
      <4>2. Cardinality(Unanswered') = 0
        <5>1. Unanswered' = {}
          BY <4>1 DEF Unanswered, Holders
        <5> QED BY <5>1, FS_EmptySet
      <4>3. effects' - Cardinality(Unanswered)' = 0 /\ entry' = "absent" /\ result' = Nobody
        BY <2>4, <3>1, <4>1, <4>2 DEF Clear
      <4> QED BY <3>1, <3>2, <4>1, <4>3 DEF Promise!Next, Promise!EndReset
    <3>3. CASE ~Whole' /\ slips' # 0
      BY <3>1, <3>3 DEF Promise!Next, Promise!EndReset, Promise!vars
    <3>4. ~Whole' => slips' # 0
      BY <2>4 DEF Clear, Whole
    <3> QED BY <3>2, <3>3, <3>4
  <2> QED BY <1>2, <2>1, <2>2, <2>3, <2>4 DEF Next
<1> QED BY <1>1, <1>2, InitCountInv, CountStep, InitInv, InvStep, PTL
        DEF Spec, KeepsWritePromise, Promise!Spec

=============================================================================
