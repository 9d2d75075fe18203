------------------------- MODULE CircuitBreakerProofs -------------------------
(***************************************************************************)
(* The invariants of CircuitBreaker and its refinement of BreakerPromise,  *)
(* for any number of callers, any threshold, window, cool-down and call    *)
(* timeout.  The invariants are proved from one inductive invariant, which *)
(* adds to them what the callers of an open circuit can still have in      *)
(* flight.                                                                 *)
(***************************************************************************)
EXTENDS CircuitBreaker, GatewayLemmas

\* No call of the closed state keeps its kind once the circuit has opened.
NormalOnlyWhenClosed ==
  breaker.state # "closed" => \A c \in Caller : call[c].kind # "normal"

\* A call still in flight in an open circuit has been running since before it opened.
OpenCallsPredate ==
  breaker.state = "open" =>
    \A c \in Caller : InFlight(c) => call[c].age >= breaker.openedFor

Inv ==
  /\ TypeOK
  /\ Sound(breaker)
  /\ TrialFlagMeansTrial
  /\ NormalOnlyWhenClosed
  /\ OpenCallsPredate
  /\ LateCallsOutlastCoolDown

-----------------------------------------------------------------------------

LEMMA InitInv == Init => Inv
<1>. SUFFICES ASSUME Init PROVE Inv
  OBVIOUS
<1>. USE DEF Init
<1>1. Sound(breaker)
  BY NewBreakerSound
<1>2. call \in [Caller -> CallRecord] /\ \A c \in Caller : call[c] = NoCall
  BY CallTimeoutAssumption DEF NoCall, CallRecord
<1>3. TypeOK
  BY <1>1, <1>2 DEF TypeOK, Sound
<1>4. breaker.state = "closed" /\ breaker.trial = FALSE
  BY DEF NewBreaker
<1>5. \A c \in Caller : call[c].kind = "none"
  BY <1>2 DEF NoCall
<1>6. TrialFlagMeansTrial
  BY <1>4, <1>5 DEF TrialFlagMeansTrial
<1>. QED
  BY <1>1, <1>3, <1>4, <1>6
  DEF Inv, NormalOnlyWhenClosed, OpenCallsPredate, LateCallsOutlastCoolDown

(* A reported outcome takes c's call away, leaves no trial in flight, and the  *)
(* breaker closed, open with nothing in flight younger than its cool-down, or  *)
(* half-open at the end of a cool-down.                                        *)
LEMMA OutcomeInv ==
  ASSUME Inv, NEW c \in Caller,
         call' = AfterReturn(c, breaker'),
         abandoned' = (abandoned /\ breaker'.state = breaker.state),
         Sound(breaker'), breaker'.trial = FALSE,
         \/ breaker'.state = "closed"
         \/ breaker'.state = "open" /\ breaker'.openedFor = 0
         \/ breaker'.state = "open" /\ breaker.state = "open"
              /\ breaker'.openedFor = breaker.openedFor
         \/ breaker'.state = "half_open" /\ breaker.state = "open"
              /\ breaker.openedFor = HalfOpenAfter
  PROVE  Inv'
<1>. USE DEF Inv
<1>1. /\ call \in [Caller -> CallRecord]
      /\ abandoned \in BOOLEAN
      /\ breaker \in BreakerRecord
  BY DEF TypeOK
<1>2. \A d \in Caller : /\ call'[d] \in CallRecord
                        /\ call'[d].age \in Nat
                        /\ call'[d].kind \in {"none", "late", call[d].kind}
                        /\ call'[d].kind # "none" => /\ d # c
                                                     /\ call'[d].age = call[d].age
                                                     /\ call[d].kind # "none"
                        /\ call'[d].kind = call[d].kind /\ call[d].kind # "none"
                             => call[d].kind = "late" \/ breaker'.state = breaker.state
  BY <1>1, CallTimeoutAssumption DEF AfterReturn, CallRecord, NoCall, InFlight
<1>3. call' \in [Caller -> CallRecord]
  BY <1>1, CallTimeoutAssumption DEF AfterReturn, CallRecord, NoCall
<1>4. TypeOK'
  BY <1>1, <1>3 DEF TypeOK, Sound
<1>5. breaker.state # "half_open" =>
         ~abandoned /\ \A d \in Caller : call[d].kind # "trial"
  BY DEF TrialFlagMeansTrial
<1>6. ~abandoned' /\ \A d \in Caller : call'[d].kind # "trial"
  BY <1>2, <1>5
<1>7. TrialFlagMeansTrial'
  BY <1>6 DEF TrialFlagMeansTrial
<1>8. NormalOnlyWhenClosed'
  BY <1>2 DEF NormalOnlyWhenClosed
<1>9. OpenCallsPredate'
  BY <1>2 DEF OpenCallsPredate, InFlight
<1>10. LateCallsOutlastCoolDown'
  BY <1>2 DEF LateCallsOutlastCoolDown, OpenCallsPredate, InFlight
<1>. QED BY <1>4, <1>7, <1>8, <1>9, <1>10

LEMMA SucceedInv == ASSUME Inv, NEW c \in Caller, Succeed(c) PROVE Inv'
<1>1. breaker' = AfterSuccess(breaker) /\ breaker \in BreakerRecord /\ Sound(breaker)
  BY DEF Succeed, Inv, TypeOK
<1>2. Sound(breaker')
  BY <1>1, AfterSuccessSound
<1>3. breaker'.trial = FALSE /\ breaker'.state = "closed"
  BY <1>1 DEF AfterSuccess, BreakerRecord
<1>. QED BY <1>2, <1>3, OutcomeInv DEF Succeed

LEMMA FailInv == ASSUME Inv, NEW c \in Caller, Fail(c) PROVE Inv'
<1>. DEFINE b == AfterFailure(breaker)
<1>1. breaker' = Refresh(b) /\ breaker \in BreakerRecord /\ Sound(breaker)
  BY DEF Fail, Inv, TypeOK
<1>2. /\ Sound(b)
      /\ \/ b = Opened
         \/ breaker.state # "half_open" /\ b = [breaker EXCEPT !.failures = b.failures]
  BY <1>1, AfterFailureSound
<1>. HIDE DEF b
<1>3. Sound(breaker')
  BY <1>1, <1>2, RefreshSound
<1>4. CASE b = Opened
  <2>1. breaker' = Opened
    BY <1>1, <1>4, BreakerAssumption DEF Refresh, Opened
  <2>2. breaker'.state = "open" /\ breaker'.openedFor = 0 /\ breaker'.trial = FALSE
    BY <2>1 DEF Opened
  <2>. QED BY <1>3, <2>2, OutcomeInv DEF Fail
<1>5. CASE breaker.state # "half_open" /\ b = [breaker EXCEPT !.failures = b.failures]
  <2>1. /\ b.state = breaker.state /\ b.openedFor = breaker.openedFor
        /\ b.trial = breaker.trial /\ b \in BreakerRecord
    BY <1>1, <1>2, <1>5 DEF BreakerRecord, Sound
  <2>2. breaker.trial = FALSE
    BY <1>1, <1>5 DEF Sound, BreakerRecord
  <2>3. CASE b.state = "open" /\ b.openedFor >= HalfOpenAfter
    <3>1. /\ breaker'.state = "half_open" /\ breaker'.trial = FALSE
          /\ breaker.state = "open" /\ breaker.openedFor = HalfOpenAfter
      BY <1>1, <2>1, <2>3, BreakerAssumption DEF Refresh, BreakerRecord
    <3>. QED BY <1>3, <3>1, OutcomeInv DEF Fail
  <2>4. CASE ~(b.state = "open" /\ b.openedFor >= HalfOpenAfter)
    <3>1. breaker' = b
      BY <1>1, <2>4 DEF Refresh
    <3>2. breaker.state \in {"closed", "open"}
      BY <1>1, <1>5 DEF BreakerRecord, BreakerState
    <3>. QED BY <1>3, <2>1, <2>2, <3>1, <3>2, OutcomeInv DEF Fail
  <2>. QED BY <2>3, <2>4
<1>. QED BY <1>2, <1>4, <1>5

LEMMA EscapeInv == ASSUME Inv, NEW c \in Caller, Escape(c) PROVE Inv'
<1>. USE DEF Inv
<1>1. /\ call \in [Caller -> CallRecord] /\ breaker' = breaker
      /\ call' = [call EXCEPT ![c] = NoCall]
      /\ abandoned' = (abandoned \/ call[c].kind = "trial")
      /\ NoCall \in CallRecord /\ NoCall.kind = "none"
  BY CallTimeoutAssumption DEF Escape, TypeOK, NoCall, CallRecord
<1>2. call'[c] = NoCall /\ \A d \in Caller \ {c} : call'[d] = call[d]
  BY <1>1
<1>3. TypeOK'
  BY <1>1 DEF TypeOK
<1>4. TrialFlagMeansTrial'
  <2>1. CASE call[c].kind = "trial"
    <3>1. ~abandoned /\ \A d \in Caller \ {c} : call[d].kind # "trial"
      BY <2>1 DEF TrialFlagMeansTrial
    <3>2. breaker.trial /\ breaker.state = "half_open"
      BY <2>1 DEF TrialFlagMeansTrial
    <3>. QED BY <1>1, <1>2, <2>1, <3>1, <3>2 DEF TrialFlagMeansTrial
  <2>2. CASE call[c].kind # "trial"
    BY <1>1, <1>2, <2>2 DEF TrialFlagMeansTrial, TypeOK
  <2>. QED BY <2>1, <2>2
<1>5. NormalOnlyWhenClosed'
  BY <1>1, <1>2 DEF NormalOnlyWhenClosed
<1>6. OpenCallsPredate'
  BY <1>1, <1>2 DEF OpenCallsPredate, InFlight
<1>7. LateCallsOutlastCoolDown'
  BY <1>1, <1>2 DEF LateCallsOutlastCoolDown
<1>8. Sound(breaker')
  BY <1>1
<1>. QED BY <1>3, <1>4, <1>5, <1>6, <1>7, <1>8

(* Looking at the breaker half-opens it only when every call in flight, all of *)
(* them late by then, is older than the cool-down.                             *)
LEMMA RefreshInv ==
  ASSUME Inv, breaker' = Refresh(breaker), UNCHANGED <<call, abandoned>>
  PROVE  /\ Inv'
         /\ breaker'.state = "half_open" /\ ~breaker'.trial =>
              ~abandoned /\ \A c \in Caller : call[c].kind # "trial"
<1>. USE DEF Inv
<1>1. breaker \in BreakerRecord
  BY DEF TypeOK
<1>2. Sound(breaker')
  BY RefreshSound
<1>3. TypeOK'
  BY <1>2 DEF TypeOK, Sound
<1>4. CASE breaker.state = "open" /\ breaker.openedFor >= HalfOpenAfter
  <2>1. breaker'.state = "half_open" /\ breaker'.trial = FALSE
    BY <1>1, <1>4 DEF Refresh, BreakerRecord
  <2>2. ~abandoned /\ \A c \in Caller : call[c].kind # "trial"
    BY <1>4 DEF TrialFlagMeansTrial
  <2>3. TrialFlagMeansTrial'
    BY <2>1, <2>2 DEF TrialFlagMeansTrial
  <2>4. NormalOnlyWhenClosed' /\ OpenCallsPredate'
    BY <1>4, <2>1 DEF NormalOnlyWhenClosed, OpenCallsPredate
  <2>5. LateCallsOutlastCoolDown'
    <3>1. \A c \in Caller : call[c].age \in Nat
      BY CallTimeoutAssumption DEF TypeOK, CallRecord
    <3>2. breaker.openedFor \in Nat /\ HalfOpenAfter \in Nat
      BY <1>1, BreakerAssumption DEF BreakerRecord
    <3>. QED BY <1>4, <3>1, <3>2 DEF LateCallsOutlastCoolDown, OpenCallsPredate, InFlight
  <2>. QED BY <1>2, <1>3, <2>2, <2>3, <2>4, <2>5
<1>5. CASE ~(breaker.state = "open" /\ breaker.openedFor >= HalfOpenAfter)
  <2>1. breaker' = breaker
    BY <1>5 DEF Refresh
  <2>2. /\ TrialFlagMeansTrial' /\ NormalOnlyWhenClosed'
        /\ OpenCallsPredate' /\ LateCallsOutlastCoolDown'
    BY <2>1 DEF TrialFlagMeansTrial, NormalOnlyWhenClosed, OpenCallsPredate,
                LateCallsOutlastCoolDown, InFlight
  <2>3. ~breaker.trial => ~abandoned /\ \A c \in Caller : call[c].kind # "trial"
    BY DEF TrialFlagMeansTrial
  <2>. QED BY <1>2, <1>3, <2>1, <2>2, <2>3
<1>. QED BY <1>4, <1>5

(* A refused request changes nothing but a refreshed state; an admitted one is *)
(* the first normal call of its own or the only trial.                         *)
LEMMA AllowInv == ASSUME Inv, NEW c \in Caller, Allow(c) PROVE Inv'
<1>. USE DEF Inv
<1>. DEFINE now == Refresh(breaker)
<1>1. /\ breaker \in BreakerRecord /\ Sound(breaker)
      /\ call \in [Caller -> CallRecord] /\ abandoned \in BOOLEAN
      /\ breaker' = AfterAllow(breaker) /\ abandoned' = abandoned
  BY DEF TypeOK, Allow
<1>2. Sound(breaker') /\ Sound(now)
  BY <1>1, AfterAllowSound, RefreshSound
<1>3. now.state # "half_open" => breaker' = now /\ now = breaker
  BY <1>1, BreakerAssumption DEF AfterAllow, Refresh, BreakerRecord
<1>4. now.state = "half_open" =>
        /\ breaker' = [now EXCEPT !.trial = TRUE]
        /\ \/ now = breaker
           \/ breaker.state = "open" /\ breaker.openedFor = HalfOpenAfter /\ ~now.trial
  BY <1>1, BreakerAssumption DEF AfterAllow, Refresh, BreakerRecord
<1>5. Admits(breaker) <=> now.state = "closed" \/ (now.state = "half_open" /\ ~now.trial)
  BY DEF Admits
<1>6. now \in BreakerRecord
  BY <1>2 DEF Sound
<1>. HIDE DEF now
<1>7. CASE ~Admits(breaker)
  <2>1. breaker' = breaker
    <3>1. CASE now.state # "half_open"
      BY <1>3, <3>1
    <3>2. CASE now.state = "half_open"
      <4>1. now.trial = TRUE
        BY <1>5, <1>6, <1>7, <3>2 DEF BreakerRecord
      <4>2. [now EXCEPT !.trial = TRUE] = now
        BY <1>6, <4>1 DEF BreakerRecord
      <4>. QED BY <1>4, <3>2, <4>1, <4>2
    <3>. QED BY <3>1, <3>2
  <2>2. call' = call
    BY <1>7 DEF Allow
  <2>. QED
    BY <1>1, <2>1, <2>2
    DEF TypeOK, TrialFlagMeansTrial, NormalOnlyWhenClosed, OpenCallsPredate,
        LateCallsOutlastCoolDown, InFlight
<1>8. CASE now.state = "closed"
  <2>1. breaker' = breaker /\ breaker.state = "closed"
    BY <1>3, <1>8
  <2>2. call' = [call EXCEPT ![c] = [kind |-> "normal", age |-> 0]]
    BY <1>5, <1>8, <2>1 DEF Allow
  <2>3. call' \in [Caller -> CallRecord]
    BY <1>1, <2>2, CallTimeoutAssumption DEF CallRecord
  <2>4. \A d \in Caller : call'[d].kind = "trial" <=> call[d].kind = "trial"
    <3>1. call'[c].kind = "normal" /\ call[c].kind = "none"
      BY <1>1, <2>2 DEF Allow, InFlight
    <3>. QED BY <1>1, <2>2, <3>1
  <2>5. TypeOK'
    BY <1>1, <1>2, <2>3 DEF TypeOK, Sound
  <2>6. TrialFlagMeansTrial'
    BY <1>1, <2>1, <2>4 DEF TrialFlagMeansTrial
  <2>. QED
    BY <1>2, <2>1, <2>5, <2>6
    DEF NormalOnlyWhenClosed, OpenCallsPredate, LateCallsOutlastCoolDown
<1>9. CASE now.state = "half_open" /\ ~now.trial
  <2>1. breaker'.state = "half_open" /\ breaker'.trial
    BY <1>4, <1>6, <1>9 DEF BreakerRecord
  <2>2. call' = [call EXCEPT ![c] = [kind |-> "trial", age |-> 0]]
    BY <1>5, <1>9, <2>1 DEF Allow
  <2>3. /\ call' \in [Caller -> CallRecord]
        /\ call'[c].kind = "trial"
        /\ \A d \in Caller \ {c} : call'[d] = call[d]
    BY <1>1, <2>2, CallTimeoutAssumption DEF CallRecord
  <2>4. breaker.state # "closed" /\ ~breaker.trial
    BY <1>1, <1>4, <1>9 DEF Sound
  <2>5. ~abandoned /\ \A d \in Caller : call[d].kind # "trial"
    BY <2>4 DEF TrialFlagMeansTrial
  <2>6. \A d \in Caller : call[d].kind = "late" => call[d].age >= HalfOpenAfter
    BY <1>4, <1>9 DEF LateCallsOutlastCoolDown, OpenCallsPredate, InFlight
  <2>7. TypeOK'
    BY <1>1, <1>2, <2>3 DEF TypeOK, Sound
  <2>8. TrialFlagMeansTrial'
    BY <1>1, <2>1, <2>3, <2>5 DEF TrialFlagMeansTrial
  <2>9. NormalOnlyWhenClosed'
    <3>1. \A d \in Caller : call[d].kind # "normal"
      BY <2>4 DEF NormalOnlyWhenClosed
    <3>. QED BY <2>3, <3>1 DEF NormalOnlyWhenClosed
  <2>10. OpenCallsPredate' /\ LateCallsOutlastCoolDown'
    BY <2>1, <2>3, <2>6 DEF OpenCallsPredate, LateCallsOutlastCoolDown
  <2>. QED BY <1>2, <2>7, <2>8, <2>9, <2>10
<1>. QED BY <1>5, <1>7, <1>8, <1>9

LEMMA TickInv == ASSUME Inv, Tick PROVE Inv'
<1>. USE DEF Inv
<1>1. /\ breaker \in BreakerRecord /\ Sound(breaker)
      /\ call \in [Caller -> CallRecord] /\ abandoned \in BOOLEAN
      /\ breaker' = AfterTick(breaker) /\ abandoned' = abandoned
  BY DEF TypeOK, Tick
<1>2. Sound(breaker')
  BY <1>1, AfterTickSound
<1>3. /\ breaker'.state = breaker.state /\ breaker'.trial = breaker.trial
      /\ breaker'.openedFor <= breaker.openedFor + 1
  BY <1>1, BreakerAssumption DEF AfterTick, BreakerRecord, Older
<1>4. \A c \in Caller : /\ call'[c] \in CallRecord
                        /\ call'[c].kind = call[c].kind
                        /\ InFlight(c) => call'[c].age = call[c].age + 1
                        /\ call[c].age \in Nat
  <2>. SUFFICES ASSUME NEW c \in Caller
                PROVE  /\ call'[c] \in CallRecord
                       /\ call'[c].kind = call[c].kind
                       /\ InFlight(c) => call'[c].age = call[c].age + 1
                       /\ call[c].age \in Nat
    OBVIOUS
  <2>1. call[c] \in CallRecord
    BY <1>1
  <2>2. CASE InFlight(c)
    <3>1. call[c].age < CallTimeout /\ call'[c] = [call[c] EXCEPT !.age = @ + 1]
      BY <2>2 DEF Tick
    <3>. QED BY <2>1, <3>1, CallTimeoutAssumption DEF CallRecord
  <2>3. CASE ~InFlight(c)
    <3>1. call'[c] = call[c]
      BY <2>3 DEF Tick
    <3>. QED BY <2>1, <2>3, <3>1, CallTimeoutAssumption DEF CallRecord
  <2>. QED BY <2>2, <2>3
<1>5. call' \in [Caller -> CallRecord]
  <2>1. call' = [c \in Caller |-> call'[c]]
    BY DEF Tick
  <2>. QED BY <1>4, <2>1
<1>6. TypeOK'
  BY <1>1, <1>2, <1>5 DEF TypeOK, Sound
<1>7. TrialFlagMeansTrial'
  BY <1>1, <1>3, <1>4 DEF TrialFlagMeansTrial
<1>8. NormalOnlyWhenClosed'
  BY <1>3, <1>4 DEF NormalOnlyWhenClosed
<1>9. OpenCallsPredate'
  <2>1. breaker.openedFor \in Nat /\ breaker'.openedFor \in Nat
    BY <1>1, <1>2 DEF Sound, BreakerRecord
  <2>. QED BY <1>3, <1>4, <2>1 DEF OpenCallsPredate, InFlight
<1>10. LateCallsOutlastCoolDown'
  BY <1>3, <1>4, BreakerAssumption DEF LateCallsOutlastCoolDown, InFlight
<1>. QED BY <1>2, <1>6, <1>7, <1>8, <1>9, <1>10

-----------------------------------------------------------------------------

(* The invariant of every reachable state. *)
LEMMA SpecInv == Spec => []Inv
<1>1. Init => Inv
  BY InitInv
<1>2. Inv /\ [Next]_vars => Inv'
  <2>. SUFFICES ASSUME Inv, [Next]_vars PROVE Inv'
    OBVIOUS
  <2>1. CASE \E c \in Caller : Allow(c) \/ Return(c)
    BY <2>1, AllowInv, SucceedInv, FailInv, EscapeInv DEF Return
  <2>2. CASE ReadState
    BY <2>2, RefreshInv DEF ReadState
  <2>3. CASE Tick
    BY <2>3, TickInv
  <2>4. CASE UNCHANGED vars
    BY <2>4
    DEF vars, Inv, TypeOK, TrialFlagMeansTrial, NormalOnlyWhenClosed,
        OpenCallsPredate, LateCallsOutlastCoolDown, InFlight
  <2>. QED BY <2>1, <2>2, <2>3, <2>4 DEF Next
<1>. QED BY <1>1, <1>2, PTL DEF Spec

(* The breaker and the calls keep their types, and the deque of failures never *)
(* reaches the threshold.                                                      *)
THEOREM TypeCorrect == Spec => []TypeOK
<1>1. Inv => TypeOK
  BY DEF Inv
<1>. QED BY <1>1, SpecInv, PTL

(* Whatever the interleaving of outcomes and ticks, the deque stays oldest     *)
(* first, which is what popping only its left end relies on.                   *)
THEOREM DequeSorted == Spec => []DequeOldestFirst
<1>1. Inv => DequeOldestFirst
  BY DEF Inv, Sound, OldestFirst, DequeOldestFirst
<1>. QED BY <1>1, SpecInv, PTL

(* At most one trial is in flight, only in the half-open state, and the flag   *)
(* says whether it is or was abandoned.                                        *)
THEOREM OneTrial == Spec => []TrialFlagMeansTrial
<1>1. Inv => TrialFlagMeansTrial
  BY DEF Inv
<1>. QED BY <1>1, SpecInv, PTL

(* What is left in flight when the breaker half-opens is older than the        *)
(* cool-down.                                                                  *)
THEOREM LateCallsAreOld == Spec => []LateCallsOutlastCoolDown
<1>1. Inv => LateCallsOutlastCoolDown
  BY DEF Inv
<1>. QED BY <1>1, SpecInv, PTL

(* When a call is over before a cool-down is, the trial is alone: no outcome   *)
(* of an earlier call can close or reopen a half-open breaker.                 *)
THEOREM TrialAlone ==
  ASSUME CallTimeout < HalfOpenAfter
  PROVE  Spec => []HalfOpenTrialAlone
<1>1. Inv => HalfOpenTrialAlone
  <2>. SUFFICES ASSUME Inv, breaker.state = "half_open", NEW c \in Caller, InFlight(c)
                PROVE  call[c].kind = "trial"
    BY DEF HalfOpenTrialAlone
  <2>1. call[c] \in CallRecord /\ call[c].kind \notin {"none", "normal"}
    BY DEF Inv, TypeOK, NormalOnlyWhenClosed, InFlight
  <2>2. call[c].kind # "late"
    BY <2>1, CallTimeoutAssumption, BreakerAssumption
    DEF Inv, LateCallsOutlastCoolDown, CallRecord
  <2>. QED BY <2>1, <2>2 DEF CallRecord
<1>. QED BY <1>1, SpecInv, PTL

-----------------------------------------------------------------------------
(***************************************************************************)
(* The promise.  The tally of a deque counts its entries of each age in    *)
(* the window; its sum is the number of fresh entries, which are the       *)
(* suffix that pruning keeps when the deque is oldest first.               *)
(***************************************************************************)

Ages == 0 .. Window
Tally(ages) == [age \in Ages |-> Cardinality({i \in DOMAIN ages : ages[i] = age})]
Fresh(ages) == {i \in DOMAIN ages : ages[i] \in Ages}

LEMMA TallySum ==
  ASSUME NEW ages \in Seq(0 .. Stale)
  PROVE  SumFunctionOnSet(Tally(ages), Ages) = Cardinality(Fresh(ages))
<1>1. IsFiniteSet(Ages) /\ IsFiniteSet(DOMAIN ages)
  BY FS_Interval, LenProperties, BreakerAssumption DEF Ages
<1>2. \A x \in Ages : Tally(ages)[x] = Cardinality(KeyIs(DOMAIN ages, ages, x))
  BY DEF Tally, KeyIs
<1>3. Fresh(ages) = KeyIn(DOMAIN ages, ages, Ages)
  BY DEF Fresh, KeyIn
<1>. QED BY <1>1, <1>2, <1>3, SumOfCounts

(* Pruning a deque that ends with a failure of now keeps its fresh entries.    *)
LEMMA PrunedKeepsFresh ==
  ASSUME NEW ages \in Seq(0 .. Stale), OldestFirst(ages), ages # <<>>, ages[Len(ages)] = 0
  PROVE  \E k \in 1 .. Len(ages) :
           /\ Pruned(ages) = SubSeq(ages, k, Len(ages))
           /\ Fresh(ages) = k .. Len(ages)
<1>. DEFINE fresh == {i \in DOMAIN ages : ages[i] <= Window}
<1>1. /\ Len(ages) \in Nat \ {0} /\ DOMAIN ages = 1 .. Len(ages)
      /\ \A i \in 1 .. Len(ages) : ages[i] \in Nat
  BY EmptySeq, LenProperties, ElementOfSeq, BreakerAssumption DEF Stale
<1>2. Len(ages) \in fresh /\ fresh \in SUBSET Nat
  BY <1>1, BreakerAssumption
<1>3. Min(fresh) \in fresh /\ \A n \in fresh : Min(fresh) <= n
  BY <1>2, MinOfNats
<1>4. Pruned(ages) = SubSeq(ages, Min(fresh), Len(ages))
  BY DEF Pruned
<1>5. Fresh(ages) = fresh
  BY <1>1, BreakerAssumption DEF Fresh, Ages
<1>6. ASSUME NEW i \in Min(fresh) .. Len(ages) PROVE i \in fresh
  <2>1. Min(fresh) \in 1 .. Len(ages) /\ i \in 1 .. Len(ages) /\ ages[Min(fresh)] <= Window
    BY <1>1, <1>3
  <2>2. i = Min(fresh) \/ ages[Min(fresh)] >= ages[i]
    BY <1>1, <2>1 DEF OldestFirst
  <2>. QED BY <1>1, <2>1, <2>2, BreakerAssumption
<1>7. fresh \subseteq Min(fresh) .. Len(ages)
  BY <1>1, <1>3
<1>. QED BY <1>1, <1>3, <1>4, <1>5, <1>6, <1>7

(* A set of positions, all moved by the same distance, has as many members.    *)
LEMMA ShiftedCardinality ==
  ASSUME NEW S \in SUBSET Int, NEW T \in SUBSET Int, NEW d \in Int, IsFiniteSet(T),
         \A i \in Int : i \in S <=> i + d \in T
  PROVE  Cardinality(S) = Cardinality(T)
<1>. DEFINE f == [i \in S |-> i + d]
<1>1. f \in [S -> T] /\ \A i, j \in S : f[i] = f[j] => i = j
  OBVIOUS
<1>2. ASSUME NEW t \in T PROVE \E s \in S : f[s] = t
  <2>1. t - d \in Int /\ (t - d) + d = t
    OBVIOUS
  <2>2. t - d \in S /\ f[t - d] = t
    BY <2>1
  <2>. QED BY <2>2
<1>3. f \in Injection(S, T) /\ f \in Surjection(S, T)
  BY <1>1, <1>2 DEF Injection, Surjection, IsInjective
<1>. QED BY <1>3, FS_Injection

LEMMA PrunedCounts ==
  ASSUME NEW ages \in Seq(0 .. Stale), OldestFirst(ages), ages # <<>>, ages[Len(ages)] = 0
  PROVE  /\ Len(Pruned(ages)) = Cardinality(Fresh(ages))
         /\ Tally(Pruned(ages)) = Tally(ages)
<1>1. PICK k \in 1 .. Len(ages) : /\ Pruned(ages) = SubSeq(ages, k, Len(ages))
                                  /\ Fresh(ages) = k .. Len(ages)
  BY PrunedKeepsFresh
<1>. DEFINE n == Len(ages)
            kept == SubSeq(ages, k, n)
<1>2. n \in Nat /\ DOMAIN ages = 1 .. n /\ ages \in [1 .. n -> 0 .. Stale] /\ k \in Nat
  <2>1. n \in Nat /\ DOMAIN ages = 1 .. n /\ ages \in [1 .. n -> 0 .. Stale]
    BY LenProperties
  <2>. QED BY <2>1
<1>3. /\ kept \in Seq(0 .. Stale) /\ Len(kept) = n - k + 1
      /\ \A i \in 1 .. n - k + 1 : kept[i] = ages[k + i - 1]
  <2>1. \A i \in k .. n : ages[i] \in 0 .. Stale
    BY <1>2
  <2>. QED BY <1>2, <2>1, SubSeqProperties
<1>4. DOMAIN kept = 1 .. n - k + 1
  BY <1>3, LenProperties
<1>5. Cardinality(k .. n) = n - k + 1
  BY <1>2, FS_Interval
<1>. HIDE DEF kept
<1>6. ASSUME NEW age \in Ages
      PROVE  Cardinality({i \in DOMAIN kept : kept[i] = age})
               = Cardinality({i \in DOMAIN ages : ages[i] = age})
  <2>. DEFINE S == {i \in DOMAIN kept : kept[i] = age}
              T == {i \in DOMAIN ages : ages[i] = age}
  <2>1. S \in SUBSET Int /\ T \in SUBSET Int /\ k - 1 \in Int
    BY <1>2, <1>4
  <2>2. IsFiniteSet(T)
    <3>1. IsFiniteSet(1 .. n) /\ T \in SUBSET (1 .. n)
      BY <1>2, FS_Interval
    <3>. QED BY <3>1, FS_Subset
  <2>3. ASSUME NEW i \in Int, i \in S PROVE i + (k - 1) \in T
    BY <1>2, <1>3, <1>4, <2>3
  <2>4. ASSUME NEW i \in Int, i + (k - 1) \in T PROVE i \in S
    <3>1. i + (k - 1) \in Fresh(ages) /\ ages[i + (k - 1)] = age
      BY <2>4 DEF Fresh
    <3>2. i + (k - 1) \in k .. n
      BY <1>1, <3>1
    <3>3. i \in 1 .. n - k + 1 /\ k + i - 1 = i + (k - 1)
      BY <1>2, <3>2
    <3>. QED BY <1>3, <1>4, <3>1, <3>3
  <2>. HIDE DEF S, T
  <2>5. Cardinality(S) = Cardinality(T)
    BY <2>1, <2>2, <2>3, <2>4, ShiftedCardinality
  <2>. QED BY <2>5 DEF S, T
<1>7. Tally(kept) = Tally(ages)
  BY <1>6 DEF Tally
<1>. QED BY <1>1, <1>3, <1>5, <1>7 DEF kept

(* A new failure adds one of age 0.                                            *)
LEMMA AppendCounts ==
  ASSUME NEW ages \in Seq(0 .. Stale)
  PROVE  /\ Cardinality(Fresh(Append(ages, 0))) = Cardinality(Fresh(ages)) + 1
         /\ Tally(Append(ages, 0)) = [Tally(ages) EXCEPT ![0] = @ + 1]
<1>. DEFINE n == Len(ages)
            more == Append(ages, 0)
<1>1. n \in Nat /\ DOMAIN ages = 1 .. n /\ 0 \in 0 .. Stale /\ 0 \in Ages
  BY LenProperties, BreakerAssumption DEF Stale, Ages
<1>2. /\ DOMAIN more = 1 .. n + 1 /\ more[n + 1] = 0
      /\ \A i \in 1 .. n : more[i] = ages[i]
  <2>1. more \in Seq(0 .. Stale) /\ Len(more) = n + 1
    BY <1>1
  <2>. QED BY <1>1, <2>1, LenProperties
<1>. HIDE DEF more
<1>3. IsFiniteSet(1 .. n) /\ n + 1 \notin 1 .. n
  BY <1>1, FS_Interval
<1>4. Fresh(more) = Fresh(ages) \cup {n + 1} /\ Fresh(ages) \in SUBSET (1 .. n)
  BY <1>1, <1>2 DEF Fresh
<1>5. Cardinality(Fresh(more)) = Cardinality(Fresh(ages)) + 1
  BY <1>3, <1>4, FS_Subset, FS_AddElement
<1>6. ASSUME NEW age \in Ages
      PROVE  Tally(more)[age] = [Tally(ages) EXCEPT ![0] = @ + 1][age]
  <2>. DEFINE A == {i \in DOMAIN ages : ages[i] = age}
              B == {i \in DOMAIN more : more[i] = age}
  <2>1. A \in SUBSET (1 .. n) /\ IsFiniteSet(A)
    BY <1>1, <1>3, FS_Subset
  <2>2. CASE age = 0
    <3>1. B = A \cup {n + 1} /\ n + 1 \notin A
      BY <1>1, <1>2, <1>3, <2>2
    <3>2. Cardinality(B) = Cardinality(A) + 1
      <4>. HIDE DEF A, B
      <4>. QED BY <2>1, <3>1, FS_AddElement
    <3>. QED BY <1>1, <2>2, <3>2 DEF Tally
  <2>3. CASE age # 0
    <3>1. B = A
      BY <1>1, <1>2, <1>3, <2>3
    <3>. QED BY <2>3, <3>1 DEF Tally
  <2>. QED BY <2>2, <2>3
<1>7. Tally(more) = [Tally(ages) EXCEPT ![0] = @ + 1]
  BY <1>6 DEF Tally
<1>. QED BY <1>5, <1>7 DEF more

(* A tick makes every counted failure one tick older.                          *)
LEMMA TickCounts ==
  ASSUME NEW ages \in Seq(0 .. Stale)
  PROVE  Tally([i \in 1 .. Len(ages) |-> Older(ages[i], Stale)])
           = [age \in Ages |-> IF age = 0 THEN 0 ELSE Tally(ages)[age - 1]]
<1>. DEFINE n == Len(ages)
            aged == [i \in 1 .. n |-> Older(ages[i], Stale)]
<1>1. /\ n \in Nat /\ DOMAIN ages = 1 .. n /\ Window \in Nat /\ Stale = Window + 1
      /\ \A i \in 1 .. n : ages[i] \in 0 .. Stale
  BY LenProperties, BreakerAssumption DEF Stale
<1>2. ASSUME NEW age \in Ages
      PROVE  Cardinality({i \in DOMAIN aged : aged[i] = age})
               = IF age = 0 THEN 0 ELSE Tally(ages)[age - 1]
  <2>1. CASE age = 0
    <3>1. {i \in DOMAIN aged : aged[i] = age} = {}
      BY <1>1, <2>1 DEF Older
    <3>. QED BY <2>1, <3>1, FS_EmptySet
  <2>2. CASE age # 0
    <3>1. age - 1 \in Ages
      BY <1>1, <2>2 DEF Ages
    <3>2. {i \in DOMAIN aged : aged[i] = age} = {i \in DOMAIN ages : ages[i] = age - 1}
      BY <1>1, <2>2 DEF Older, Ages
    <3>. QED BY <2>2, <3>1, <3>2 DEF Tally
  <2>. QED BY <2>1, <2>2
<1>. QED BY <1>2 DEF Tally

-----------------------------------------------------------------------------
(* Every step of the breaker is a step of the promise, or none.                *)

LEMMA PromiseInit == Init => Promise!Init
<1>. SUFFICES ASSUME Init PROVE Promise!Init
  OBVIOUS
<1>1. /\ breaker.state = "closed" /\ breaker.failures = <<>>
      /\ breaker.openedFor = HalfOpenAfter
      /\ \A c \in Caller : call[c].kind = "none"
  BY DEF Init, NewBreaker, NoCall
<1>2. DOMAIN breaker.failures = {}
  BY <1>1
<1>3. \A age : Cardinality({i \in DOMAIN breaker.failures : breaker.failures[i] = age}) = 0
  BY <1>2, FS_EmptySet
<1>. QED BY <1>1, <1>3 DEF Promise!Init, Promise!NoFailures

LEMMA PromiseEscape ==
  ASSUME Inv, NEW c \in Caller, Escape(c)
  PROVE  Promise!Unreported(c)
BY DEF Escape, Inv, TypeOK, InFlight, NoCall, Promise!Unreported, Promise!Finish

(* The promise's sum of its tally.                                             *)
LEMMA PromiseSum ==
  ASSUME NEW ages \in Seq(0 .. Stale)
  PROVE  Promise!SumFunction(Tally(ages)) = Cardinality(Fresh(ages))
<1>1. DOMAIN Tally(ages) = Ages
  BY DEF Tally
<1>2. Promise!SumFunctionOnSet(Tally(ages), Ages) = SumFunctionOnSet(Tally(ages), Ages)
  BY DEF SumFunctionOnSet, FoldFunctionOnSet, MapThenFoldSet, Promise!SumFunctionOnSet,
         Promise!FoldFunctionOnSet, Promise!MapThenFoldSet
<1>. QED BY <1>1, <1>2, TallySum DEF Promise!SumFunction

\* A half-open breaker has cooled down.
HalfOpenCooled == breaker.state = "half_open" => breaker.openedFor = HalfOpenAfter

\* What the breaker shows the promise.
GateOf(b) == IF b.state = "closed" THEN "closed" ELSE "tripped"
Kinds == [c \in Caller |-> call[c].kind]

LEMMA RefreshShows ==
  ASSUME NEW b \in BreakerRecord
  PROVE  /\ Refresh(b) \in BreakerRecord
         /\ GateOf(Refresh(b)) = GateOf(b) /\ Refresh(b).failures = b.failures
         /\ Refresh(b).openedFor = b.openedFor
         /\ Refresh(b) = b \/ (b.state = "open" /\ Refresh(b).state = "half_open"
                                 /\ b.openedFor = HalfOpenAfter)
<1>1. CASE b.state = "open" /\ b.openedFor >= HalfOpenAfter
  <2>1. /\ Refresh(b) \in BreakerRecord /\ Refresh(b).state = "half_open"
        /\ Refresh(b).failures = b.failures /\ Refresh(b).openedFor = b.openedFor
    BY <1>1 DEF Refresh, BreakerRecord, BreakerState
  <2>2. b.openedFor = HalfOpenAfter
    BY <1>1, BreakerAssumption DEF BreakerRecord
  <2>. QED BY <1>1, <2>1, <2>2 DEF GateOf
<1>2. CASE ~(b.state = "open" /\ b.openedFor >= HalfOpenAfter)
  BY <1>2 DEF Refresh
<1>. QED BY <1>1, <1>2

LEMMA AfterAllowShows ==
  ASSUME NEW b \in BreakerRecord
  PROVE  /\ GateOf(AfterAllow(b)) = GateOf(b) /\ AfterAllow(b).failures = b.failures
         /\ AfterAllow(b).openedFor = b.openedFor
         /\ AfterAllow(b).state = Refresh(b).state
<1>. DEFINE now == Refresh(b)
<1>1. /\ now \in BreakerRecord /\ GateOf(now) = GateOf(b) /\ now.failures = b.failures
      /\ now.openedFor = b.openedFor
  BY RefreshShows
<1>2. AfterAllow(b) = IF now.state = "half_open" THEN [now EXCEPT !.trial = TRUE] ELSE now
  BY DEF AfterAllow
<1>. HIDE DEF now
<1>3. /\ AfterAllow(b).state = now.state /\ AfterAllow(b).failures = now.failures
      /\ AfterAllow(b).openedFor = now.openedFor
  BY <1>1, <1>2 DEF BreakerRecord
<1>. QED BY <1>1, <1>3 DEF GateOf, now

(* A request that asks starts a normal call, the trial, or nothing.            *)
LEMMA PromiseAllow ==
  ASSUME Inv, HalfOpenCooled, NEW c \in Caller, Allow(c)
  PROVE  /\ Promise!Start(c) \/ UNCHANGED Promise!vars
         /\ HalfOpenCooled'
<1>. USE DEF Inv
<1>1. /\ breaker \in BreakerRecord /\ breaker' = AfterAllow(breaker)
      /\ call \in [Caller -> CallRecord] /\ call[c].kind = "none"
  BY DEF TypeOK, Allow, InFlight
<1>2. /\ GateOf(breaker') = GateOf(breaker) /\ breaker'.failures = breaker.failures
      /\ breaker'.openedFor = breaker.openedFor /\ breaker'.state = Refresh(breaker).state
  BY <1>1, AfterAllowShows
<1>3. UNCHANGED GateOf(breaker) /\ UNCHANGED Tally(breaker.failures)
      /\ UNCHANGED breaker.openedFor
  BY <1>2 DEF GateOf, Tally
<1>4. HalfOpenCooled'
  BY <1>1, <1>2, RefreshShows DEF HalfOpenCooled
<1>5. CASE ~Admits(breaker)
  <2>1. call' = call
    BY <1>5 DEF Allow
  <2>. QED BY <1>3, <1>4, <2>1 DEF Promise!vars, GateOf, Tally, Ages
<1>6. CASE Admits(breaker) /\ breaker'.state = "closed"
  <2>1. call' = [call EXCEPT ![c] = [kind |-> "normal", age |-> 0]]
    BY <1>6 DEF Allow
  <2>2. Kinds' = [Kinds EXCEPT ![c] = "normal"] /\ breaker.state = "closed"
    BY <1>1, <1>2, <1>6, <2>1 DEF Kinds, GateOf
  <2>. QED BY <1>1, <1>3, <1>4, <2>2 DEF Promise!Start, GateOf, Tally, Ages, Kinds
<1>7. CASE Admits(breaker) /\ breaker'.state # "closed"
  <2>1. call' = [call EXCEPT ![c] = [kind |-> "trial", age |-> 0]]
    BY <1>7 DEF Allow
  <2>2. Refresh(breaker).state = "half_open" /\ ~Refresh(breaker).trial
    BY <1>2, <1>7 DEF Admits
  <2>3. breaker.openedFor = HalfOpenAfter /\ breaker.state # "closed"
    BY <1>1, <2>2, RefreshShows DEF HalfOpenCooled
  <2>4. ~breaker.trial
    BY <1>1, <2>2, RefreshShows DEF TrialFlagMeansTrial, BreakerRecord
  <2>5. \A d \in Caller : call[d].kind # "trial"
    BY <2>4 DEF TrialFlagMeansTrial
  <2>6. Kinds' = [Kinds EXCEPT ![c] = "trial"]
    BY <1>1, <2>1 DEF Kinds
  <2>. QED
    BY <1>1, <1>3, <1>4, <2>3, <2>5, <2>6
    DEF Promise!Start, Promise!Cooled, GateOf, Tally, Ages, Kinds
<1>. QED BY <1>5, <1>6, <1>7

(* What the end of c's call leaves in flight.  Out of the closed and the       *)
(* half-open state every other call is late already.                           *)
LEMMA PromiseFinish ==
  ASSUME Inv, NEW c \in Caller, call' = AfterReturn(c, breaker'), NEW changed \in BOOLEAN,
         \/ changed <=> breaker'.state # breaker.state
         \/ breaker.state = "open"
  PROVE  Promise!Finish(c, changed)
<1>. USE DEF Inv
<1>1. call \in [Caller -> CallRecord] /\ breaker \in BreakerRecord
  BY DEF TypeOK
<1>2. ASSUME NEW d \in Caller
      PROVE  call'[d].kind = IF d = c THEN "none"
                             ELSE IF changed /\ call[d].kind # "none" THEN "late"
                             ELSE call[d].kind
  <2>1. call'[d] = IF d = c THEN NoCall
                   ELSE IF call[d].kind # "none" /\ breaker'.state # breaker.state
                   THEN [call[d] EXCEPT !.kind = "late"] ELSE call[d]
    BY DEF AfterReturn, InFlight
  <2>2. call[d] \in CallRecord
    BY <1>1
  <2>3. CASE changed <=> breaker'.state # breaker.state
    BY <2>1, <2>2, <2>3 DEF NoCall, CallRecord
  <2>4. CASE breaker.state = "open"
    <3>1. call[d].kind \in {"none", "late"}
      BY <2>2, <2>4 DEF NormalOnlyWhenClosed, TrialFlagMeansTrial, CallRecord
    <3>. QED BY <2>1, <2>2, <3>1 DEF NoCall, CallRecord
  <2>. QED BY <2>3, <2>4
<1>. QED BY <1>2 DEF Promise!Finish

(* Any success closes the circuit.                                             *)
LEMMA PromiseSucceed ==
  ASSUME Inv, HalfOpenCooled, NEW c \in Caller, Succeed(c)
  PROVE  Promise!Success(c) /\ HalfOpenCooled'
<1>1. breaker \in BreakerRecord /\ breaker' = AfterSuccess(breaker) /\ call[c].kind # "none"
  BY DEF Inv, TypeOK, Succeed, InFlight
<1>2. /\ breaker'.state = "closed" /\ breaker'.failures = <<>>
      /\ breaker'.openedFor = breaker.openedFor
  BY <1>1 DEF AfterSuccess, BreakerRecord
<1>3. \A age : Cardinality({i \in DOMAIN breaker'.failures : breaker'.failures[i] = age}) = 0
  <2>1. DOMAIN breaker'.failures = {}
    BY <1>2
  <2>. QED BY <2>1, FS_EmptySet
<1>4. call' = AfterReturn(c, breaker')
  BY DEF Succeed
<1>5. CASE breaker.state = "closed"
  <2>1. Promise!Finish(c, FALSE)
    BY <1>2, <1>4, <1>5, PromiseFinish
  <2>. QED
    BY <1>1, <1>2, <1>3, <1>5, <2>1
    DEF Promise!Success, Promise!NoFailures, Promise!Finish, HalfOpenCooled
<1>6. CASE breaker.state # "closed"
  <2>1. Promise!Finish(c, TRUE)
    BY <1>2, <1>4, <1>6, PromiseFinish
  <2>. QED
    BY <1>1, <1>2, <1>3, <1>6, <2>1
    DEF Promise!Success, Promise!NoFailures, Promise!Finish, HalfOpenCooled
<1>. QED BY <1>5, <1>6

LEMMA PromiseReadState ==
  ASSUME Inv, HalfOpenCooled, ReadState
  PROVE  UNCHANGED Promise!vars /\ HalfOpenCooled'
<1>1. breaker \in BreakerRecord /\ breaker' = Refresh(breaker) /\ call' = call
  BY DEF Inv, TypeOK, ReadState
<1>2. /\ GateOf(breaker') = GateOf(breaker) /\ breaker'.failures = breaker.failures
      /\ breaker'.openedFor = breaker.openedFor
  BY <1>1, RefreshShows
<1>3. HalfOpenCooled'
  BY <1>1, <1>2, RefreshShows DEF HalfOpenCooled
<1>. QED BY <1>1, <1>2, <1>3 DEF Promise!vars, GateOf

LEMMA PromiseTick ==
  ASSUME Inv, HalfOpenCooled, Tick
  PROVE  Promise!Tick /\ HalfOpenCooled'
<1>. DEFINE aged == [i \in 1 .. Len(breaker.failures) |-> Older(breaker.failures[i], Stale)]
<1>1. /\ breaker \in BreakerRecord /\ breaker' = AfterTick(breaker)
      /\ call \in [Caller -> CallRecord]
  BY DEF Inv, TypeOK, Tick
<1>2. breaker.failures \in Seq(0 .. Stale) /\ breaker.openedFor \in 0 .. HalfOpenAfter
  BY <1>1 DEF BreakerRecord
<1>3. /\ breaker'.state = breaker.state /\ breaker'.failures = aged
      /\ breaker'.openedFor = Older(breaker.openedFor, HalfOpenAfter)
  BY <1>1 DEF AfterTick, BreakerRecord
<1>4. Tally(breaker'.failures)
        = [age \in Ages |-> IF age = 0 THEN 0 ELSE Tally(breaker.failures)[age - 1]]
  BY <1>2, <1>3, TickCounts
<1>5. breaker'.openedFor = IF breaker.openedFor = HalfOpenAfter THEN breaker.openedFor
                           ELSE breaker.openedFor + 1
  BY <1>2, <1>3, BreakerAssumption DEF Older
<1>6. Kinds' = Kinds
  <2>1. \A c \in Caller : call'[c].kind = call[c].kind
    <3>. SUFFICES ASSUME NEW c \in Caller PROVE call'[c].kind = call[c].kind
      OBVIOUS
    <3>1. call[c] \in CallRecord
      BY <1>1
    <3>2. call'[c] = IF InFlight(c) THEN [call[c] EXCEPT !.age = @ + 1] ELSE call[c]
      BY DEF Tick
    <3>. QED BY <3>1, <3>2 DEF CallRecord
  <2>. QED BY <2>1 DEF Kinds
<1>7. HalfOpenCooled'
  BY <1>3, <1>5 DEF HalfOpenCooled
<1>. HIDE DEF aged
<1>. QED
  BY <1>3, <1>4, <1>5, <1>6, <1>7 DEF Promise!Tick, Promise!Cooled, Tally, Ages, Kinds

(* A failure trips the circuit when the promise says so, or is counted; or it  *)
(* trips it because the cool-down is over and somebody has looked since.       *)
LEMMA PromiseFail ==
  ASSUME Inv, HalfOpenCooled, NEW c \in Caller, Fail(c)
  PROVE  Promise!Failure(c) /\ HalfOpenCooled'
<1>. DEFINE more == Append(breaker.failures, 0)
            counted == Pruned(more)
            b == AfterFailure(breaker)
            sum == Promise!SumFunction(Tally(breaker.failures))
<1>1. /\ breaker \in BreakerRecord /\ Sound(breaker) /\ breaker' = Refresh(b)
      /\ call' = AfterReturn(c, breaker') /\ call[c].kind # "none"
      /\ breaker.failures \in Seq(0 .. Stale) /\ OldestFirst(breaker.failures)
  BY DEF Inv, TypeOK, Fail, InFlight, Sound, BreakerRecord
<1>2. Len(counted) = sum + 1 /\ Tally(counted) = [Tally(breaker.failures) EXCEPT ![0] = @ + 1]
  <2>1. more \in Seq(0 .. Stale) /\ more # <<>> /\ more[Len(more)] = 0 /\ OldestFirst(more)
    BY <1>1, AppendOldestFirst
  <2>2. Len(counted) = Cardinality(Fresh(more)) /\ Tally(counted) = Tally(more)
    <3>. HIDE DEF more
    <3>. QED BY <2>1, PrunedCounts
  <2>. QED BY <1>1, <2>2, AppendCounts, PromiseSum
<1>3. b = IF breaker.state = "half_open" \/ Len(counted) >= FailureThreshold
          THEN Opened ELSE [breaker EXCEPT !.failures = counted]
  BY DEF AfterFailure
<1>4. Sound(b)
  BY <1>1, AfterFailureSound
<1>5. sum = Promise!SumFunction([age \in 0 .. Window |->
        Cardinality({i \in DOMAIN breaker.failures : breaker.failures[i] = age})])
  BY DEF Tally, Ages
<1>. HIDE DEF more, counted, b, sum
<1>6. CASE breaker.state = "half_open" \/ Len(counted) >= FailureThreshold
  <2>1. breaker' = Opened
    BY <1>1, <1>3, <1>6, BreakerAssumption DEF Refresh, Opened
  <2>2. /\ breaker'.state = "open" /\ breaker'.failures = <<>> /\ breaker'.openedFor = 0
    BY <2>1 DEF Opened
  <2>3. Promise!Finish(c, TRUE)
    <3>1. breaker'.state # breaker.state \/ breaker.state = "open"
      BY <2>2
    <3>. QED BY <1>1, <3>1, PromiseFinish
  <2>4. \A age : Cardinality({i \in DOMAIN breaker'.failures : breaker'.failures[i] = age}) = 0
    <3>1. DOMAIN breaker'.failures = {}
      BY <2>2
    <3>. QED BY <3>1, FS_EmptySet
  <2>5. Promise!Trip(c)
    BY <2>2, <2>3, <2>4 DEF Promise!Trip, Promise!NoFailures
  <2>6. sum + 1 >= FailureThreshold \/ (breaker.state # "closed" /\ breaker.openedFor = HalfOpenAfter)
    BY <1>2, <1>6 DEF HalfOpenCooled
  <2>7. Promise!Failure(c)
    BY <1>1, <1>5, <2>5, <2>6 DEF Promise!Failure, Promise!Cooled
  <2>. QED BY <2>2, <2>7 DEF HalfOpenCooled
<1>7. CASE ~(breaker.state = "half_open" \/ Len(counted) >= FailureThreshold)
  <2>1. /\ b \in BreakerRecord /\ b.state = breaker.state /\ b.failures = counted
        /\ b.openedFor = breaker.openedFor
    BY <1>1, <1>3, <1>4, <1>7 DEF Sound, BreakerRecord
  <2>2. /\ GateOf(breaker') = GateOf(breaker) /\ breaker'.failures = counted
        /\ breaker'.openedFor = breaker.openedFor
    BY <1>1, <2>1, RefreshShows DEF GateOf
  <2>3. Promise!Finish(c, FALSE)
    <3>1. breaker'.state = breaker.state \/ breaker.state = "open"
      BY <1>1, <2>1, RefreshShows
    <3>. QED BY <1>1, <3>1, PromiseFinish
  <2>4. Tally(breaker'.failures) = [Tally(breaker.failures) EXCEPT ![0] = @ + 1]
    BY <1>2, <2>2
  <2>5. Promise!Count(c)
    BY <2>2, <2>3, <2>4 DEF Promise!Count, GateOf, Tally, Ages
  <2>6. ~(sum + 1 >= FailureThreshold)
    BY <1>2, <1>7
  <2>7. Promise!Failure(c)
    BY <1>1, <1>5, <2>5, <2>6 DEF Promise!Failure
  <2>8. HalfOpenCooled'
    BY <1>1, <2>1, <2>2, RefreshShows DEF HalfOpenCooled
  <2>. QED BY <2>7, <2>8
<1>. QED BY <1>6, <1>7

(* The breaker implements its promise, whatever the threshold, the times and   *)
(* the callers: what its deque, its trial flag and its lazy half-opening do    *)
(* to the callers is what the windowed count and one trial would do.           *)
THEOREM BreakerKeepsPromise == Spec => KeepsPromise
<1>1. Init => HalfOpenCooled
  BY DEF Init, NewBreaker, HalfOpenCooled
<1>2. Inv /\ HalfOpenCooled /\ [Next]_vars => HalfOpenCooled' /\ [Promise!Next]_(Promise!vars)
  <2>. SUFFICES ASSUME Inv, HalfOpenCooled, [Next]_vars
                PROVE  HalfOpenCooled' /\ [Promise!Next]_(Promise!vars)
    OBVIOUS
  <2>1. ASSUME NEW c \in Caller, Allow(c) \/ Return(c)
        PROVE  HalfOpenCooled' /\ [Promise!Next]_(Promise!vars)
    <3>1. Escape(c) => HalfOpenCooled'
      BY DEF Escape, HalfOpenCooled
    <3>. QED
      BY <2>1, <3>1, PromiseAllow, PromiseSucceed, PromiseFail, PromiseEscape
      DEF Return, Promise!Next
  <2>2. CASE ReadState
    BY <2>2, PromiseReadState
  <2>3. CASE Tick
    BY <2>3, PromiseTick DEF Promise!Next
  <2>4. CASE UNCHANGED vars
    BY <2>4 DEF vars, Promise!vars, HalfOpenCooled
  <2>. QED BY <2>1, <2>2, <2>3, <2>4 DEF Next
<1>. QED BY <1>1, <1>2, PromiseInit, SpecInv, PTL DEF Spec, KeepsPromise, Promise!Spec
=============================================================================
