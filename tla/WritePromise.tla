----------------------------- MODULE WritePromise -----------------------------
(***************************************************************************)
(* What idempotent_write promises the calls that carry one key, without    *)
(* the table, the pending marker and the polling: each call answers in one *)
(* step, with the result that is kept, with that of its own write, which   *)
(* is kept from then on, or with an error.  Nothing is written while a     *)
(* result is kept.                                                         *)
(*                                                                         *)
(* Three freedoms are in the promise because the code takes them.  A call  *)
(* that fails may have written.  A claim may be lost, never given back,    *)
(* and every later call fails.  And while the sandbox is being reset, or   *)
(* for good after a reset beside a write, nothing is promised.             *)
(***************************************************************************)
EXTENDS Naturals

CONSTANTS Caller, Nobody

VARIABLES
  writes,   \* writes of the key that calls have answered for
  kept,     \* whose result is kept
  claim,    \* of the key: "open" to the next call, or "lost"
  over,     \* calls that have answered
  returned, \* whose result each returned
  standing  \* of the promise: "whole", "resetting" or "void"

vars == <<writes, kept, claim, over, returned, standing>>

Init ==
  /\ writes = 0 /\ kept = Nobody /\ claim = "open" /\ over = {}
  /\ returned = [c \in Caller |-> Nobody]
  /\ standing = "whole"

Answer(c, whose) ==
  /\ c \notin over
  /\ over' = over \cup {c}
  /\ returned' = [returned EXCEPT ![c] = whose]

Free == kept = Nobody /\ claim = "open"

Replay(c) ==
  /\ kept # Nobody
  /\ Answer(c, kept)
  /\ UNCHANGED <<writes, kept, claim>>

Write(c) ==
  /\ Free
  /\ writes' = writes + 1 /\ kept' = c
  /\ Answer(c, c)
  /\ UNCHANGED claim

Fail(c) ==
  /\ Answer(c, Nobody)
  /\ \/ UNCHANGED <<writes, claim>>
     \/ Free /\ writes' \in {writes, writes + 1} /\ claim' \in {"open", "lost"}
  /\ UNCHANGED kept

\* A call that has failed does not give its claim back.
Lose ==
  /\ Free
  /\ \E c \in over : returned[c] = Nobody
  /\ claim' = "lost"
  /\ UNCHANGED <<writes, kept, over, returned>>

BeginReset ==
  /\ standing = "whole" /\ standing' = "resetting"
  /\ writes' = 0 /\ kept' = Nobody /\ claim' = "open"
  /\ UNCHANGED <<over, returned>>

\* No call was under way, or the promise ends here.
EndReset ==
  /\ standing = "resetting" /\ standing' \in {"whole", "void"}
  /\ UNCHANGED <<writes, kept, claim, over, returned>>

Unpromised(c) ==
  /\ standing # "whole"
  /\ \E whose \in Caller \cup {Nobody} : Answer(c, whose)
  /\ UNCHANGED <<writes, kept, claim, standing>>

Promised ==
  /\ standing = "whole" /\ UNCHANGED standing
  /\ (\E c \in Caller : Replay(c) \/ Write(c) \/ Fail(c)) \/ Lose

Next == Promised \/ BeginReset \/ EndReset \/ \E c \in Caller : Unpromised(c)

Spec == Init /\ [][Next]_vars
=============================================================================
