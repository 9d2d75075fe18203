----------------------------- MODULE Idempotency -----------------------------
(***************************************************************************)
(* One key of the IdempotencyStore and the calls of idempotent_write that  *)
(* carry it (mcp_servers/common.py): calls in threads and processes of     *)
(* their own, over one SQLite table in which every statement is a          *)
(* transaction.  The backend the write goes to is outside the database: it *)
(* may apply the write and still raise, as when its answer is lost.        *)
(***************************************************************************)
EXTENDS Naturals, FiniteSets

CONSTANTS
  Caller,     \* calls with this key, each made once
  Nobody,     \* no call
  MaxResets   \* bound: resets of the sandbox workspace

ASSUME IdempotencyAssumption ==
  /\ IsFiniteSet(Caller) /\ Nobody \notin Caller /\ MaxResets \in Nat

VARIABLES
  mode,      \* "live" or "sandbox" backends, fixed for good
  entry,     \* the key's row: absent, the pending marker, or a result
  result,    \* whose result the row holds
  pc,        \* where each call is
  returned,  \* whose result each call returned
  effects,   \* history: writes of the key in the workspace
  slips,     \* history: writes the store lost track of
  resets     \* history: resets begun

row == <<entry, result>>
vars == <<mode, row, pc, returned, effects, slips, resets>>

\* "wiped": the workspace is empty and the keys are not cleared yet.
TypeOK ==
  /\ mode \in {"live", "sandbox", "wiped"}
  /\ entry \in {"absent", "pending", "done"}
  /\ result \in Caller \cup {Nobody} /\ (entry = "done" <=> result # Nobody)
  /\ pc \in [Caller -> {"idle", "claim", "poll", "write", "written", "release", "over"}]
  /\ returned \in [Caller -> Caller \cup {Nobody}]
  /\ effects \in 0 .. Cardinality(Caller)
  /\ slips \in Nat
  /\ resets \in 0 .. MaxResets

Init ==
  /\ mode \in {"live", "sandbox"}
  /\ entry = "absent" /\ result = Nobody
  /\ pc = [c \in Caller |-> "idle"]
  /\ returned = [c \in Caller |-> Nobody]
  /\ effects = 0 /\ slips = 0 /\ resets = 0

-----------------------------------------------------------------------------

Goto(c, where) == pc' = [pc EXCEPT ![c] = where]
Return(c, whose) == Goto(c, "over") /\ returned' = [returned EXCEPT ![c] = whose]

\* Calls that hold a claim, or think they do.
Holders == {c \in Caller : pc[c] \in {"write", "written", "release"}}

Start(c) ==
  /\ pc[c] = "idle"
  /\ Goto(c, "claim")
  /\ UNCHANGED <<mode, row, returned, effects, slips, resets>>

\* Mutant: the row is looked at, not inserted.
ClaimByLook(c) ==
  /\ pc[c] = "claim"
  /\ IF entry = "absent" THEN Goto(c, "write") ELSE Goto(c, "poll")
  /\ UNCHANGED <<mode, row, returned, effects, slips, resets>>

\* INSERT OR IGNORE of the pending marker: whoever inserts the row writes.
Claim(c) ==
  /\ pc[c] = "claim"
  /\ IF entry = "absent"
     THEN Goto(c, "write") /\ entry' = "pending"
     ELSE Goto(c, "poll") /\ UNCHANGED entry
  /\ UNCHANGED <<mode, result, returned, effects, slips, resets>>

\* One reading of the row that is not the pending marker: a released key is claimed
\* again, a result is returned as a replay.
Poll(c) ==
  /\ pc[c] = "poll"
  /\ \/ entry = "absent" /\ Goto(c, "claim") /\ UNCHANGED returned
     \/ entry = "done" /\ Return(c, result)
  /\ UNCHANGED <<mode, row, effects, slips, resets>>

\* Mutant: a call that has waited long enough claims once more.
ClaimAfterWait(c) ==
  /\ pc[c] = "poll"
  /\ Goto(c, "claim")
  /\ UNCHANGED <<mode, row, returned, effects, slips, resets>>

\* Mutant: a wait that runs out takes the claim for a dead call's and removes it.
TimeOutReleases(c) ==
  /\ pc[c] = "poll"
  /\ entry' = "absent" /\ result' = Nobody
  /\ Goto(c, "over")
  /\ UNCHANGED <<mode, returned, effects, slips, resets>>

\* CLAIM_WAIT_S passes without the result: a ToolError.
TimeOut(c) ==
  /\ pc[c] = "poll"
  /\ Goto(c, "over")
  /\ UNCHANGED <<mode, row, returned, effects, slips, resets>>

\* Mutant: the write is sent again after it took effect.
ApplyAgain(c) ==
  /\ pc[c] = "write"
  /\ effects' = effects + 1
  /\ UNCHANGED <<mode, row, pc, returned, slips, resets>>

\* write() takes effect.
Apply(c) ==
  /\ pc[c] = "write"
  /\ effects' = effects + 1
  /\ Goto(c, "written")
  /\ UNCHANGED <<mode, row, returned, slips, resets>>

\* write() raises: without effect, or, against a live backend, after it.
Raise(c) ==
  /\ \/ pc[c] = "write" /\ UNCHANGED slips
     \/ pc[c] = "written" /\ mode = "live" /\ slips' = slips + 1
  /\ Goto(c, "release")
  /\ UNCHANGED <<mode, row, returned, effects, resets>>

\* release: DELETE, whoever owns the row by now.
Release(c) ==
  /\ pc[c] = "release"
  /\ entry' = "absent" /\ result' = Nobody
  /\ Goto(c, "over")
  /\ UNCHANGED <<mode, returned, effects, slips, resets>>

\* Mutant: the claim is dropped after the write.
CompleteAndDrop(c) ==
  /\ pc[c] = "written"
  /\ entry' = "absent" /\ result' = Nobody
  /\ Return(c, c)
  /\ UNCHANGED <<mode, effects, slips, resets>>

\* complete: UPDATE, which changes nothing when the row is gone.
Complete(c) ==
  /\ pc[c] = "written"
  /\ IF entry = "absent" THEN UNCHANGED row ELSE entry' = "done" /\ result' = c
  /\ Return(c, c)
  /\ UNCHANGED <<mode, effects, slips, resets>>

-----------------------------------------------------------------------------

\* The process dies, or the database refuses a statement: the row stays as it is,
\* for ever pending if this call had claimed it.
Die(c) ==
  /\ pc[c] \notin {"idle", "over"}
  /\ Goto(c, "over")
  /\ UNCHANGED <<mode, row, returned, effects, slips, resets>>

\* ConnectorBackends.reset in sandbox mode empties the workspace, ...
Wipe ==
  /\ mode = "sandbox" /\ resets < MaxResets
  /\ mode' = "wiped"
  /\ resets' = resets + 1
  /\ effects' = 0
  /\ UNCHANGED <<row, pc, returned, slips>>

\* ... then deletes every key: those of the writes made since the workspace was
\* emptied, and those of the calls under way, too.
Clear ==
  /\ mode = "wiped"
  /\ mode' = "sandbox"
  /\ entry' = "absent" /\ result' = Nobody
  /\ slips' = slips + effects + Cardinality(Holders)
  /\ UNCHANGED <<pc, returned, effects, resets>>

Step(c) ==
  \/ Claim(c) \/ Poll(c) \/ TimeOut(c) \/ Apply(c) \/ Raise(c) \/ Release(c) \/ Complete(c)

Next ==
  \/ \E c \in Caller : Start(c) \/ Step(c) \/ Die(c)
  \/ Wipe \/ Clear

\* Threads run, and a wait for another call's result ends at its deadline.
Spec == Init /\ [][Next]_vars /\ \A c \in Caller : WF_vars(Step(c))

-----------------------------------------------------------------------------

(***************************************************************************)
(* idempotent_write's docstring, "perform a write at most once per         *)
(* idempotency key", with its limits: the workspace holds at most one      *)
(* write more than the store lost track of, by an error raised after the   *)
(* effect or by a reset beside the call.  A crash is not among the limits: *)
(* it leaves the key pending, and nobody writes.                           *)
(***************************************************************************)
WrittenOnceButForSlips == effects <= slips + 1

(***************************************************************************)
(* "First-result-wins": as long as the workspace was not reset, all the    *)
(* calls that return return the same result, that of a call that wrote.    *)
(* Errors after the effect do not change that.                             *)
(***************************************************************************)
FirstResultWins ==
  resets = 0 =>
    \A c, d \in Caller :
      returned[c] # Nobody /\ returned[d] # Nobody =>
        returned[c] = returned[d] /\ returned[returned[c]] = returned[c]

\* Every call ends, though a released key restarts its wait.
CallsEnd == \A c \in Caller : pc[c] = "claim" ~> pc[c] = "over"

\* The workspace and the keys are at one: there is no reset under way, nor was there
\* one beside a write.
Whole == mode = "live" \/ (mode = "sandbox" /\ slips = 0)

\* Calls whose write took effect and that have not answered for it yet.
Unanswered == {c \in Caller : pc[c] = "written"}
Answered == {c \in Caller : pc[c] \in {"release", "over"}}

(***************************************************************************)
(* The steps of the calls with one key, interleaved, are one step of each: *)
(* a call writes and keeps its result, returns the one that is kept, or    *)
(* fails, and no call writes while a result is kept or after the death of  *)
(* one that held the claim, but for a reset beside them.                   *)
(***************************************************************************)
Promise == INSTANCE WritePromise WITH
  writes <- IF Whole THEN effects - Cardinality(Unanswered) ELSE 0,
  kept <- IF Whole THEN result ELSE Nobody,
  claim <- IF Whole /\ entry = "pending" /\ Holders = {} THEN "lost" ELSE "open",
  over <- Answered,
  standing <- IF Whole THEN "whole" ELSE IF slips = 0 THEN "resetting" ELSE "void"

KeepsWritePromise == Promise!Spec

\* The docstring as written.
WrittenAtMostOnce == effects <= 1
=============================================================================
