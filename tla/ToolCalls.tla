------------------------------ MODULE ToolCalls ------------------------------
(***************************************************************************)
(* Tool calls from the runner to the connector servers and what they leave *)
(* behind: McpToolbox.call (runner/mcp_client.py), idempotent_write as the *)
(* servers perform it (mcp_servers/common.py, detailed in Idempotency) and *)
(* the sandbox workspace that a reset replaces (backends/factory.py).      *)
(*                                                                         *)
(* The caller has one call at a time; the servers are processes of their   *)
(* own.  A caller that dies leaves its call with the server, which may     *)
(* still perform it.  Of a write only its key is kept.                     *)
(***************************************************************************)
EXTENDS Naturals, Sequences

CONSTANTS
  Caller,      \* run ids; the guard sends its alerts under an id of its own
  StepId, Arg,
  Tool, WriteTool,  \* the tools that take an idempotency key
  NoCall

VARIABLES
  workspace,   \* keys of the writes in the workspace, in the order they took effect
  stored,      \* keys the idempotency store holds a result for
  call,        \* the runner's call in flight
  stray,       \* keys of writes whose caller died, still with their server
  ledger       \* tool_calls rows, as far as they are about the present workspace

toolVars == <<workspace, stored, call, stray, ledger>>

Key == [run : Caller, step : StepId, args : Arg]
Answer == {"none", "ok", "error"}
Call == [key : Key, tool : Tool, answer : Answer]
LedgerRow == [run : Caller, step : StepId, status : {"ok", "error"}]

ASSUME ToolAssumption == WriteTool \subseteq Tool /\ NoCall \notin Call

ToolsTypeOK ==
  /\ workspace \in Seq(Key) /\ stored \in SUBSET Key
  /\ call \in Call \cup {NoCall} /\ stray \in SUBSET Key
  /\ ledger \in SUBSET LedgerRow

ToolsInit ==
  /\ workspace = <<>> /\ stored = {} /\ call = NoCall /\ stray = {} /\ ledger = {}

\* Mutant: the key leaves the step out.
KeyOfArguments(run, step, args) ==
  [run |-> run, step |-> CHOOSE s \in StepId : TRUE, args |-> args]

\* idempotency_key, a hash of the run, the step and the arguments.
KeyOf(run, step, args) == [run |-> run, step |-> step, args |-> args]

\* idempotent_write, in one step of WritePromise: a replay of what is stored, or an
\* error without effect, as of a wait that ran out; or, when nothing is stored, the
\* write, whose result is stored, or which raised after its effect.
Write(key, answer) ==
  \/ /\ answer = "ok" => key \in stored
     /\ UNCHANGED <<workspace, stored>>
  \/ /\ key \notin stored
     /\ workspace' = Append(workspace, key)
     /\ stored' = IF answer = "ok" THEN stored \cup {key} ELSE stored

\* McpToolbox.call up to the await of call_tool.
Send(run, step, tool, args) ==
  /\ call' = [key |-> KeyOf(run, step, args), tool |-> tool, answer |-> "none"]
  /\ UNCHANGED <<workspace, stored, stray, ledger>>

\* The server performs the call; a read changes nothing (logged_read).
Serve ==
  /\ call # NoCall /\ call.answer = "none"
  /\ \E answer \in {"ok", "error"} :
       /\ call' = [call EXCEPT !.answer = answer]
       /\ IF call.tool \in WriteTool
          THEN Write(call.key, answer)
          ELSE UNCHANGED <<workspace, stored>>
  /\ UNCHANGED <<stray, ledger>>

\* A server performs a write nobody waits for.
ServeStray ==
  /\ \E key \in stray, answer \in {"ok", "error"} :
       stray' = stray \ {key} /\ Write(key, answer)
  /\ UNCHANGED <<call, ledger>>

Recorded(key, answer) == [run |-> key.run, step |-> key.step, status |-> answer]

\* Mutant: a call that failed is not recorded.
CloseSuccesses ==
  /\ call # NoCall /\ call.answer # "none"
  /\ ledger' = IF call.answer = "ok" THEN ledger \cup {Recorded(call.key, "ok")} ELSE ledger
  /\ call' = NoCall
  /\ UNCHANGED <<workspace, stored, stray>>

\* The answer arrives and is recorded, whatever it is.
Close ==
  /\ call # NoCall /\ call.answer # "none"
  /\ ledger' = ledger \cup {Recorded(call.key, call.answer)}
  /\ call' = NoCall
  /\ UNCHANGED <<workspace, stored, stray>>

\* Mutant: the call outlives its caller.
Forget == UNCHANGED toolVars

\* The caller is gone: a write it has sent stays with the server.
Abandon ==
  /\ call' = NoCall
  /\ stray' = IF call # NoCall /\ call.answer = "none" /\ call.tool \in WriteTool
              THEN stray \cup {call.key} ELSE stray
  /\ UNCHANGED <<workspace, stored, ledger>>

\* A call of the guard's notifier, from the send to the record; it is in flight
\* beside the runner's, on the same sessions.
Post(run, step, args) ==
  /\ \E answer \in {"ok", "error"} :
       /\ Write(KeyOf(run, step, args), answer)
       /\ ledger' = ledger \cup {Recorded(KeyOf(run, step, args), answer)}
  /\ UNCHANGED <<call, stray>>

\* The two steps of ConnectorBackends.reset on a sandbox, which the servers'
\* processes can come between.  No property asks for older rows of the ledger.
Wipe ==
  /\ workspace' = <<>> /\ ledger' = {}
  /\ UNCHANGED <<stored, call, stray>>

\* Mutant: as in live mode, keys persist.
KeepKeys == UNCHANGED toolVars

Clear ==
  /\ stored' = {}
  /\ UNCHANGED <<workspace, call, stray, ledger>>
=============================================================================
