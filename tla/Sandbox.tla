-------------------------------- MODULE Sandbox --------------------------------
(***************************************************************************)
(* The SQLite sandbox (SandboxStore, sandbox/store.py) between the runner, *)
(* which resets it to a task's fixtures (backends/factory.py), and the     *)
(* connector servers, which write to it (backends/slack.py, notion.py,     *)
(* crm.py).  All are processes of their own on one file: an action is one  *)
(* transaction.  Ids count from one after every reset, and most rows take  *)
(* their id in one transaction and are inserted in the next.               *)
(*                                                                         *)
(* A server performs one call at a time.  A call outlives the run that     *)
(* sent it, and the guard's alerts come at any time.                       *)
(***************************************************************************)
EXTENDS Naturals, Sequences, FiniteSets

CONSTANTS
  Name,                  \* names of fixtures, channels and databases
  Unnamed,               \* the name of a row a server inserts
  AlertChannel,          \* the channel the calls post to
  Fixtures,              \* what a reset inserts, in order
  ContactField,
  BlockCount,            \* blocks of one append
  MaxResets, MaxCalls    \* bounds of the model

Kind == {"channel", "message", "database", "page", "block", "company", "person",
         "opportunity", "activity"}
Container == {"channel", "database"}  \* made by ensure_*, unless they are there
\* Pages are inserted without blocks, contacts without activities; channels and
\* databases refer to nothing.
Fixture == [name : Name, kind : Kind \ {"block", "activity"}, of : SUBSET Name]
RowId == Kind \X Nat
Row == [id : RowId, name : Name \cup {Unnamed}, of : SUBSET RowId, pos : Nat,
        fields : [ContactField -> Nat]]
Server == {"slack", "notion", "crm"}
Op == {"post", "create_page", "append_blocks", "update_contact", "log_activity"}

ASSUME SandboxAssumption ==
  /\ Fixtures \in Seq(Fixture) /\ AlertChannel \in Name /\ Unnamed \notin Name
  /\ \A i, j \in DOMAIN Fixtures : Fixtures[i].name = Fixtures[j].name => i = j
  /\ \A i \in DOMAIN Fixtures : Fixtures[i].of \subseteq {Fixtures[j].name : j \in 1 .. i - 1}
  /\ \A i \in DOMAIN Fixtures : Fixtures[i].kind \in Container => Fixtures[i].of = {}
  /\ BlockCount \in Nat \ {0} /\ MaxResets \in Nat /\ MaxCalls \in Nat

VARIABLES
  rows,      \* all tables
  sequence,  \* sandbox_sequence
  runner,    \* where the runner is: its step in the fixtures, the id it took, its refs
  calls,     \* the call each server performs
  resets,    \* resets begun, the id of the present run
  sent,      \* calls sent
  touched    \* history: a server wrote since the reset began

sandboxVars == <<rows, sequence, runner, calls, resets, sent, touched>>

Nobody == <<"channel", 0>>  \* no row has this id
Untouched == [f \in ContactField |-> 0]
NoCallHere == [op |-> "post", at |-> "idle", run |-> 0, number |-> 0, target |-> Nobody,
               parent |-> {}, taken |-> 0, pos |-> 0, fields |-> Untouched]
Fresh(at) == [at |-> at, step |-> 1, taken |-> 0, refs |-> <<>>]

SandboxTypeOK ==
  /\ rows \in SUBSET Row /\ sequence \in [Kind -> Nat]
  /\ runner.at \in {"idle", "fill", "create", "insert", "filled"}
  /\ runner.step \in 1 .. Len(Fixtures) + 1 /\ runner.taken \in Nat
  /\ DOMAIN runner.refs \subseteq Name
  /\ \A s \in Server :
       /\ calls[s].op \in Op /\ calls[s].run \in 0 .. MaxResets /\ calls[s].target \in RowId
       /\ calls[s].parent \subseteq RowId
       /\ calls[s].at \in {"idle", "look", "create", "check", "take", "insert", "position",
                           "append", "read", "write"}
  /\ resets \in 0 .. MaxResets /\ sent \in 0 .. MaxCalls /\ touched \in BOOLEAN

SandboxInit ==
  /\ rows = {} /\ sequence = [k \in Kind |-> 0] /\ runner = Fresh("idle")
  /\ calls = [s \in Server |-> NoCallHere] /\ resets = 0 /\ sent = 0 /\ touched = FALSE

-----------------------------------------------------------------------------
\* SQL

RowAt(id) == {r \in rows : r.id = id}
Named(kind, name) == {r \in rows : r.id[1] = kind /\ r.name = name}
OfKind(kind) == {r \in rows : r.id[1] = kind}

\* Primary keys, that of a message with its channel, and the unique names.
Clashes(row) ==
  \E r \in rows :
    \/ /\ r.id = row.id
       /\ row.id[1] = "message" => \E c \in r.of \cap row.of : c[1] = "channel"
    \/ row.id[1] \in Container /\ r.id[1] = row.id[1] /\ r.name = row.name

\* Mutant: COUNT of the blocks instead of MAX of the positions.
NextPositionByCount(page) == Cardinality({r \in OfKind("block") : page \in r.of})

\* COALESCE(MAX(position), -1) + 1
NextPosition(page) ==
  CHOOSE n \in 0 .. MaxCalls * BlockCount :
    /\ \A r \in OfKind("block") : page \in r.of => r.pos < n
    /\ n = 0 \/ \E r \in OfKind("block") : page \in r.of /\ r.pos = n - 1

NewRow(id, name, of) == [id |-> id, name |-> name, of |-> of, pos |-> 0, fields |-> Untouched]
TakeId(kind) == sequence' = [sequence EXCEPT ![kind] = @ + 1]

-----------------------------------------------------------------------------
\* The runner: ConnectorBackends.reset

Begun == Fresh(IF Fixtures = <<>> THEN "filled" ELSE "fill")

\* Mutant: the sequences go on.
ResetKeepingSequence ==
  /\ runner.at = "idle" /\ resets < MaxResets
  /\ rows' = {} /\ UNCHANGED sequence
  /\ runner' = Begun /\ resets' = resets + 1 /\ touched' = FALSE
  /\ UNCHANGED <<calls, sent>>

\* SandboxStore.reset: every table and the sequences, in one transaction.
ResetTables ==
  /\ runner.at = "idle" /\ resets < MaxResets
  /\ rows' = {} /\ sequence' = [k \in Kind |-> 0]
  /\ runner' = Begun /\ resets' = resets + 1 /\ touched' = FALSE
  /\ UNCHANGED <<calls, sent>>

NextFixture == Fixtures[runner.step]
Placed(id) ==
  [at |-> IF runner.step = Len(Fixtures) THEN "filled" ELSE "fill", step |-> runner.step + 1,
   taken |-> 0, refs |-> [n \in DOMAIN runner.refs \cup {NextFixture.name} |->
                            IF n = NextFixture.name THEN id ELSE runner.refs[n]]]
Filling == UNCHANGED <<calls, resets, sent, touched>>

\* ensure_channel, ensure_database: a look, then id and row in one transaction; a row
\* of the same name that came in between raises.
LookForContainer ==
  /\ runner.at = "fill" /\ NextFixture.kind \in Container
  /\ \/ \E r \in Named(NextFixture.kind, NextFixture.name) : runner' = Placed(r.id)
     \/ Named(NextFixture.kind, NextFixture.name) = {} /\ runner' = [runner EXCEPT !.at = "create"]
  /\ UNCHANGED <<rows, sequence>> /\ Filling

CreateContainer ==
  /\ runner.at = "create"
  /\ LET row == NewRow(<<NextFixture.kind, sequence[NextFixture.kind] + 1>>, NextFixture.name, {})
     IN  IF Clashes(row)
         THEN runner' = Fresh("idle") /\ UNCHANGED <<rows, sequence>>
         ELSE rows' = rows \cup {row} /\ TakeId(NextFixture.kind) /\ runner' = Placed(row.id)
  /\ Filling

\* new_id, next_ts, then the row, whose key a server may have used meanwhile.
TakeFixtureId ==
  /\ runner.at = "fill" /\ NextFixture.kind \notin Container
  /\ TakeId(NextFixture.kind)
  /\ runner' = [runner EXCEPT !.at = "insert", !.taken = sequence[NextFixture.kind] + 1]
  /\ UNCHANGED rows /\ Filling

\* A fixture's references are those of the fixtures before it.
FixtureRow ==
  NewRow(<<NextFixture.kind, runner.taken>>, NextFixture.name,
         {runner.refs[n] : n \in NextFixture.of})

InsertFixture ==
  /\ runner.at = "insert"
  /\ IF Clashes(FixtureRow)
     THEN runner' = Fresh("idle") /\ UNCHANGED rows
     ELSE rows' = rows \cup {FixtureRow} /\ runner' = Placed(FixtureRow.id)
  /\ UNCHANGED sequence /\ Filling

\* The run ends, or its process does.
EndRun ==
  /\ runner.at # "idle" /\ runner' = Fresh("idle")
  /\ UNCHANGED <<rows, sequence, calls, resets, sent, touched>>

-----------------------------------------------------------------------------
\* The servers

Own == {s \in Server : calls[s].at # "idle" /\ calls[s].run = resets}
Ends(s) == calls' = [calls EXCEPT ![s] = NoCallHere]
Goes(s, at) == calls' = [calls EXCEPT ![s].at = at]
Finds(s, at, parent) == calls' = [calls EXCEPT ![s].at = at, ![s].parent = parent]
Wrote == touched' = TRUE /\ UNCHANGED <<runner, resets, sent>>
OnlyRead == UNCHANGED <<rows, sequence, runner, resets, sent, touched>>

Send(s, op, target, run) ==
  /\ calls[s].at = "idle" /\ sent < MaxCalls
  /\ calls' = [calls EXCEPT ![s] =
       [NoCallHere EXCEPT !.op = op, !.at = "look", !.run = run, !.number = sent + 1,
                          !.target = target]]
  /\ sent' = sent + 1
  /\ UNCHANGED <<rows, sequence, runner, resets, touched>>

\* A run calls one tool after the other, about ids it has read; an alert of the guard
\* is a post by nobody's run.
SendCall ==
  \/ Send("slack", "post", Nobody, 0)
  \/ /\ runner.at = "filled" /\ Own = {}
     /\ \/ \E thread \in {Nobody} \cup {r.id : r \in OfKind("message")} :
             Send("slack", "post", thread, resets)
        \/ Send("notion", "create_page", Nobody, resets)
        \/ \E r \in OfKind("page") : Send("notion", "append_blocks", r.id, resets)
        \/ \E r \in OfKind("person"), op \in {"update_contact", "log_activity"} :
             Send("crm", op, r.id, resets)

\* The first query: a missing channel is created, a missing database, page or contact
\* is an error of the tool.
Found(call) ==
  CASE call.op = "post" -> Named("channel", AlertChannel)
    [] call.op = "create_page" -> OfKind("database")
    [] OTHER -> RowAt(call.target)

AfterLook(op) ==
  CASE op \in {"post", "append_blocks"} -> "check"
    [] op \in {"create_page", "log_activity"} -> "take"
    [] op = "update_contact" -> "read"

Look(s) ==
  /\ calls[s].at = "look"
  /\ LET found == Found(calls[s])
     IN  \/ \E r \in found : Finds(s, AfterLook(calls[s].op),
                                   IF calls[s].op = "append_blocks" THEN r.of ELSE {r.id})
         \/ found = {} /\ IF calls[s].op = "post" THEN Goes(s, "create") ELSE Ends(s)
  /\ OnlyRead

CreateChannel(s) ==
  /\ calls[s].at = "create"
  /\ LET row == NewRow(<<"channel", sequence["channel"] + 1>>, AlertChannel, {})
     IN  IF Clashes(row)
         THEN Ends(s) /\ OnlyRead
         ELSE rows' = rows \cup {row} /\ TakeId("channel") /\ Finds(s, "check", {row.id}) /\ Wrote

\* The second: a reply needs a message of its thread, an append the page's database.
Check(s) ==
  /\ calls[s].at = "check"
  /\ LET target == calls[s].target
         thread == {r \in OfKind("message") : calls[s].parent \subseteq r.of /\ target \in {r.id} \cup r.of}
     IN  IF calls[s].op = "post"
         THEN IF target = Nobody \/ thread # {} THEN Goes(s, "take") ELSE Ends(s)
         ELSE IF \E r \in rows : r.id \in calls[s].parent THEN Goes(s, "position") ELSE Ends(s)
  /\ OnlyRead

Makes(op) == CASE op = "post" -> "message" [] op = "create_page" -> "page"
               [] op = "log_activity" -> "activity"

Take(s) ==
  /\ calls[s].at = "take"
  /\ LET kind == Makes(calls[s].op)
     IN  /\ TakeId(kind)
         /\ calls' = [calls EXCEPT ![s].at = "insert", ![s].taken = sequence[kind] + 1]
  /\ UNCHANGED rows /\ Wrote

InsertedRow(call) ==
  NewRow(<<Makes(call.op), call.taken>>, Unnamed,
         call.parent \cup (IF call.op = "post" THEN {call.target} \ {Nobody} ELSE {}))

Insert(s) ==
  /\ calls[s].at = "insert"
  /\ LET row == InsertedRow(calls[s])
     IN  IF Clashes(row) THEN UNCHANGED <<rows, runner, resets, sent, touched>>
         ELSE rows' = rows \cup {row} /\ Wrote
  /\ Ends(s)
  /\ UNCHANGED sequence

\* append_blocks reads the last position before its first INSERT begins the
\* transaction; there is no foreign key to the page.
Position(s) ==
  /\ calls[s].at = "position"
  /\ calls' = [calls EXCEPT ![s].at = "append", ![s].pos = NextPosition(calls[s].target)]
  /\ OnlyRead

AppendBlocks(s) ==
  /\ calls[s].at = "append"
  /\ rows' = rows \cup
       {[NewRow(<<"block", sequence["block"] + i>>, Unnamed, {calls[s].target})
           EXCEPT !.pos = calls[s].pos + i - 1] : i \in 1 .. BlockCount}
  /\ sequence' = [sequence EXCEPT !["block"] = @ + BlockCount]
  /\ Ends(s) /\ Wrote

\* update_person: the record is read, its fields merged and written back.
ReadContact(s) ==
  /\ calls[s].at = "read"
  /\ \/ \E r \in RowAt(calls[s].target) :
          calls' = [calls EXCEPT ![s].at = "write", ![s].fields = r.fields]
     \/ RowAt(calls[s].target) = {} /\ Ends(s)
  /\ OnlyRead

\* Mutant: the record's other fields are not written back.
OnlyNewFields(call, f) == [Untouched EXCEPT ![f] = call.number]

MergedFields(call, f) == [call.fields EXCEPT ![f] = call.number]

WriteContact(s) ==
  /\ calls[s].at = "write"
  /\ \E f \in ContactField :
       rows' = {IF r.id = calls[s].target THEN [r EXCEPT !.fields = MergedFields(calls[s], f)]
                ELSE r : r \in rows}
  /\ Ends(s)
  /\ UNCHANGED sequence /\ Wrote

Work(s) ==
  \/ Look(s) \/ CreateChannel(s) \/ Check(s) \/ Take(s) \/ Insert(s) \/ Position(s)
  \/ AppendBlocks(s) \/ ReadContact(s) \/ WriteContact(s)

SandboxNext ==
  \/ ResetTables \/ LookForContainer \/ CreateContainer \/ TakeFixtureId \/ InsertFixture
  \/ EndRun \/ SendCall
  \/ \E s \in Server : Work(s)

SandboxSpec == SandboxInit /\ [][SandboxNext]_sandboxVars

-----------------------------------------------------------------------------

CanonicalId(i) ==
  <<Fixtures[i].kind, Cardinality({j \in 1 .. i : Fixtures[j].kind = Fixtures[i].kind})>>
IdOf(name) == CHOOSE id \in {CanonicalId(i) : i \in DOMAIN Fixtures} :
                \E i \in DOMAIN Fixtures : Fixtures[i].name = name /\ CanonicalId(i) = id

RefsResolve ==
  \A name \in DOMAIN runner.refs :
    \E r \in rows : r.id = runner.refs[name] /\ r.name = name

CanonicalRows ==
  /\ rows = {NewRow(CanonicalId(i), Fixtures[i].name, {IdOf(n) : n \in Fixtures[i].of}) :
               i \in DOMAIN Fixtures}
  /\ \A k \in Kind : sequence[k] = Cardinality({i \in DOMAIN Fixtures : Fixtures[i].kind = k})

(***************************************************************************)
(* "sandbox timestamps count up from a fixed epoch so ids and ts values    *)
(* are identical on every reset of the same task" (store.py): whatever the *)
(* runs and resets before it left or left undone, a reset no server wrote  *)
(* into gives the same rows, ids and next ids.  And the refs a reset hands *)
(* to the task name the fixtures they stand for, also when servers write   *)
(* into the reset or a call outlives it.                                   *)
(***************************************************************************)
ResetCanonical == RefsResolve /\ (runner.at = "filled" /\ ~touched => CanonicalRows)

(***************************************************************************)
(* The blocks of a page have one position each, in the order they were     *)
(* appended, although the last position is read outside the transaction    *)
(* and a reset may replace the page in between.                            *)
(***************************************************************************)
BlocksInOrder ==
  \A b, c \in OfKind("block") : b.of = c.of /\ b.id[2] < c.id[2] => b.pos < c.pos

(***************************************************************************)
(* Updates of a contact merge: a field once set on a contact stays set for *)
(* as long as the contact exists, whichever calls write it.                *)
(***************************************************************************)
FieldsStay ==
  [][resets' = resets =>
       \A r \in rows, f \in ContactField :
         r.fields[f] # 0 => \E q \in rows' : q.id = r.id /\ q.fields[f] # 0]_sandboxVars
=============================================================================
