-------------------------------- MODULE LiveCrm --------------------------------
(***************************************************************************)
(* The live CRM (backends/twenty.py): a Twenty workspace shared with other *)
(* people, in which the console owns what carries the sandbox marker.  A   *)
(* reset queries and destroys those records and creates the fixtures, one  *)
(* request at a time; the crm server logs activities beside it.            *)
(*                                                                         *)
(* Twenty is external: references are checked at a create, destroying a    *)
(* record clears the references to it, and a note's link goes with either  *)
(* end.  A request the client gave up on may still arrive.                 *)
(***************************************************************************)
EXTENDS Naturals, FiniteSets, Sequences

CONSTANTS
  CrmFixtures,           \* records a reset creates: [kind, of], of as positions before it
  BatchSize, PageSize,   \* MAX_BATCH, PAGE_SIZE
  CrmRuns, CrmCalls, CrmLate  \* bounds of the model: resets, activities, requests given up

CrmKind == {"company", "person", "opportunity", "note", "target"}

\* A kind is created after the kinds it refers to, when their ids are known.
ASSUME LiveCrmAssumption ==
  /\ CrmFixtures \in Seq([kind : {"company", "person", "opportunity"}, of : SUBSET Nat])
  /\ \A i \in DOMAIN CrmFixtures :
       /\ CrmFixtures[i].of \subseteq {j \in 1 .. i - 1 : CrmFixtures[j].kind # CrmFixtures[i].kind}
       /\ CrmFixtures[i].kind = "opportunity" =>
            \E j \in CrmFixtures[i].of : CrmFixtures[j].kind = "company"
  /\ BatchSize \in Nat \ {0} /\ PageSize \in Nat \ {0}
  /\ CrmRuns \in Nat /\ CrmCalls \in Nat /\ CrmLate \in Nat

VARIABLES
  records,   \* [id, kind, marked, of], marked by its domain or email address
  nextId,
  reset,     \* the runner: where it is, what its queries found, the ids it created
  activity,  \* the crm server's log_activity call
  late,      \* requests given up on that may still arrive
  counts,    \* of runs, activities and requests given up
  loose,     \* history: notes not yet answered for, and what late requests created
  disturbed  \* history: something else changed the records during the reset

crmVars == <<records, nextId, reset, activity, late, counts, loose, disturbed>>

R(id, kind, marked, of) == [id |-> id, kind |-> kind, marked |-> marked, of |-> of]

\* Of other people: a company, a person, an opportunity and a note on the person.
Others == {R(1, "company", FALSE, {}), R(2, "person", FALSE, {1}), R(3, "opportunity", FALSE, {1, 2}),
           R(4, "note", FALSE, {}), R(5, "target", FALSE, {2, 4})}

Away == [at |-> "idle", companies |-> {}, people |-> {}, notes |-> {}, refs |-> <<>>]
NoActivity == [at |-> "idle", run |-> 0, contact |-> 0, note |-> 0]

CrmTypeOK ==
  /\ \A r \in records : r.id < nextId /\ r.kind \in CrmKind /\ r.of \subseteq 1 .. nextId
  /\ \A r, q \in records : r.id = q.id => r = q
  /\ reset.at \in {"idle", "companies", "people", "targets", "notes", "opportunities", "persons",
                   "firms", "create", "filled"}
  /\ Len(reset.refs) <= Len(CrmFixtures)
  /\ activity.at \in {"idle", "check", "note", "target"} /\ activity.run \in 0 .. CrmRuns
  /\ counts \in [run : 0 .. CrmRuns, activity : 0 .. CrmCalls, late : 0 .. CrmLate]
  /\ disturbed \in BOOLEAN /\ loose \subseteq 1 .. nextId

CrmInit ==
  /\ records = Others /\ nextId = 6 /\ reset = Away /\ activity = NoActivity
  /\ late = {} /\ counts = [run |-> 0, activity |-> 0, late |-> 0]
  /\ loose = {} /\ disturbed = FALSE

-----------------------------------------------------------------------------
\* Twenty

With(kind) == {r \in records : r.kind = kind}
Ids(set) == {r.id : r \in set}

\* create*: rows is a sequence of [kind, of]; all of a request or nothing.
Creates(rows) == [do |-> "create", rows |-> rows, ids |-> {}]
Destroys(kind, ids) == [do |-> kind, rows |-> <<>>, ids |-> ids]

Known(row) == row.of \subseteq Ids(records)
Created(rows) == {R(nextId + i - 1, rows[i].kind, rows[i].kind \in {"company", "person"}, rows[i].of) :
                    i \in DOMAIN rows}
Without(ids) ==
  {[r EXCEPT !.of = @ \ ids] :
     r \in {q \in records : q.id \notin ids /\ ~(q.kind = "target" /\ q.of \cap ids # {})}}

\* destroyOpportunities is given companies and finds their opportunities itself.
OpportunitiesOf(companies) == Ids({r \in With("opportunity") : r.of \cap companies # {}})

Performed(request) ==
  IF request.do # "create"
  THEN /\ records' = Without(IF request.do = "opportunity" THEN OpportunitiesOf(request.ids)
                             ELSE request.ids)
       /\ UNCHANGED nextId
  ELSE IF \A i \in DOMAIN request.rows : Known(request.rows[i])
       THEN records' = records \cup Created(request.rows) /\ nextId' = nextId + Len(request.rows)
       ELSE UNCHANGED <<records, nextId>>

-----------------------------------------------------------------------------
\* The runner: reset, delete_sandbox_records, _create_many

\* Mutant: only the first page of a query's answer.
FirstPage(ids) == {i \in ids : Cardinality({j \in ids : j <= i}) <= PageSize}

\* nodes: every page of the answer.
Nodes(ids) == ids

Begin ==
  /\ reset.at = "idle" /\ counts.run < CrmRuns
  /\ reset' = [Away EXCEPT !.at = "companies"]
  /\ counts' = [counts EXCEPT !.run = @ + 1] /\ disturbed' = FALSE
  /\ UNCHANGED <<records, nextId, activity, late, loose>>

\* By the sandbox marker in a domain or an email address.
Marked(kind) == Ids({r \in With(kind) : r.marked})

Query ==
  /\ \/ /\ reset.at = "companies"
        /\ reset' = [reset EXCEPT !.at = "people", !.companies =
                       Nodes(Marked("company"))]
     \/ /\ reset.at = "people"
        /\ LET people == Nodes(Marked("person"))
           IN  reset' = [reset EXCEPT !.people = people,
                                      !.at = IF people = {} THEN "notes" ELSE "targets"]
     \/ /\ reset.at = "targets"
        /\ LET targets == Nodes(Ids({r \in With("target") : r.of \cap reset.people # {}}))
           IN  reset' = [reset EXCEPT !.at = "notes", !.notes =
                           {n \in Ids(With("note")) : \E t \in With("target") : t.id \in targets /\ n \in t.of}]
  /\ UNCHANGED <<records, nextId, activity, late, counts, loose, disturbed>>

\* Mutant: people before the notes on them.
DestroyPeopleFirst ==
  CASE reset.at = "notes" -> [do |-> "person", ids |-> reset.people, next |-> "opportunities"]
    [] reset.at = "opportunities" ->
         [do |-> "opportunity", ids |-> reset.companies, next |-> "persons"]
    [] reset.at = "persons" -> [do |-> "note", ids |-> reset.notes, next |-> "firms"]
    [] reset.at = "firms" -> [do |-> "company", ids |-> reset.companies, next |-> "create"]

\* What is destroyed, and in which order; nothing is asked for when there is nothing.
Destroy ==
  CASE reset.at = "notes" -> [do |-> "note", ids |-> reset.notes, next |-> "opportunities"]
    [] reset.at = "opportunities" ->
         [do |-> "opportunity", ids |-> reset.companies, next |-> "persons"]
    [] reset.at = "persons" -> [do |-> "person", ids |-> reset.people, next |-> "firms"]
    [] reset.at = "firms" -> [do |-> "company", ids |-> reset.companies, next |-> "create"]

\* The records of a kind in batches; the next kind needs the ids of the one before.
Batch ==
  LET first == Len(reset.refs) + 1
      last == CHOOSE n \in first .. Len(CrmFixtures) :
                /\ n < first + BatchSize
                /\ \A i \in first .. n : CrmFixtures[i].kind = CrmFixtures[first].kind
                /\ \/ n = Len(CrmFixtures) \/ n = first + BatchSize - 1
                   \/ CrmFixtures[n + 1].kind # CrmFixtures[first].kind
  IN  [i \in 1 .. last - first + 1 |->
         [kind |-> CrmFixtures[first + i - 1].kind,
          of |-> {reset.refs[j] : j \in CrmFixtures[first + i - 1].of}]]

Request == IF reset.at = "create" THEN Creates(Batch) ELSE Destroys(Destroy.do, Destroy.ids)
Requesting == \/ reset.at \in {"notes", "opportunities", "persons", "firms"}
              \/ reset.at = "create" /\ Len(reset.refs) < Len(CrmFixtures)

\* A create that refers to a destroyed record fails, and so does the reset.
Perform ==
  /\ Requesting
  /\ Performed(Request)
  /\ reset' = IF reset.at # "create" THEN [reset EXCEPT !.at = Destroy.next]
              ELSE IF \A i \in DOMAIN Batch : Known(Batch[i])
              THEN [reset EXCEPT !.refs = @ \o [i \in DOMAIN Batch |-> nextId + i - 1]]
              ELSE Away
  /\ UNCHANGED <<activity, late, counts, loose, disturbed>>

Filled ==
  /\ reset.at = "create" /\ Len(reset.refs) = Len(CrmFixtures)
  /\ reset' = [reset EXCEPT !.at = "filled"]
  /\ UNCHANGED <<records, nextId, activity, late, counts, loose, disturbed>>

\* The run ends, the reset fails on a request without effect, or the process dies.
Stop ==
  /\ reset.at # "idle"
  /\ reset' = Away
  /\ UNCHANGED <<records, nextId, activity, late, counts, loose, disturbed>>

\* The client gives up after REQUEST_TIMEOUT_S.
GiveUp ==
  /\ Requesting /\ counts.late < CrmLate
  /\ late' = late \cup {Request}
  /\ counts' = [counts EXCEPT !.late = @ + 1]
  /\ reset' = Away
  /\ UNCHANGED <<records, nextId, activity, loose, disturbed>>

Arrive ==
  /\ \E request \in late :
       /\ late' = late \ {request}
       /\ Performed(request)
  /\ loose' = loose \cup (nextId .. nextId' - 1)
  /\ disturbed' = TRUE
  /\ UNCHANGED <<reset, activity, counts>>

-----------------------------------------------------------------------------
\* The crm server: log_activity

SendActivity ==
  /\ activity.at = "idle" /\ reset.at = "filled" /\ counts.activity < CrmCalls
  /\ \E r \in With("person") :
       activity' = [at |-> "check", run |-> counts.run, contact |-> r.id, note |-> 0]
  /\ counts' = [counts EXCEPT !.activity = @ + 1]
  /\ UNCHANGED <<records, nextId, reset, late, loose, disturbed>>

SandboxPerson(id) == \E r \in With("person") : r.id = id /\ r.marked

CheckContact ==
  /\ activity.at = "check"
  /\ activity' = IF SandboxPerson(activity.contact) THEN [activity EXCEPT !.at = "note"] ELSE NoActivity
  /\ UNCHANGED <<records, nextId, reset, late, counts, loose, disturbed>>

CreateNote ==
  /\ activity.at = "note"
  /\ Performed(Creates(<<[kind |-> "note", of |-> {}]>>))
  /\ activity' = [activity EXCEPT !.at = "target", !.note = nextId]
  /\ loose' = loose \cup {nextId} /\ disturbed' = TRUE
  /\ UNCHANGED <<reset, late, counts>>

\* The note is answered for when its run gets the answer.
CreateTarget ==
  LET link == [kind |-> "target", of |-> {activity.note, activity.contact}]
  IN  /\ activity.at = "target"
      /\ Performed(Creates(<<link>>))
      /\ loose' = IF Known(link) /\ activity.run = counts.run /\ reset.at = "filled"
                  THEN loose \ {activity.note} ELSE loose
      /\ activity' = NoActivity /\ disturbed' = TRUE
      /\ UNCHANGED <<reset, late, counts>>

\* A request of the call fails, or its server dies.
DropActivity ==
  /\ activity.at # "idle" /\ activity' = NoActivity
  /\ UNCHANGED <<records, nextId, reset, late, counts, loose, disturbed>>

CrmNext ==
  \/ Begin \/ Query \/ Perform \/ Filled \/ Stop \/ GiveUp \/ Arrive
  \/ SendActivity \/ CheckContact \/ CreateNote \/ CreateTarget \/ DropActivity

CrmSpec == CrmInit /\ [][CrmNext]_crmVars

-----------------------------------------------------------------------------

\* Who a reset would find and destroy.
Findable(r) ==
  CASE r.kind \in {"company", "person"} -> r.marked
    [] r.kind = "opportunity" -> \E c \in With("company") : c.id \in r.of /\ c.marked
    [] r.kind = "note" -> \E t \in With("target"), p \in With("person") :
                            r.id \in t.of /\ p.id \in t.of /\ p.marked
    [] OTHER -> FALSE

(***************************************************************************)
(* Wherever a reset stops, the next one finds what it left: no record of   *)
(* the console falls out of the reach of "Hard-delete every sandbox        *)
(* record", unless a call or a request nobody waited for any more made it. *)
(***************************************************************************)
NothingLeaks ==
  \A r \in records \ Others : r.kind # "target" /\ ~Findable(r) => r.id \in loose

(***************************************************************************)
(* A reset that nothing disturbed leaves exactly its fixtures, with their  *)
(* references, among the records that the tools can see.  "Resets delete   *)
(* only those records, so a shared workspace keeps its other data":        *)
(* records of other people stay as they are, whatever runs, breaks or      *)
(* arrives late.                                                           *)
(***************************************************************************)
ResetLeavesFixtures ==
  /\ Others \subseteq records
  /\ reset.at = "filled" /\ ~disturbed =>
    {r \in records : Findable(r)} =
      {R(reset.refs[i], CrmFixtures[i].kind, CrmFixtures[i].kind # "opportunity",
         {reset.refs[j] : j \in CrmFixtures[i].of}) : i \in DOMAIN CrmFixtures}
=============================================================================
