------------------------------ MODULE ConnectorProofs ------------------------------
(***************************************************************************)
(* What the live backends of the connector servers keep, for any fixtures, *)
(* clocks and numbers of resets, calls and requests that come late; what   *)
(* the sandbox keeps, for any fixtures, contacts' fields and blocks; that  *)
(* a run is judged alike in both; and, with ComponentProofs, the types of  *)
(* all the modules that Components puts side by side.                      *)
(***************************************************************************)
EXTENDS Components, ComponentProofs, FiniteSetTheorems, WellFoundedInduction, TLAPS

-----------------------------------------------------------------------------
(***************************************************************************)
(* Slack and Notion.  While a reset is under way nothing has been written  *)
(* for its run; once it is filled, what the run wrote is newer than its    *)
(* start and hangs on its thread, and the pages that are left are of its   *)
(* time.  A snapshot ends the run, so that nothing can be added to it.     *)
(***************************************************************************)
WorkerAt == {"idle", "resolve", "parent", "reply", "query", "trash", "create", "filled"}
Worker == [at : WorkerAt, since : Int, found : SUBSET Nat, thread : Nat]
Posting == [at : {"idle", "sent", "resolved"}, channel : Channel, parent : Nat, run : Nat]
Seen == [run : Nat, messages : SUBSET Message, pages : SUBSET Page]

ChannelsTyped ==
  /\ now \in Nat /\ skew \in Int /\ channelRun \in Nat
  /\ messages \subseteq Message /\ pages \subseteq Page
  /\ cache \in [Process -> SUBSET Channel]
  /\ worker \in Worker
  /\ posting \in [{"slack", "notion"} -> Posting]
  /\ seen \in Seen

\* What there is was written by now, in a run that has begun.
WrittenByNow ==
  /\ \A m \in messages : m.id <= now /\ m.run <= channelRun
  /\ \A p \in pages : p.id <= now /\ p.run <= channelRun
  /\ \A s \in {"slack", "notion"} : posting[s].run <= channelRun

OfRun(writes) == {w \in writes : w.run = channelRun}
PostedFor(s) == posting[s].at # "idle" /\ posting[s].run = channelRun

\* Nothing is written for a run before its workspace is filled.
NothingBeforeFilled ==
  worker.at \notin {"idle", "filled"} =>
    OfRun(messages) = {} /\ OfRun(pages) = {} /\ ~Awaited

\* The fixture's thread is among the messages that a snapshot reads.
ThreadIsTop ==
  worker.at \in {"reply", "query", "trash", "create", "filled"} =>
    \E t \in messages : /\ t.id = worker.thread /\ t.parent = 0 /\ t.channel = "first"
                        /\ skew <= 0 => t.id > worker.since

\* What a run writes is newer than its start, and hangs on its thread or on nothing.
WrittenAfterStart ==
  worker.at = "filled" =>
    /\ \A m \in OfRun(messages) : /\ m.parent \in {0, worker.thread}
                                  /\ skew <= 0 => m.id > worker.since
    /\ \A p \in OfRun(pages) : ~p.trashed /\ (skew <= 0 => p.id > worker.since)
    /\ \A s \in {"slack", "notion"} : PostedFor(s) => posting[s].parent \in {0, worker.thread}

\* The start of a run tells what came before it, as far as the clocks do.
StartTells ==
  worker.at # "idle" =>
    /\ channelRun > 0
    /\ skew <= 0 => worker.since <= now
    /\ skew >= 0 => \A m \in messages : m.id > worker.since => m.since = channelRun

\* The pages of earlier runs are on the list of those to trash, until they are.
OldPagesGo ==
  /\ worker.at = "trash" => \A p \in Live : p.since = channelRun \/ p.id \in worker.found
  /\ worker.at \in {"create", "filled"} => \A p \in Live : p.since = channelRun

\* Nothing is written for a run that has been looked at.
SeenIsOver ==
  seen.run > 0 => seen.run = channelRun /\ worker.at = "idle" /\ ~Awaited

ChannelsInv ==
  /\ ChannelsTyped /\ WrittenByNow /\ NothingBeforeFilled /\ ThreadIsTop /\ WrittenAfterStart
  /\ StartTells /\ OldPagesGo /\ SeenIsOver /\ SnapshotIsRun

-----------------------------------------------------------------------------

LEMMA InMinuteMonotone ==
  ASSUME NEW a \in Int, NEW b \in Int, a <= b
  PROVE  InMinute(a) <= InMinute(b)
<1>. DEFINE p == a \div Minute
            q == b \div Minute
<1>1. Minute \in Nat \ {0}
  BY LiveChannelsAssumption
<1>2. /\ p \in Int /\ q \in Int
      /\ a = Minute * p + (a % Minute) /\ a % Minute \in 0 .. Minute - 1
      /\ b = Minute * q + (b % Minute) /\ b % Minute \in 0 .. Minute - 1
  BY <1>1
<1>. HIDE DEF p, q
<1>3. ASSUME q < p PROVE FALSE
  <2>1. PICK d \in Nat : p = q + 1 + d
    <3>1. p - q - 1 \in Nat /\ p = q + 1 + (p - q - 1)
      BY <1>2, <1>3
    <3>. QED BY <3>1
  <2>2. Minute * p = Minute * q + Minute + Minute * d /\ Minute * d \in Nat
    BY <1>1, <1>2, <2>1
  <2>3. Minute * p \in Int /\ Minute * q \in Int
    BY <1>1, <1>2
  <2>. QED BY <1>1, <1>2, <2>2, <2>3
<1>4. p <= q
  BY <1>2, <1>3
<1>. QED BY <1>4 DEF p, q, InMinute

LEMMA ChannelsInitInv == ChannelsInit => ChannelsInv
<1>. SUFFICES ASSUME ChannelsInit PROVE ChannelsInv
  OBVIOUS
<1>. USE DEF ChannelsInit, Off, NoPost, NotSeen
<1>1. ChannelsTyped
  BY LiveChannelsAssumption DEF ChannelsTyped, WorkerAt, Worker, Posting, Seen, Process, Channel
<1>2. WrittenByNow /\ NothingBeforeFilled /\ ThreadIsTop /\ WrittenAfterStart /\ StartTells
      /\ OldPagesGo /\ SeenIsOver /\ SnapshotIsRun
  BY DEF WrittenByNow, NothingBeforeFilled, ThreadIsTop, WrittenAfterStart, StartTells,
         OldPagesGo, SeenIsOver, SnapshotIsRun
<1>. QED BY <1>1, <1>2 DEF ChannelsInv

LEMMA StartResetInv == ChannelsInv /\ StartReset => ChannelsInv'
<1>. SUFFICES ASSUME ChannelsInv, StartReset PROVE ChannelsInv'
  OBVIOUS
<1>. USE DEF ChannelsInv
<1>1. /\ now \in Nat /\ skew \in Int /\ channelRun \in Nat
      /\ UNCHANGED <<now, skew, messages, pages, cache, posting>>
      /\ channelRun' = channelRun + 1
  BY DEF ChannelsTyped, StartReset
<1>2. worker' = [at |-> "resolve", since |-> now + skew, found |-> {}, thread |-> 0]
  BY DEF Off, StartReset
<1>3. seen' = [run |-> 0, messages |-> {}, pages |-> {}]
  BY DEF StartReset, NotSeen
<1>4. worker' \in Worker /\ seen' \in Seen
  BY <1>1, <1>2, <1>3 DEF Worker, WorkerAt, Seen
<1>5. ChannelsTyped'
  BY <1>1, <1>4 DEF ChannelsTyped
<1>6. WrittenByNow'
  BY <1>1 DEF WrittenByNow, ChannelsTyped, Message, Page, Posting
<1>7. NothingBeforeFilled'
  BY <1>1 DEF WrittenByNow, NothingBeforeFilled, OfRun, Awaited, ChannelsTyped, Message, Page,
              Posting
<1>8. ThreadIsTop' /\ WrittenAfterStart' /\ OldPagesGo'
  BY <1>2 DEF ThreadIsTop, WrittenAfterStart, OldPagesGo
<1>9. StartTells'
  BY <1>1, <1>2 DEF StartTells, WrittenByNow, ChannelsTyped, Message
<1>10. SeenIsOver' /\ SnapshotIsRun'
  BY <1>3 DEF SeenIsOver, SnapshotIsRun
<1>. QED BY <1>5, <1>6, <1>7, <1>8, <1>9, <1>10

(* What the steps of a reset that write nothing for a run leave as it is. *)
LEMMA ResolveInv == ChannelsInv /\ Resolve => ChannelsInv'
<1>. SUFFICES ASSUME ChannelsInv, Resolve PROVE ChannelsInv'
  OBVIOUS
<1>. USE DEF ChannelsInv
<1>1. UNCHANGED <<now, skew, messages, pages, posting, channelRun, seen>> /\ worker.at = "resolve"
  BY DEF Resolve, Idle
<1>2. cache' \in [Process -> SUBSET Channel]
  BY DEF Resolve, ChannelsTyped, Resolved, LookupFails, Process, Channel
<1>3. \/ worker' = [worker EXCEPT !.at = "parent"]
      \/ worker' = Off
  BY DEF Resolve
<1>4. /\ worker' \in Worker /\ worker'.at \in {"parent", "idle"}
      /\ worker'.at # "idle" => worker'.since = worker.since
  BY <1>3 DEF Off, Worker, WorkerAt, ChannelsTyped
<1>5. ChannelsTyped'
  BY <1>1, <1>2, <1>4 DEF ChannelsTyped
<1>6. seen'.run = 0
  BY <1>1 DEF SeenIsOver, ChannelsTyped, Seen
<1>7. WrittenByNow' /\ NothingBeforeFilled' /\ ThreadIsTop' /\ WrittenAfterStart' /\ StartTells'
      /\ OldPagesGo'
  BY <1>1, <1>4 DEF WrittenByNow, NothingBeforeFilled, ThreadIsTop, WrittenAfterStart, StartTells,
                    OldPagesGo, OfRun, Awaited
<1>. QED BY <1>5, <1>6, <1>7 DEF SeenIsOver, SnapshotIsRun

LEMMA PostThreadInv == ChannelsInv /\ PostThread => ChannelsInv'
<1>. SUFFICES ASSUME ChannelsInv, PostThread PROVE ChannelsInv'
  OBVIOUS
<1>. USE DEF ChannelsInv
<1>1. /\ UNCHANGED <<skew, pages, cache, posting, channelRun, seen>>
      /\ now' = now + 1 /\ now \in Nat /\ channelRun \in Nat
      /\ worker.at \in {"parent", "reply"} /\ worker \in Worker
  BY DEF PostThread, Idle, PostAs, ChannelsTyped
<1>. DEFINE m == [id |-> now + 1, channel |-> "first",
                  parent |-> IF worker.at = "parent" THEN 0 ELSE worker.thread, run |-> 0,
                  since |-> channelRun]
<1>2. messages' = messages \cup {m} /\ m \in Message
  BY <1>1 DEF PostThread, PostAs, Message, Channel, Worker
<1>3. /\ worker' \in Worker /\ worker'.since = worker.since
      /\ \/ worker.at = "parent" /\ worker'.at = "reply" /\ worker'.thread = now + 1
         \/ worker.at = "reply" /\ worker'.at = "query" /\ worker'.thread = worker.thread
  <2>1. CASE worker.at = "parent"
    <3>1. worker' = [worker EXCEPT !.at = "reply", !.thread = now + 1]
      BY <2>1 DEF PostThread
    <3>2. now + 1 \in Nat /\ worker.since \in Int /\ worker.found \in SUBSET Nat
      BY <1>1 DEF Worker
    <3>3. worker' = [at |-> "reply", since |-> worker.since, found |-> worker.found,
                     thread |-> now + 1]
      BY <1>1, <3>1 DEF Worker
    <3>. QED BY <2>1, <3>2, <3>3 DEF Worker, WorkerAt
  <2>2. CASE worker.at = "reply"
    <3>1. worker' = [worker EXCEPT !.at = "query"]
      BY <2>2 DEF PostThread
    <3>. QED BY <1>1, <2>2, <3>1 DEF Worker, WorkerAt
  <2>. QED BY <1>1, <2>1, <2>2
<1>4. /\ m.id = now + 1 /\ m.run = 0 /\ m.since = channelRun /\ m.channel = "first"
      /\ worker.at = "parent" => m.parent = 0
  OBVIOUS
<1>. HIDE DEF m
<1>5. ChannelsTyped'
  BY <1>1, <1>2, <1>3 DEF ChannelsTyped
<1>6. WrittenByNow'
  BY <1>1, <1>2, <1>4 DEF WrittenByNow, ChannelsTyped, Message, Page
<1>7. channelRun > 0 /\ (skew <= 0 => worker.since <= now)
  BY <1>1 DEF StartTells
<1>8. NothingBeforeFilled'
  BY <1>1, <1>2, <1>3, <1>4, <1>7 DEF NothingBeforeFilled, OfRun, Awaited
<1>9. ThreadIsTop'
  <2>1. CASE worker.at = "parent"
    BY <2>1, <1>1, <1>2, <1>3, <1>4, <1>7 DEF ThreadIsTop, Worker
  <2>2. CASE worker.at = "reply"
    BY <2>2, <1>1, <1>2, <1>3 DEF ThreadIsTop
  <2>. QED BY <1>1, <2>1, <2>2
<1>10. WrittenAfterStart' /\ OldPagesGo'
  BY <1>3 DEF WrittenAfterStart, OldPagesGo
<1>11. StartTells'
  BY <1>1, <1>2, <1>3, <1>4, <1>7 DEF StartTells, ChannelsTyped, Worker
<1>12. SeenIsOver' /\ SnapshotIsRun'
  BY <1>1 DEF SeenIsOver, SnapshotIsRun, ChannelsTyped, Seen
<1>. QED BY <1>5, <1>6, <1>8, <1>9, <1>10, <1>11, <1>12

LEMMA QueryPagesInv == ChannelsInv /\ QueryPages => ChannelsInv'
<1>. SUFFICES ASSUME ChannelsInv, QueryPages PROVE ChannelsInv'
  OBVIOUS
<1>. USE DEF ChannelsInv
<1>1. UNCHANGED <<now, skew, messages, pages, cache, posting, channelRun, seen>>
  BY DEF QueryPages, Idle
<1>2. {p.id : p \in Live} \subseteq Nat
  BY DEF Live, ChannelsTyped, Page
<1>3. /\ worker' \in Worker /\ worker'.at = "trash" /\ worker.at = "query"
      /\ worker'.found = {p.id : p \in Live}
      /\ worker'.since = worker.since /\ worker'.thread = worker.thread
  BY <1>2 DEF QueryPages, Worker, WorkerAt, ChannelsTyped
<1>4. ChannelsTyped' /\ WrittenByNow'
  BY <1>1, <1>3 DEF ChannelsTyped, WrittenByNow
<1>5. NothingBeforeFilled' /\ ThreadIsTop' /\ WrittenAfterStart' /\ StartTells'
  BY <1>1, <1>3 DEF NothingBeforeFilled, ThreadIsTop, WrittenAfterStart, StartTells, OfRun, Awaited
<1>6. OldPagesGo'
  BY <1>1, <1>3 DEF OldPagesGo, Live
<1>7. SeenIsOver' /\ SnapshotIsRun'
  BY <1>1, <1>3 DEF SeenIsOver, SnapshotIsRun, ChannelsTyped, Seen
<1>. QED BY <1>4, <1>5, <1>6, <1>7

LEMMA TrashPageInv == ChannelsInv /\ TrashPage => ChannelsInv'
<1>. SUFFICES ASSUME ChannelsInv, TrashPage PROVE ChannelsInv'
  OBVIOUS
<1>. USE DEF ChannelsInv
<1>1. UNCHANGED <<now, skew, messages, cache, posting, channelRun, seen>> /\ worker.at = "trash"
  BY DEF TrashPage, Idle
<1>2. /\ worker' \in Worker
      /\ worker'.since = worker.since /\ worker'.thread = worker.thread
      /\ worker'.at \in {"trash", "create"}
  BY DEF TrashPage, Worker, WorkerAt, ChannelsTyped
<1>3. /\ pages' \subseteq Page
      /\ \A p \in pages' : \E q \in pages : p.id = q.id /\ p.run = q.run
      /\ \A p \in Live' : p \in Live /\ (worker'.at = "trash" /\ p.id \in worker.found => p.id \in worker'.found)
      /\ worker'.at = "create" => worker.found = {}
  <2>1. CASE worker.found = {}
    BY <2>1, <1>1 DEF TrashPage, Live, ChannelsTyped, Worker
  <2>2. CASE worker.found # {}
    <3>1. PICK id \in worker.found :
            /\ worker' = [worker EXCEPT !.found = @ \ {id}]
            /\ pages' = {IF p.id = id THEN [p EXCEPT !.trashed = TRUE] ELSE p : p \in pages}
      BY <2>2 DEF TrashPage
    <3>2. ASSUME NEW p \in pages
          PROVE  /\ [p EXCEPT !.trashed = TRUE] \in Page /\ [p EXCEPT !.trashed = TRUE].trashed
                 /\ [p EXCEPT !.trashed = TRUE].id = p.id /\ [p EXCEPT !.trashed = TRUE].run = p.run
      BY DEF ChannelsTyped, Page
    <3>3. pages' \subseteq Page /\ \A p \in pages' : \E q \in pages : p.id = q.id /\ p.run = q.run
      BY <3>1, <3>2 DEF ChannelsTyped
    <3>4. \A p \in Live' : p \in Live /\ p.id # id
      BY <3>1, <3>2 DEF Live
    <3>5. worker'.found = worker.found \ {id} /\ worker'.at = "trash"
      BY <3>1, <1>1 DEF ChannelsTyped, Worker
    <3>. QED BY <3>3, <3>4, <3>5
  <2>. QED BY <2>1, <2>2
<1>4. ChannelsTyped' /\ WrittenByNow'
  BY <1>1, <1>2, <1>3 DEF ChannelsTyped, WrittenByNow
<1>5. NothingBeforeFilled'
  BY <1>1, <1>2, <1>3 DEF NothingBeforeFilled, OfRun, Awaited
<1>6. ThreadIsTop' /\ WrittenAfterStart' /\ StartTells'
  BY <1>1, <1>2 DEF ThreadIsTop, WrittenAfterStart, StartTells
<1>7. OldPagesGo'
  BY <1>1, <1>2, <1>3 DEF OldPagesGo
<1>8. SeenIsOver' /\ SnapshotIsRun'
  BY <1>1 DEF SeenIsOver, SnapshotIsRun, ChannelsTyped, Seen
<1>. QED BY <1>4, <1>5, <1>6, <1>7, <1>8

LEMMA CreateFixturePageInv == ChannelsInv /\ CreateFixturePage => ChannelsInv'
<1>. SUFFICES ASSUME ChannelsInv, CreateFixturePage PROVE ChannelsInv'
  OBVIOUS
<1>. USE DEF ChannelsInv
<1>. DEFINE p == [id |-> now + 1, run |-> 0, since |-> channelRun, trashed |-> FALSE]
<1>1. /\ UNCHANGED <<skew, messages, cache, posting, channelRun, seen>> /\ worker.at = "create"
      /\ now' = now + 1 /\ now \in Nat /\ channelRun \in Nat /\ pages' = pages \cup {p}
  BY DEF CreateFixturePage, Idle, CreateAs, ChannelsTyped
<1>2. p \in Page /\ p.id = now + 1 /\ p.run = 0 /\ p.since = channelRun
  BY <1>1 DEF Page
<1>. HIDE DEF p
<1>3. /\ worker' \in Worker /\ worker'.at = "filled"
      /\ worker'.since = worker.since /\ worker'.thread = worker.thread
  BY DEF CreateFixturePage, Worker, WorkerAt, ChannelsTyped
<1>4. channelRun > 0
  BY <1>1 DEF StartTells
<1>5. ChannelsTyped'
  BY <1>1, <1>2, <1>3 DEF ChannelsTyped
<1>6. WrittenByNow'
  BY <1>1, <1>2, <1>4 DEF WrittenByNow, ChannelsTyped, Message, Page
<1>7. NothingBeforeFilled' /\ ThreadIsTop'
  BY <1>1, <1>3 DEF NothingBeforeFilled, ThreadIsTop
<1>8. WrittenAfterStart'
  BY <1>1, <1>2, <1>3, <1>4 DEF WrittenAfterStart, NothingBeforeFilled, OfRun, Awaited, PostedFor
<1>9. StartTells'
  BY <1>1, <1>3 DEF StartTells, ChannelsTyped, Worker
<1>10. OldPagesGo'
  BY <1>1, <1>2, <1>3 DEF OldPagesGo, Live
<1>11. SeenIsOver' /\ SnapshotIsRun'
  BY <1>1 DEF SeenIsOver, SnapshotIsRun, ChannelsTyped, Seen
<1>. QED BY <1>5, <1>6, <1>7, <1>8, <1>9, <1>10, <1>11

(* A snapshot sees what the run wrote, and only what is of its time. *)
LEMMA SnapshotInv == ChannelsInv /\ Snapshot => ChannelsInv'
<1>. SUFFICES ASSUME ChannelsInv, Snapshot PROVE ChannelsInv'
  OBVIOUS
<1>. USE DEF ChannelsInv
<1>1. /\ UNCHANGED <<now, skew, messages, pages, cache, posting, channelRun>>
      /\ worker.at = "filled" /\ ~Awaited /\ worker' = Off
      /\ worker \in Worker /\ skew \in Int /\ now \in Nat
  BY DEF Snapshot, ChannelsTyped
<1>2. /\ seen'.run = channelRun /\ seen'.messages = History(worker.since, cache["runner"])
      /\ seen'.pages = PagesSince(worker.since)
  BY DEF Snapshot
<1>3. History(worker.since, cache["runner"]) \subseteq messages /\ PagesSince(worker.since) \subseteq pages
  BY DEF History, PagesSince, Live
<1>4. seen' \in Seen
  BY <1>1, <1>3 DEF Snapshot, Seen, ChannelsTyped
<1>5. worker' \in Worker /\ worker'.at = "idle"
  BY <1>1 DEF Off, Worker, WorkerAt
<1>6. ChannelsTyped' /\ WrittenByNow'
  BY <1>1, <1>4, <1>5 DEF ChannelsTyped, WrittenByNow
<1>7. NothingBeforeFilled' /\ ThreadIsTop' /\ WrittenAfterStart' /\ StartTells' /\ OldPagesGo'
  BY <1>5 DEF NothingBeforeFilled, ThreadIsTop, WrittenAfterStart, StartTells, OldPagesGo
<1>8. SeenIsOver'
  BY <1>1, <1>2, <1>5 DEF SeenIsOver, Awaited
<1>9. ASSUME skew <= 0, cache["runner"] = Channel, NEW m \in messages, m.run = channelRun
      PROVE  m \in History(worker.since, cache["runner"])
  <2>1. m.id > worker.since /\ m.parent \in {0, worker.thread} /\ m.channel \in Channel
    BY <1>1, <1>9 DEF WrittenAfterStart, OfRun, ChannelsTyped, Message
  <2>2. PICK t \in messages : /\ t.id = worker.thread /\ t.parent = 0 /\ t.channel = "first"
                              /\ t.id > worker.since
    BY <1>1, <1>9 DEF ThreadIsTop
  <2>. QED BY <1>9, <2>1, <2>2 DEF History, Channel
<1>10. ASSUME skew <= 0, NEW p \in pages, p.run = channelRun
       PROVE  p \in PagesSince(worker.since)
  <2>1. ~p.trashed /\ p.id > worker.since /\ p.id \in Nat /\ worker.since \in Int
    BY <1>1, <1>10 DEF WrittenAfterStart, OfRun, ChannelsTyped, Page, Worker
  <2>2. InMinute(worker.since) <= InMinute(p.id)
    BY <2>1, InMinuteMonotone
  <2>3. InMinute(worker.since) \in Int /\ InMinute(p.id) \in Int
    BY <2>1, LiveChannelsAssumption DEF InMinute
  <2>. QED BY <2>1, <2>2, <2>3 DEF PagesSince, Live
<1>11. ASSUME skew >= 0, NEW m \in History(worker.since, cache["runner"])
       PROVE  m.since = channelRun
  BY <1>1, <1>11 DEF StartTells, History
<1>12. \A p \in PagesSince(worker.since) : p.since = channelRun
  BY <1>1 DEF OldPagesGo, PagesSince
<1>13. SnapshotIsRun'
  BY <1>1, <1>2, <1>9, <1>10, <1>11, <1>12 DEF SnapshotIsRun
<1>. QED BY <1>6, <1>7, <1>8, <1>13

LEMMA BreakOffInv == ChannelsInv /\ BreakOff => ChannelsInv'
<1>. SUFFICES ASSUME ChannelsInv, BreakOff PROVE ChannelsInv'
  OBVIOUS
<1>. USE DEF ChannelsInv
<1>1. UNCHANGED <<now, skew, messages, pages, posting, channelRun, seen>>
  BY DEF BreakOff, Idle
<1>2. cache' \in [Process -> SUBSET Channel]
  BY DEF BreakOff, ChannelsTyped, Process
<1>3. worker' \in Worker /\ worker'.at = "idle" /\ worker.at # "idle"
  BY DEF BreakOff, Off, Worker, WorkerAt
<1>4. ChannelsTyped' /\ WrittenByNow'
  BY <1>1, <1>2, <1>3 DEF ChannelsTyped, WrittenByNow
<1>5. NothingBeforeFilled' /\ ThreadIsTop' /\ WrittenAfterStart' /\ StartTells' /\ OldPagesGo'
  BY <1>3 DEF NothingBeforeFilled, ThreadIsTop, WrittenAfterStart, StartTells, OldPagesGo
<1>6. SeenIsOver' /\ SnapshotIsRun'
  BY <1>1, <1>3 DEF SeenIsOver, SnapshotIsRun, ChannelsTyped, Seen
<1>. QED BY <1>4, <1>5, <1>6

LEMMA AskServerInv == ChannelsInv /\ AskServer => ChannelsInv'
<1>. SUFFICES ASSUME ChannelsInv, AskServer PROVE ChannelsInv'
  OBVIOUS
<1>. USE DEF ChannelsInv
<1>1. PICK s \in {"slack", "notion"}, call \in Posting :
        /\ Ask(s, call)
        /\ \/ call.run = 0
           \/ /\ worker.at = "filled" /\ call.run = channelRun
              /\ call.parent \in {0, worker.thread}
  <2>1. channelRun \in Nat /\ worker.thread \in Nat
    BY DEF ChannelsTyped, Worker
  <2>. DEFINE alert == [NoPost EXCEPT !.at = "sent", !.channel = "second"]
              top(channel) == [at |-> "sent", channel |-> channel, parent |-> 0, run |-> channelRun]
              reply == [at |-> "sent", channel |-> "first", parent |-> worker.thread,
                        run |-> channelRun]
              page == [NoPost EXCEPT !.at = "resolved", !.run = channelRun]
  <2>2. /\ alert \in Posting /\ alert.run = 0
        /\ \A channel \in Channel : /\ top(channel) \in Posting
                                    /\ top(channel).run = channelRun /\ top(channel).parent = 0
    BY <2>1 DEF NoPost, Posting, Channel
  <2>3. /\ reply \in Posting /\ reply.run = channelRun /\ reply.parent = worker.thread
    BY <2>1 DEF Posting, Channel
  <2>4. page \in Posting /\ page.run = channelRun /\ page.parent = 0
    BY <2>1 DEF NoPost, Posting, Channel
  <2>5. \/ Ask("slack", alert)
        \/ /\ worker.at = "filled"
           /\ \/ \E channel \in Channel : Ask("slack", top(channel))
              \/ Ask("slack", reply) \/ Ask("notion", page)
    BY DEF AskServer
  <2>. HIDE DEF alert, top, reply, page
  <2>. QED BY <2>2, <2>3, <2>4, <2>5
<1>2. /\ UNCHANGED <<now, skew, messages, pages, cache, worker, channelRun, seen>>
      /\ posting' = [posting EXCEPT ![s] = call] /\ channelRun \in Nat
      /\ posting \in [{"slack", "notion"} -> Posting]
  BY <1>1 DEF Ask, ChannelsTyped
<1>3. /\ posting' \in [{"slack", "notion"} -> Posting] /\ posting'[s] = call
      /\ \A t \in {"slack", "notion"} : t # s => posting'[t] = posting[t]
  BY <1>2
<1>4. ChannelsTyped' /\ WrittenByNow'
  BY <1>1, <1>2, <1>3 DEF ChannelsTyped, WrittenByNow
<1>5. worker.at # "idle" => channelRun > 0
  BY DEF StartTells
<1>6. NothingBeforeFilled'
  BY <1>1, <1>2, <1>3, <1>5 DEF NothingBeforeFilled, OfRun, Awaited
<1>7. ThreadIsTop' /\ StartTells' /\ OldPagesGo'
  BY <1>2 DEF ThreadIsTop, StartTells, OldPagesGo, Live
<1>8. WrittenAfterStart'
  BY <1>1, <1>2, <1>3, <1>5 DEF WrittenAfterStart, PostedFor, OfRun
<1>9. SeenIsOver'
  BY <1>1, <1>2, <1>3 DEF SeenIsOver, Awaited
<1>10. SnapshotIsRun'
  BY <1>2 DEF SnapshotIsRun
<1>. QED BY <1>4, <1>6, <1>7, <1>8, <1>9, <1>10

LEMMA ResolveChannelInv == ChannelsInv /\ ResolveChannel => ChannelsInv'
<1>. SUFFICES ASSUME ChannelsInv, ResolveChannel PROVE ChannelsInv'
  OBVIOUS
<1>. USE DEF ChannelsInv
<1>1. /\ UNCHANGED <<now, skew, messages, pages, worker, channelRun, seen>>
      /\ posting["slack"].at = "sent" /\ posting \in [{"slack", "notion"} -> Posting]
      /\ \/ posting' = [posting EXCEPT !["slack"].at = "resolved"]
         \/ posting' = [posting EXCEPT !["slack"] = NoPost]
  BY DEF ResolveChannel, ChannelsTyped
<1>2. cache' \in [Process -> SUBSET Channel] /\ cache'["runner"] = cache["runner"]
  BY DEF ResolveChannel, ChannelsTyped, Resolved, LookupFails, Process, Channel
<1>3. /\ posting' \in [{"slack", "notion"} -> Posting] /\ posting'["notion"] = posting["notion"]
      /\ \/ posting'["slack"].run = 0 /\ posting'["slack"].at = "idle"
         \/ /\ posting'["slack"].run = posting["slack"].run
            /\ posting'["slack"].parent = posting["slack"].parent
  BY <1>1 DEF Posting, NoPost, Channel
<1>4. ChannelsTyped' /\ WrittenByNow'
  BY <1>1, <1>2, <1>3 DEF ChannelsTyped, WrittenByNow
<1>5. \A s \in {"slack", "notion"} : PostedFor(s)' => PostedFor(s) /\ posting'[s].parent = posting[s].parent
  BY <1>1, <1>3 DEF PostedFor
<1>6. Awaited' => Awaited
  BY <1>5 DEF Awaited, PostedFor
<1>7. NothingBeforeFilled' /\ SeenIsOver'
  BY <1>1, <1>6 DEF NothingBeforeFilled, OfRun, SeenIsOver
<1>8. ThreadIsTop' /\ StartTells' /\ OldPagesGo'
  BY <1>1 DEF ThreadIsTop, StartTells, OldPagesGo, Live
<1>9. WrittenAfterStart'
  BY <1>1, <1>5 DEF WrittenAfterStart, OfRun
<1>10. SnapshotIsRun'
  BY <1>1, <1>2 DEF SnapshotIsRun
<1>. QED BY <1>4, <1>7, <1>8, <1>9, <1>10

(* A call's write is newer than everything, and is its run's own if it has one. *)
LEMMA PublishInv ==
  ASSUME NEW s \in {"slack", "notion"}, ChannelsInv, Publish(s)
  PROVE  ChannelsInv'
<1>. USE DEF ChannelsInv
<1>. DEFINE m == [id |-> now + 1, channel |-> posting[s].channel, parent |-> posting[s].parent,
                  run |-> posting[s].run, since |-> channelRun]
            p == [id |-> now + 1, run |-> posting[s].run, since |-> channelRun, trashed |-> FALSE]
<1>1. /\ UNCHANGED <<skew, cache, worker, channelRun, seen>> /\ posting[s].at = "resolved"
      /\ posting' = [posting EXCEPT ![s] = NoPost]
      /\ posting \in [{"slack", "notion"} -> Posting] /\ posting[s] \in Posting
      /\ now \in Nat /\ channelRun \in Nat /\ skew \in Int /\ worker \in Worker
  BY DEF Publish, ChannelsTyped
<1>2. /\ now' \in {now, now + 1}
      /\ \/ messages' = messages
         \/ messages' = messages \cup {m} /\ now' = now + 1
      /\ \/ pages' = pages
         \/ pages' = pages \cup {p} /\ now' = now + 1
  BY DEF Publish, PostAs, CreateAs
<1>3. /\ m \in Message /\ m.id = now + 1 /\ m.parent = posting[s].parent /\ m.run = posting[s].run
      /\ m.since = channelRun
      /\ p \in Page /\ p.id = now + 1 /\ p.run = posting[s].run /\ p.since = channelRun /\ ~p.trashed
  BY <1>1 DEF Message, Page, Posting
<1>. HIDE DEF m, p
<1>4. /\ posting' \in [{"slack", "notion"} -> Posting]
      /\ posting'[s].at = "idle" /\ posting'[s].run = 0
      /\ \A t \in {"slack", "notion"} : t # s => posting'[t] = posting[t]
  BY <1>1 DEF Posting, NoPost, Channel
<1>5. ChannelsTyped'
  BY <1>1, <1>2, <1>3, <1>4 DEF ChannelsTyped
<1>6. posting[s].run <= channelRun /\ posting[s].run \in Nat
  BY <1>1 DEF WrittenByNow, Posting
<1>7. WrittenByNow'
  BY <1>1, <1>2, <1>3, <1>4, <1>6 DEF WrittenByNow, ChannelsTyped, Message, Page
<1>8. \A t \in {"slack", "notion"} : PostedFor(t)' => PostedFor(t) /\ posting'[t] = posting[t]
  BY <1>1, <1>4 DEF PostedFor
<1>9. (Awaited' => Awaited) /\ (posting[s].run = channelRun => Awaited)
  BY <1>1, <1>8 DEF Awaited, PostedFor
<1>10. NothingBeforeFilled'
  BY <1>1, <1>2, <1>3, <1>9 DEF NothingBeforeFilled, OfRun
<1>11. ThreadIsTop'
  BY <1>1, <1>2 DEF ThreadIsTop
<1>12. worker.at # "idle" => channelRun > 0 /\ (skew <= 0 => worker.since <= now)
  BY DEF StartTells
<1>13. WrittenAfterStart'
  <2>. SUFFICES ASSUME worker.at = "filled" PROVE WrittenAfterStart'
    BY <1>1 DEF WrittenAfterStart
  <2>1. posting[s].run = channelRun => posting[s].parent \in {0, worker.thread}
    BY <1>1 DEF WrittenAfterStart, PostedFor
  <2>2. \A w \in OfRun(messages)' : /\ w.parent \in {0, worker.thread}
                                    /\ skew <= 0 => w.id > worker.since
    BY <1>1, <1>2, <1>3, <1>12, <2>1 DEF WrittenAfterStart, OfRun, Worker
  <2>3. \A w \in OfRun(pages)' : ~w.trashed /\ (skew <= 0 => w.id > worker.since)
    BY <1>1, <1>2, <1>3, <1>12 DEF WrittenAfterStart, OfRun, Worker
  <2>4. \A t \in {"slack", "notion"} : PostedFor(t)' => posting'[t].parent \in {0, worker.thread}
    BY <1>8 DEF WrittenAfterStart
  <2>. QED BY <1>1, <2>2, <2>3, <2>4 DEF WrittenAfterStart
<1>14. StartTells'
  BY <1>1, <1>2, <1>3, <1>12 DEF StartTells, ChannelsTyped, Worker, Message
<1>15. OldPagesGo'
  BY <1>1, <1>2, <1>3 DEF OldPagesGo, Live
<1>16. SeenIsOver'
  BY <1>1, <1>9 DEF SeenIsOver
<1>17. SnapshotIsRun'
  BY <1>1, <1>2, <1>3, <1>9 DEF SnapshotIsRun, SeenIsOver
<1>. QED BY <1>5, <1>7, <1>10, <1>11, <1>13, <1>14, <1>15, <1>16, <1>17

LEMMA ChannelsStepInv == ChannelsInv /\ [ChannelsNext]_channelVars => ChannelsInv'
<1>. SUFFICES ASSUME ChannelsInv, [ChannelsNext]_channelVars PROVE ChannelsInv'
  OBVIOUS
<1>1. CASE UNCHANGED channelVars
  BY <1>1 DEF channelVars, ChannelsInv, ChannelsTyped, WrittenByNow, NothingBeforeFilled, ThreadIsTop,
              WrittenAfterStart, StartTells, OldPagesGo, SeenIsOver, SnapshotIsRun, OfRun, PostedFor,
              Awaited, Live
<1>. QED BY <1>1, StartResetInv, ResolveInv, PostThreadInv, QueryPagesInv, TrashPageInv,
            CreateFixturePageInv, SnapshotInv, BreakOffInv, AskServerInv, ResolveChannelInv,
            PublishInv DEF ChannelsNext

(***************************************************************************)
(* A live snapshot shows all that its run wrote, given a clock that is not *)
(* ahead and a complete channel lookup, and nothing from before its reset, *)
(* given one that is not behind (slack.py, notion.py).                     *)
(***************************************************************************)
THEOREM SnapshotsAreRuns == ChannelsSpec => []SnapshotIsRun
<1>1. ChannelsInv => SnapshotIsRun
  BY DEF ChannelsInv
<1>. QED BY <1>1, ChannelsInitInv, ChannelsStepInv, PTL DEF ChannelsSpec

-----------------------------------------------------------------------------
(***************************************************************************)
(* The live CRM.  A reset works from lists it read some requests ago, and  *)
(* requests with older lists may arrive at any time.  What makes it safe:  *)
(* ids are never used twice, every list holds records of one kind, and     *)
(* nothing that is answered for refers to a record on an older list.       *)
(***************************************************************************)
ResetAt == {"idle", "companies", "people", "targets", "notes", "opportunities", "persons", "firms",
            "create", "filled"}
ResetRecord == [at : ResetAt, companies : SUBSET Nat, people : SUBSET Nat, notes : SUBSET Nat,
                refs : Seq(Nat)]
ActivityRecord == [at : {"idle", "check", "note", "target"}, run : Nat, contact : Nat, note : Nat]
CrmRow == [kind : CrmKind, of : SUBSET Nat]
CrmRequest == [do : {"create", "note", "opportunity", "person", "company"}, rows : Seq(CrmRow),
               ids : SUBSET Nat]
CrmRecord == [id : Nat, kind : CrmKind, marked : BOOLEAN, of : SUBSET Nat]

CrmTyped ==
  /\ nextId \in Nat /\ nextId > 5 /\ records \subseteq CrmRecord
  /\ reset \in ResetRecord /\ Len(reset.refs) <= Len(CrmFixtures)
  /\ activity \in ActivityRecord /\ late \subseteq CrmRequest
  /\ counts \in [run : Nat, activity : Nat, late : Nat] /\ loose \subseteq Nat

\* Ids are used once, references are to records that exist, and to no links; other people's
\* records are theirs, and the console's links lead from one note of its own to a person.
SoundRecords ==
  /\ \A r \in records : r.id < nextId /\ r.of \subseteq Ids(records)
  /\ \A r, q \in records : r.id = q.id => r = q
  /\ \A r, q \in records : q.id \in r.of => q.kind # "target"
  /\ Others \subseteq records
  /\ \A r \in records \ Others :
       /\ r.id > 5
       /\ r.kind \in {"company", "person"} => r.marked
       /\ r.kind = "target" =>
            /\ r.of \cap 1 .. 5 = {}
            /\ \A q \in records : q.id \in r.of => q.kind \in {"note", "person"}
            /\ \A q, n \in With("note") : q.id \in r.of /\ n.id \in r.of => q = n

\* Ids of the console's records of one kind, destroyed ones included.
Are(ids, kind) ==
  /\ ids \subseteq 6 .. nextId - 1
  /\ \A r \in records : r.id \in ids => r.kind = kind

ListedKind(do) == IF do = "opportunity" THEN "company" ELSE do

SoundRow(row) ==
  /\ row.kind \in {"company", "person", "opportunity"} /\ row.of \subseteq 6 .. nextId - 1
  /\ \A r \in records : r.id \in row.of => r.kind # "target"

SoundLists ==
  /\ Are(reset.companies, "company") /\ Are(reset.people, "person") /\ Are(reset.notes, "note")
  /\ \A q \in late : q.do # "create" => Are(q.ids, ListedKind(q.do))
  /\ \A q \in late : q.do = "create" => \A i \in DOMAIN q.rows : SoundRow(q.rows[i])

\* The ids a reset hands out are those of its fixtures, and on no list.
SoundRefs ==
  \A i \in DOMAIN reset.refs :
    /\ Are({reset.refs[i]}, CrmFixtures[i].kind)
    /\ \A q \in late : q.do # "create" => reset.refs[i] \notin q.ids

SoundActivity ==
  /\ activity.at \in {"note", "target"} => Are({activity.contact}, "person")
  /\ activity.at = "target" =>
       /\ Are({activity.note}, "note") /\ activity.note \in loose
       /\ \A t \in With("target") : activity.note \notin t.of

\* Ids on the lists of requests that may still arrive.
Doomed(do) == UNION {q.ids : q \in {p \in late : p.do = do}}

\* Records of the console that have to be found by a reset.
Answered(kind) == {r \in records \ Others : r.kind = kind /\ r.id \notin loose}

Links(n) == {t \in With("target") : n.id \in t.of}

SafeOpportunities ==
  /\ \A o \in Answered("opportunity") : o.of \cap Doomed("company") = {}
  /\ reset.at \in {"people", "targets", "notes", "opportunities"} =>
       \A o \in Answered("opportunity") : o.of \cap reset.companies # {}
  /\ reset.at \in {"persons", "firms"} => Answered("opportunity") = {}

SafeNotes ==
  /\ \A n \in Answered("note") : \A t \in Links(n) : t.of \cap Doomed("person") = {}
  /\ reset.at = "targets" =>
       \A n \in Answered("note") : \E t \in Links(n) : t.of \cap reset.people # {}
  /\ reset.at = "notes" => Ids(Answered("note")) \subseteq reset.notes
  /\ reset.at \in {"opportunities", "persons", "firms", "create"} => Answered("note") = {}

\* The people a filled reset leaves are on no list.
SafePeople ==
  /\ reset.at \in {"targets", "notes", "opportunities", "persons"} =>
       Marked("person") \cap Doomed("person") \subseteq reset.people
  /\ reset.at \in {"firms", "create", "filled"} => Marked("person") \cap Doomed("person") = {}

FixtureRecord(i) ==
  R(reset.refs[i], CrmFixtures[i].kind, CrmFixtures[i].kind # "opportunity",
    {reset.refs[j] : j \in CrmFixtures[i].of})
FixtureRecords == {FixtureRecord(i) : i \in DOMAIN reset.refs}
RefIds == {reset.refs[i] : i \in DOMAIN reset.refs}

\* What an undisturbed reset has found, and what it has made.
Undisturbed ==
  ~disturbed =>
    /\ reset.at \in {"people", "targets", "notes", "opportunities", "persons", "firms"} =>
         Marked("company") \subseteq reset.companies
    /\ reset.at \in {"targets", "notes", "opportunities", "persons"} =>
         Marked("person") \subseteq reset.people
    /\ reset.at = "firms" => Marked("person") = {}
    /\ reset.at \in {"create", "filled"} =>
         /\ FixtureRecords \subseteq records
         /\ \A r \in records \ FixtureRecords :
              r.of \cap RefIds = {} /\ (r.kind \in {"company", "person"} => ~r.marked)

RefsGrow ==
  /\ reset.at \notin {"create", "filled"} => reset.refs = <<>>
  /\ reset.at = "filled" => Len(reset.refs) = Len(CrmFixtures)

CrmInv ==
  /\ CrmTyped /\ SoundRecords /\ SoundLists /\ SoundRefs /\ SoundActivity
  /\ SafeOpportunities /\ SafeNotes /\ SafePeople /\ NothingLeaks /\ Undisturbed /\ RefsGrow

-----------------------------------------------------------------------------
LEMMA LeastNat ==
  ASSUME NEW S \in SUBSET Nat, S # {}
  PROVE  \E n \in S : \A m \in S : n <= m
<1>1. PICK n \in S : \A m \in S : ~ <<m, n>> \in OpToRel(<, Nat)
  BY WFMin, NatLessThanWellFounded
<1>2. ASSUME NEW m \in S PROVE n <= m
  <2>1. <<m, n>> \in Nat \X Nat /\ <<m, n>>[1] = m /\ <<m, n>>[2] = n
    OBVIOUS
  <2>2. ~ m < n
    BY <1>1, <2>1, Zenon DEF OpToRel
  <2>. QED BY <2>2
<1>. QED BY <1>2

-----------------------------------------------------------------------------
\* Destroying records

\* A record and what is left of it without some ids.
LeftOf(r, q, gone) ==
  /\ r.id = q.id /\ r.kind = q.kind /\ r.marked = q.marked /\ r.of = q.of \ gone

Survives(q, gone) == q.id \notin gone /\ (q.kind = "target" => q.of \cap gone = {})

LEMMA WithoutRecords ==
  ASSUME records \subseteq CrmRecord, NEW gone \in SUBSET Nat
  PROVE  /\ Without(gone) \subseteq CrmRecord
         /\ \A r \in Without(gone) : \E q \in records : Survives(q, gone) /\ LeftOf(r, q, gone)
         /\ \A q \in records : Survives(q, gone) => \E r \in Without(gone) : LeftOf(r, q, gone)
<1>. DEFINE trimmed(q) == [q EXCEPT !.of = @ \ gone]
<1>1. ASSUME NEW q \in records
      PROVE  trimmed(q) \in CrmRecord /\ LeftOf(trimmed(q), q, gone)
  <2>1. q \in CrmRecord
    OBVIOUS
  <2>2. trimmed(q) = [id |-> q.id, kind |-> q.kind, marked |-> q.marked, of |-> q.of \ gone]
    BY <2>1 DEF CrmRecord
  <2>. QED BY <2>1, <2>2 DEF CrmRecord, LeftOf
<1>2. Without(gone) = {trimmed(q) : q \in {q \in records : Survives(q, gone)}}
  BY DEF Without, Survives
<1>. HIDE DEF trimmed
<1>. QED BY <1>1, <1>2

LEMMA SameRecord ==
  ASSUME NEW r \in CrmRecord, NEW q \in CrmRecord,
         r.id = q.id, r.kind = q.kind, r.marked = q.marked, r.of = q.of
  PROVE  r = q
<1>1. /\ r = [id |-> r.id, kind |-> r.kind, marked |-> r.marked, of |-> r.of]
      /\ q = [id |-> q.id, kind |-> q.kind, marked |-> q.marked, of |-> q.of]
  BY DEF CrmRecord
<1>. QED BY <1>1

LEMMA OthersTyped ==
  \A r \in Others : /\ r \in CrmRecord /\ r.id \in 1 .. 5 /\ r.of \subseteq 1 .. 5 /\ ~r.marked
<1>. DEFINE ok(r) == r \in CrmRecord /\ r.id \in 1 .. 5 /\ r.of \subseteq 1 .. 5 /\ ~r.marked
<1>a. ASSUME NEW id \in 1 .. 5, NEW kind \in CrmKind, NEW of \in SUBSET (1 .. 5)
      PROVE  ok(R(id, kind, FALSE, of))
  BY DEF R, CrmRecord
<1>b. /\ ok(R(1, "company", FALSE, {})) /\ ok(R(2, "person", FALSE, {1}))
      /\ ok(R(3, "opportunity", FALSE, {1, 2}))
      /\ ok(R(4, "note", FALSE, {})) /\ ok(R(5, "target", FALSE, {2, 4}))
  <2>1. \A id \in 1 .. 5, kind \in CrmKind, of \in SUBSET (1 .. 5) : ok(R(id, kind, FALSE, of))
    BY <1>a
  <2>2. /\ {1, 2, 3, 4, 5} \subseteq 1 .. 5
        /\ {"company", "person", "opportunity", "note", "target"} \subseteq CrmKind
        /\ {} \in SUBSET (1 .. 5) /\ {1} \in SUBSET (1 .. 5) /\ {1, 2} \in SUBSET (1 .. 5)
        /\ {2, 4} \in SUBSET (1 .. 5)
    BY DEF CrmKind
  <2>. HIDE DEF ok
  <2>3. ok(R(1, "company", FALSE, {})) /\ ok(R(2, "person", FALSE, {1}))
    BY <2>1, <2>2
  <2>4. ok(R(3, "opportunity", FALSE, {1, 2}))
    BY <2>1, <2>2
  <2>5. ok(R(4, "note", FALSE, {})) /\ ok(R(5, "target", FALSE, {2, 4}))
    BY <2>1, <2>2
  <2>. QED BY <2>3, <2>4, <2>5
<1>1. \A r \in Others : ok(r)
  <2>. HIDE DEF ok
  <2>. QED BY <1>b DEF Others
<1>. QED BY <1>1

LEMMA OthersAre ==
  ASSUME records \subseteq CrmRecord, SoundRecords
  PROVE  /\ \A r \in Others : /\ r \in CrmRecord /\ r.id \in 1 .. 5 /\ r.of \subseteq 1 .. 5 /\ ~r.marked
         /\ \A r \in records : r.id \in 1 .. 5 => r \in Others
         /\ \A r \in records \ Others : r.id \in Nat /\ r.id > 5
<1>1. \A r \in records \ Others : r.id \in Nat /\ r.id > 5
  BY DEF SoundRecords, CrmRecord
<1>. QED BY <1>1, OthersTyped

(* Records of one kind of the console's, and not on the way to anything that *)
(* is answered for, or it is on the same list.                               *)
Gone(gone, kind) ==
  /\ gone \in SUBSET Nat /\ kind \in {"note", "opportunity", "person", "company"}
  /\ Are(gone, kind)
  /\ kind = "company" => \A o \in Answered("opportunity") : o.of \cap gone = {}
  /\ kind = "person" => \A n \in Answered("note") : \A t \in Links(n) : t.of \cap gone = {}

LEMMA DestroyedRecords ==
  ASSUME CrmTyped, SoundRecords, NEW gone, NEW kind, Gone(gone, kind),
         records' = Without(gone), nextId' = nextId
  PROVE  /\ records' \subseteq CrmRecord /\ SoundRecords'
         /\ \A r \in records' : \E q \in records : /\ Survives(q, gone) /\ LeftOf(r, q, gone)
                                                   /\ r \in Others <=> q \in Others
         /\ \A q \in records : Survives(q, gone) => \E r \in records' : LeftOf(r, q, gone)
<1>. USE DEF CrmTyped
<1>1. gone \in SUBSET Nat /\ gone \subseteq 6 .. nextId - 1 /\ \A r \in records : r.id \in gone => r.kind = kind
  BY DEF Gone, Are
<1>2. /\ records' \subseteq CrmRecord
      /\ \A r \in records' : \E q \in records : Survives(q, gone) /\ LeftOf(r, q, gone)
      /\ \A q \in records : Survives(q, gone) => \E r \in records' : LeftOf(r, q, gone)
  BY <1>1, WithoutRecords
<1>3. ASSUME NEW r \in records', NEW q \in records, LeftOf(r, q, gone), q \in Others
      PROVE  r = q
  <2>1. q \in CrmRecord /\ r \in CrmRecord /\ q.of \subseteq 1 .. 5
    BY <1>2, <1>3, OthersAre
  <2>2. q.of \ gone = q.of
    BY <1>1, <2>1
  <2>. QED BY <1>3, <2>1, <2>2, SameRecord DEF LeftOf
<1>4. ASSUME NEW r \in records', NEW q \in records, LeftOf(r, q, gone)
      PROVE  r \in Others <=> q \in Others
  <2>1. r \in Others => q \in Others
    <3>1. SUFFICES ASSUME r \in Others PROVE q \in Others
      OBVIOUS
    <3>2. r.id \in 1 .. 5
      BY <3>1, OthersAre
    <3>. QED BY <1>4, <3>2, OthersAre DEF LeftOf
  <2>. QED BY <1>3, <1>4, <2>1
<1>5. Others \subseteq records'
  <2>. SUFFICES ASSUME NEW q \in Others PROVE q \in records'
    OBVIOUS
  <2>1. q \in records /\ q.id \in 1 .. 5 /\ q.of \subseteq 1 .. 5
    BY OthersAre DEF SoundRecords
  <2>2. Survives(q, gone)
    BY <1>1, <2>1 DEF Survives
  <2>. QED BY <1>2, <1>3, <2>1, <2>2
<1>6. \A r, q \in records' : r.id = q.id => r = q
  <2>. SUFFICES ASSUME NEW r \in records', NEW q \in records', r.id = q.id PROVE r = q
    OBVIOUS
  <2>1. PICK r0 \in records, q0 \in records : LeftOf(r, r0, gone) /\ LeftOf(q, q0, gone)
    BY <1>2
  <2>2. r0 = q0
    BY <2>1 DEF LeftOf, SoundRecords
  <2>3. r \in CrmRecord /\ q \in CrmRecord
    BY <1>2
  <2>. QED BY <2>1, <2>2, <2>3 DEF LeftOf, CrmRecord
<1>7. ASSUME NEW r \in records'
      PROVE  r.id < nextId' /\ r.of \subseteq Ids(records')
  <2>1. PICK q \in records : LeftOf(r, q, gone) /\ Survives(q, gone)
    BY <1>2
  <2>2. ASSUME NEW id \in r.of PROVE id \in Ids(records')
    <3>1. PICK p \in records : p.id = id /\ id \notin gone
      BY <2>1 DEF LeftOf, SoundRecords, Ids
    <3>2. p.kind # "target"
      BY <2>1, <3>1 DEF LeftOf, SoundRecords
    <3>3. Survives(p, gone)
      BY <3>1, <3>2 DEF Survives
    <3>. QED BY <1>2, <3>1, <3>3 DEF LeftOf, Ids
  <2>. QED BY <1>2, <2>1, <2>2 DEF LeftOf, SoundRecords
<1>8. \A r, q \in records' : q.id \in r.of => q.kind # "target"
  <2>. SUFFICES ASSUME NEW r \in records', NEW q \in records', q.id \in r.of PROVE q.kind # "target"
    OBVIOUS
  <2>1. PICK r0 \in records, q0 \in records : LeftOf(r, r0, gone) /\ LeftOf(q, q0, gone)
    BY <1>2
  <2>. QED BY <2>1 DEF LeftOf, SoundRecords
<1>9. ASSUME NEW r \in records' \ Others
      PROVE  /\ r.id > 5
             /\ r.kind \in {"company", "person"} => r.marked
             /\ r.kind = "target" =>
                  /\ r.of \cap 1 .. 5 = {}
                  /\ \A q \in records' : q.id \in r.of => q.kind \in {"note", "person"}
                  /\ \A q, n \in With("note")' : q.id \in r.of /\ n.id \in r.of => q = n
  <2>1. PICK r0 \in records : LeftOf(r, r0, gone)
    BY <1>2
  <2>2. r0 \in records \ Others
    BY <1>4, <2>1
  <2>3. r.id > 5 /\ (r.kind \in {"company", "person"} => r.marked)
    BY <2>1, <2>2 DEF LeftOf, SoundRecords
  <2>4. ASSUME r.kind = "target"
        PROVE  /\ r.of \cap 1 .. 5 = {}
               /\ \A q \in records' : q.id \in r.of => q.kind \in {"note", "person"}
    <3>1. r0.kind = "target" /\ r.of \subseteq r0.of
      BY <2>1, <2>4 DEF LeftOf
    <3>2. /\ r0.of \cap 1 .. 5 = {}
          /\ \A q \in records : q.id \in r0.of => q.kind \in {"note", "person"}
      BY <2>2, <3>1 DEF SoundRecords
    <3>. QED BY <1>2, <3>1, <3>2 DEF LeftOf
  <2>5. ASSUME r.kind = "target", NEW q \in records', q.kind = "note", NEW n \in records', n.kind = "note",
               q.id \in r.of, n.id \in r.of
        PROVE  q = n
    <3>1. PICK q0 \in records, n0 \in records : LeftOf(q, q0, gone) /\ LeftOf(n, n0, gone)
      BY <1>2
    <3>2. q0 \in With("note") /\ n0 \in With("note") /\ q0.id \in r0.of /\ n0.id \in r0.of
      BY <2>1, <2>5, <3>1 DEF LeftOf, With
    <3>3. q0 = n0
      BY <2>1, <2>2, <2>5, <3>2 DEF SoundRecords, LeftOf
    <3>. QED BY <1>6, <3>1, <3>3 DEF LeftOf
  <2>. QED BY <2>3, <2>4, <2>5 DEF With
<1>10. SoundRecords'
  BY <1>5, <1>6, <1>7, <1>8, <1>9 DEF SoundRecords
<1>. QED BY <1>2, <1>4, <1>10

(* What keeps through a destruction: kinds, answers and the ways to find things. *)
LEMMA DestroyedKeeps ==
  ASSUME CrmTyped, SoundRecords, NothingLeaks, NEW gone, NEW kind, Gone(gone, kind),
         records' = Without(gone), nextId' = nextId, loose' = loose
  PROVE  /\ \A ids, k : Are(ids, k) => Are(ids, k)'
         /\ \A row : SoundRow(row) => SoundRow(row)'
         /\ \A k : Marked(k)' \subseteq Marked(k) \ gone
         /\ \A k : \A r \in Answered(k)' : \E q \in Answered(k) : Survives(q, gone) /\ LeftOf(r, q, gone)
         /\ \A r \in records', q \in records : LeftOf(r, q, gone) =>
              \A t \in Links(r)' : \E u \in Links(q) : t.of = u.of
         /\ \A r \in records', q \in Answered("note") : LeftOf(r, q, gone) /\ Survives(q, gone) =>
              \A u \in Links(q) : \E t \in Links(r)' : t.of = u.of
         /\ \A r \in records', q \in Answered("opportunity") : LeftOf(r, q, gone) =>
              \A c \in With("company") : c.id \in q.of => c.id \in r.of /\ Survives(c, gone)
         /\ NothingLeaks'
<1>1. /\ records' \subseteq CrmRecord /\ SoundRecords'
      /\ \A r \in records' : \E q \in records : /\ Survives(q, gone) /\ LeftOf(r, q, gone)
                                                /\ r \in Others <=> q \in Others
      /\ \A q \in records : Survives(q, gone) => \E r \in records' : LeftOf(r, q, gone)
  BY DestroyedRecords
<1>2. /\ gone \subseteq 6 .. nextId - 1 /\ \A r \in records : r.id \in gone => r.kind = kind
      /\ kind \in {"note", "opportunity", "person", "company"}
      /\ kind = "company" => \A o \in Answered("opportunity") : o.of \cap gone = {}
      /\ kind = "person" => \A n \in Answered("note") : \A t \in Links(n) : t.of \cap gone = {}
  BY DEF Gone, Are
<1>3. \A ids, k : Are(ids, k) => Are(ids, k)'
  BY <1>1 DEF Are, LeftOf
<1>4. \A row : SoundRow(row) => SoundRow(row)'
  BY <1>1 DEF SoundRow, LeftOf
<1>5. \A k : Marked(k)' \subseteq Marked(k) \ gone
  BY <1>1 DEF Marked, Ids, With, LeftOf, Survives
<1>6. \A k : \A r \in Answered(k)' : \E q \in Answered(k) : Survives(q, gone) /\ LeftOf(r, q, gone)
  BY <1>1 DEF Answered, LeftOf
<1>7. ASSUME NEW r \in records', NEW q \in records, LeftOf(r, q, gone), NEW t \in Links(r)'
      PROVE  \E u \in Links(q) : t.of = u.of
  <2>1. t \in records' /\ t.kind = "target" /\ r.id \in t.of
    BY DEF Links, With
  <2>2. PICK u \in records : Survives(u, gone) /\ LeftOf(t, u, gone)
    BY <1>1, <2>1
  <2>3. u.kind = "target" /\ u.of \cap gone = {} /\ t.of = u.of \ gone
    BY <2>1, <2>2 DEF Survives, LeftOf
  <2>4. t.of = u.of
    BY <2>3
  <2>. QED BY <1>7, <2>1, <2>3, <2>4 DEF Links, With, LeftOf
<1>8. ASSUME NEW q \in Answered("note"), q.id \notin gone, NEW u \in Links(q)
      PROVE  u.of \cap gone = {}
  <2>1. u \in records /\ u.kind = "target" /\ q.id \in u.of /\ q \in With("note") /\ q.id > 5
    BY DEF Links, With, Answered, SoundRecords
  <2>2. u \notin Others
    BY <2>1, OthersAre DEF CrmTyped
  <2>3. SUFFICES ASSUME NEW x \in u.of, x \in gone PROVE FALSE
    OBVIOUS
  <2>4. PICK p \in records : p.id = x /\ p.kind = kind
    BY <1>2, <2>1, <2>3 DEF SoundRecords, Ids
  <2>5. p.kind \in {"note", "person"}
    BY <2>1, <2>2, <2>4 DEF SoundRecords
  <2>6. p.kind # "note"
    BY <1>8, <2>1, <2>2, <2>3, <2>4 DEF SoundRecords, With
  <2>. QED BY <1>2, <2>3, <2>4, <2>5, <2>6
<1>9. ASSUME NEW r \in records', NEW q \in Answered("note"), LeftOf(r, q, gone), Survives(q, gone),
             NEW u \in Links(q)
      PROVE  \E t \in Links(r)' : t.of = u.of
  <2>1. u.of \cap gone = {} /\ u \in records /\ u.kind = "target"
    BY <1>8, <1>9 DEF Survives, Links, With
  <2>2. Survives(u, gone)
    BY <1>2, <2>1 DEF Survives
  <2>3. PICK t \in records' : LeftOf(t, u, gone)
    BY <1>1, <2>1, <2>2
  <2>4. t.of = u.of /\ t.kind = "target" /\ q.id \in u.of
    BY <2>1, <2>3 DEF LeftOf, Links
  <2>. QED BY <1>9, <2>3, <2>4 DEF Links, With, LeftOf
<1>10. ASSUME NEW r \in records', NEW q \in Answered("opportunity"), LeftOf(r, q, gone),
              NEW c \in With("company"), c.id \in q.of
       PROVE  c.id \in r.of /\ Survives(c, gone)
  <2>1. c.id \notin gone
    BY <1>2, <1>10 DEF With
  <2>. QED BY <1>10, <2>1 DEF LeftOf, Survives, With
<1>11. NothingLeaks'
  <2>. SUFFICES ASSUME NEW r \in records' \ Others, r.kind # "target", r.id \notin loose'
                PROVE  Findable(r)'
    BY DEF NothingLeaks
  <2>1. PICK q \in records : Survives(q, gone) /\ LeftOf(r, q, gone) /\ q \notin Others
    BY <1>1
  <2>2. q.kind = r.kind /\ q.id = r.id /\ q.marked = r.marked
    BY <2>1 DEF LeftOf
  <2>3. Findable(q) /\ q \in Answered(q.kind)
    BY <2>1, <2>2 DEF NothingLeaks, Answered
  <2>4. r.kind \in CrmKind /\ r \in records'
    BY <1>1 DEF CrmRecord
  <2>5. CASE r.kind \in {"company", "person"}
    BY <2>2, <2>3, <2>5 DEF Findable
  <2>6. CASE r.kind = "opportunity"
    <3>1. PICK c \in With("company") : c.id \in q.of /\ c.marked
      BY <2>2, <2>3, <2>6 DEF Findable
    <3>2. c.id \in r.of /\ Survives(c, gone)
      BY <1>10, <2>1, <2>2, <2>3, <2>4, <2>6, <3>1
    <3>3. PICK d \in records' : LeftOf(d, c, gone)
      BY <1>1, <3>2 DEF With
    <3>4. d \in With("company")' /\ d.id \in r.of /\ d.marked
      BY <3>1, <3>2, <3>3 DEF With, LeftOf
    <3>. QED BY <2>6, <3>4 DEF Findable
  <2>7. CASE r.kind = "note"
    <3>1. PICK u \in With("target"), p \in With("person") : q.id \in u.of /\ p.id \in u.of /\ p.marked
      BY <2>2, <2>3, <2>7 DEF Findable
    <3>2. u \in Links(q) /\ q \in Answered("note")
      BY <2>2, <2>3, <2>7, <3>1 DEF Links
    <3>3. PICK t \in Links(r)' : t.of = u.of
      BY <1>9, <2>1, <2>4, <3>2
    <3>4. Survives(p, gone)
      BY <1>8, <2>1, <3>1, <3>2 DEF Survives, With
    <3>5. PICK d \in records' : LeftOf(d, p, gone)
      BY <1>1, <3>4, <3>1 DEF With
    <3>6. d \in With("person")' /\ d.id \in t.of /\ d.marked
      BY <3>1, <3>3, <3>5 DEF With, LeftOf
    <3>7. t \in With("target")' /\ r.id \in t.of
      BY <3>3 DEF Links
    <3>. QED BY <2>7, <3>6, <3>7 DEF Findable
  <2>. QED BY <2>4, <2>5, <2>6, <2>7 DEF CrmKind
<1>12. /\ \A r \in records', q \in records : LeftOf(r, q, gone) =>
             \A t \in Links(r)' : \E u \in Links(q) : t.of = u.of
       /\ \A r \in records', q \in Answered("note") : LeftOf(r, q, gone) /\ Survives(q, gone) =>
             \A u \in Links(q) : \E t \in Links(r)' : t.of = u.of
       /\ \A r \in records', q \in Answered("opportunity") : LeftOf(r, q, gone) =>
             \A c \in With("company") : c.id \in q.of => c.id \in r.of /\ Survives(c, gone)
  BY <1>7, <1>9, <1>10
<1>. QED BY <1>3, <1>4, <1>5, <1>6, <1>11, <1>12

-----------------------------------------------------------------------------
\* Creating records

Fits(row) ==
  /\ row \in CrmRow /\ Known(row)
  /\ \A r \in records : r.id \in row.of => r.kind # "target"
  /\ row.kind = "target" =>
       /\ row.of \cap 1 .. 5 = {}
       /\ \A q \in records : q.id \in row.of => q.kind \in {"note", "person"}
       /\ \A q, n \in With("note") : q.id \in row.of /\ n.id \in row.of => q = n

\* The record of row i.
MadeOf(given, i) ==
  R(nextId + i - 1, given[i].kind, given[i].kind \in {"company", "person"}, given[i].of)

LEMMA CreatedKeeps ==
  ASSUME CrmTyped, SoundRecords, NEW given \in Seq(CrmRow), \A i \in DOMAIN given : Fits(given[i]),
         records' = records \cup Created(given), nextId' = nextId + Len(given)
  PROVE  /\ nextId' \in Nat /\ nextId' >= nextId
         /\ records' \subseteq CrmRecord /\ SoundRecords'
         /\ \A ids, k : Are(ids, k) => Are(ids, k)'
         /\ \A row : SoundRow(row) => SoundRow(row)'
         /\ \A r \in records : Findable(r) => Findable(r)'
         /\ \A i \in DOMAIN given : MadeOf(given, i) \in records' \ Others
         /\ \A r \in records' \ records :
              /\ r \notin Others /\ r.id \in nextId .. nextId' - 1
              /\ \E i \in DOMAIN given : r = MadeOf(given, i)
<1>. USE DEF CrmTyped
<1>1. Len(given) \in Nat /\ DOMAIN given = 1 .. Len(given) /\ nextId \in Nat /\ nextId > 5
  OBVIOUS
<1>2. nextId' \in Nat /\ nextId' >= nextId
  BY <1>1
<1>3. ASSUME NEW i \in DOMAIN given
      PROVE  LET r == MadeOf(given, i)
             IN  /\ r \in CrmRecord /\ r.id = nextId + i - 1 /\ r.kind = given[i].kind
                 /\ r.of = given[i].of /\ (r.kind \in {"company", "person"} => r.marked)
                 /\ r.id \in nextId .. nextId' - 1
  <2>1. given[i] \in CrmRow /\ i \in 1 .. Len(given)
    BY <1>1
  <2>2. nextId + i - 1 \in nextId .. nextId' - 1 /\ nextId + i - 1 \in Nat
    BY <1>1, <2>1
  <2>3. given[i].kind \in CrmKind /\ given[i].of \in SUBSET Nat
    BY <2>1 DEF CrmRow
  <2>. DEFINE named == given[i].kind \in {"company", "person"}
  <2>4. named \in BOOLEAN
    OBVIOUS
  <2>5. MadeOf(given, i) = [id |-> nextId + i - 1, kind |-> given[i].kind, marked |-> named,
                            of |-> given[i].of]
    BY DEF MadeOf, R
  <2>6. given[i].kind \in {"company", "person"} => named
    OBVIOUS
  <2>. HIDE DEF named
  <2>. QED BY <2>2, <2>3, <2>4, <2>5, <2>6 DEF CrmRecord
<1>4. Created(given) = {MadeOf(given, i) : i \in DOMAIN given}
  BY DEF Created, MadeOf
<1>5. \A r \in records : r.id < nextId /\ r.id \in Nat
  BY DEF SoundRecords, CrmRecord
<1>6. ASSUME NEW r \in records' \ records
      PROVE  /\ r \notin Others /\ r.id \in nextId .. nextId' - 1
             /\ \E i \in DOMAIN given : r = MadeOf(given, i)
  BY <1>3, <1>4, <1>6 DEF SoundRecords
<1>7. \A i \in DOMAIN given : MadeOf(given, i) \in records' \ Others
  <2>1. \A r \in Others : r.id < nextId
    BY <1>5 DEF SoundRecords
  <2>. QED BY <1>1, <1>3, <1>4, <2>1
<1>8. records' \subseteq CrmRecord
  BY <1>3, <1>4
<1>9. \A r \in records' : r.id \in Ids(records) => r \in records
  BY <1>1, <1>2, <1>5, <1>6 DEF Ids
<1>10. \A ids, k : Are(ids, k) => Are(ids, k)'
  <2>. SUFFICES ASSUME NEW ids, NEW k, Are(ids, k) PROVE Are(ids, k)'
    OBVIOUS
  <2>1. ids \subseteq 6 .. nextId' - 1
    BY <1>1, <1>2 DEF Are
  <2>2. \A r \in records' : r.id \in ids => r \in records
    BY <1>1, <1>6 DEF Are
  <2>. QED BY <2>1, <2>2 DEF Are
<1>11. \A row : SoundRow(row) => SoundRow(row)'
  <2>. SUFFICES ASSUME NEW row, SoundRow(row) PROVE SoundRow(row)'
    OBVIOUS
  <2>1. row.of \subseteq 6 .. nextId' - 1
    BY <1>1, <1>2 DEF SoundRow
  <2>2. \A r \in records' : r.id \in row.of => r \in records
    BY <1>1, <1>6 DEF SoundRow
  <2>. QED BY <2>1, <2>2 DEF SoundRow
<1>12. \A r \in records : Findable(r) => Findable(r)'
  BY DEF Findable, With
<1>13. SoundRecords'
  <2>1. ASSUME NEW r \in records'
        PROVE  /\ r.id < nextId' /\ r.of \subseteq Ids(records)
               /\ \A q \in records : q.id \in r.of => q.kind # "target"
    <3>1. CASE r \in records
      BY <1>1, <1>2, <1>5, <3>1 DEF SoundRecords
    <3>2. CASE r \notin records
      <4>1. PICK i \in DOMAIN given : r = MadeOf(given, i)
        BY <1>6, <3>2
      <4>2. Fits(given[i])
        OBVIOUS
      <4>3. /\ given[i].of \subseteq Ids(records)
            /\ \A q \in records : q.id \in given[i].of => q.kind # "target"
        BY <4>2 DEF Fits, Known
      <4>4. r.of = given[i].of /\ r.id \in nextId .. nextId' - 1
        BY <1>3, <4>1
      <4>5. r.id < nextId'
        BY <1>1, <1>2, <4>4
      <4>. QED BY <4>3, <4>4, <4>5
    <3>. QED BY <3>1, <3>2
  <2>2. \A r \in records' : r.id < nextId' /\ r.of \subseteq Ids(records')
    BY <2>1 DEF Ids
  <2>3. \A r, q \in records' : q.id \in r.of => q.kind # "target"
    BY <1>9, <2>1
  <2>4. ASSUME NEW r \in records', NEW q \in records', r.id = q.id PROVE r = q
    <3>1. CASE r \in records \/ q \in records
      <4>1. r \in records /\ q \in records
        BY <1>9, <2>4, <3>1 DEF Ids
      <4>. QED BY <2>4, <4>1 DEF SoundRecords
    <3>2. CASE r \notin records /\ q \notin records
      <4>1. PICK i \in DOMAIN given, j \in DOMAIN given : r = MadeOf(given, i) /\ q = MadeOf(given, j)
        BY <1>6, <3>2
      <4>2. i = j
        BY <1>1, <1>3, <2>4, <4>1
      <4>. QED BY <4>1, <4>2
    <3>. QED BY <3>1, <3>2
  <2>5. Others \subseteq records'
    BY DEF SoundRecords
  <2>6. ASSUME NEW r \in records' \ Others
        PROVE  /\ r.id > 5
               /\ r.kind \in {"company", "person"} => r.marked
               /\ r.kind = "target" =>
                    /\ r.of \cap 1 .. 5 = {}
                    /\ \A q \in records : q.id \in r.of => q.kind \in {"note", "person"}
                    /\ \A q, n \in With("note") : q.id \in r.of /\ n.id \in r.of => q = n
    <3>1. CASE r \in records
      BY <3>1 DEF SoundRecords
    <3>2. CASE r \notin records
      <4>1. PICK i \in DOMAIN given : r = MadeOf(given, i)
        BY <1>6, <3>2
      <4>2. r.id > 5
        BY <1>1, <1>2, <1>3, <4>1
      <4>. QED BY <1>3, <4>1, <4>2 DEF Fits
    <3>. QED BY <3>1, <3>2
  <2>7. ASSUME NEW r \in records' \ Others, r.kind = "target"
        PROVE  /\ \A q \in records' : q.id \in r.of => q.kind \in {"note", "person"}
               /\ \A q, n \in With("note")' : q.id \in r.of /\ n.id \in r.of => q = n
    <3>1. \A q \in records' : q.id \in r.of => q \in records
      BY <1>9, <2>1
    <3>. QED BY <2>6, <2>7, <3>1 DEF With
  <2>. QED BY <2>2, <2>3, <2>4, <2>5, <2>6, <2>7 DEF SoundRecords
<1>. QED BY <1>2, <1>6, <1>7, <1>8, <1>10, <1>11, <1>12, <1>13

-----------------------------------------------------------------------------
\* Steps that change no record

LEMMA QuietStep ==
  ASSUME UNCHANGED <<records, nextId, loose>>
  PROVE  /\ SoundRecords' <=> SoundRecords
         /\ NothingLeaks' <=> NothingLeaks
         /\ \A ids, k : Are(ids, k)' <=> Are(ids, k)
         /\ \A row : SoundRow(row)' <=> SoundRow(row)
         /\ \A k : Answered(k)' = Answered(k) /\ Marked(k)' = Marked(k) /\ With(k)' = With(k)
         /\ \A n : Links(n)' = Links(n)
<1>1. \A k : Answered(k)' = Answered(k) /\ Marked(k)' = Marked(k) /\ With(k)' = With(k)
  BY DEF Answered, Marked, With, Ids
<1>2. \A n : Links(n)' = Links(n)
  BY DEF Links, With
<1>3. (\A ids, k : Are(ids, k)' <=> Are(ids, k)) /\ (\A row : SoundRow(row)' <=> SoundRow(row))
  BY DEF Are, SoundRow
<1>4. SoundRecords' <=> SoundRecords
  BY DEF SoundRecords, Ids, With
<1>5. NothingLeaks' <=> NothingLeaks
  BY DEF NothingLeaks, Findable, With
<1>. QED BY <1>1, <1>2, <1>3, <1>4, <1>5

LEMMA MarkedAre ==
  ASSUME CrmTyped, SoundRecords, NEW kind
  PROVE  Are(Marked(kind), kind) /\ Marked(kind) \subseteq Nat
<1>1. ASSUME NEW r \in With(kind), r.marked
      PROVE  r.id \in 6 .. nextId - 1 /\ r.id \in Nat
  <2>1. r \in records \ Others
    BY <1>1, OthersTyped DEF With
  <2>2. r.id \in Nat /\ r.id > 5 /\ r.id < nextId
    BY <2>1, OthersAre DEF CrmTyped, SoundRecords
  <2>. QED BY <2>2 DEF CrmTyped
<1>2. \A r \in records : r.id \in Marked(kind) => r.kind = kind
  BY DEF Marked, Ids, With, SoundRecords
<1>. QED BY <1>1, <1>2 DEF Are, Marked, Ids

LEMMA CrmInitInv == CrmInit => CrmInv
<1>. SUFFICES ASSUME CrmInit PROVE CrmInv
  OBVIOUS
<1>1. /\ records = Others /\ nextId = 6 /\ late = {} /\ loose = {}
      /\ reset = [at |-> "idle", companies |-> {}, people |-> {}, notes |-> {}, refs |-> <<>>]
      /\ activity = [at |-> "idle", run |-> 0, contact |-> 0, note |-> 0]
      /\ counts = [run |-> 0, activity |-> 0, late |-> 0] /\ disturbed = FALSE
  BY DEF CrmInit, Away, NoActivity
<1>2. Len(CrmFixtures) \in Nat
  BY LiveCrmAssumption
<1>3. records \subseteq CrmRecord
  BY <1>1, OthersTyped
<1>4. reset \in ResetRecord
  BY <1>1 DEF ResetRecord, ResetAt
<1>5. CrmTyped
  BY <1>1, <1>2, <1>3, <1>4 DEF CrmTyped, ActivityRecord
<1>6. Ids(Others) = 1 .. 5
  BY DEF Ids, Others, R
<1>7. SoundRecords
  <2>1. \A r \in records : r.id < nextId /\ r.of \subseteq Ids(records)
    BY <1>1, <1>6, OthersTyped
  <2>. DEFINE a == R(1, "company", FALSE, {})
              b == R(2, "person", FALSE, {1})
              c == R(3, "opportunity", FALSE, {1, 2})
              d == R(4, "note", FALSE, {})
              e == R(5, "target", FALSE, {2, 4})
  <2>2. records = {a, b, c, d, e}
    BY <1>1 DEF Others
  <2>3. a.id = 1 /\ b.id = 2 /\ c.id = 3 /\ d.id = 4 /\ e.id = 5
    BY DEF R
  <2>. HIDE DEF a, b, c, d, e
  <2>4. \A r, q \in records : r.id = q.id => r = q
    BY <2>2, <2>3
  <2>5. \A r, q \in records : q.id \in r.of => q.kind # "target"
    BY <1>1 DEF Others, R
  <2>. QED BY <1>1, <2>1, <2>4, <2>5 DEF SoundRecords
<1>8. SoundLists /\ SoundRefs /\ SoundActivity /\ RefsGrow
  BY <1>1 DEF SoundLists, SoundRefs, SoundActivity, RefsGrow, Are
<1>9. \A k : Answered(k) = {}
  BY <1>1 DEF Answered
<1>10. SafeOpportunities /\ SafeNotes /\ SafePeople /\ NothingLeaks /\ Undisturbed
  BY <1>1, <1>9 DEF SafeOpportunities, SafeNotes, SafePeople, NothingLeaks, Undisturbed
<1>. QED BY <1>5, <1>7, <1>8, <1>10 DEF CrmInv

(* A reset that ends, wherever it is. *)
LEMMA StopInv == CrmInv /\ Stop => CrmInv'
<1>. SUFFICES ASSUME CrmInv, Stop PROVE CrmInv'
  OBVIOUS
<1>. USE DEF CrmInv
<1>1. /\ UNCHANGED <<records, nextId, activity, late, counts, loose, disturbed>>
      /\ reset' = [at |-> "idle", companies |-> {}, people |-> {}, notes |-> {}, refs |-> <<>>]
  BY DEF Stop, Away
<1>2. CrmTyped'
  <2>1. reset' \in ResetRecord
    BY <1>1 DEF ResetRecord, ResetAt
  <2>2. Len(<<>>) <= Len(CrmFixtures)
    BY LiveCrmAssumption
  <2>. QED BY <1>1, <2>1, <2>2 DEF CrmTyped
<1>3. SoundRecords' /\ NothingLeaks'
  BY <1>1, QuietStep
<1>4. SoundLists' /\ SoundRefs' /\ SoundActivity' /\ RefsGrow'
  BY <1>1 DEF SoundLists, SoundRefs, SoundActivity, RefsGrow, Are, SoundRow, With
<1>5. SafeOpportunities' /\ SafeNotes' /\ SafePeople' /\ Undisturbed'
  BY <1>1, QuietStep DEF SafeOpportunities, SafeNotes, SafePeople, Undisturbed, Doomed
<1>. QED BY <1>2, <1>3, <1>4, <1>5

LEMMA BeginInv == CrmInv /\ Begin => CrmInv'
<1>. SUFFICES ASSUME CrmInv, Begin PROVE CrmInv'
  OBVIOUS
<1>. USE DEF CrmInv
<1>1. /\ UNCHANGED <<records, nextId, activity, late, loose>>
      /\ reset' = [at |-> "companies", companies |-> {}, people |-> {}, notes |-> {}, refs |-> <<>>]
      /\ counts' = [counts EXCEPT !.run = @ + 1]
  BY DEF Begin, Away
<1>2. CrmTyped'
  <2>1. reset' \in ResetRecord
    BY <1>1 DEF ResetRecord, ResetAt
  <2>2. Len(<<>>) <= Len(CrmFixtures)
    BY LiveCrmAssumption
  <2>3. counts' \in [run : Nat, activity : Nat, late : Nat]
    BY <1>1 DEF CrmTyped
  <2>. QED BY <1>1, <2>1, <2>2, <2>3 DEF CrmTyped
<1>3. SoundRecords' /\ NothingLeaks'
  BY <1>1, QuietStep
<1>4. SoundLists' /\ SoundRefs' /\ SoundActivity' /\ RefsGrow'
  BY <1>1 DEF SoundLists, SoundRefs, SoundActivity, RefsGrow, Are, SoundRow, With
<1>5. SafeOpportunities' /\ SafeNotes' /\ SafePeople' /\ Undisturbed'
  BY <1>1, QuietStep DEF SafeOpportunities, SafeNotes, SafePeople, Undisturbed, Doomed
<1>. QED BY <1>2, <1>3, <1>4, <1>5

LEMMA FilledInv == CrmInv /\ Filled => CrmInv'
<1>. SUFFICES ASSUME CrmInv, Filled PROVE CrmInv'
  OBVIOUS
<1>. USE DEF CrmInv
<1>1. /\ UNCHANGED <<records, nextId, activity, late, counts, loose, disturbed>>
      /\ reset.at = "create" /\ Len(reset.refs) = Len(CrmFixtures)
      /\ reset' = [reset EXCEPT !.at = "filled"] /\ reset \in ResetRecord
  BY DEF Filled, CrmTyped
<1>2. /\ reset' \in ResetRecord /\ reset'.at = "filled"
      /\ reset'.companies = reset.companies /\ reset'.people = reset.people
      /\ reset'.notes = reset.notes /\ reset'.refs = reset.refs
  BY <1>1 DEF ResetRecord, ResetAt
<1>3. CrmTyped'
  BY <1>1, <1>2 DEF CrmTyped
<1>4. SoundRecords' /\ NothingLeaks'
  BY <1>1, QuietStep
<1>5. SoundLists' /\ SoundRefs' /\ SoundActivity' /\ RefsGrow'
  BY <1>1, <1>2 DEF SoundLists, SoundRefs, SoundActivity, RefsGrow, Are, SoundRow, With
<1>6. SafeOpportunities' /\ SafeNotes' /\ SafePeople'
  BY <1>1, <1>2, QuietStep DEF SafeOpportunities, SafeNotes, SafePeople, Doomed
<1>7. Undisturbed'
  <2>1. \A i : FixtureRecord(i)' = FixtureRecord(i)
    BY <1>2 DEF FixtureRecord
  <2>2. FixtureRecords' = FixtureRecords /\ RefIds' = RefIds
    BY <1>2, <2>1 DEF FixtureRecords, RefIds
  <2>. QED BY <1>1, <1>2, <2>2 DEF Undisturbed
<1>. QED BY <1>3, <1>4, <1>5, <1>6, <1>7

LEMMA QueryInv == CrmInv /\ Query => CrmInv'
<1>. SUFFICES ASSUME CrmInv, Query PROVE CrmInv'
  OBVIOUS
<1>. USE DEF CrmInv
<1>1. UNCHANGED <<records, nextId, activity, late, counts, loose, disturbed>> /\ reset \in ResetRecord
  BY DEF Query, CrmTyped
<1>2. SoundRecords' /\ NothingLeaks' /\ SoundActivity'
  BY <1>1, QuietStep DEF SoundActivity, Are, With
<1>3. /\ \A o \in Answered("opportunity") : o.of \cap Marked("company") # {}
      /\ \A n \in Answered("note") : \E t \in Links(n) : t.of \cap Marked("person") # {}
  BY DEF NothingLeaks, Findable, Answered, Marked, Ids, With, Links
<1>4. /\ Are(Marked("company"), "company") /\ Marked("company") \subseteq Nat
      /\ Are(Marked("person"), "person") /\ Marked("person") \subseteq Nat
  BY MarkedAre
<1>5. CASE reset.at = "companies"
  <2>1. /\ reset' \in ResetRecord /\ reset'.at = "people" /\ reset'.companies = Marked("company")
        /\ reset'.people = reset.people /\ reset'.notes = reset.notes /\ reset'.refs = reset.refs
    BY <1>1, <1>4, <1>5 DEF Query, Nodes, ResetRecord, ResetAt
  <2>2. CrmTyped' /\ SoundLists' /\ SoundRefs' /\ RefsGrow'
    BY <1>1, <1>4, <1>5, <2>1 DEF CrmTyped, SoundLists, SoundRefs, RefsGrow, Are, SoundRow
  <2>3. SafeOpportunities' /\ SafeNotes' /\ SafePeople' /\ Undisturbed'
    BY <1>1, <1>3, <2>1, QuietStep DEF SafeOpportunities, SafeNotes, SafePeople, Undisturbed, Doomed
  <2>. QED BY <1>2, <2>2, <2>3
<1>6. CASE reset.at = "people"
  <2>1. /\ reset' \in ResetRecord /\ reset'.people = Marked("person")
        /\ reset'.companies = reset.companies /\ reset'.notes = reset.notes /\ reset'.refs = reset.refs
        /\ \/ reset'.at = "targets"
           \/ reset'.at = "notes" /\ Marked("person") = {}
    BY <1>1, <1>4, <1>6 DEF Query, Nodes, ResetRecord, ResetAt
  <2>2. CrmTyped' /\ SoundLists' /\ SoundRefs' /\ RefsGrow'
    BY <1>1, <1>4, <1>6, <2>1 DEF CrmTyped, SoundLists, SoundRefs, RefsGrow, Are, SoundRow
  <2>3. reset'.at = "notes" => Answered("note") = {}
    BY <1>3, <2>1
  <2>4. SafeOpportunities' /\ SafeNotes' /\ SafePeople' /\ Undisturbed'
    BY <1>1, <1>3, <1>6, <2>1, <2>3, QuietStep
    DEF SafeOpportunities, SafeNotes, SafePeople, Undisturbed, Doomed, Ids
  <2>. QED BY <1>2, <2>2, <2>4
<1>7. CASE reset.at = "targets"
  <2>. DEFINE targets == Ids({r \in With("target") : r.of \cap reset.people # {}})
              notes == {n \in Ids(With("note")) : \E t \in With("target") : t.id \in targets /\ n \in t.of}
  <2>1. notes \subseteq Nat
    BY DEF Ids, With, CrmTyped, CrmRecord
  <2>2. reset' = [reset EXCEPT !.at = "notes", !.notes = notes]
    BY <1>7 DEF Query, Nodes
  <2>3. /\ reset' \in ResetRecord /\ reset'.at = "notes" /\ reset'.notes = notes
        /\ reset'.companies = reset.companies /\ reset'.people = reset.people /\ reset'.refs = reset.refs
    BY <1>1, <2>1, <2>2 DEF ResetRecord, ResetAt
  <2>4. Are(notes, "note")
    <3>1. ASSUME NEW n \in notes PROVE n \in 6 .. nextId - 1
      <4>1. PICK t \in With("target") : t.id \in targets /\ n \in t.of
        OBVIOUS
      <4>2. t.of \cap reset.people # {}
        BY <4>1 DEF Ids, With, SoundRecords
      <4>3. reset.people \subseteq 6 .. nextId - 1
        BY DEF SoundLists, Are
      <4>4. t \in records \ Others
        BY <4>2, <4>3, OthersTyped DEF With
      <4>5. t.of \cap 1 .. 5 = {}
        BY <4>4 DEF SoundRecords, With
      <4>6. n \in Nat /\ n > 5 /\ n < nextId
        <5>1. n \in Nat /\ n >= 1 /\ n < nextId
          BY <2>1, OthersAre, OthersTyped DEF Ids, With, SoundRecords, CrmTyped
        <5>. QED BY <4>1, <4>5, <5>1
      <4>. QED BY <4>6 DEF CrmTyped
    <3>2. \A r \in records : r.id \in notes => r.kind = "note"
      BY DEF Ids, With, SoundRecords
    <3>. QED BY <3>1, <3>2 DEF Are
  <2>5. Ids(Answered("note")) \subseteq notes
    <3>. SUFFICES ASSUME NEW n \in Answered("note") PROVE n.id \in notes
      BY DEF Ids
    <3>1. PICK t \in Links(n) : t.of \cap reset.people # {}
      BY <1>7 DEF SafeNotes
    <3>. QED BY <3>1 DEF Answered, Links, With, Ids
  <2>. HIDE DEF notes, targets
  <2>6. CrmTyped' /\ SoundLists' /\ SoundRefs' /\ RefsGrow'
    BY <1>1, <1>7, <2>3, <2>4 DEF CrmTyped, SoundLists, SoundRefs, RefsGrow, Are, SoundRow
  <2>7. Ids(Answered("note"))' = Ids(Answered("note"))
    BY <1>1 DEF Ids, Answered
  <2>8. SafeOpportunities' /\ SafeNotes' /\ SafePeople' /\ Undisturbed'
    BY <1>1, <1>7, <2>3, <2>5, <2>7, QuietStep
    DEF SafeOpportunities, SafeNotes, SafePeople, Undisturbed, Doomed
  <2>. QED BY <1>2, <2>6, <2>8
<1>. QED BY <1>5, <1>6, <1>7 DEF Query

-----------------------------------------------------------------------------
\* Steps that destroy

LEMMA DoomedShrinks ==
  ASSUME late' \subseteq late
  PROVE  \A k : Doomed(k)' \subseteq Doomed(k)
BY DEF Doomed

LEMMA DestroyStep ==
  ASSUME CrmInv, NEW gone, NEW kind, Gone(gone, kind),
         records' = Without(gone), nextId' = nextId, loose' = loose, late' \subseteq late,
         UNCHANGED <<activity, counts>>, reset' \in ResetRecord,
         reset'.companies = reset.companies, reset'.people = reset.people,
         reset'.notes = reset.notes, reset'.refs = reset.refs
  PROVE  /\ CrmTyped' /\ SoundRecords' /\ SoundLists' /\ SoundRefs' /\ SoundActivity' /\ NothingLeaks'
         /\ \A o \in Answered("opportunity")' : o.of \cap Doomed("company")' = {}
         /\ \A n \in Answered("note")' : \A t \in Links(n)' : t.of \cap Doomed("person")' = {}
         /\ \A k : \A r \in Answered(k)' : \E q \in Answered(k) : r.id = q.id /\ q.id \notin gone
         /\ \A k : Marked(k)' \subseteq Marked(k) \ gone
         /\ (\A o \in Answered("opportunity") : o.of \cap reset.companies # {}) =>
              \A o \in Answered("opportunity")' : o.of \cap reset.companies # {}
         /\ (\A n \in Answered("note") : \E t \in Links(n) : t.of \cap reset.people # {}) =>
              \A n \in Answered("note")' : \E t \in Links(n)' : t.of \cap reset.people # {}
<1>. USE DEF CrmInv
<1>1. records' \subseteq CrmRecord /\ SoundRecords'
  BY DestroyedRecords
<1>2. /\ \A ids, k : Are(ids, k) => Are(ids, k)'
      /\ \A row : SoundRow(row) => SoundRow(row)'
      /\ \A k : Marked(k)' \subseteq Marked(k) \ gone
      /\ \A k : \A r \in Answered(k)' : \E q \in Answered(k) : Survives(q, gone) /\ LeftOf(r, q, gone)
      /\ \A r \in records', q \in records : LeftOf(r, q, gone) =>
           \A t \in Links(r)' : \E u \in Links(q) : t.of = u.of
      /\ \A r \in records', q \in Answered("note") : LeftOf(r, q, gone) /\ Survives(q, gone) =>
           \A u \in Links(q) : \E t \in Links(r)' : t.of = u.of
      /\ \A r \in records', q \in Answered("opportunity") : LeftOf(r, q, gone) =>
           \A c \in With("company") : c.id \in q.of => c.id \in r.of /\ Survives(c, gone)
      /\ NothingLeaks'
  BY DestroyedKeeps
<1>3. CrmTyped'
  BY <1>1 DEF CrmTyped
<1>4. SoundLists' /\ SoundRefs'
  BY <1>2 DEF SoundLists, SoundRefs
<1>5. SoundActivity'
  <2>1. ASSUME activity.at = "target", NEW t \in With("target")' PROVE activity.note \notin t.of
    <3>1. PICK u \in records : LeftOf(t, u, gone)
      BY DestroyedRecords DEF With
    <3>. QED BY <2>1, <3>1 DEF With, LeftOf, SoundActivity
  <2>. QED BY <1>2, <2>1 DEF SoundActivity
<1>6. \A k : Doomed(k)' \subseteq Doomed(k)
  BY DoomedShrinks
<1>7. \A o \in Answered("opportunity")' : o.of \cap Doomed("company")' = {}
  BY <1>2, <1>6 DEF SafeOpportunities, LeftOf
<1>8. ASSUME NEW n \in Answered("note")', NEW t \in Links(n)' PROVE t.of \cap Doomed("person")' = {}
  <2>1. PICK m \in Answered("note") : LeftOf(n, m, gone)
    BY <1>2
  <2>2. n \in records' /\ m \in records
    BY DEF Answered
  <2>3. PICK u \in Links(m) : t.of = u.of
    BY <1>2, <2>1, <2>2
  <2>. QED BY <1>6, <2>3 DEF SafeNotes
<1>9. \A k : \A r \in Answered(k)' : \E q \in Answered(k) : r.id = q.id /\ q.id \notin gone
  BY <1>2 DEF LeftOf, Survives
<1>10. ASSUME \A o \in Answered("opportunity") : o.of \cap reset.companies # {},
              NEW o \in Answered("opportunity")'
       PROVE  o.of \cap reset.companies # {}
  <2>1. PICK q \in Answered("opportunity") : LeftOf(o, q, gone)
    BY <1>2
  <2>2. PICK id \in q.of : id \in reset.companies
    BY <1>10
  <2>3. PICK c \in records : c.id = id /\ c.kind = "company"
    BY <2>2 DEF Answered, SoundRecords, Ids, SoundLists, Are
  <2>4. o \in records' /\ c \in With("company")
    BY <2>3 DEF Answered, With
  <2>5. c.id \in o.of
    BY <1>2, <2>1, <2>2, <2>3, <2>4
  <2>. QED BY <2>2, <2>3, <2>5
<1>11. ASSUME \A n \in Answered("note") : \E t \in Links(n) : t.of \cap reset.people # {},
              NEW n \in Answered("note")'
       PROVE  \E t \in Links(n)' : t.of \cap reset.people # {}
  <2>1. PICK m \in Answered("note") : LeftOf(n, m, gone) /\ Survives(m, gone)
    BY <1>2
  <2>2. PICK u \in Links(m) : u.of \cap reset.people # {}
    BY <1>11
  <2>3. n \in records'
    BY DEF Answered
  <2>4. PICK t \in Links(n)' : t.of = u.of
    BY <1>2, <2>1, <2>2, <2>3
  <2>. QED BY <2>2, <2>4
<1>. QED BY <1>1, <1>2, <1>3, <1>4, <1>5, <1>7, <1>8, <1>9, <1>10, <1>11

(* The opportunities of companies of the console's are its own. *)
LEMMA OpportunitiesAre ==
  ASSUME CrmTyped, SoundRecords, NEW companies, Are(companies, "company")
  PROVE  Gone(OpportunitiesOf(companies), "opportunity")
<1>. DEFINE gone == OpportunitiesOf(companies)
<1>1. ASSUME NEW o \in With("opportunity"), o.of \cap companies # {} PROVE o.id \in 6 .. nextId - 1 /\ o.id \in Nat
  <2>1. o \notin Others
    BY <1>1, OthersTyped DEF Are
  <2>2. o.id \in Nat /\ o.id > 5 /\ o.id < nextId
    BY <2>1, OthersAre DEF With, CrmTyped, SoundRecords
  <2>. QED BY <2>2 DEF CrmTyped
<1>2. gone \subseteq 6 .. nextId - 1 /\ gone \subseteq Nat
  BY <1>1 DEF OpportunitiesOf, Ids
<1>3. \A r \in records : r.id \in gone => r.kind = "opportunity"
  BY DEF OpportunitiesOf, Ids, With, SoundRecords
<1>. HIDE DEF gone
<1>4. Gone(gone, "opportunity")
  BY <1>2, <1>3 DEF Gone, Are
<1>. QED BY <1>4 DEF gone

(* A reset destroys in an order in which nothing is lost from sight. *)
LEMMA PerformDestroyInv ==
  ASSUME CrmInv, Perform, reset.at # "create"
  PROVE  CrmInv'
<1>. USE DEF CrmInv
<1>1. /\ reset.at \in {"notes", "opportunities", "persons", "firms"}
      /\ Performed(Destroys(Destroy.do, Destroy.ids)) /\ reset' = [reset EXCEPT !.at = Destroy.next]
      /\ UNCHANGED <<activity, late, counts, loose, disturbed>> /\ reset \in ResetRecord
  BY DEF Perform, Requesting, Request, CrmTyped
<1>2. reset.refs = <<>>
  BY <1>1 DEF RefsGrow
<1>. DEFINE Result(gone, kind, next) ==
       /\ Gone(gone, kind) /\ records' = Without(gone) /\ nextId' = nextId
       /\ reset' = [reset EXCEPT !.at = next]
<1>3. ASSUME NEW gone, NEW kind, NEW next \in ResetAt, Result(gone, kind, next)
      PROVE  /\ reset' \in ResetRecord /\ reset'.at = next
             /\ reset'.companies = reset.companies /\ reset'.people = reset.people
             /\ reset'.notes = reset.notes /\ reset'.refs = reset.refs
             /\ late' \subseteq late
  BY <1>1, <1>3 DEF ResetRecord
<1>4. CASE reset.at = "notes"
  <2>1. Destroy = [do |-> "note", ids |-> reset.notes, next |-> "opportunities"]
    BY <1>4 DEF Destroy
  <2>2. records' = Without(reset.notes) /\ nextId' = nextId /\ reset' = [reset EXCEPT !.at = "opportunities"]
    BY <1>1, <2>1 DEF Performed, Destroys
  <2>3. Gone(reset.notes, "note")
    BY <1>1 DEF Gone, SoundLists, ResetRecord
  <2>4. Result(reset.notes, "note", "opportunities")
    BY <2>2, <2>3
  <2>. HIDE DEF Result
  <2>5. /\ reset' \in ResetRecord /\ reset'.at = "opportunities"
        /\ reset'.companies = reset.companies /\ reset'.people = reset.people
        /\ reset'.notes = reset.notes /\ reset'.refs = reset.refs /\ late' \subseteq late
    BY <1>3, <2>4 DEF ResetAt
  <2>6. /\ CrmTyped' /\ SoundRecords' /\ SoundLists' /\ SoundRefs' /\ SoundActivity' /\ NothingLeaks'
        /\ \A o \in Answered("opportunity")' : o.of \cap Doomed("company")' = {}
        /\ \A n \in Answered("note")' : \A t \in Links(n)' : t.of \cap Doomed("person")' = {}
        /\ \A r \in Answered("note")' : \E q \in Answered("note") : r.id = q.id /\ q.id \notin reset.notes
        /\ \A k : Marked(k)' \subseteq Marked(k)
        /\ (\A o \in Answered("opportunity") : o.of \cap reset.companies # {}) =>
             \A o \in Answered("opportunity")' : o.of \cap reset.companies # {}
    BY <1>1, <2>2, <2>3, <2>5, DestroyStep
  <2>7. Answered("note")' = {}
    BY <1>4, <2>6 DEF SafeNotes, Ids
  <2>8. SafeOpportunities' /\ SafeNotes'
    BY <1>4, <2>5, <2>6, <2>7 DEF SafeOpportunities, SafeNotes
  <2>9. SafePeople' /\ Undisturbed' /\ RefsGrow'
    BY <1>1, <1>2, <1>4, <2>5, <2>6 DEF SafePeople, Undisturbed, RefsGrow, Doomed
  <2>. QED BY <2>6, <2>8, <2>9
<1>5. CASE reset.at = "opportunities"
  <2>1. Destroy = [do |-> "opportunity", ids |-> reset.companies, next |-> "persons"]
    BY <1>5 DEF Destroy
  <2>. DEFINE gone == OpportunitiesOf(reset.companies)
  <2>2. records' = Without(gone) /\ nextId' = nextId /\ reset' = [reset EXCEPT !.at = "persons"]
    BY <1>1, <2>1 DEF Performed, Destroys
  <2>3. Gone(gone, "opportunity")
    BY OpportunitiesAre DEF SoundLists
  <2>4. \A o \in Answered("opportunity") : o.id \in gone
    BY <1>5 DEF SafeOpportunities, OpportunitiesOf, Ids, Answered, With
  <2>. HIDE DEF gone
  <2>5. Result(gone, "opportunity", "persons")
    BY <2>2, <2>3
  <2>. HIDE DEF Result
  <2>6. /\ reset' \in ResetRecord /\ reset'.at = "persons"
        /\ reset'.companies = reset.companies /\ reset'.people = reset.people
        /\ reset'.notes = reset.notes /\ reset'.refs = reset.refs /\ late' \subseteq late
    BY <1>3, <2>5 DEF ResetAt
  <2>7. /\ CrmTyped' /\ SoundRecords' /\ SoundLists' /\ SoundRefs' /\ SoundActivity' /\ NothingLeaks'
        /\ \A o \in Answered("opportunity")' : o.of \cap Doomed("company")' = {}
        /\ \A n \in Answered("note")' : \A t \in Links(n)' : t.of \cap Doomed("person")' = {}
        /\ \A k : \A r \in Answered(k)' : \E q \in Answered(k) : r.id = q.id /\ q.id \notin gone
        /\ \A k : Marked(k)' \subseteq Marked(k)
    BY <1>1, <2>2, <2>3, <2>6, DestroyStep
  <2>8. Answered("opportunity")' = {} /\ Answered("note")' = {}
    BY <1>5, <2>7, <2>4 DEF SafeNotes
  <2>9. SafeOpportunities' /\ SafeNotes'
    BY <2>6, <2>7, <2>8 DEF SafeOpportunities, SafeNotes
  <2>10. SafePeople' /\ Undisturbed' /\ RefsGrow'
    BY <1>1, <1>2, <1>5, <2>6, <2>7 DEF SafePeople, Undisturbed, RefsGrow, Doomed
  <2>. QED BY <2>7, <2>9, <2>10
<1>6. CASE reset.at = "persons"
  <2>1. Destroy = [do |-> "person", ids |-> reset.people, next |-> "firms"]
    BY <1>6 DEF Destroy
  <2>2. records' = Without(reset.people) /\ nextId' = nextId /\ reset' = [reset EXCEPT !.at = "firms"]
    BY <1>1, <2>1 DEF Performed, Destroys
  <2>3. Gone(reset.people, "person")
    BY <1>1, <1>6 DEF Gone, SoundLists, ResetRecord, SafeNotes
  <2>4. Result(reset.people, "person", "firms")
    BY <2>2, <2>3
  <2>. HIDE DEF Result
  <2>5. /\ reset' \in ResetRecord /\ reset'.at = "firms"
        /\ reset'.companies = reset.companies /\ reset'.people = reset.people
        /\ reset'.notes = reset.notes /\ reset'.refs = reset.refs /\ late' \subseteq late
    BY <1>3, <2>4 DEF ResetAt
  <2>6. /\ CrmTyped' /\ SoundRecords' /\ SoundLists' /\ SoundRefs' /\ SoundActivity' /\ NothingLeaks'
        /\ \A o \in Answered("opportunity")' : o.of \cap Doomed("company")' = {}
        /\ \A n \in Answered("note")' : \A t \in Links(n)' : t.of \cap Doomed("person")' = {}
        /\ \A k : \A r \in Answered(k)' : \E q \in Answered(k) : r.id = q.id
        /\ \A k : Marked(k)' \subseteq Marked(k) \ reset.people
    BY <1>1, <2>2, <2>3, <2>5, DestroyStep
  <2>7. Answered("opportunity")' = {} /\ Answered("note")' = {}
    BY <1>6, <2>6 DEF SafeNotes, SafeOpportunities
  <2>8. SafeOpportunities' /\ SafeNotes'
    BY <2>5, <2>6, <2>7 DEF SafeOpportunities, SafeNotes
  <2>9. Marked("company")' \subseteq Marked("company") /\ Marked("person")' \subseteq Marked("person") \ reset.people
    BY <2>6
  <2>10. Doomed("person")' = Doomed("person")
    BY <1>1 DEF Doomed
  <2>11. SafePeople' /\ Undisturbed' /\ RefsGrow'
    BY <1>1, <1>2, <1>6, <2>5, <2>9, <2>10 DEF SafePeople, Undisturbed, RefsGrow
  <2>. QED BY <2>6, <2>8, <2>11
<1>7. CASE reset.at = "firms"
  <2>1. Destroy = [do |-> "company", ids |-> reset.companies, next |-> "create"]
    BY <1>7 DEF Destroy
  <2>2. records' = Without(reset.companies) /\ nextId' = nextId /\ reset' = [reset EXCEPT !.at = "create"]
    BY <1>1, <2>1 DEF Performed, Destroys
  <2>3. Gone(reset.companies, "company")
    BY <1>1, <1>7 DEF Gone, SoundLists, ResetRecord, SafeOpportunities
  <2>4. Result(reset.companies, "company", "create")
    BY <2>2, <2>3
  <2>. HIDE DEF Result
  <2>5. /\ reset' \in ResetRecord /\ reset'.at = "create"
        /\ reset'.companies = reset.companies /\ reset'.people = reset.people
        /\ reset'.notes = reset.notes /\ reset'.refs = reset.refs /\ late' \subseteq late
    BY <1>3, <2>4 DEF ResetAt
  <2>6. /\ CrmTyped' /\ SoundRecords' /\ SoundLists' /\ SoundRefs' /\ SoundActivity' /\ NothingLeaks'
        /\ \A o \in Answered("opportunity")' : o.of \cap Doomed("company")' = {}
        /\ \A n \in Answered("note")' : \A t \in Links(n)' : t.of \cap Doomed("person")' = {}
        /\ \A k : \A r \in Answered(k)' : \E q \in Answered(k) : r.id = q.id
        /\ \A k : Marked(k)' \subseteq Marked(k) \ reset.companies
    BY <1>1, <2>2, <2>3, <2>5, DestroyStep
  <2>7. Answered("note")' = {}
    BY <1>7, <2>6 DEF SafeNotes
  <2>8. SafeOpportunities' /\ SafeNotes'
    BY <2>5, <2>6, <2>7 DEF SafeOpportunities, SafeNotes
  <2>9. Marked("company")' \subseteq Marked("company") \ reset.companies /\ Marked("person")' \subseteq Marked("person")
    BY <2>6
  <2>10. Doomed("person")' = Doomed("person")
    BY <1>1 DEF Doomed
  <2>11. SafePeople' /\ RefsGrow'
    BY <1>2, <1>7, <2>5, <2>9, <2>10 DEF SafePeople, RefsGrow
  <2>12. Undisturbed'
    <3>. SUFFICES ASSUME ~disturbed' PROVE Undisturbed'
      BY DEF Undisturbed
    <3>1. Marked("company")' = {} /\ Marked("person")' = {}
      BY <1>1, <1>7, <2>9 DEF Undisturbed
    <3>2. FixtureRecords' = {} /\ RefIds' = {}
      BY <1>2, <2>5 DEF FixtureRecords, RefIds
    <3>3. \A r \in records' : r.kind \in {"company", "person"} => ~r.marked
      BY <3>1 DEF Marked, Ids, With
    <3>. QED BY <2>5, <3>2, <3>3 DEF Undisturbed
  <2>. QED BY <2>6, <2>8, <2>11, <2>12
<1>. QED BY <1>1, <1>4, <1>5, <1>6, <1>7

-----------------------------------------------------------------------------
\* Steps that create

LEMMA FixturesAre ==
  /\ Len(CrmFixtures) \in Nat /\ DOMAIN CrmFixtures = 1 .. Len(CrmFixtures)
  /\ \A k \in 1 .. Len(CrmFixtures) :
       /\ CrmFixtures[k].kind \in {"company", "person", "opportunity"}
       /\ \A j \in CrmFixtures[k].of : j \in 1 .. k - 1 /\ CrmFixtures[j].kind # CrmFixtures[k].kind
       /\ CrmFixtures[k].kind = "opportunity" =>
            \E j \in CrmFixtures[k].of : CrmFixtures[j].kind = "company"
<1>. DEFINE CrmFixture == [kind : {"company", "person", "opportunity"}, of : SUBSET Nat]
<1>1. \A f \in CrmFixture : f.kind \in {"company", "person", "opportunity"}
  OBVIOUS
<1>2. CrmFixtures \in Seq(CrmFixture)
  BY LiveCrmAssumption
<1>. HIDE DEF CrmFixture
<1>3. /\ Len(CrmFixtures) \in Nat /\ DOMAIN CrmFixtures = 1 .. Len(CrmFixtures)
      /\ \A k \in 1 .. Len(CrmFixtures) : CrmFixtures[k] \in CrmFixture
  BY <1>2
<1>4. \A i \in DOMAIN CrmFixtures :
        /\ CrmFixtures[i].of \subseteq {j \in 1 .. i - 1 : CrmFixtures[j].kind # CrmFixtures[i].kind}
        /\ CrmFixtures[i].kind = "opportunity" =>
             \E j \in CrmFixtures[i].of : CrmFixtures[j].kind = "company"
  BY LiveCrmAssumption, Zenon
<1>. QED BY <1>1, <1>3, <1>4

(* Where a batch ends: at the first place where it has to. *)
LEMMA BatchEnds ==
  ASSUME NEW first \in 1 .. Len(CrmFixtures)
  PROVE  \E n \in first .. Len(CrmFixtures) :
           /\ n < first + BatchSize
           /\ \A i \in first .. n : CrmFixtures[i].kind = CrmFixtures[first].kind
           /\ \/ n = Len(CrmFixtures) \/ n = first + BatchSize - 1
              \/ CrmFixtures[n + 1].kind # CrmFixtures[first].kind
<1>. DEFINE size == Len(CrmFixtures)
            KindAt(i) == CrmFixtures[i].kind
<1>1. size \in Nat /\ BatchSize \in Nat \ {0} /\ first \in Nat /\ first <= size /\ first > 0
  BY LiveCrmAssumption
<1>. HIDE DEF size, KindAt
<1>. DEFINE Stops(n) == n = size \/ n = first + BatchSize - 1 \/ KindAt(n + 1) # KindAt(first)
            stops == {n \in first .. size : Stops(n)}
            most == IF size <= first + BatchSize - 1 THEN size ELSE first + BatchSize - 1
<1>2. most \in stops
  BY <1>1
<1>3. PICK n \in stops : \A m \in stops : n <= m
  <2>1. stops \subseteq Nat
    <3>1. first .. size \subseteq Nat
      BY <1>1
    <3>. HIDE DEF Stops
    <3>. QED BY <3>1
  <2>2. stops # {}
    <3>. HIDE DEF stops, most
    <3>. QED BY <1>2
  <2>. HIDE DEF stops
  <2>. QED BY <2>1, <2>2, LeastNat
<1>4. n \in first .. size /\ Stops(n) /\ n < first + BatchSize
  <2>1. n \in first .. size /\ Stops(n)
    OBVIOUS
  <2>2. most < first + BatchSize /\ most \in Nat
    BY <1>1
  <2>3. n <= most
    BY <1>2, <1>3
  <2>. HIDE DEF most, Stops
  <2>. QED BY <1>1, <2>1, <2>2, <2>3
<1>5. ASSUME NEW i \in first .. n PROVE KindAt(i) = KindAt(first)
  <2>1. CASE i = first
    BY <2>1
  <2>2. CASE i # first
    <3>1. i - 1 \in first .. size /\ ~(n <= i - 1) /\ (i - 1) + 1 = i
      BY <1>1, <1>4, <2>2
    <3>2. ~Stops(i - 1)
      BY <1>3, <3>1
    <3>. QED BY <3>1, <3>2
  <2>. QED BY <2>1, <2>2
<1>. QED BY <1>4, <1>5 DEF size, KindAt

(* A batch is never empty and has one kind; its references are in the refs. *)
LEMMA BatchIs ==
  ASSUME CrmTyped, SoundRefs, Len(reset.refs) < Len(CrmFixtures)
  PROVE  \E n \in 1 .. Len(CrmFixtures) - Len(reset.refs) :
           /\ Batch \in Seq(CrmRow) /\ Len(Batch) = n
           /\ \A i \in 1 .. n :
                /\ Batch[i].kind = CrmFixtures[Len(reset.refs) + i].kind
                /\ Batch[i].of = {reset.refs[j] : j \in CrmFixtures[Len(reset.refs) + i].of}
                /\ CrmFixtures[Len(reset.refs) + i].of \subseteq DOMAIN reset.refs
                /\ SoundRow(Batch[i])
<1>. DEFINE size == Len(CrmFixtures)
            done == Len(reset.refs)
            first == done + 1
            Last(n) == /\ n < first + BatchSize
                       /\ \A i \in first .. n : CrmFixtures[i].kind = CrmFixtures[first].kind
                       /\ \/ n = size \/ n = first + BatchSize - 1
                          \/ CrmFixtures[n + 1].kind # CrmFixtures[first].kind
            last == CHOOSE n \in first .. size : Last(n)
            RecordAt(i) == [kind |-> CrmFixtures[i].kind, of |-> {reset.refs[j] : j \in CrmFixtures[i].of}]
<1>1. /\ size \in Nat /\ done \in Nat /\ done < size
      /\ DOMAIN CrmFixtures = 1 .. size /\ DOMAIN reset.refs = 1 .. done
      /\ \A i \in 1 .. done : reset.refs[i] \in Nat
  BY LiveCrmAssumption DEF CrmTyped, ResetRecord
<1>2. \E n \in first .. size : Last(n)
  <2>1. first \in 1 .. Len(CrmFixtures)
    BY <1>1
  <2>. HIDE DEF first
  <2>. QED BY <2>1, BatchEnds
<1>3. last \in first .. size /\ Last(last)
  <2>. HIDE DEF Last
  <2>. QED BY <1>2
<1>4. Batch = [i \in 1 .. last - first + 1 |-> RecordAt(first + i - 1)]
  BY DEF Batch
<1>5. \A i \in first .. last : CrmFixtures[i].kind = CrmFixtures[first].kind
  BY <1>3
<1>. HIDE DEF last, Last, RecordAt
<1>. DEFINE n == last - first + 1
<1>. HIDE DEF size, done
<1>6. n \in 1 .. size - done /\ n \in Nat
  BY <1>1, <1>3
<1>7. \A i \in 1 .. n : Batch[i] = RecordAt(done + i)
  <2>1. \A i \in 1 .. n : first + i - 1 = done + i
    BY <1>1, <1>6
  <2>. HIDE DEF first
  <2>. QED BY <1>4, <2>1
<1>8. ASSUME NEW k \in first .. last
      PROVE  /\ CrmFixtures[k].of \subseteq 1 .. done
             /\ CrmFixtures[k].kind \in {"company", "person", "opportunity"}
  <2>1. k \in 1 .. size
    BY <1>1, <1>3
  <2>2. /\ CrmFixtures[k].kind \in {"company", "person", "opportunity"}
        /\ \A j \in CrmFixtures[k].of : j \in 1 .. k - 1 /\ CrmFixtures[j].kind # CrmFixtures[k].kind
    BY <2>1, FixturesAre DEF size
  <2>3. \A j \in first .. last : CrmFixtures[j].kind = CrmFixtures[k].kind
    BY <1>5
  <2>4. \A j \in CrmFixtures[k].of : j \in 1 .. k - 1 /\ j \notin first .. last
    BY <2>2, <2>3
  <2>5. \A j \in 1 .. k - 1 : j \notin first .. last => j \in 1 .. done
    BY <1>1, <1>3
  <2>. QED BY <2>2, <2>4, <2>5
<1>9. ASSUME NEW j \in 1 .. done
      PROVE  /\ reset.refs[j] \in 6 .. nextId - 1
             /\ \A r \in records : r.id = reset.refs[j] => r.kind # "target"
  <2>1. CrmFixtures[j].kind \in {"company", "person", "opportunity"}
    <3>1. j \in 1 .. size
      BY <1>1
    <3>. QED BY <3>1, FixturesAre DEF size
  <2>. QED BY <1>1, <2>1 DEF SoundRefs, Are
<1>10. ASSUME NEW k \in first .. last
       PROVE  /\ RecordAt(k).kind = CrmFixtures[k].kind
              /\ RecordAt(k).of = {reset.refs[j] : j \in CrmFixtures[k].of}
              /\ RecordAt(k) \in CrmRow /\ SoundRow(RecordAt(k))
  <2>1. {reset.refs[j] : j \in CrmFixtures[k].of} \in SUBSET Nat
    BY <1>1, <1>8
  <2>2. /\ RecordAt(k).kind = CrmFixtures[k].kind
        /\ RecordAt(k).of = {reset.refs[j] : j \in CrmFixtures[k].of}
    BY DEF RecordAt
  <2>3. RecordAt(k) \in CrmRow
    BY <1>8, <2>1 DEF RecordAt, CrmRow, CrmKind
  <2>4. SoundRow(RecordAt(k))
    BY <1>8, <1>9, <2>2 DEF SoundRow
  <2>. QED BY <2>2, <2>3, <2>4
<1>11. \A i \in 1 .. n : done + i \in first .. last
  BY <1>1, <1>3, <1>6
<1>12. Batch \in Seq(CrmRow) /\ Len(Batch) = n
  <2>1. \A i \in 1 .. n : Batch[i] \in CrmRow
    BY <1>7, <1>10, <1>11
  <2>2. Batch = [i \in 1 .. n |-> Batch[i]]
    BY <1>4
  <2>. HIDE DEF n
  <2>. QED BY <1>6, <2>1, <2>2
<1>13. \A i \in 1 .. n :
         /\ Batch[i].kind = CrmFixtures[done + i].kind
         /\ Batch[i].of = {reset.refs[j] : j \in CrmFixtures[done + i].of}
         /\ CrmFixtures[done + i].of \subseteq DOMAIN reset.refs
         /\ SoundRow(Batch[i])
  BY <1>1, <1>7, <1>8, <1>10, <1>11
<1>. HIDE DEF n
<1>. QED BY <1>6, <1>12, <1>13 DEF size, done

(* A request nobody waits for any more is of the present reset's lists. *)
LEMMA GiveUpInv == CrmInv /\ GiveUp => CrmInv'
<1>. SUFFICES ASSUME CrmInv, GiveUp PROVE CrmInv'
  OBVIOUS
<1>. USE DEF CrmInv
<1>1. /\ Requesting /\ late' = late \cup {Request} /\ counts' = [counts EXCEPT !.late = @ + 1]
      /\ reset' = [at |-> "idle", companies |-> {}, people |-> {}, notes |-> {}, refs |-> <<>>]
      /\ UNCHANGED <<records, nextId, activity, loose, disturbed>> /\ reset \in ResetRecord
  BY DEF GiveUp, Away, CrmTyped
<1>. DEFINE GoodRequest(q) ==
       /\ q \in CrmRequest
       /\ q.do # "create" => Are(q.ids, ListedKind(q.do))
       /\ q.do = "create" => \A i \in DOMAIN q.rows : SoundRow(q.rows[i])
       /\ q.do = "company" => \A o \in Answered("opportunity") : o.of \cap q.ids = {}
       /\ q.do = "person" => \A n \in Answered("note") : \A t \in Links(n) : t.of \cap q.ids = {}
<1>2. GoodRequest(Request)
  <2>1. ASSUME NEW do \in {"note", "opportunity", "person", "company"}, NEW ids \in SUBSET Nat,
               Are(ids, ListedKind(do)),
               do = "company" => Answered("opportunity") = {},
               do = "person" => Answered("note") = {}
        PROVE  GoodRequest(Destroys(do, ids))
    <3>1. Destroys(do, ids) \in CrmRequest
      BY DEF Destroys, CrmRequest
    <3>2. Destroys(do, ids).do = do /\ Destroys(do, ids).ids = ids /\ do # "create"
      BY DEF Destroys
    <3>. QED BY <2>1, <3>1, <3>2
  <2>2. reset.companies \in SUBSET Nat /\ reset.people \in SUBSET Nat /\ reset.notes \in SUBSET Nat
    BY <1>1 DEF ResetRecord
  <2>. HIDE DEF GoodRequest
  <2>3. CASE reset.at = "notes"
    <3>1. Request = Destroys("note", reset.notes)
      BY <2>3 DEF Request, Destroy
    <3>2. Are(reset.notes, ListedKind("note"))
      BY DEF SoundLists, ListedKind
    <3>. QED BY <2>1, <2>2, <3>1, <3>2
  <2>4. CASE reset.at = "opportunities"
    <3>1. Request = Destroys("opportunity", reset.companies)
      BY <2>4 DEF Request, Destroy
    <3>2. Are(reset.companies, ListedKind("opportunity"))
      BY DEF SoundLists, ListedKind
    <3>. QED BY <2>1, <2>2, <3>1, <3>2
  <2>5. CASE reset.at = "persons"
    <3>1. Request = Destroys("person", reset.people)
      BY <2>5 DEF Request, Destroy
    <3>2. Are(reset.people, ListedKind("person")) /\ Answered("note") = {}
      BY <2>5 DEF SoundLists, ListedKind, SafeNotes
    <3>. QED BY <2>1, <2>2, <3>1, <3>2
  <2>6. CASE reset.at = "firms"
    <3>1. Request = Destroys("company", reset.companies)
      BY <2>6 DEF Request, Destroy
    <3>2. Are(reset.companies, ListedKind("company")) /\ Answered("opportunity") = {}
      BY <2>6 DEF SoundLists, ListedKind, SafeOpportunities
    <3>. QED BY <2>1, <2>2, <3>1, <3>2
  <2>7. CASE reset.at = "create" /\ Len(reset.refs) < Len(CrmFixtures)
    <3>1. Request = [do |-> "create", rows |-> Batch, ids |-> {}]
      BY <2>7 DEF Request, Creates
    <3>2. PICK n \in 1 .. Len(CrmFixtures) - Len(reset.refs) :
            Batch \in Seq(CrmRow) /\ Len(Batch) = n /\ \A i \in 1 .. n : SoundRow(Batch[i])
      BY <2>7, BatchIs
    <3>3. \A i \in DOMAIN Batch : SoundRow(Batch[i])
      BY <3>2
    <3>4. Request \in CrmRequest
      BY <3>1, <3>2 DEF CrmRequest
    <3>. QED BY <3>1, <3>3, <3>4 DEF GoodRequest
  <2>. QED BY <1>1, <2>3, <2>4, <2>5, <2>6, <2>7 DEF Requesting
<1>3. CrmTyped'
  <2>1. reset' \in ResetRecord
    BY <1>1 DEF ResetRecord, ResetAt
  <2>2. Len(<<>>) <= Len(CrmFixtures)
    BY LiveCrmAssumption
  <2>3. counts' \in [run : Nat, activity : Nat, late : Nat]
    BY <1>1 DEF CrmTyped
  <2>. QED BY <1>1, <1>2, <2>1, <2>2, <2>3 DEF CrmTyped
<1>4. SoundRecords' /\ NothingLeaks'
  BY <1>1, QuietStep
<1>5. SoundLists' /\ SoundRefs' /\ SoundActivity' /\ RefsGrow'
  BY <1>1, <1>2 DEF SoundLists, SoundRefs, SoundActivity, RefsGrow, Are, SoundRow, With
<1>6. \A k : Doomed(k)' = Doomed(k) \cup (IF Request.do = k THEN Request.ids ELSE {})
  BY <1>1 DEF Doomed
<1>7. \A o \in Answered("opportunity") : o.of \cap Doomed("company")' = {}
  BY <1>2, <1>6 DEF SafeOpportunities
<1>8. \A n \in Answered("note") : \A t \in Links(n) : t.of \cap Doomed("person")' = {}
  BY <1>2, <1>6 DEF SafeNotes
<1>9. SafeOpportunities' /\ SafeNotes' /\ SafePeople' /\ Undisturbed'
  BY <1>1, <1>7, <1>8, QuietStep DEF SafeOpportunities, SafeNotes, SafePeople, Undisturbed
<1>. QED BY <1>3, <1>4, <1>5, <1>9
(* What creating records other than links leaves as it was. *)
LEMMA CreatedSafe ==
  ASSUME CrmInv, NEW given \in Seq(CrmRow),
         \A i \in DOMAIN given : Fits(given[i]) /\ given[i].kind # "target",
         records' = records \cup Created(given), nextId' = nextId + Len(given), loose \subseteq loose'
  PROVE  /\ nextId' \in Nat /\ nextId' >= nextId
         /\ records' \subseteq CrmRecord /\ SoundRecords'
         /\ \A ids, k : Are(ids, k) => Are(ids, k)'
         /\ \A row : SoundRow(row) => SoundRow(row)'
         /\ \A k : \A r \in Answered(k)' :
              \/ r \in Answered(k)
              \/ /\ r.id \in nextId .. nextId' - 1 /\ r.id \notin loose'
                 /\ \E i \in DOMAIN given : r = MadeOf(given, i) /\ given[i].kind = k
         /\ With("target")' = With("target") /\ \A n : Links(n)' = Links(n)
         /\ \A k : \A id \in Marked(k)' : id \in Marked(k) \/ id >= nextId
         /\ \A k \in {"company", "person"} : \A id \in Doomed(k) : id < nextId
         /\ \A r \in records \ Others : r.kind # "target" /\ ~Findable(r)' => r.id \in loose'
<1>. USE DEF CrmInv
<1>1. /\ nextId' \in Nat /\ nextId' >= nextId
      /\ records' \subseteq CrmRecord /\ SoundRecords'
      /\ \A ids, k : Are(ids, k) => Are(ids, k)'
      /\ \A row : SoundRow(row) => SoundRow(row)'
      /\ \A r \in records : Findable(r) => Findable(r)'
      /\ \A r \in records' \ records :
           /\ r \notin Others /\ r.id \in nextId .. nextId' - 1
           /\ \E i \in DOMAIN given : r = MadeOf(given, i)
  BY CreatedKeeps
<1>2. \A i \in DOMAIN given : MadeOf(given, i).kind = given[i].kind
  BY DEF MadeOf, R
<1>3. ASSUME NEW k, NEW r \in Answered(k)', r \notin Answered(k)
      PROVE  /\ r.id \in nextId .. nextId' - 1 /\ r.id \notin loose'
             /\ \E i \in DOMAIN given : r = MadeOf(given, i) /\ given[i].kind = k
  <2>1. r \in records' \ records /\ r.kind = k /\ r.id \notin loose'
    BY <1>3 DEF Answered
  <2>. QED BY <1>1, <1>2, <2>1
<1>4. With("target")' = With("target")
  BY <1>1, <1>2 DEF With
<1>5. \A n : Links(n)' = Links(n)
  BY <1>4 DEF Links
<1>6. \A k : \A id \in Marked(k)' : id \in Marked(k) \/ id >= nextId
  <2>1. \A r \in records' : r \in records \/ r.id >= nextId
    BY <1>1 DEF CrmTyped
  <2>. QED BY <2>1 DEF Marked, Ids, With
<1>7. \A k \in {"company", "person"} : \A id \in Doomed(k) : id < nextId
  BY DEF Doomed, SoundLists, Are, CrmTyped
<1>8. \A r \in records \ Others : r.kind # "target" /\ ~Findable(r)' => r.id \in loose'
  BY <1>1 DEF NothingLeaks
<1>. QED BY <1>1, <1>3, <1>4, <1>5, <1>6, <1>7, <1>8

LEMMA Concatenated ==
  ASSUME NEW s \in Seq(Nat), NEW t \in Seq(Nat)
  PROVE  /\ s \o t \in Seq(Nat) /\ Len(s \o t) = Len(s) + Len(t)
         /\ \A j \in 1 .. Len(s) : (s \o t)[j] = s[j]
         /\ \A i \in 1 .. Len(t) : (s \o t)[Len(s) + i] = t[i]
<1>1. s \o t \in Seq(Nat) /\ Len(s \o t) = Len(s) + Len(t)
  OBVIOUS
<1>2. \A j \in 1 .. Len(s) : (s \o t)[j] = s[j]
  OBVIOUS
<1>3. ASSUME NEW i \in 1 .. Len(t) PROVE (s \o t)[Len(s) + i] = t[i]
  <2>1. /\ Len(s) + i \in 1 .. Len(s) + Len(t) /\ Len(s) + i > Len(s)
        /\ Len(s) + i - Len(s) = i
    OBVIOUS
  <2>. QED BY <2>1
<1>. QED BY <1>1, <1>2, <1>3

(* The records of a batch are its fixtures. *)
LEMMA PerformCreateInv ==
  ASSUME CrmInv, Perform, reset.at = "create"
  PROVE  CrmInv'
<1>. USE DEF CrmInv
<1>1. /\ Len(reset.refs) < Len(CrmFixtures)
      /\ Performed(Creates(Batch)) /\ UNCHANGED <<activity, late, counts, loose, disturbed>>
      /\ reset \in ResetRecord
  BY DEF Perform, Requesting, Request, CrmTyped
<1>2. CASE ~(\A i \in DOMAIN Batch : Known(Batch[i]))
  <2>1. UNCHANGED <<records, nextId>> /\ reset' = Away
    BY <1>1, <1>2 DEF Perform, Performed, Creates
  <2>2. Stop
    BY <1>1, <2>1 DEF Stop
  <2>. QED BY <2>2, StopInv
<1>3. CASE \A i \in DOMAIN Batch : Known(Batch[i])
  <2>1. PICK done : done = Len(reset.refs)
    OBVIOUS
  <2>. DEFINE Refs(k) == {reset.refs[j] : j \in CrmFixtures[k].of}
  <2>2. PICK n \in 1 .. Len(CrmFixtures) - done :
          /\ Batch \in Seq(CrmRow) /\ Len(Batch) = n
          /\ \A i \in 1 .. n :
               /\ Batch[i].kind = CrmFixtures[done + i].kind
               /\ Batch[i].of = Refs(done + i)
               /\ CrmFixtures[done + i].of \subseteq DOMAIN reset.refs
               /\ SoundRow(Batch[i])
    BY <1>1, <2>1, BatchIs
  <2>3. /\ done \in Nat /\ n \in Nat /\ n > 0 /\ done + n <= Len(CrmFixtures)
        /\ DOMAIN Batch = 1 .. n /\ DOMAIN reset.refs = 1 .. done
        /\ \A i \in 1 .. n : Batch[i] \in CrmRow
        /\ reset.refs \in Seq(Nat)
    <3>1. reset.refs \in Seq(Nat) /\ Len(CrmFixtures) \in Nat
      BY <1>1, FixturesAre DEF ResetRecord
    <3>. QED BY <2>1, <2>2, <3>1
  <2>4. \A i \in DOMAIN Batch : Fits(Batch[i]) /\ Batch[i].kind # "target"
    BY <1>3, <2>2, <2>3 DEF Fits, SoundRow
  <2>5. /\ records' = records \cup Created(Batch) /\ nextId' = nextId + Len(Batch)
        /\ reset' = [reset EXCEPT !.refs = @ \o [i \in DOMAIN Batch |-> nextId + i - 1]]
    BY <1>1, <1>3 DEF Perform, Performed, Creates
  <2>. DEFINE fresh == [i \in 1 .. n |-> nextId + i - 1]
  <2>6. PICK refs : refs = reset.refs \o fresh
    OBVIOUS
  <2>7. nextId \in Nat /\ nextId > 5 /\ nextId' = nextId + n
    BY <2>2, <2>5 DEF CrmTyped
  <2>8. /\ refs \in Seq(Nat) /\ Len(refs) = done + n /\ DOMAIN refs = 1 .. done + n
        /\ \A j \in 1 .. done : refs[j] = reset.refs[j]
        /\ \A i \in 1 .. n : refs[done + i] = nextId + i - 1
    <3>1. fresh \in Seq(Nat) /\ Len(fresh) = n
      <4>1. \A i \in 1 .. n : nextId + i - 1 \in Nat
        BY <2>3, <2>7
      <4>2. fresh \in [1 .. n -> Nat]
        BY ONLY <4>1
      <4>. HIDE DEF fresh
      <4>. QED BY ONLY <2>3, <4>2
    <3>2. \A i \in 1 .. n : fresh[i] = nextId + i - 1
      OBVIOUS
    <3>. HIDE DEF fresh
    <3>. DEFINE old == reset.refs
    <3>3. old \in Seq(Nat) /\ Len(old) = done /\ refs = old \o fresh
      BY <2>1, <2>6, <2>3
    <3>. HIDE DEF old
    <3>4. /\ refs \in Seq(Nat) /\ Len(refs) = done + n
          /\ \A j \in 1 .. done : refs[j] = old[j]
          /\ \A i \in 1 .. n : refs[done + i] = fresh[i]
      BY <3>1, <3>3, Concatenated
    <3>5. DOMAIN refs = 1 .. done + n
      BY <3>4
    <3>. QED BY <3>2, <3>4, <3>5 DEF old
  <2>9. /\ reset' \in ResetRecord /\ reset'.at = "create" /\ reset'.refs = refs
        /\ reset'.companies = reset.companies /\ reset'.people = reset.people /\ reset'.notes = reset.notes
    <3>1. reset' = [reset EXCEPT !.refs = refs]
      BY <2>6, <2>3, <2>5
    <3>. QED BY <1>1, <2>8, <3>1 DEF ResetRecord
  <2>. HIDE DEF fresh, Refs
  <2>10. /\ nextId' \in Nat /\ nextId' >= nextId
         /\ records' \subseteq CrmRecord /\ SoundRecords'
         /\ \A ids, k : Are(ids, k) => Are(ids, k)'
         /\ \A row : SoundRow(row) => SoundRow(row)'
         /\ \A k : \A r \in Answered(k)' :
               \/ r \in Answered(k)
               \/ /\ r.id \in nextId .. nextId' - 1 /\ r.id \notin loose'
                  /\ \E i \in DOMAIN Batch : r = MadeOf(Batch, i) /\ Batch[i].kind = k
         /\ With("target")' = With("target") /\ \A m : Links(m)' = Links(m)
         /\ \A k : \A id \in Marked(k)' : id \in Marked(k) \/ id >= nextId
         /\ \A k \in {"company", "person"} : \A id \in Doomed(k) : id < nextId
         /\ \A r \in records \ Others : r.kind # "target" /\ ~Findable(r)' => r.id \in loose'
    BY <1>1, <2>2, <2>4, <2>5, CreatedSafe
  <2>11. /\ \A i \in DOMAIN Batch : MadeOf(Batch, i) \in records' \ Others
         /\ \A r \in records' \ records : \E i \in DOMAIN Batch : r = MadeOf(Batch, i)
    BY <2>2, <2>4, <2>5, CreatedKeeps
  <2>12. ASSUME NEW i \in 1 .. n
         PROVE  /\ MadeOf(Batch, i).id = nextId + i - 1
                /\ MadeOf(Batch, i).kind = CrmFixtures[done + i].kind
                /\ MadeOf(Batch, i).of = Refs(done + i)
                /\ CrmFixtures[done + i].kind \in {"company", "person"} => MadeOf(Batch, i).marked
    BY <2>2 DEF MadeOf, R, Refs
  <2>13. CrmTyped'
    BY <1>1, <2>3, <2>7, <2>8, <2>9, <2>10 DEF CrmTyped
  <2>14. SoundLists' /\ RefsGrow'
    BY <1>1, <2>9, <2>10 DEF SoundLists, RefsGrow
  <2>15. SoundActivity'
    BY <1>1, <2>10 DEF SoundActivity
  <2>16. SoundRefs'
    <3>. SUFFICES ASSUME NEW k \in DOMAIN refs
                  PROVE  /\ Are({refs[k]}, CrmFixtures[k].kind)'
                         /\ \A q \in late : q.do # "create" => refs[k] \notin q.ids
      BY <1>1, <2>9 DEF SoundRefs
    <3>1. CASE k \in 1 .. done
      BY <2>3, <2>8, <2>10, <3>1 DEF SoundRefs
    <3>2. CASE k \notin 1 .. done
      <4>. DEFINE i == k - done
      <4>1. i \in 1 .. n /\ k = done + i
        BY <2>3, <2>8, <3>2
      <4>. HIDE DEF i
      <4>2. nextId + i - 1 \in 6 .. nextId' - 1 /\ nextId + i - 1 >= nextId
        BY <2>3, <2>7, <4>1
      <4>3. refs[k] = nextId + i - 1 /\ refs[k] \in 6 .. nextId' - 1 /\ refs[k] >= nextId
        BY <2>8, <4>2, <4>1
      <4>4. \A r \in records' : r.id = refs[k] => r.kind = CrmFixtures[k].kind
        <5>1. MadeOf(Batch, i) \in records' /\ MadeOf(Batch, i).id = refs[k]
              /\ MadeOf(Batch, i).kind = CrmFixtures[k].kind
          BY <2>3, <2>11, <2>12, <4>1, <4>3
        <5>. QED BY <2>10, <5>1 DEF SoundRecords
      <4>5. \A q \in late : q.do # "create" => \A id \in q.ids : id \in 6 .. nextId - 1
        BY DEF SoundLists, Are
      <4>6. \A id \in 6 .. nextId - 1 : id # refs[k]
        BY <2>7, <4>3
      <4>. QED BY <4>3, <4>4, <4>5, <4>6 DEF Are
    <3>. QED BY <3>1, <3>2
  <2>17. \A k \in {"company", "person"} : Doomed(k)' = Doomed(k)
    BY <1>1 DEF Doomed
  <2>18. SafeOpportunities'
    <3>1. ASSUME NEW i \in DOMAIN Batch PROVE MadeOf(Batch, i).of \cap Doomed("company") = {}
      <4>1. i \in 1 .. n
        BY <2>3
      <4>2. \A j \in CrmFixtures[done + i].of : j \in DOMAIN reset.refs
        BY <2>2, <4>1
      <4>3. \A j \in DOMAIN reset.refs : reset.refs[j] \notin Doomed("company")
        BY DEF SoundRefs, Doomed
      <4>. QED BY <2>12, <4>1, <4>2, <4>3 DEF Refs
    <3>2. \A o \in Answered("opportunity")' : o.of \cap Doomed("company") = {}
      BY <2>10, <3>1 DEF SafeOpportunities
    <3>. QED BY <2>9, <2>17, <3>2 DEF SafeOpportunities
  <2>19. SafeNotes'
    <3>1. \A i \in DOMAIN Batch : Batch[i].kind # "note"
      BY <2>2, <2>3 DEF SoundRow
    <3>2. Answered("note")' = {}
      BY <1>1, <2>10, <3>1 DEF SafeNotes
    <3>. QED BY <2>9, <3>2 DEF SafeNotes
  <2>20. SafePeople'
    <3>1. Marked("person") \cap Doomed("person") = {}
      BY DEF SafePeople
    <3>2. \A id \in Doomed("person") : id < nextId /\ id \in Nat
      BY <2>10 DEF Doomed, CrmTyped, CrmRequest
    <3>3. \A id \in Marked("person")' : id \in Marked("person") \/ id >= nextId
      BY <2>10
    <3>4. Marked("person")' \cap Doomed("person") = {}
      BY <2>7, <3>1, <3>2, <3>3
    <3>. QED BY <2>9, <2>17, <3>4 DEF SafePeople
  <2>21. NothingLeaks'
    <3>1. ASSUME NEW r \in records', NEW i \in DOMAIN Batch, r = MadeOf(Batch, i) PROVE Findable(r)'
      <4>1. i \in 1 .. n /\ done + i \in 1 .. Len(CrmFixtures)
        BY <2>3
      <4>2. CrmFixtures[done + i].kind \in {"company", "person", "opportunity"}
        BY <4>1, FixturesAre
      <4>3. CASE CrmFixtures[done + i].kind \in {"company", "person"}
        BY <2>12, <3>1, <4>1, <4>3 DEF Findable
      <4>4. CASE CrmFixtures[done + i].kind = "opportunity"
        <5>1. PICK j \in CrmFixtures[done + i].of : CrmFixtures[j].kind = "company"
          BY <4>1, <4>4, FixturesAre
        <5>2. j \in DOMAIN reset.refs /\ reset.refs[j] \in Refs(done + i)
          BY <2>2, <4>1 DEF Refs
        <5>3. PICK c \in records : c.id = reset.refs[j]
          BY <1>3, <2>2, <2>3, <4>1, <5>2 DEF Known, Ids
        <5>4. Are({reset.refs[j]}, "company")
          BY <5>1, <5>2 DEF SoundRefs
        <5>5. c.kind = "company" /\ c.id \in 6 .. nextId - 1
          BY <5>3, <5>4 DEF Are
        <5>6. c \notin Others
          BY <5>5, OthersTyped
        <5>7. c.marked
          BY <5>5, <5>6 DEF SoundRecords
        <5>8. c \in With("company")' /\ c.id \in r.of /\ r.kind = "opportunity"
          BY <2>5, <2>12, <3>1, <4>1, <4>4, <5>2, <5>3, <5>5 DEF With
        <5>. QED BY <5>7, <5>8 DEF Findable
      <4>. QED BY <4>2, <4>3, <4>4
    <3>. QED BY <2>10, <2>11, <3>1 DEF NothingLeaks
  <2>22. Undisturbed'
    <3>. SUFFICES ASSUME ~disturbed
                  PROVE  /\ FixtureRecords' \subseteq records'
                         /\ \A r \in records' \ FixtureRecords' :
                              r.of \cap RefIds' = {} /\ (r.kind \in {"company", "person"} => ~r.marked)
      BY <1>1, <2>9 DEF Undisturbed
    <3>1. /\ FixtureRecords \subseteq records
          /\ \A r \in records \ FixtureRecords :
               r.of \cap RefIds = {} /\ (r.kind \in {"company", "person"} => ~r.marked)
      BY DEF Undisturbed
    <3>2. ASSUME NEW k \in 1 .. done + n
          PROVE  /\ CrmFixtures[k].of \subseteq 1 .. done
                 /\ {refs[j] : j \in CrmFixtures[k].of} = Refs(k)
                 /\ CrmFixtures[k].kind \in {"company", "person", "opportunity"}
      <4>1. k \in 1 .. Len(CrmFixtures)
        BY <2>3
      <4>2. \A j \in CrmFixtures[k].of : j \in 1 .. done
        <5>1. CASE k \in 1 .. done
          BY <2>3, <4>1, <5>1, FixturesAre
        <5>2. CASE k \notin 1 .. done
          <6>. DEFINE i == k - done
          <6>1. i \in 1 .. n /\ done + i = k
            BY <2>3, <5>2
          <6>. HIDE DEF i
          <6>. QED BY <2>2, <2>3, <6>1
        <5>. QED BY <5>1, <5>2
      <4>3. \A j \in CrmFixtures[k].of : refs[j] = reset.refs[j]
        BY <2>8, <4>2
      <4>. QED BY <4>1, <4>2, <4>3, FixturesAre DEF Refs
    <3>3. ASSUME NEW k \in 1 .. done PROVE FixtureRecord(k)' = FixtureRecord(k)
      <4>1. k \in 1 .. done + n
        BY <2>3
      <4>2. FixtureRecord(k)' = R(refs[k], CrmFixtures[k].kind, CrmFixtures[k].kind # "opportunity",
                                  {refs[j] : j \in CrmFixtures[k].of})
        BY <2>9 DEF FixtureRecord
      <4>3. refs[k] = reset.refs[k] /\ {refs[j] : j \in CrmFixtures[k].of} = Refs(k)
        BY <2>8, <3>2, <4>1
      <4>. QED BY <4>2, <4>3 DEF FixtureRecord, Refs
    <3>4. ASSUME NEW i \in 1 .. n PROVE FixtureRecord(done + i)' = MadeOf(Batch, i)
      <4>1. done + i \in 1 .. done + n
        BY <2>3
      <4>. DEFINE kind == CrmFixtures[done + i].kind
      <4>2. FixtureRecord(done + i)' = R(nextId + i - 1, kind, kind # "opportunity", Refs(done + i))
        BY <2>8, <2>9, <3>2, <4>1 DEF FixtureRecord
      <4>3. MadeOf(Batch, i) = R(nextId + i - 1, kind, kind \in {"company", "person"}, Refs(done + i))
        BY <2>2 DEF MadeOf, Refs
      <4>4. (kind # "opportunity") = (kind \in {"company", "person"})
        BY <3>2, <4>1
      <4>. QED BY <4>2, <4>3, <4>4
    <3>5. FixtureRecords' = FixtureRecords \cup {MadeOf(Batch, i) : i \in 1 .. n}
      <4>1. FixtureRecords' = {FixtureRecord(k)' : k \in 1 .. done + n}
        BY <2>8, <2>9 DEF FixtureRecords
      <4>2. FixtureRecords = {FixtureRecord(k) : k \in 1 .. done}
        BY <2>3 DEF FixtureRecords
      <4>3. \A k \in 1 .. done + n : k \in 1 .. done \/ \E i \in 1 .. n : k = done + i
        <5>. SUFFICES ASSUME NEW k \in 1 .. done + n, k \notin 1 .. done PROVE \E i \in 1 .. n : k = done + i
          OBVIOUS
        <5>1. k - done \in 1 .. n /\ k = done + (k - done)
          BY <2>3
        <5>. QED BY <5>1
      <4>4. /\ \A k \in 1 .. done : k \in 1 .. done + n
            /\ \A i \in 1 .. n : done + i \in 1 .. done + n
        BY <2>3
      <4>. QED BY <3>3, <3>4, <4>1, <4>2, <4>3, <4>4
    <3>6. \A id \in RefIds' : id \in RefIds \/ id >= nextId
      <4>1. RefIds' = {refs[k] : k \in 1 .. done + n} /\ RefIds = {reset.refs[k] : k \in 1 .. done}
        BY <2>3, <2>8, <2>9 DEF RefIds
      <4>2. ASSUME NEW k \in 1 .. done + n, k \notin 1 .. done PROVE refs[k] >= nextId
        <5>1. k - done \in 1 .. n /\ k = done + (k - done)
          BY <2>3, <4>2
        <5>2. refs[k] = nextId + (k - done) - 1
          BY <2>8, <5>1
        <5>. QED BY <2>3, <2>7, <5>1, <5>2
      <4>. QED BY <2>8, <4>1, <4>2
    <3>7. FixtureRecords' \subseteq records'
      BY <2>3, <2>5, <2>11, <3>1, <3>5
    <3>8. ASSUME NEW r \in records' \ FixtureRecords'
          PROVE  r.of \cap RefIds' = {} /\ (r.kind \in {"company", "person"} => ~r.marked)
      <4>1. r \in records \ FixtureRecords
        BY <2>3, <2>11, <3>5, <3>8
      <4>2. \A id \in r.of : id < nextId /\ id \in Nat
        BY <4>1 DEF SoundRecords, Ids, CrmTyped, CrmRecord
      <4>. QED BY <2>7, <3>1, <3>6, <4>1, <4>2
    <3>. QED BY <3>7, <3>8
  <2>. QED BY <2>10, <2>13, <2>14, <2>15, <2>16, <2>18, <2>19, <2>20, <2>21, <2>22
<1>. QED BY <1>2, <1>3
(* A request that comes late destroys nothing that is answered for, and creates *)
(* nothing that would be.                                                       *)
LEMMA ArriveInv == CrmInv /\ Arrive => CrmInv'
<1>. SUFFICES ASSUME CrmInv, Arrive PROVE CrmInv'
  OBVIOUS
<1>. USE DEF CrmInv
<1>1. PICK q \in late : late' = late \ {q} /\ Performed(q)
  BY DEF Arrive
<1>2. /\ loose' = loose \cup (nextId .. nextId' - 1) /\ disturbed' = TRUE
      /\ UNCHANGED <<reset, activity, counts>> /\ reset \in ResetRecord /\ nextId \in Nat
      /\ late' \subseteq late /\ q \in CrmRequest
  BY <1>1 DEF Arrive, CrmTyped
<1>3. \A k : Doomed(k)' \subseteq Doomed(k)
  BY <1>2, DoomedShrinks
<1>4. Undisturbed' /\ RefsGrow'
  BY <1>2 DEF Undisturbed, RefsGrow
<1>5. CASE q.do # "create"
  <2>. DEFINE gone == IF q.do = "opportunity" THEN OpportunitiesOf(q.ids) ELSE q.ids
  <2>1. records' = Without(gone) /\ nextId' = nextId /\ loose' = loose
    <3>1. records' = Without(gone) /\ nextId' = nextId
      BY <1>1, <1>5 DEF Performed
    <3>2. nextId .. nextId - 1 = {}
      BY <1>2
    <3>. QED BY <1>2, <3>1, <3>2
  <2>2. q.do \in {"note", "opportunity", "person", "company"} /\ q.ids \in SUBSET Nat
    BY <1>2, <1>5 DEF CrmRequest
  <2>3. Are(q.ids, ListedKind(q.do))
    BY <1>5 DEF SoundLists
  <2>4. q.ids \subseteq Doomed(q.do)
    BY DEF Doomed
  <2>5. Gone(gone, q.do)
    <3>1. CASE q.do = "opportunity"
      BY <2>3, <3>1, OpportunitiesAre DEF ListedKind
    <3>2. CASE q.do # "opportunity"
      BY <2>2, <2>3, <2>4, <3>2 DEF Gone, ListedKind, SafeOpportunities, SafeNotes
    <3>. QED BY <3>1, <3>2
  <2>. HIDE DEF gone
  <2>6. /\ CrmTyped' /\ SoundRecords' /\ SoundLists' /\ SoundRefs' /\ SoundActivity' /\ NothingLeaks'
        /\ \A o \in Answered("opportunity")' : o.of \cap Doomed("company")' = {}
        /\ \A n \in Answered("note")' : \A t \in Links(n)' : t.of \cap Doomed("person")' = {}
        /\ \A k : \A r \in Answered(k)' : \E p \in Answered(k) : r.id = p.id /\ p.id \notin gone
        /\ \A k : Marked(k)' \subseteq Marked(k) \ gone
        /\ (\A o \in Answered("opportunity") : o.of \cap reset.companies # {}) =>
             \A o \in Answered("opportunity")' : o.of \cap reset.companies # {}
        /\ (\A n \in Answered("note") : \E t \in Links(n) : t.of \cap reset.people # {}) =>
             \A n \in Answered("note")' : \E t \in Links(n)' : t.of \cap reset.people # {}
    BY <1>2, <2>1, <2>5, DestroyStep
  <2>7. SafeOpportunities'
    <3>1. Answered("opportunity") = {} => Answered("opportunity")' = {}
      BY <2>6
    <3>. QED BY <1>2, <2>6, <3>1 DEF SafeOpportunities
  <2>8. SafeNotes'
    <3>1. Answered("note") = {} => Answered("note")' = {}
      BY <2>6
    <3>2. Ids(Answered("note"))' \subseteq Ids(Answered("note"))
      BY <2>6 DEF Ids
    <3>. QED BY <1>2, <2>6, <3>1, <3>2 DEF SafeNotes
  <2>9. SafePeople'
    <3>1. Marked("person")' \subseteq Marked("person") /\ Doomed("person")' \subseteq Doomed("person")
      BY <1>3, <2>6
    <3>. QED BY <1>2, <3>1 DEF SafePeople
  <2>. QED BY <1>4, <2>6, <2>7, <2>8, <2>9
<1>6. CASE q.do = "create" /\ \A i \in DOMAIN q.rows : Known(q.rows[i])
  <2>1. q.rows \in Seq(CrmRow) /\ records' = records \cup Created(q.rows) /\ nextId' = nextId + Len(q.rows)
    BY <1>1, <1>2, <1>6 DEF Performed, CrmRequest
  <2>2. \A i \in DOMAIN q.rows : Fits(q.rows[i]) /\ q.rows[i].kind # "target"
    <3>1. \A i \in DOMAIN q.rows : q.rows[i] \in CrmRow
      BY <2>1
    <3>. QED BY <1>6, <3>1 DEF SoundLists, SoundRow, Fits
  <2>3. /\ nextId' \in Nat /\ nextId' >= nextId
        /\ records' \subseteq CrmRecord /\ SoundRecords'
        /\ \A ids, k : Are(ids, k) => Are(ids, k)'
        /\ \A row : SoundRow(row) => SoundRow(row)'
        /\ \A k : \A r \in Answered(k)' :
             \/ r \in Answered(k)
             \/ /\ r.id \in nextId .. nextId' - 1 /\ r.id \notin loose'
                /\ \E i \in DOMAIN q.rows : r = MadeOf(q.rows, i) /\ q.rows[i].kind = k
        /\ With("target")' = With("target") /\ \A n : Links(n)' = Links(n)
        /\ \A k : \A id \in Marked(k)' : id \in Marked(k) \/ id >= nextId
        /\ \A k \in {"company", "person"} : \A id \in Doomed(k) : id < nextId
        /\ \A r \in records \ Others : r.kind # "target" /\ ~Findable(r)' => r.id \in loose'
    BY <1>2, <2>1, <2>2, CreatedSafe
  <2>4. \A k : Answered(k)' \subseteq Answered(k)
    BY <1>2, <2>3
  <2>5. CrmTyped'
    <3>1. nextId \in Nat /\ nextId > 5 /\ nextId' \in Nat /\ nextId' >= nextId /\ loose \subseteq Nat
      BY <2>3 DEF CrmTyped
    <3>2. \A i \in nextId .. nextId' - 1 : i \in Nat
      BY <3>1
    <3>3. loose' \subseteq Nat
      BY <1>2, <3>1, <3>2
    <3>4. nextId' > 5
      BY <3>1
    <3>. QED BY <1>2, <2>3, <3>3, <3>4 DEF CrmTyped
  <2>6. SoundLists' /\ SoundRefs'
    BY <1>2, <2>3 DEF SoundLists, SoundRefs
  <2>7. SoundActivity'
    BY <1>2, <2>3 DEF SoundActivity
  <2>8. SafeOpportunities'
    BY <1>2, <1>3, <2>4 DEF SafeOpportunities
  <2>9. SafeNotes'
    <3>1. Ids(Answered("note"))' \subseteq Ids(Answered("note"))
      BY <2>4 DEF Ids
    <3>2. \A n : Links(n)' = Links(n)
      BY <2>3
    <3>. QED BY <1>2, <1>3, <2>4, <3>1, <3>2 DEF SafeNotes
  <2>10. Marked("person")' \cap Doomed("person")' \subseteq Marked("person") \cap Doomed("person")
    <3>1. \A id \in Doomed("person") : id < nextId /\ id \in Nat
      BY <2>3 DEF Doomed, CrmTyped, CrmRequest
    <3>2. \A id \in Marked("person")' : id \in Marked("person") \/ id >= nextId
      BY <2>3
    <3>. QED BY <1>2, <1>3, <3>1, <3>2
  <2>11. SafePeople'
    BY <1>2, <2>10 DEF SafePeople
  <2>12. NothingLeaks'
    <3>1. \A r \in records' \ records : r.id \in nextId .. nextId' - 1
      BY <2>1, <2>2, CreatedKeeps
    <3>. QED BY <1>2, <2>3, <3>1 DEF NothingLeaks
  <2>. QED BY <1>4, <2>3, <2>5, <2>6, <2>7, <2>8, <2>9, <2>11, <2>12
<1>7. CASE q.do = "create" /\ ~(\A i \in DOMAIN q.rows : Known(q.rows[i]))
  <2>1. UNCHANGED <<records, nextId>>
    BY <1>1, <1>7 DEF Performed
  <2>2. loose' = loose
    <3>1. nextId .. nextId - 1 = {}
      BY <1>2
    <3>. QED BY <1>2, <2>1, <3>1
  <2>3. CrmTyped'
    BY <1>2, <2>1, <2>2 DEF CrmTyped
  <2>4. SoundRecords' /\ NothingLeaks'
    BY <2>1, <2>2, QuietStep
  <2>5. SoundLists' /\ SoundRefs' /\ SoundActivity'
    BY <1>2, <2>1, <2>2, QuietStep DEF SoundLists, SoundRefs, SoundActivity
  <2>6. Ids(Answered("note"))' = Ids(Answered("note"))
    BY <2>1, <2>2 DEF Ids, Answered
  <2>7. SafeOpportunities' /\ SafeNotes' /\ SafePeople'
    BY <1>2, <1>3, <2>1, <2>2, <2>6, QuietStep DEF SafeOpportunities, SafeNotes, SafePeople
  <2>. QED BY <1>4, <2>3, <2>4, <2>5, <2>7
<1>. QED BY <1>5, <1>6, <1>7

-----------------------------------------------------------------------------
\* The crm server's call

LEMMA ActivityMoves ==
  ASSUME CrmInv, UNCHANGED <<records, nextId, reset, late, loose>>,
         activity' \in ActivityRecord, SoundActivity', disturbed' \in {disturbed, TRUE},
         counts' \in [run : Nat, activity : Nat, late : Nat]
  PROVE  CrmInv'
<1>. USE DEF CrmInv
<1>1. CrmTyped'
  BY DEF CrmTyped
<1>2. SoundRecords' /\ NothingLeaks'
  BY QuietStep
<1>3. SoundLists' /\ SoundRefs' /\ RefsGrow'
  BY QuietStep DEF SoundLists, SoundRefs, RefsGrow
<1>4. Ids(Answered("note"))' = Ids(Answered("note")) /\ \A k : Doomed(k)' = Doomed(k)
  BY DEF Ids, Answered, Doomed
<1>5. SafeOpportunities' /\ SafeNotes' /\ SafePeople'
  BY <1>4, QuietStep DEF SafeOpportunities, SafeNotes, SafePeople
<1>6. FixtureRecords' = FixtureRecords /\ RefIds' = RefIds
  <2>1. \A i : FixtureRecord(i)' = FixtureRecord(i)
    BY DEF FixtureRecord
  <2>. QED BY <2>1 DEF FixtureRecords, RefIds
<1>7. Undisturbed'
  BY <1>6, QuietStep DEF Undisturbed
<1>. QED BY <1>1, <1>2, <1>3, <1>5, <1>7

LEMMA SendActivityInv == CrmInv /\ SendActivity => CrmInv'
<1>. SUFFICES ASSUME CrmInv, SendActivity PROVE CrmInv'
  OBVIOUS
<1>1. /\ UNCHANGED <<records, nextId, reset, late, loose, disturbed>>
      /\ counts' = [counts EXCEPT !.activity = @ + 1]
      /\ counts \in [run : Nat, activity : Nat, late : Nat]
  BY DEF SendActivity, CrmInv, CrmTyped
<1>2. counts' \in [run : Nat, activity : Nat, late : Nat] /\ counts.run \in Nat
  BY <1>1
<1>3. PICK r \in With("person") : activity' = [at |-> "check", run |-> counts.run, contact |-> r.id, note |-> 0]
  BY DEF SendActivity
<1>4. r.id \in Nat
  BY DEF With, CrmInv, CrmTyped, CrmRecord
<1>5. activity' \in ActivityRecord /\ activity'.at = "check"
  BY <1>2, <1>3, <1>4 DEF ActivityRecord
<1>6. SoundActivity'
  BY <1>5 DEF SoundActivity
<1>. QED BY <1>1, <1>2, <1>5, <1>6, ActivityMoves

LEMMA NoActivityIs == NoActivity \in ActivityRecord /\ NoActivity.at = "idle"
BY DEF NoActivity, ActivityRecord

LEMMA DropActivityInv == CrmInv /\ DropActivity => CrmInv'
<1>. SUFFICES ASSUME CrmInv, DropActivity PROVE CrmInv'
  OBVIOUS
<1>1. /\ UNCHANGED <<records, nextId, reset, late, counts, loose, disturbed>> /\ activity' = NoActivity
      /\ counts \in [run : Nat, activity : Nat, late : Nat]
  BY DEF DropActivity, CrmInv, CrmTyped
<1>2. SoundActivity'
  BY <1>1, NoActivityIs DEF SoundActivity
<1>. QED BY <1>1, <1>2, NoActivityIs, ActivityMoves

LEMMA CheckContactInv == CrmInv /\ CheckContact => CrmInv'
<1>. SUFFICES ASSUME CrmInv, CheckContact PROVE CrmInv'
  OBVIOUS
<1>1. /\ UNCHANGED <<records, nextId, reset, late, counts, loose, disturbed>>
      /\ counts \in [run : Nat, activity : Nat, late : Nat] /\ activity \in ActivityRecord
  BY DEF CheckContact, CrmInv, CrmTyped
<1>2. CASE SandboxPerson(activity.contact)
  <2>1. activity' = [activity EXCEPT !.at = "note"]
    BY <1>2 DEF CheckContact
  <2>2. activity' \in ActivityRecord /\ activity'.at = "note" /\ activity'.contact = activity.contact
    BY <1>1, <2>1 DEF ActivityRecord
  <2>3. activity.contact \in Marked("person")
    BY <1>2 DEF SandboxPerson, Marked, Ids
  <2>4. Are({activity.contact}, "person")
    BY <2>3, MarkedAre DEF CrmInv, Are
  <2>5. SoundActivity'
    BY <1>1, <2>2, <2>4 DEF SoundActivity, Are
  <2>. QED BY <1>1, <2>2, <2>5, ActivityMoves
<1>3. CASE ~SandboxPerson(activity.contact)
  <2>1. activity' = NoActivity
    BY <1>3 DEF CheckContact
  <2>2. SoundActivity'
    BY <2>1, NoActivityIs DEF SoundActivity
  <2>. QED BY <1>1, <2>1, <2>2, NoActivityIs, ActivityMoves
<1>. QED BY <1>2, <1>3

(* The note is nobody's until its run gets the answer of the call. *)
LEMMA CreateNoteInv == CrmInv /\ CreateNote => CrmInv'
<1>. SUFFICES ASSUME CrmInv, CreateNote PROVE CrmInv'
  OBVIOUS
<1>. USE DEF CrmInv
<1>. DEFINE row == [kind |-> "note", of |-> {}]
            given == <<row>>
<1>1. /\ Performed(Creates(given)) /\ activity' = [activity EXCEPT !.at = "target", !.note = nextId]
      /\ loose' = loose \cup {nextId} /\ disturbed' = TRUE /\ UNCHANGED <<reset, late, counts>>
      /\ activity \in ActivityRecord /\ activity.at = "note" /\ nextId \in Nat /\ nextId > 5
  BY DEF CreateNote, CrmTyped
<1>2. /\ row \in CrmRow /\ row.kind = "note" /\ row.of = {}
  BY DEF CrmRow, CrmKind
<1>. HIDE DEF row
<1>3. given \in Seq(CrmRow) /\ Len(given) = 1 /\ DOMAIN given = {1} /\ given[1] = row
  BY <1>2
<1>4. \A i \in DOMAIN given : Fits(given[i]) /\ given[i].kind # "target"
  BY <1>2, <1>3 DEF Fits, Known
<1>5. \A i \in DOMAIN given : Known(given[i])
  BY <1>4 DEF Fits
<1>6. records' = records \cup Created(given) /\ nextId' = nextId + 1
  BY <1>1, <1>3, <1>5 DEF Performed, Creates
<1>. HIDE DEF given
<1>7. /\ nextId' \in Nat /\ nextId' >= nextId
      /\ records' \subseteq CrmRecord /\ SoundRecords'
      /\ \A ids, k : Are(ids, k) => Are(ids, k)'
      /\ \A r : SoundRow(r) => SoundRow(r)'
      /\ \A k : \A r \in Answered(k)' :
           \/ r \in Answered(k)
           \/ /\ r.id \in nextId .. nextId' - 1 /\ r.id \notin loose'
              /\ \E i \in DOMAIN given : r = MadeOf(given, i) /\ given[i].kind = k
      /\ With("target")' = With("target") /\ \A n : Links(n)' = Links(n)
      /\ \A k : \A id \in Marked(k)' : id \in Marked(k) \/ id >= nextId
      /\ \A k \in {"company", "person"} : \A id \in Doomed(k) : id < nextId
      /\ \A r \in records \ Others : r.kind # "target" /\ ~Findable(r)' => r.id \in loose'
  BY <1>1, <1>3, <1>4, <1>6, CreatedSafe
<1>8. \A r \in records' \ records : r.id = nextId /\ r.kind = "note"
  <2>1. MadeOf(given, 1).id = nextId /\ MadeOf(given, 1).kind = "note"
    BY <1>1, <1>2, <1>3 DEF MadeOf, R
  <2>2. \A r \in records' \ records : \E i \in DOMAIN given : r = MadeOf(given, i)
    BY <1>3, <1>4, <1>6, CreatedKeeps
  <2>. QED BY <1>3, <2>1, <2>2
<1>9. \A k : Answered(k)' \subseteq Answered(k)
  BY <1>1, <1>6, <1>7
<1>10. /\ activity' \in ActivityRecord /\ activity'.at = "target"
       /\ activity'.contact = activity.contact /\ activity'.note = nextId
  BY <1>1 DEF ActivityRecord
<1>11. CrmTyped'
  BY <1>1, <1>6, <1>7, <1>10 DEF CrmTyped
<1>12. SoundLists' /\ SoundRefs' /\ RefsGrow' /\ Undisturbed'
  BY <1>1, <1>7 DEF SoundLists, SoundRefs, RefsGrow, Undisturbed
<1>13. SoundActivity'
  <2>1. Are({activity.contact}, "person")'
    BY <1>1, <1>7 DEF SoundActivity
  <2>2. \A r \in records' : r.id = nextId => r.kind = "note"
    BY <1>8 DEF SoundRecords, CrmTyped, CrmRecord
  <2>3. nextId \in 6 .. nextId' - 1
    BY <1>1, <1>6
  <2>4. \A t \in With("target") : nextId \notin t.of
    BY <1>1 DEF With, SoundRecords, Ids, CrmTyped, CrmRecord
  <2>5. /\ \A ids : ids = {nextId} => Are(ids, "note")'
        /\ \A ids : ids = {activity.contact} => Are(ids, "person")'
    BY <1>1, <1>10, <2>1, <2>2, <2>3 DEF Are
  <2>6. Are({activity.note}, "note")' /\ Are({activity.contact}, "person")'
    BY <1>10, <2>2, <2>3, <2>1 DEF Are
  <2>. QED BY <1>1, <1>7, <1>10, <2>4, <2>6 DEF SoundActivity
<1>14. \A k : Doomed(k)' = Doomed(k)
  BY <1>1 DEF Doomed
<1>15. SafeOpportunities'
  BY <1>1, <1>9, <1>14 DEF SafeOpportunities
<1>16. SafeNotes'
  <2>1. Ids(Answered("note"))' \subseteq Ids(Answered("note")) /\ \A n : Links(n)' = Links(n)
    BY <1>7, <1>9 DEF Ids
  <2>. QED BY <1>1, <1>9, <1>14, <2>1 DEF SafeNotes
<1>17. SafePeople'
  <2>1. Marked("person")' \subseteq Marked("person")
    BY <1>8 DEF Marked, Ids, With
  <2>. QED BY <1>1, <1>14, <2>1 DEF SafePeople
<1>18. NothingLeaks'
  BY <1>1, <1>7, <1>8 DEF NothingLeaks
<1>. QED BY <1>7, <1>11, <1>12, <1>13, <1>15, <1>16, <1>17, <1>18
(* The link makes the note findable through a person on no list. *)
LEMMA CreateTargetInv == CrmInv /\ CreateTarget => CrmInv'
<1>. SUFFICES ASSUME CrmInv, CreateTarget PROVE CrmInv'
  OBVIOUS
<1>. USE DEF CrmInv
<1>. DEFINE link == [kind |-> "target", of |-> {activity.note, activity.contact}]
            given == <<link>>
<1>1. /\ activity.at = "target" /\ Performed(Creates(given)) /\ activity' = NoActivity
      /\ loose' = IF Known(link) /\ activity.run = counts.run /\ reset.at = "filled"
                  THEN loose \ {activity.note} ELSE loose
      /\ disturbed' = TRUE /\ UNCHANGED <<reset, late, counts>>
      /\ activity \in ActivityRecord /\ nextId \in Nat /\ nextId > 5
      /\ counts \in [run : Nat, activity : Nat, late : Nat]
  BY DEF CreateTarget, CrmTyped
<1>2. /\ link \in CrmRow /\ link.kind = "target" /\ link.of = {activity.note, activity.contact}
  BY <1>1 DEF CrmRow, CrmKind, ActivityRecord
<1>. HIDE DEF link
<1>3. given \in Seq(CrmRow) /\ Len(given) = 1 /\ DOMAIN given = {1} /\ given[1] = link
  BY <1>2
<1>4. /\ Are({activity.contact}, "person") /\ Are({activity.note}, "note") /\ activity.note \in loose
      /\ \A t \in With("target") : activity.note \notin t.of
  BY <1>1 DEF SoundActivity
<1>5. SoundActivity'
  BY <1>1, NoActivityIs DEF SoundActivity
<1>6. CASE ~Known(link)
  <2>1. UNCHANGED <<records, nextId>>
    BY <1>1, <1>3, <1>6 DEF Performed, Creates
  <2>2. loose' = loose
    BY <1>1, <1>6
  <2>. QED BY <1>1, <1>5, <2>1, <2>2, NoActivityIs, ActivityMoves
<1>7. CASE Known(link)
  <2>1. records' = records \cup Created(given) /\ nextId' = nextId + 1
    BY <1>1, <1>3, <1>7 DEF Performed, Creates
  <2>2. \A r \in records : /\ r.id = activity.note => r.kind = "note"
                           /\ r.id = activity.contact => r.kind = "person"
    BY <1>4 DEF Are
  <2>3. Fits(link)
    <3>1. link.of \cap 1 .. 5 = {}
      BY <1>2, <1>4 DEF Are
    <3>2. \A r \in records : r.id \in link.of => r.kind \in {"note", "person"}
      BY <1>2, <2>2
    <3>3. \A r, n \in With("note") : r.id \in link.of /\ n.id \in link.of => r = n
      <4>1. \A r \in With("note") : r.id \in link.of => r.id = activity.note
        BY <1>2, <2>2 DEF With
      <4>. QED BY <4>1 DEF With, SoundRecords
    <3>. QED BY <1>2, <1>7, <3>1, <3>2, <3>3 DEF Fits
  <2>4. \A i \in DOMAIN given : Fits(given[i])
    BY <1>3, <2>3
  <2>. HIDE DEF given
  <2>5. PICK new : new = MadeOf(given, 1)
    OBVIOUS
  <2>6. /\ nextId' \in Nat /\ nextId' >= nextId
        /\ records' \subseteq CrmRecord /\ SoundRecords'
        /\ \A ids, k : Are(ids, k) => Are(ids, k)'
        /\ \A row : SoundRow(row) => SoundRow(row)'
        /\ \A r \in records : Findable(r) => Findable(r)'
        /\ new \in records' \ Others
        /\ \A r \in records' \ records : r = new
    BY <1>3, <2>1, <2>4, <2>5, CreatedKeeps
  <2>7. new.kind = "target" /\ new.of = {activity.note, activity.contact}
    BY <1>2, <1>3, <2>5 DEF MadeOf, R
  <2>8. loose' \subseteq loose /\ \A id \in loose : id \in loose' \/ (id = activity.note /\ reset.at = "filled")
    BY <1>1
  <2>9. CrmTyped'
    <3>1. nextId' \in Nat /\ nextId' > 5
      BY <1>1, <2>1
    <3>2. activity' \in ActivityRecord /\ loose' \subseteq Nat
      BY <1>1, <2>8, NoActivityIs DEF CrmTyped
    <3>. QED BY <1>1, <2>6, <3>1, <3>2 DEF CrmTyped
  <2>10. SoundLists' /\ SoundRefs' /\ RefsGrow' /\ Undisturbed'
    BY <1>1, <2>6 DEF SoundLists, SoundRefs, RefsGrow, Undisturbed
  <2>11. \A k : Doomed(k)' = Doomed(k)
    BY <1>1 DEF Doomed
  <2>12. \A k : \A r \in Answered(k)' :
           \/ r \in Answered(k)
           \/ k = "target"
           \/ r \in records /\ r.id = activity.note /\ k = "note" /\ reset.at = "filled"
    <3>. SUFFICES ASSUME NEW k, NEW r \in Answered(k)', r \notin Answered(k), k # "target"
                  PROVE  r \in records /\ r.id = activity.note /\ k = "note" /\ reset.at = "filled"
      OBVIOUS
    <3>1. r \in records' \ Others /\ r.kind = k /\ r.id \notin loose'
      BY DEF Answered
    <3>2. r \in records
      BY <2>6, <2>7, <3>1
    <3>3. r.id \in loose
      BY <3>1, <3>2 DEF Answered
    <3>. QED BY <2>2, <2>8, <3>1, <3>2, <3>3
  <2>13. \A n \in records : /\ Links(n) \subseteq Links(n)'
                            /\ n.kind = "note" /\ n.id # activity.note => Links(n)' = Links(n)
                            /\ n.id = activity.note => Links(n)' = {new}
    <3>1. With("target")' = With("target") \cup {new}
      BY <2>1, <2>6, <2>7 DEF With
    <3>2. \A n : Links(n)' = {t \in With("target") \cup {new} : n.id \in t.of}
      BY <3>1 DEF Links
    <3>. QED BY <1>4, <2>2, <2>7, <3>2 DEF Links
  <2>14. SafeOpportunities'
    <3>1. Answered("opportunity")' \subseteq Answered("opportunity")
      BY <2>12
    <3>. QED BY <1>1, <2>11, <3>1 DEF SafeOpportunities
  <2>15. new.of \cap Doomed("person") = {} \/ reset.at # "filled"
    <3>. SUFFICES ASSUME reset.at = "filled" PROVE new.of \cap Doomed("person") = {}
      OBVIOUS
    <3>1. PICK p \in records, m \in records : p.id = activity.contact /\ m.id = activity.note
      BY <1>2, <1>7 DEF Known, Ids
    <3>2. p.kind = "person" /\ m.kind = "note" /\ p.id > 5
      BY <1>4, <2>2, <3>1 DEF Are
    <3>3. p \notin Others
      BY <3>1, <1>4, OthersTyped DEF Are
    <3>4. p.id \in Marked("person")
      BY <3>2, <3>3 DEF SoundRecords, Marked, Ids, With
    <3>5. p.id \notin Doomed("person")
      BY <3>4 DEF SafePeople
    <3>6. m.id \notin Doomed("person")
      <4>1. \A q \in late : q.do = "person" => Are(q.ids, "person")
        BY DEF SoundLists, ListedKind
      <4>. QED BY <3>2, <4>1 DEF Doomed, Are
    <3>. QED BY <2>7, <3>1, <3>5, <3>6
  <2>16. SafeNotes'
    <3>1. ASSUME NEW n \in Answered("note")', NEW t \in Links(n)' PROVE t.of \cap Doomed("person") = {}
      <4>1. CASE n.id # activity.note
        <5>1. n \in Answered("note") /\ n \in records /\ n.kind = "note"
          BY <2>12, <4>1 DEF Answered
        <5>. QED BY <2>13, <4>1, <5>1 DEF SafeNotes
      <4>2. CASE n.id = activity.note
        <5>1. n \in records /\ reset.at = "filled"
          BY <1>4, <2>12, <4>2 DEF Answered
        <5>. QED BY <2>13, <2>15, <4>2, <5>1
      <4>. QED BY <4>1, <4>2
    <3>2. reset.at # "filled" => Answered("note")' \subseteq Answered("note")
      BY <2>12
    <3>3. reset.at # "filled" => Ids(Answered("note"))' \subseteq Ids(Answered("note"))
      BY <3>2 DEF Ids
    <3>4. \A n \in Answered("note") : Links(n) \subseteq Links(n)'
      BY <2>13 DEF Answered
    <3>5. CASE reset.at = "filled"
      BY <1>1, <2>11, <3>1, <3>5 DEF SafeNotes
    <3>6. CASE reset.at # "filled"
      BY <1>1, <2>11, <3>1, <3>2, <3>3, <3>4, <3>6 DEF SafeNotes
    <3>. QED BY <3>5, <3>6
  <2>17. SafePeople'
    <3>1. Marked("person")' \subseteq Marked("person")
      BY <2>6, <2>7 DEF Marked, Ids, With
    <3>. QED BY <1>1, <2>11, <3>1 DEF SafePeople
  <2>18. NothingLeaks'
    <3>. SUFFICES ASSUME NEW r \in records' \ Others, r.kind # "target", ~Findable(r)'
                  PROVE  r.id \in loose'
      BY DEF NothingLeaks
    <3>1. r \in records /\ r.id \in loose
      BY <2>6, <2>7 DEF NothingLeaks
    <3>2. SUFFICES ASSUME r.id = activity.note PROVE FALSE
      BY <2>8, <3>1
    <3>3. PICK p \in records : p.id = activity.contact
      BY <1>2, <1>7 DEF Known, Ids
    <3>4. p.kind = "person" /\ p \notin Others
      BY <1>4, <2>2, <3>3, OthersTyped DEF Are
    <3>5. p.marked /\ p \in With("person")' /\ new \in With("target")'
      BY <2>1, <2>6, <2>7, <3>4 DEF SoundRecords, With
    <3>6. r.kind = "note" /\ r.id \in new.of /\ p.id \in new.of
      BY <2>2, <2>7, <3>1, <3>2, <3>3
    <3>. QED BY <3>5, <3>6 DEF Findable
  <2>. QED BY <1>5, <2>6, <2>9, <2>10, <2>14, <2>16, <2>17, <2>18
<1>. QED BY <1>6, <1>7

-----------------------------------------------------------------------------

LEMMA CrmStepInv == CrmInv /\ [CrmNext]_crmVars => CrmInv'
<1>. SUFFICES ASSUME CrmInv, [CrmNext]_crmVars PROVE CrmInv'
  OBVIOUS
<1>1. CASE UNCHANGED crmVars
  <2>1. activity \in ActivityRecord /\ SoundActivity /\ counts \in [run : Nat, activity : Nat, late : Nat]
    BY DEF CrmInv, CrmTyped
  <2>2. UNCHANGED <<records, nextId, reset, activity, late, counts, loose, disturbed>>
    BY <1>1 DEF crmVars
  <2>3. SoundActivity'
    BY <2>1, <2>2 DEF SoundActivity, Are, With
  <2>. QED BY <2>1, <2>2, <2>3, ActivityMoves
<1>2. CASE Perform
  BY <1>2, PerformDestroyInv, PerformCreateInv
<1>3. CASE Begin \/ Query \/ Filled \/ Stop \/ GiveUp \/ Arrive
  BY <1>3, BeginInv, QueryInv, FilledInv, StopInv, GiveUpInv, ArriveInv
<1>4. CASE SendActivity \/ CheckContact \/ CreateNote \/ CreateTarget \/ DropActivity
  BY <1>4, SendActivityInv, CheckContactInv, CreateNoteInv, CreateTargetInv, DropActivityInv
<1>. QED BY <1>1, <1>2, <1>3, <1>4 DEF CrmNext

LEMMA FilledIsFixtures == CrmInv => ResetLeavesFixtures
<1>. SUFFICES ASSUME CrmInv PROVE ResetLeavesFixtures
  OBVIOUS
<1>. USE DEF CrmInv
<1>1. Others \subseteq records
  BY DEF SoundRecords
<1>. SUFFICES ASSUME reset.at = "filled", ~disturbed
              PROVE  {r \in records : Findable(r)} = {FixtureRecord(i) : i \in DOMAIN CrmFixtures}
  BY <1>1 DEF ResetLeavesFixtures, FixtureRecord
<1>2. DOMAIN reset.refs = 1 .. Len(CrmFixtures) /\ DOMAIN CrmFixtures = 1 .. Len(CrmFixtures)
  BY FixturesAre DEF RefsGrow, CrmTyped, ResetRecord
<1>3. FixtureRecords = {FixtureRecord(i) : i \in DOMAIN CrmFixtures}
  BY <1>2 DEF FixtureRecords
<1>4. /\ FixtureRecords \subseteq records
      /\ \A r \in records \ FixtureRecords :
           r.of \cap RefIds = {} /\ (r.kind \in {"company", "person"} => ~r.marked)
  BY DEF Undisturbed
<1>5. ASSUME NEW i \in DOMAIN reset.refs
      PROVE  /\ FixtureRecord(i).id = reset.refs[i] /\ FixtureRecord(i).kind = CrmFixtures[i].kind
             /\ FixtureRecord(i).kind \in {"company", "person", "opportunity"}
             /\ FixtureRecord(i).kind \in {"company", "person"} => FixtureRecord(i).marked
             /\ FixtureRecord(i).of = {reset.refs[j] : j \in CrmFixtures[i].of}
  <2>1. CrmFixtures[i].kind \in {"company", "person", "opportunity"}
    BY <1>2, FixturesAre
  <2>. DEFINE kind == CrmFixtures[i].kind
              named == kind # "opportunity"
  <2>2. FixtureRecord(i) = [id |-> reset.refs[i], kind |-> kind, marked |-> named,
                            of |-> {reset.refs[j] : j \in CrmFixtures[i].of}]
    BY DEF FixtureRecord, R
  <2>3. kind \in {"company", "person"} => named
    OBVIOUS
  <2>. HIDE DEF named
  <2>. QED BY <2>1, <2>2, <2>3
<1>6. \A r \in FixtureRecords : r.id \in RefIds /\ r.kind \in {"company", "person", "opportunity"}
  BY <1>5 DEF FixtureRecords, RefIds
<1>7. ASSUME NEW i \in DOMAIN reset.refs PROVE Findable(FixtureRecord(i))
  <2>1. CASE FixtureRecord(i).kind \in {"company", "person"}
    BY <1>5, <2>1 DEF Findable
  <2>2. CASE FixtureRecord(i).kind = "opportunity"
    <3>1. PICK j \in CrmFixtures[i].of : CrmFixtures[j].kind = "company"
      BY <1>2, <1>5, <2>2, FixturesAre
    <3>2. j \in DOMAIN reset.refs
      BY <1>2, <3>1, FixturesAre
    <3>3. FixtureRecord(j) \in With("company") /\ FixtureRecord(j).marked /\ FixtureRecord(j).id \in FixtureRecord(i).of
      BY <1>4, <1>5, <3>1, <3>2 DEF With, FixtureRecords
    <3>. QED BY <2>2, <3>3 DEF Findable
  <2>. QED BY <1>5, <2>1, <2>2
<1>8. ASSUME NEW r \in records, Findable(r) PROVE r \in FixtureRecords
  <2>. SUFFICES ASSUME r \notin FixtureRecords PROVE FALSE
    OBVIOUS
  <2>1. r.of \cap RefIds = {} /\ (r.kind \in {"company", "person"} => ~r.marked)
    BY <1>4
  <2>2. r.kind \in CrmKind
    BY DEF CrmTyped, CrmRecord
  <2>3. \A p \in With("company") \cup With("person") : p.marked => p.id \in RefIds
    BY <1>4, <1>6 DEF With
  <2>4. \A t \in With("target") : t.of \cap RefIds = {}
    BY <1>4, <1>6 DEF With
  <2>5. r.kind \notin {"company", "person"}
    BY <1>8, <2>1 DEF Findable
  <2>6. r.kind # "opportunity"
    BY <1>8, <2>1, <2>3 DEF Findable
  <2>7. r.kind # "note"
    BY <1>8, <2>3, <2>4 DEF Findable
  <2>8. r.kind # "target"
    BY <1>8 DEF Findable
  <2>. QED BY <2>2, <2>5, <2>6, <2>7, <2>8 DEF CrmKind
<1>. QED BY <1>2, <1>3, <1>4, <1>7, <1>8 DEF FixtureRecords

(***************************************************************************)
(* Wherever a reset stops and whatever comes late, the next reset finds    *)
(* every record of the console that a call was answered for                *)
(* (delete_sandbox_records in twenty.py).                                  *)
(***************************************************************************)
THEOREM NothingIsLost == CrmSpec => []NothingLeaks
<1>1. CrmInv => NothingLeaks
  BY DEF CrmInv
<1>. QED BY <1>1, CrmInitInv, CrmStepInv, PTL DEF CrmSpec

(***************************************************************************)
(* A reset that nothing disturbed leaves exactly its fixtures for the      *)
(* tools to see, and no reset, broken or late, touches a record of other   *)
(* people in the workspace (twenty.py).                                    *)
(***************************************************************************)
THEOREM ResetsLeaveFixtures == CrmSpec => []ResetLeavesFixtures
<1>. QED BY FilledIsFixtures, CrmInitInv, CrmStepInv, PTL DEF CrmSpec

-----------------------------------------------------------------------------
(***************************************************************************)
(* The sandbox.  A server's call is at a step its operation has.           *)
(***************************************************************************)
ServerCall ==
  [op : Op, at : {"idle", "look", "create", "check", "take", "insert", "position", "append",
                  "read", "write"},
   run : 0 .. MaxResets, number : Nat, target : RowId, parent : SUBSET RowId, taken : Nat,
   pos : Nat, fields : [ContactField -> Nat]]

SandboxTyped ==
  /\ rows \subseteq Row /\ sequence \in [Kind -> Nat] /\ calls \in [Server -> ServerCall]
  /\ runner = [at |-> runner.at, step |-> runner.step, taken |-> runner.taken,
               refs |-> runner.refs]
  /\ runner.at \in {"idle", "fill", "create", "insert", "filled"}
  /\ runner.step \in 1 .. Len(Fixtures) + 1 /\ runner.taken \in Nat
  /\ \A n \in DOMAIN runner.refs : n \in Name /\ runner.refs[n] \in RowId
  /\ resets \in 0 .. MaxResets /\ sent \in 0 .. MaxCalls /\ touched \in BOOLEAN

CallFits(s) ==
  LET call == calls[s]
  IN  /\ call.op = "append_blocks" => s = "notion" /\ call.at # "idle"
      /\ call.op = "update_contact" => s = "crm" /\ call.target[1] = "person"
      /\ call.at \in {"take", "insert"} => call.op \in {"post", "create_page", "log_activity"}
      /\ call.at = "create" => call.op = "post"
      /\ call.at = "check" => call.op \in {"post", "append_blocks"}
      /\ call.at \in {"position", "append"} => call.op = "append_blocks"
      /\ call.at \in {"read", "write"} => call.op = "update_contact"
      /\ call.at # "idle" => call.number \in 1 .. sent

CallsFit == \A s \in Server : CallFits(s)

\* A reset has filled in the fixtures before the one it is at.
RefsFollow ==
  /\ runner.at = "idle" => DOMAIN runner.refs = {}
  /\ runner.at # "idle" =>
       DOMAIN runner.refs = {Fixtures[j].name : j \in 1 .. runner.step - 1}
  /\ runner.at \in {"fill", "create", "insert"} => runner.step <= Len(Fixtures)
  /\ runner.at = "filled" => runner.step = Len(Fixtures) + 1

SandboxSound == SandboxTyped /\ CallsFit /\ RefsFollow /\ RefsResolve

LEMMA FixturesTyped ==
  /\ Len(Fixtures) \in Nat /\ DOMAIN Fixtures = 1 .. Len(Fixtures)
  /\ \A i \in 1 .. Len(Fixtures) : Fixtures[i] \in Fixture
BY SandboxAssumption DEF SandboxAssumption

LEMMA BoundsTyped == MaxResets \in Nat /\ MaxCalls \in Nat /\ BlockCount \in Nat \ {0}
BY SandboxAssumption DEF SandboxAssumption

LEMMA NewRowIsRow ==
  ASSUME NEW id \in RowId, NEW name \in Name \cup {Unnamed}, NEW of \in SUBSET RowId
  PROVE  NewRow(id, name, of) \in Row
BY DEF NewRow, Row, Untouched

LEMMA SandboxStarts == SandboxInit => SandboxSound
<1>. SUFFICES ASSUME SandboxInit PROVE SandboxSound
  OBVIOUS
<1>1. NoCallHere \in ServerCall
  BY SandboxAssumption DEF NoCallHere, ServerCall, Op, Nobody, RowId, Kind, Untouched, SandboxAssumption
<1>2. DOMAIN runner.refs = {} /\ runner = Fresh("idle")
  BY DEF SandboxInit, Fresh
<1>3. SandboxTyped
  <2>1. rows \subseteq Row /\ sequence \in [Kind -> Nat] /\ calls \in [Server -> ServerCall]
    BY <1>1 DEF SandboxInit
  <2>2. touched \in BOOLEAN
    BY DEF SandboxInit
  <2>3. resets = 0 /\ sent = 0
    BY DEF SandboxInit
  <2>4. resets \in 0 .. MaxResets /\ sent \in 0 .. MaxCalls
    BY <2>3, BoundsTyped
  <2>5. runner = [at |-> "idle", step |-> 1, taken |-> 0, refs |-> <<>>]
    BY <1>2 DEF Fresh
  <2>. QED BY <1>2, <2>1, <2>2, <2>5, <2>4, FixturesTyped DEF SandboxTyped
<1>4. CallsFit
  BY DEF SandboxInit, CallsFit, CallFits, NoCallHere
<1>. QED BY <1>2, <1>3, <1>4 DEF SandboxSound, RefsFollow, RefsResolve, Fresh

-----------------------------------------------------------------------------
\* The runner's steps

LEMMA FreshRunner ==
  ASSUME NEW at
  PROVE  /\ Fresh(at) = [at |-> at, step |-> 1, taken |-> 0, refs |-> <<>>]
         /\ DOMAIN Fresh(at).refs = {} /\ Fresh(at).at = at /\ Fresh(at).step = 1
BY DEF Fresh

LEMMA ResetSound ==
  ASSUME SandboxSound, ResetTables
  PROVE  SandboxSound'
<1>1. runner'.at \in {"fill", "filled"} /\ runner' = Fresh(runner'.at)
      /\ (runner'.at = "filled" => Len(Fixtures) = 0) /\ (runner'.at = "fill" => 1 <= Len(Fixtures))
  BY FixturesTyped, SandboxAssumption DEF ResetTables, Begun, Fresh, SandboxAssumption
<1>2. SandboxTyped'
  <2>1. rows' = {} /\ sequence' \in [Kind -> Nat] /\ calls' \in [Server -> ServerCall]
    BY DEF SandboxSound, SandboxTyped, ResetTables
  <2>2. touched' \in BOOLEAN
    BY DEF ResetTables
  <2>3. resets < MaxResets /\ resets' = resets + 1 /\ sent' = sent
        /\ resets \in 0 .. MaxResets /\ sent \in 0 .. MaxCalls
    BY DEF SandboxSound, SandboxTyped, ResetTables
  <2>4. resets' \in 0 .. MaxResets /\ sent' \in 0 .. MaxCalls
    BY <2>3, BoundsTyped
  <2>5. runner' = [at |-> runner'.at, step |-> 1, taken |-> 0, refs |-> <<>>]
        /\ DOMAIN runner'.refs = {}
    BY <1>1, FreshRunner
  <2>. QED BY <1>1, <2>1, <2>2, <2>5, <2>4, FixturesTyped DEF SandboxTyped
<1>3. CallsFit'
  BY DEF SandboxSound, CallsFit, CallFits, ResetTables
<1>. QED BY <1>1, <1>2, <1>3, FreshRunner, FixturesTyped DEF SandboxSound, RefsFollow, RefsResolve

\* What the calls do to the rows keeps the rows' ids and names.
RowsStay == \A r \in rows : \E q \in rows' : q.id = r.id /\ q.name = r.name

LEMMA PlacedSound ==
  ASSUME SandboxSound, runner.at \in {"fill", "create", "insert"}, RowsStay, NEW id \in RowId,
         runner' = Placed(id), \E r \in rows' : r.id = id /\ r.name = NextFixture.name,
         rows' \subseteq Row, sequence' \in [Kind -> Nat], UNCHANGED <<calls, resets, sent, touched>>
  PROVE  SandboxSound'
<1>1. runner.step \in 1 .. Len(Fixtures) /\ NextFixture.name \in Name
  BY FixturesTyped DEF SandboxSound, SandboxTyped, RefsFollow, NextFixture, Fixture
<1>2. /\ runner'.at \in {"fill", "filled"} /\ runner'.step = runner.step + 1 /\ runner'.taken = 0
      /\ runner' = [at |-> runner'.at, step |-> runner'.step, taken |-> runner'.taken,
                    refs |-> runner'.refs]
      /\ runner'.at = "filled" <=> runner.step = Len(Fixtures)
      /\ DOMAIN runner'.refs = DOMAIN runner.refs \cup {NextFixture.name}
      /\ \A n \in DOMAIN runner'.refs :
           runner'.refs[n] = IF n = NextFixture.name THEN id ELSE runner.refs[n]
  BY DEF Placed
<1>3. SandboxTyped'
  BY <1>1, <1>2, FixturesTyped DEF SandboxSound, SandboxTyped
<1>4. CallsFit'
  BY DEF SandboxSound, CallsFit, CallFits
<1>5. RefsFollow'
  <2>1. DOMAIN runner.refs = {Fixtures[j].name : j \in 1 .. runner.step - 1}
    BY DEF SandboxSound, RefsFollow
  <2>2. 1 .. runner.step = (1 .. runner.step - 1) \cup {runner.step}
    BY <1>1
  <2>3. DOMAIN runner'.refs = {Fixtures[j].name : j \in 1 .. runner.step}
    BY <1>2, <2>1, <2>2 DEF NextFixture
  <2>4. 1 .. runner'.step - 1 = 1 .. runner.step
    BY <1>1, <1>2
  <2>5. DOMAIN runner'.refs = {Fixtures[j].name : j \in 1 .. runner'.step - 1}
    BY <2>3, <2>4
  <2>. QED BY <1>1, <1>2, <2>5, FixturesTyped DEF RefsFollow
<1>6. RefsResolve'
  BY <1>2 DEF SandboxSound, RefsResolve, RowsStay
<1>. QED BY <1>3, <1>4, <1>5, <1>6 DEF SandboxSound

LEMMA IdleSound ==
  ASSUME SandboxSound, runner' = Fresh("idle"), UNCHANGED <<rows, calls, resets, sent>>,
         UNCHANGED <<sequence, touched>>
  PROVE  SandboxSound'
<1>1. SandboxTyped'
  BY FreshRunner, FixturesTyped DEF SandboxSound, SandboxTyped
<1>2. CallsFit'
  BY DEF SandboxSound, CallsFit, CallFits
<1>. QED BY <1>1, <1>2, FreshRunner DEF SandboxSound, RefsFollow, RefsResolve

LEMMA RunnerSound ==
  ASSUME SandboxSound,
         LookForContainer \/ CreateContainer \/ TakeFixtureId \/ InsertFixture \/ EndRun
  PROVE  SandboxSound'
<1>1. /\ sequence \in [Kind -> Nat] /\ rows \subseteq Row
      /\ runner.at # "filled" /\ runner.at # "idle" =>
           /\ runner.step \in 1 .. Len(Fixtures) /\ NextFixture \in Fixture
           /\ sequence[NextFixture.kind] + 1 \in Nat /\ NextFixture.kind \in Kind
  BY FixturesTyped DEF SandboxSound, SandboxTyped, RefsFollow, NextFixture, Fixture
<1>2. ASSUME runner.at # "idle", runner.at # "filled"
      PROVE  UNCHANGED sequence \/ TakeId(NextFixture.kind) => sequence' \in [Kind -> Nat]
  BY <1>1, <1>2 DEF TakeId
<1>3. CASE LookForContainer
  <2>1. CASE \E r \in Named(NextFixture.kind, NextFixture.name) : runner' = Placed(r.id)
    <3>1. PICK r \in rows : r.id[1] = NextFixture.kind /\ r.name = NextFixture.name /\ runner' = Placed(r.id)
      BY <2>1 DEF Named
    <3>2. r.id \in RowId
      BY <1>1 DEF Row
    <3>. QED BY <1>1, <1>3, <3>1, <3>2, PlacedSound DEF LookForContainer, Filling, RowsStay
  <2>2. CASE runner' = [runner EXCEPT !.at = "create"]
    <3>1. SandboxTyped' /\ CallsFit'
      BY <1>3, <2>2 DEF LookForContainer, Filling, SandboxSound, SandboxTyped, CallsFit, CallFits
    <3>2. runner'.at = "create" /\ runner'.step = runner.step /\ runner'.refs = runner.refs
      BY <2>2 DEF SandboxSound, SandboxTyped
    <3>. QED BY <1>3, <3>1, <3>2 DEF LookForContainer, Filling, SandboxSound, RefsFollow, RefsResolve
  <2>. QED BY <1>3, <2>1, <2>2 DEF LookForContainer
<1>4. CASE CreateContainer
  <2>. DEFINE row == NewRow(<<NextFixture.kind, sequence[NextFixture.kind] + 1>>, NextFixture.name, {})
  <2>1. row \in Row /\ row.id \in RowId /\ row.name = NextFixture.name
    BY <1>1, <1>4, NewRowIsRow DEF CreateContainer, RowId, NewRow, Fixture
  <2>2. CASE Clashes(row)
    BY <1>4, <2>2, IdleSound DEF CreateContainer, Filling
  <2>3. CASE ~Clashes(row)
    <3>1. rows' = rows \cup {row} /\ TakeId(NextFixture.kind) /\ runner' = Placed(row.id)
          /\ UNCHANGED <<calls, resets, sent, touched>> /\ runner.at = "create"
      BY <1>4, <2>3 DEF CreateContainer, Filling
    <3>2. sequence' \in [Kind -> Nat] /\ rows' \subseteq Row /\ row \in rows' /\ RowsStay
      BY <1>1, <1>2, <2>1, <3>1 DEF RowsStay
    <3>. HIDE DEF row
    <3>. QED BY <2>1, <3>1, <3>2, PlacedSound
  <2>. QED BY <2>2, <2>3
<1>5. CASE TakeFixtureId
  <2>1. SandboxTyped'
    BY <1>1, <1>2, <1>5 DEF TakeFixtureId, Filling, SandboxSound, SandboxTyped
  <2>2. CallsFit'
    BY <1>5 DEF TakeFixtureId, Filling, SandboxSound, CallsFit, CallFits
  <2>3. /\ runner.at = "fill" /\ runner'.at = "insert" /\ runner'.step = runner.step
        /\ runner'.refs = runner.refs /\ rows' = rows
    BY <1>5 DEF TakeFixtureId, SandboxSound, SandboxTyped
  <2>. QED BY <2>1, <2>2, <2>3 DEF SandboxSound, RefsFollow, RefsResolve
<1>6. CASE InsertFixture
  <2>1. NextFixture.of \subseteq DOMAIN runner.refs
    <3>1. runner.step \in DOMAIN Fixtures
      BY <1>1, <1>6, FixturesTyped DEF InsertFixture
    <3>. QED BY <1>6, <3>1, SandboxAssumption
         DEF InsertFixture, SandboxSound, RefsFollow, NextFixture, SandboxAssumption
  <2>2. {runner.refs[n] : n \in NextFixture.of} \subseteq RowId
    BY <2>1 DEF SandboxSound, SandboxTyped
  <2>3. FixtureRow \in Row /\ FixtureRow.id \in RowId /\ FixtureRow.name = NextFixture.name
    <3>1. <<NextFixture.kind, runner.taken>> \in RowId /\ NextFixture.name \in Name
      BY <1>1, <1>6 DEF InsertFixture, RowId, SandboxSound, SandboxTyped, Fixture
    <3>. QED BY <2>2, <3>1, NewRowIsRow DEF FixtureRow, NewRow
  <2>4. CASE Clashes(FixtureRow)
    BY <1>6, <2>4, IdleSound DEF InsertFixture, Filling
  <2>5. CASE ~Clashes(FixtureRow)
    <3>1. rows' = rows \cup {FixtureRow} /\ UNCHANGED sequence /\ runner' = Placed(FixtureRow.id)
          /\ UNCHANGED <<calls, resets, sent, touched>> /\ runner.at = "insert"
      BY <1>6, <2>5 DEF InsertFixture, Filling
    <3>2. sequence' \in [Kind -> Nat] /\ rows' \subseteq Row /\ FixtureRow \in rows' /\ RowsStay
      BY <1>1, <2>3, <3>1 DEF RowsStay
    <3>. QED BY <2>3, <3>1, <3>2, PlacedSound
  <2>. QED BY <2>4, <2>5
<1>7. CASE EndRun
  BY <1>7, IdleSound DEF EndRun
<1>. QED BY <1>3, <1>4, <1>5, <1>6, <1>7

-----------------------------------------------------------------------------
\* The servers' steps

\* A row inserted by a server is new, of its kind and without a name, or a channel.
Inserted(q) ==
  /\ q \in Row /\ q.fields = Untouched
  /\ q.id[1] \in {"channel", "message", "page", "activity", "block"}

LEMMA CallTyped ==
  ASSUME SandboxSound, NEW s \in Server
  PROVE  calls[s] \in ServerCall /\ CallFits(s)
BY DEF SandboxSound, SandboxTyped, CallsFit

LEMMA CallChanges ==
  ASSUME SandboxSound, NEW s \in Server, NEW call \in ServerCall,
         calls' = [calls EXCEPT ![s] = call], CallFits(s)', sent' \in sent .. MaxCalls
  PROVE  calls' \in [Server -> ServerCall] /\ CallsFit'
<1>1. calls' \in [Server -> ServerCall]
  BY DEF SandboxSound, SandboxTyped
<1>2. ASSUME NEW r \in Server PROVE CallFits(r)'
  <2>1. CASE r = s
    BY <2>1
  <2>2. CASE r # s
    <3>1. calls'[r] = calls[r] /\ sent \in Nat /\ sent' >= sent
      BY <2>2, BoundsTyped DEF SandboxSound, SandboxTyped
    <3>2. CallFits(r) /\ calls[r].number \in Nat
      BY CallTyped DEF ServerCall
    <3>. QED BY <3>1, <3>2 DEF CallFits
  <2>. QED BY <2>1, <2>2
<1>. QED BY <1>1, <1>2 DEF CallsFit

LEMMA NoCallTyped == NoCallHere \in ServerCall
BY BoundsTyped DEF NoCallHere, ServerCall, Op, Nobody, RowId, Kind, Untouched

LEMMA CallEnds ==
  ASSUME SandboxSound, NEW s \in Server, Ends(s), sent' = sent
  PROVE  calls' \in [Server -> ServerCall] /\ CallsFit'
<1>1. calls'[s] = NoCallHere
  BY DEF Ends, SandboxSound, SandboxTyped
<1>2. CallFits(s)'
  BY <1>1 DEF CallFits, NoCallHere
<1>3. sent' \in sent .. MaxCalls
  BY BoundsTyped DEF SandboxSound, SandboxTyped
<1>. QED BY <1>2, <1>3, NoCallTyped, CallChanges DEF Ends

\* A call goes on to a step its operation has.
StepOf(at, op) ==
  \/ at = "create" /\ op = "post"
  \/ at = "check" /\ op \in {"post", "append_blocks"}
  \/ at \in {"take", "insert"} /\ op \in {"post", "create_page", "log_activity"}
  \/ at \in {"position", "append"} /\ op = "append_blocks"
  \/ at \in {"read", "write"} /\ op = "update_contact"

LEMMA CallGoesOn ==
  ASSUME SandboxSound, NEW s \in Server, calls[s].at # "idle", sent' = sent,
         NEW call \in ServerCall, StepOf(call.at, calls[s].op),
         call.op = calls[s].op, call.target = calls[s].target, call.number = calls[s].number,
         calls' = [calls EXCEPT ![s] = call]
  PROVE  calls' \in [Server -> ServerCall] /\ CallsFit'
<1>1. calls[s] \in ServerCall /\ CallFits(s)
  BY CallTyped
<1>2. calls'[s] = call
  BY DEF SandboxSound, SandboxTyped
<1>3. CallFits(s)'
  BY <1>1, <1>2 DEF CallFits, StepOf
<1>4. sent' \in sent .. MaxCalls
  BY BoundsTyped DEF SandboxSound, SandboxTyped
<1>. QED BY <1>3, <1>4, CallChanges

LEMMA StepGoesOn ==
  ASSUME SandboxSound, NEW s \in Server, calls[s].at # "idle", sent' = sent, NEW at,
         StepOf(at, calls[s].op),
         \/ Goes(s, at)
         \/ \E p \in SUBSET RowId : Finds(s, at, p)
         \/ \E t \in Nat : calls' = [calls EXCEPT ![s].at = at, ![s].taken = t]
         \/ \E n \in Nat : calls' = [calls EXCEPT ![s].at = at, ![s].pos = n]
         \/ \E f \in [ContactField -> Nat] : calls' = [calls EXCEPT ![s].at = at, ![s].fields = f]
  PROVE  calls' \in [Server -> ServerCall] /\ CallsFit'
<1>. DEFINE c == calls[s]
            GoesOn(call) == call \in ServerCall /\ call.op = c.op /\ call.target = c.target
                             /\ call.number = c.number /\ call.at = at
<1>1. c \in ServerCall /\ calls \in [Server -> ServerCall]
  BY CallTyped DEF SandboxSound, SandboxTyped
<1>2. at \in {"create", "check", "take", "insert", "position", "append", "read", "write"}
  BY DEF StepOf
<1>3. ASSUME NEW call, GoesOn(call), calls' = [calls EXCEPT ![s] = call]
      PROVE  calls' \in [Server -> ServerCall] /\ CallsFit'
  BY <1>3, CallGoesOn
<1>4. CASE Goes(s, at)
  <2>1. calls' = [calls EXCEPT ![s] = [c EXCEPT !.at = at]]
    BY <1>4, <1>1 DEF Goes
  <2>2. GoesOn([c EXCEPT !.at = at])
    BY <1>1, <1>2 DEF ServerCall
  <2>. QED BY <2>1, <2>2, <1>3
<1>5. CASE \E p \in SUBSET RowId : Finds(s, at, p)
  <2>1. PICK p \in SUBSET RowId : calls' = [calls EXCEPT ![s] = [c EXCEPT !.at = at, !.parent = p]]
    BY <1>5, <1>1 DEF Finds
  <2>2. GoesOn([c EXCEPT !.at = at, !.parent = p])
    BY <1>1, <1>2 DEF ServerCall
  <2>. QED BY <2>1, <2>2, <1>3
<1>6. CASE \E t \in Nat : calls' = [calls EXCEPT ![s].at = at, ![s].taken = t]
  <2>1. PICK t \in Nat : calls' = [calls EXCEPT ![s] = [c EXCEPT !.at = at, !.taken = t]]
    BY <1>6, <1>1 DEF Finds
  <2>2. GoesOn([c EXCEPT !.at = at, !.taken = t])
    BY <1>1, <1>2 DEF ServerCall
  <2>. QED BY <2>1, <2>2, <1>3
<1>7. CASE \E n \in Nat : calls' = [calls EXCEPT ![s].at = at, ![s].pos = n]
  <2>1. PICK n \in Nat : calls' = [calls EXCEPT ![s] = [c EXCEPT !.at = at, !.pos = n]]
    BY <1>7, <1>1 DEF Finds
  <2>2. GoesOn([c EXCEPT !.at = at, !.pos = n])
    BY <1>1, <1>2 DEF ServerCall
  <2>. QED BY <2>1, <2>2, <1>3
<1>8. CASE \E f \in [ContactField -> Nat] : calls' = [calls EXCEPT ![s].at = at, ![s].fields = f]
  <2>1. PICK f \in [ContactField -> Nat] : calls' = [calls EXCEPT ![s] = [c EXCEPT !.at = at, !.fields = f]]
    BY <1>8, <1>1 DEF Finds
  <2>2. GoesOn([c EXCEPT !.at = at, !.fields = f])
    BY <1>1, <1>2 DEF ServerCall
  <2>. QED BY <2>1, <2>2, <1>3
<1>. QED BY <1>4, <1>5, <1>6, <1>7, <1>8

(* Appends that have been done took the positions below, BlockCount each.     *)
Before == IF calls["notion"].op = "append_blocks" THEN sent - 1 ELSE sent

BlocksSound ==
  /\ \A b \in OfKind("block") :
       /\ b.id[2] <= sequence["block"] /\ b.pos < BlockCount * Before
       /\ \E page \in RowId : b.of = {page}
  /\ LET call == calls["notion"]
     IN  call.at = "append" =>
           /\ call.pos <= BlockCount * Before
           /\ \A b \in OfKind("block") : call.target \in b.of => b.pos < call.pos
  /\ BlocksInOrder

LEMMA BeforeTyped ==
  ASSUME SandboxSound
  PROVE  Before \in Nat /\ Before <= sent /\ sent \in Nat
<1>1. calls["notion"] \in ServerCall /\ CallFits("notion") /\ sent \in Nat
  BY CallTyped, BoundsTyped DEF Server, SandboxSound, SandboxTyped
<1>. QED BY <1>1 DEF CallFits, Before

LEMMA RoomGrows ==
  ASSUME NEW m \in Nat, NEW n \in Nat, m <= n
  PROVE  BlockCount * m \in Nat /\ BlockCount * n \in Nat /\ BlockCount * m <= BlockCount * n
BY BoundsTyped

LEMMA NextBeforeTyped ==
  ASSUME SandboxSound'
  PROVE  Before' \in Nat
<1>1. calls'["notion"] \in ServerCall /\ CallFits("notion")' /\ sent' \in Nat
  <2>1. sent' \in 0 .. MaxCalls /\ "notion" \in Server
    BY DEF SandboxSound, SandboxTyped, Server
  <2>2. sent' \in Nat
    BY <2>1, BoundsTyped
  <2>. QED BY <2>1, <2>2 DEF SandboxSound, SandboxTyped, CallsFit
<1>2. calls'["notion"].op = "append_blocks" => calls'["notion"].number \in 1 .. sent'
  BY <1>1 DEF CallFits
<1>3. ASSUME NEW n \in Nat, NEW m \in 1 .. n PROVE n - 1 \in Nat
  OBVIOUS
<1>4. calls'["notion"].op = "append_blocks" => sent' - 1 \in Nat
  BY <1>1, <1>2, <1>3, Zenon
<1>. QED BY <1>1, <1>4, Zenon DEF Before

LEMMA LeastAbove ==
  ASSUME NEW P \in SUBSET Nat, NEW top \in Nat, \A p \in P : p < top
  PROVE  \E n \in 0 .. top : (\A p \in P : p < n) /\ (n = 0 \/ \E p \in P : p = n - 1)
<1>. DEFINE Above == {n \in Nat : \A p \in P : p < n}
<1>1. Above \in SUBSET Nat /\ Above # {}
  OBVIOUS
<1>2. top \in Above
  OBVIOUS
<1>3. PICK n \in Above : \A m \in Above : n <= m
  BY <1>1, LeastNat
<1>4. n <= top /\ n \in Nat /\ \A p \in P : p < n
  BY <1>2, <1>3
<1>5. ASSUME n # 0, \A p \in P : p # n - 1 PROVE FALSE
  <2>1. n - 1 \in Above
    BY <1>4, <1>5
  <2>. QED BY <1>3, <1>4, <2>1
<1>. QED BY <1>4, <1>5

LEMMA PositionIsNext ==
  ASSUME SandboxSound, BlocksSound, NEW page
  PROVE  /\ NextPosition(page) \in Nat /\ NextPosition(page) <= BlockCount * Before
         /\ \A b \in OfKind("block") : page \in b.of => b.pos < NextPosition(page)
<1>. DEFINE P == {b.pos : b \in {r \in OfKind("block") : page \in r.of}}
            top == BlockCount * Before
<1>1. top \in Nat /\ top <= MaxCalls * BlockCount /\ MaxCalls * BlockCount \in Nat
  <2>1. Before \in Nat /\ Before <= MaxCalls
    BY BeforeTyped, BoundsTyped DEF SandboxSound, SandboxTyped
  <2>2. BlockCount * MaxCalls = MaxCalls * BlockCount
    BY BoundsTyped
  <2>. QED BY <2>1, <2>2, RoomGrows, BoundsTyped
<1>2. \A p \in P : p \in Nat /\ p < top
  <2>1. ASSUME NEW b \in OfKind("block") PROVE b.pos \in Nat /\ b.pos < top
    BY DEF BlocksSound, OfKind, SandboxSound, SandboxTyped, Row
  <2>. QED BY <2>1
<1>3. PICK n \in 0 .. top : (\A p \in P : p < n) /\ (n = 0 \/ \E p \in P : p = n - 1)
  <2>1. P \in SUBSET Nat /\ \A p \in P : p < top
    BY <1>2
  <2>2. top \in Nat
    BY <1>1
  <2>. HIDE DEF P, top
  <2>. QED BY <2>1, <2>2, LeastAbove
<1>4. \E m \in 0 .. MaxCalls * BlockCount :
        /\ \A r \in OfKind("block") : page \in r.of => r.pos < m
        /\ m = 0 \/ \E r \in OfKind("block") : page \in r.of /\ r.pos = m - 1
  <2>1. n \in 0 .. MaxCalls * BlockCount
    BY <1>1, <1>3
  <2>. QED BY <2>1, <1>3
<1>5. /\ NextPosition(page) \in 0 .. MaxCalls * BlockCount
      /\ \A r \in OfKind("block") : page \in r.of => r.pos < NextPosition(page)
      /\ NextPosition(page) = 0 \/ \E r \in OfKind("block") : page \in r.of /\ r.pos = NextPosition(page) - 1
  BY <1>4, Zenon DEF NextPosition
<1>6. NextPosition(page) <= top
  BY <1>1, <1>2, <1>5
<1>. QED BY <1>1, <1>5, <1>6

LEMMA WorkCalls ==
  ASSUME SandboxSound, BlocksSound, NEW s \in Server, Work(s)
  PROVE  calls' \in [Server -> ServerCall] /\ CallsFit' /\ UNCHANGED <<runner, resets, sent>>
<1>. DEFINE c == calls[s]
<1>1. /\ c \in ServerCall /\ CallFits(s) /\ rows \subseteq Row /\ sequence \in [Kind -> Nat]
  BY CallTyped DEF SandboxSound, SandboxTyped
<1>2. \A r \in rows : r.id \in RowId /\ r.of \in SUBSET RowId /\ r.fields \in [ContactField -> Nat]
  BY <1>1 DEF Row
<1>3. CASE Look(s)
  <2>1. c.at = "look" /\ UNCHANGED <<runner, resets, sent>>
    BY <1>3 DEF Look, OnlyRead
  <2>2. CASE Ends(s)
    BY <2>1, <2>2, CallEnds
  <2>3. CASE Goes(s, "create") /\ c.op = "post"
    BY <2>1, <2>3, StepGoesOn DEF StepOf
  <2>4. ASSUME NEW r \in Found(c), NEW at, StepOf(at, c.op),
               Finds(s, at, IF c.op = "append_blocks" THEN r.of ELSE {r.id})
        PROVE  calls' \in [Server -> ServerCall] /\ CallsFit'
    <3>1. r \in rows
      BY <2>4 DEF Found, Named, OfKind, RowAt
    <3>2. (IF c.op = "append_blocks" THEN r.of ELSE {r.id}) \in SUBSET RowId
      BY <1>2, <3>1
    <3>. QED BY <2>1, <2>4, <3>2, StepGoesOn
  <2>5. StepOf(AfterLook(c.op), c.op)
    BY <1>1 DEF StepOf, AfterLook, ServerCall, Op
  <2>6. \/ Ends(s)
        \/ Goes(s, "create") /\ c.op = "post"
        \/ \E r \in Found(c) :
             Finds(s, AfterLook(c.op), IF c.op = "append_blocks" THEN r.of ELSE {r.id})
    BY <1>3, Zenon DEF Look
  <2>. QED BY <2>1, <2>2, <2>3, <2>4, <2>5, <2>6
<1>4. CASE CreateChannel(s)
  <2>1. c.at = "create" /\ c.op = "post" /\ UNCHANGED <<runner, resets, sent>>
    BY <1>1, <1>4 DEF CreateChannel, OnlyRead, Wrote, CallFits
  <2>2. \/ Ends(s) \/ Finds(s, "check", {<<"channel", sequence["channel"] + 1>>})
    BY <1>4 DEF CreateChannel, NewRow
  <2>3. {<<"channel", sequence["channel"] + 1>>} \in SUBSET RowId
    BY <1>1 DEF RowId, Kind
  <2>. QED BY <2>1, <2>2, <2>3, CallEnds, StepGoesOn DEF StepOf
<1>5. CASE Check(s)
  <2>1. c.at = "check" /\ c.op \in {"post", "append_blocks"} /\ UNCHANGED <<runner, resets, sent>>
    BY <1>1, <1>5 DEF Check, OnlyRead, CallFits
  <2>2. CASE c.op = "post"
    <3>1. Ends(s) \/ Goes(s, "take")
      BY <1>5, <2>2, Zenon DEF Check
    <3>. QED BY <2>1, <2>2, <3>1, CallEnds, StepGoesOn DEF StepOf
  <2>3. CASE c.op = "append_blocks"
    <3>1. Ends(s) \/ Goes(s, "position")
      <4>1. c.op # "post"
        BY <2>3
      <4>. QED BY <1>5, <4>1, Zenon DEF Check
    <3>. QED BY <2>1, <2>3, <3>1, CallEnds, StepGoesOn DEF StepOf
  <2>. QED BY <2>1, <2>2, <2>3
<1>6. CASE Take(s)
  <2>1. c.at = "take" /\ c.op \in {"post", "create_page", "log_activity"} /\ UNCHANGED <<runner, resets, sent>>
    BY <1>1, <1>6 DEF Take, Wrote, CallFits
  <2>2. Makes(c.op) \in Kind
    BY <2>1 DEF Makes, Kind
  <2>3. \E t \in Nat : calls' = [calls EXCEPT ![s].at = "insert", ![s].taken = t]
    <3>1. sequence[Makes(c.op)] + 1 \in Nat
      BY <1>1, <2>2
    <3>. QED BY <1>6, <3>1, Zenon DEF Take
  <2>. QED BY <2>1, <2>3, StepGoesOn DEF StepOf
<1>7. CASE Insert(s)
  BY <1>7, CallEnds DEF Insert, Wrote
<1>8. CASE Position(s)
  <2>1. c.at = "position" /\ c.op = "append_blocks" /\ UNCHANGED <<runner, resets, sent>>
    BY <1>1, <1>8 DEF Position, OnlyRead, CallFits
  <2>2. NextPosition(c.target) \in Nat
    BY PositionIsNext
  <2>3. PICK n \in Nat : calls' = [calls EXCEPT ![s].at = "append", ![s].pos = n]
    BY <1>8, <2>2 DEF Position
  <2>. QED BY <2>1, <2>3, StepGoesOn DEF StepOf
<1>9. CASE AppendBlocks(s)
  BY <1>9, CallEnds DEF AppendBlocks, Wrote
<1>10. CASE ReadContact(s)
  <2>1. c.at = "read" /\ c.op = "update_contact" /\ UNCHANGED <<runner, resets, sent>>
    BY <1>1, <1>10 DEF ReadContact, OnlyRead, CallFits
  <2>2. \/ Ends(s)
        \/ \E f \in [ContactField -> Nat] : calls' = [calls EXCEPT ![s].at = "write", ![s].fields = f]
    BY <1>2, <1>10 DEF ReadContact, RowAt
  <2>. QED BY <2>1, <2>2, CallEnds, StepGoesOn DEF StepOf
<1>11. CASE WriteContact(s)
  BY <1>11, CallEnds DEF WriteContact, Wrote
<1>. QED BY <1>3, <1>4, <1>5, <1>6, <1>7, <1>8, <1>9, <1>10, <1>11 DEF Work

\* Rows that are no blocks, or the same.
BlocksStay == OfKind("block")' = OfKind("block") /\ sequence'["block"] = sequence["block"]

LEMMA UnnamedRowIsRow ==
  ASSUME NEW id \in RowId, id[1] \in {"channel", "message", "page", "activity", "block"},
         NEW name \in Name \cup {Unnamed}, NEW of \in SUBSET RowId
  PROVE  Inserted(NewRow(id, name, of)) /\ NewRow(id, name, of).id = id
BY NewRowIsRow DEF Inserted, NewRow

\* A row that is added.
LEMMA AddedRow ==
  ASSUME SandboxSound, NEW row, Inserted(row), rows' = rows \cup {row}
  PROVE  /\ rows' \subseteq Row /\ RowsStay /\ rows \subseteq rows'
         /\ \A q \in rows' \ rows : Inserted(q)
         /\ row.id[1] # "block" => OfKind("block")' = OfKind("block")
BY DEF SandboxSound, SandboxTyped, Inserted, RowsStay, OfKind

LEMMA SequenceGrows ==
  ASSUME SandboxSound, NEW kind \in Kind, TakeId(kind)
  PROVE  /\ sequence' \in [Kind -> Nat]
         /\ kind # "block" => sequence'["block"] = sequence["block"]
BY DEF SandboxSound, SandboxTyped, TakeId, Kind

LEMMA WorkRows ==
  ASSUME SandboxSound, BlocksSound, NEW s \in Server, Work(s)
  PROVE  /\ sequence' \in [Kind -> Nat] /\ touched' \in BOOLEAN
         /\ touched' = TRUE \/ UNCHANGED <<rows, sequence, touched>>
         /\ rows' \subseteq Row /\ RowsStay
         /\ WriteContact(s) \/ (rows \subseteq rows' /\ \A q \in rows' \ rows : Inserted(q))
         /\ AppendBlocks(s) \/ BlocksStay
<1>. DEFINE c == calls[s]
<1>1. /\ c \in ServerCall /\ CallFits(s) /\ rows \subseteq Row /\ sequence \in [Kind -> Nat]
  BY CallTyped DEF SandboxSound, SandboxTyped
<1>2. CASE UNCHANGED <<rows, sequence, touched>>
  <2>1. touched \in BOOLEAN
    BY DEF SandboxSound, SandboxTyped
  <2>2. touched' \in BOOLEAN
    BY <1>2, <2>1
  <2>3. OfKind("block")' = OfKind("block")
    BY <1>2 DEF OfKind
  <2>. QED BY <1>1, <1>2, <2>2, <2>3 DEF RowsStay, BlocksStay
<1>3. CASE CreateChannel(s)
  <2>. DEFINE row == NewRow(<<"channel", sequence["channel"] + 1>>, AlertChannel, {})
  <2>1. CASE Clashes(row)
    BY <1>2, <1>3, <2>1 DEF CreateChannel, OnlyRead
  <2>2. CASE ~Clashes(row)
    <3>1. rows' = rows \cup {row} /\ TakeId("channel") /\ touched' = TRUE
      BY <1>3, <2>2 DEF CreateChannel, Wrote
    <3>2. Inserted(row) /\ row.id[1] # "block"
      <4>1. <<"channel", sequence["channel"] + 1>> \in RowId /\ AlertChannel \in Name
        BY <1>1, SandboxAssumption DEF RowId, Kind, SandboxAssumption
      <4>. QED BY <4>1, UnnamedRowIsRow
    <3>3. "channel" \in Kind /\ "channel" # "block"
      BY DEF Kind
    <3>. HIDE DEF row
    <3>. QED BY <3>1, <3>2, <3>3, AddedRow, SequenceGrows DEF BlocksStay
  <2>. QED BY <2>1, <2>2
<1>4. CASE Take(s)
  <2>1. Makes(c.op) \in Kind /\ Makes(c.op) # "block"
    BY <1>1, <1>4 DEF Take, CallFits, Makes, Kind
  <2>2. TakeId(Makes(c.op)) /\ rows' = rows /\ touched' = TRUE
    BY <1>4 DEF Take, Wrote
  <2>3. OfKind("block")' = OfKind("block")
    BY <2>2 DEF OfKind
  <2>. QED BY <1>1, <2>1, <2>2, <2>3, SequenceGrows DEF RowsStay, BlocksStay
<1>5. CASE Insert(s)
  <2>. DEFINE row == InsertedRow(c)
  <2>1. CASE Clashes(row)
    BY <1>2, <1>5, <2>1 DEF Insert
  <2>2. CASE ~Clashes(row)
    <3>1. rows' = rows \cup {row} /\ UNCHANGED sequence /\ touched' = TRUE
      BY <1>5, <2>2 DEF Insert, Wrote
    <3>2. Inserted(row) /\ row.id[1] # "block"
      <4>1. <<Makes(c.op), c.taken>> \in RowId
            /\ <<Makes(c.op), c.taken>>[1] \in {"message", "page", "activity"}
        BY <1>1, <1>5 DEF Insert, CallFits, Makes, RowId, Kind, ServerCall
      <4>2. c.parent \cup (IF c.op = "post" THEN {c.target} \ {Nobody} ELSE {}) \in SUBSET RowId
        BY <1>1 DEF ServerCall
      <4>. QED BY <4>1, <4>2, UnnamedRowIsRow DEF InsertedRow
    <3>. HIDE DEF row
    <3>. QED BY <1>1, <3>1, <3>2, AddedRow DEF BlocksStay
  <2>. QED BY <2>1, <2>2
<1>6. CASE AppendBlocks(s)
  <2>. DEFINE new(i) == [NewRow(<<"block", sequence["block"] + i>>, Unnamed, {c.target})
                           EXCEPT !.pos = c.pos + i - 1]
  <2>1. /\ rows' = rows \cup {new(i) : i \in 1 .. BlockCount} /\ touched' = TRUE
        /\ sequence' = [sequence EXCEPT !["block"] = @ + BlockCount]
    BY <1>6 DEF AppendBlocks, Wrote
  <2>2. ASSUME NEW i \in 1 .. BlockCount PROVE Inserted(new(i))
    <3>. DEFINE id == <<"block", sequence["block"] + i>>
    <3>1. id \in RowId /\ id[1] = "block" /\ c.target \in RowId /\ c.pos + i - 1 \in Nat
      BY <1>1, BoundsTyped DEF RowId, Kind, ServerCall
    <3>. HIDE DEF id
    <3>2. NewRow(id, Unnamed, {c.target}) \in Row /\ NewRow(id, Unnamed, {c.target}).id = id
          /\ NewRow(id, Unnamed, {c.target}).fields = Untouched
      BY <3>1, NewRowIsRow DEF NewRow
    <3>. QED BY <3>1, <3>2 DEF Inserted, Row, id
  <2>. HIDE DEF new
  <2>3. sequence' \in [Kind -> Nat]
    BY <1>1, <2>1, BoundsTyped DEF Kind
  <2>. QED BY <1>1, <1>6, <2>1, <2>2, <2>3 DEF Inserted, RowsStay
<1>7. CASE WriteContact(s)
  <2>1. PICK f \in ContactField :
          rows' = {IF r.id = c.target THEN [r EXCEPT !.fields = MergedFields(c, f)]
                   ELSE r : r \in rows}
    BY <1>7 DEF WriteContact
  <2>2. c.fields \in [ContactField -> Nat] /\ c.number \in Nat /\ c.target[1] = "person"
    BY <1>1, <1>7 DEF WriteContact, CallFits, ServerCall
  <2>3. MergedFields(c, f) \in [ContactField -> Nat]
    BY <2>2 DEF MergedFields
  <2>4. ASSUME NEW r \in rows
        PROVE  /\ [r EXCEPT !.fields = MergedFields(c, f)] \in Row
               /\ [r EXCEPT !.fields = MergedFields(c, f)].id = r.id
               /\ [r EXCEPT !.fields = MergedFields(c, f)].name = r.name
    BY <1>1, <2>3 DEF Row
  <2>5. rows' \subseteq Row /\ RowsStay
    BY <1>1, <2>1, <2>4 DEF RowsStay
  <2>6. OfKind("block")' = OfKind("block")
    <3>1. \A r \in rows : r.id[1] = "block" => r.id # c.target
      BY <2>2
    <3>2. \A r \in rows : r.id[1] = "block" => r \in rows'
      BY <2>1, <3>1
    <3>3. ASSUME NEW q \in rows', q.id[1] = "block" PROVE q \in rows
      <4>1. PICK r \in rows : q = IF r.id = c.target THEN [r EXCEPT !.fields = MergedFields(c, f)]
                                 ELSE r
        BY <2>1
      <4>2. q.id = r.id
        BY <2>4, <4>1
      <4>3. r.id # c.target
        BY <3>1, <3>3, <4>2
      <4>. QED BY <4>1, <4>3
    <3>. QED BY <3>2, <3>3 DEF OfKind
  <2>. QED BY <1>1, <1>7, <2>5, <2>6 DEF WriteContact, Wrote, BlocksStay
<1>8. CASE Look(s) \/ Check(s) \/ Position(s) \/ ReadContact(s)
  BY <1>2, <1>8 DEF Look, Check, Position, ReadContact, OnlyRead
<1>. QED BY <1>3, <1>4, <1>5, <1>6, <1>7, <1>8 DEF Work

LEMMA WorkSound ==
  ASSUME SandboxSound, BlocksSound, NEW s \in Server, Work(s)
  PROVE  SandboxSound'
<1>1. /\ calls' \in [Server -> ServerCall] /\ CallsFit' /\ UNCHANGED <<runner, resets, sent>>
      /\ sequence' \in [Kind -> Nat] /\ touched' \in BOOLEAN /\ rows' \subseteq Row /\ RowsStay
  BY WorkCalls, WorkRows
<1>2. SandboxTyped'
  BY <1>1 DEF SandboxSound, SandboxTyped
<1>3. RefsFollow' /\ RefsResolve'
  BY <1>1 DEF SandboxSound, RefsFollow, RefsResolve, RowsStay
<1>. QED BY <1>1, <1>2, <1>3 DEF SandboxSound

LEMMA SendSound ==
  ASSUME SandboxSound, SendCall
  PROVE  SandboxSound'
<1>1. PICK s \in Server, op \in Op, target \in RowId, run \in 0 .. MaxResets :
        /\ Send(s, op, target, run)
        /\ op = "append_blocks" => s = "notion"
        /\ op = "update_contact" => s = "crm" /\ target[1] = "person"
  <2>1. rows \subseteq Row /\ resets \in 0 .. MaxResets /\ 0 \in 0 .. MaxResets /\ Nobody \in RowId
    <3>1. rows \subseteq Row /\ resets \in 0 .. MaxResets
      BY DEF SandboxSound, SandboxTyped
    <3>2. Nobody \in RowId
      BY DEF Nobody, RowId, Kind
    <3>. QED BY <3>1, <3>2, BoundsTyped
  <2>2. \A kind : \A r \in OfKind(kind) : r.id \in RowId /\ r.id[1] = kind
    BY <2>1 DEF OfKind, Row
  <2>3. CASE Send("slack", "post", Nobody, 0)
    BY <2>1, <2>3 DEF Server, Op
  <2>4. CASE \E thread \in {Nobody} \cup {r.id : r \in OfKind("message")} :
               Send("slack", "post", thread, resets)
    BY <2>1, <2>2, <2>4 DEF Server, Op
  <2>5. CASE Send("notion", "create_page", Nobody, resets)
    BY <2>1, <2>5 DEF Server, Op
  <2>6. CASE \E r \in OfKind("page") : Send("notion", "append_blocks", r.id, resets)
    BY <2>1, <2>2, <2>6 DEF Server, Op
  <2>7. CASE \E r \in OfKind("person"), op \in {"update_contact", "log_activity"} :
               Send("crm", op, r.id, resets)
    BY <2>1, <2>2, <2>7 DEF Server, Op
  <2>. QED BY <2>3, <2>4, <2>5, <2>6, <2>7 DEF SendCall
<1>. DEFINE call == [NoCallHere EXCEPT !.op = op, !.at = "look", !.run = run,
                                       !.number = sent + 1, !.target = target]
<1>2. /\ calls' = [calls EXCEPT ![s] = call] /\ sent' = sent + 1 /\ sent < MaxCalls
      /\ UNCHANGED <<rows, sequence, runner, resets, touched>>
  BY <1>1 DEF Send
<1>3. sent \in Nat /\ sent' \in sent .. MaxCalls /\ sent' \in 0 .. MaxCalls
  BY <1>2, BoundsTyped DEF SandboxSound, SandboxTyped
<1>4. /\ call \in ServerCall /\ call.op = op /\ call.at = "look" /\ call.number = sent + 1
      /\ call.target = target
  <2>1. ASSUME NEW n \in Nat
        PROVE  LET d == [NoCallHere EXCEPT !.op = op, !.at = "look", !.run = run,
                                           !.number = n, !.target = target]
               IN  /\ d \in ServerCall /\ d.op = op /\ d.at = "look" /\ d.number = n
                   /\ d.target = target
    BY NoCallTyped DEF ServerCall
  <2>2. sent + 1 \in Nat
    BY <1>3
  <2>. QED BY <2>1, <2>2
<1>. HIDE DEF call
<1>5. calls'[s] = call
  BY <1>2 DEF SandboxSound, SandboxTyped
<1>6. CallFits(s)'
  BY <1>1, <1>2, <1>3, <1>4, <1>5 DEF CallFits
<1>7. calls' \in [Server -> ServerCall] /\ CallsFit'
  BY <1>2, <1>3, <1>4, <1>6, CallChanges
<1>8. SandboxTyped'
  <2>1. touched \in BOOLEAN
    BY DEF SandboxSound, SandboxTyped
  <2>2. touched' \in BOOLEAN
    BY <1>2, <2>1
  <2>. QED BY <1>2, <1>3, <1>7, <2>2 DEF SandboxSound, SandboxTyped
<1>9. RefsFollow' /\ RefsResolve'
  BY <1>2 DEF SandboxSound, RefsFollow, RefsResolve
<1>. QED BY <1>7, <1>8, <1>9 DEF SandboxSound

-----------------------------------------------------------------------------
\* Blocks

LEMMA SameBlocks ==
  ASSUME SandboxSound, SandboxSound', BlocksSound, OfKind("block")' = OfKind("block"),
         sequence'["block"] >= sequence["block"], Before <= Before',
         calls'["notion"].at = "append" =>
           /\ calls'["notion"].pos <= BlockCount * Before'
           /\ \A b \in OfKind("block") :
                calls'["notion"].target \in b.of => b.pos < calls'["notion"].pos
  PROVE  BlocksSound'
<1>1. /\ Before \in Nat /\ Before' \in Nat
      /\ BlockCount * Before \in Nat /\ BlockCount * Before' \in Nat
      /\ BlockCount * Before <= BlockCount * Before'
  BY BeforeTyped, NextBeforeTyped, RoomGrows, Zenon
<1>2. /\ sequence["block"] \in Nat /\ sequence'["block"] \in Nat
      /\ \A b \in OfKind("block") : b.pos \in Nat /\ b.id[2] \in Nat
  BY DEF SandboxSound, SandboxTyped, OfKind, Row, RowId, Kind
<1>3. \A b \in OfKind("block") :
        /\ b.id[2] <= sequence'["block"] /\ b.pos < BlockCount * Before'
        /\ \E page \in RowId : b.of = {page}
  BY <1>1, <1>2 DEF BlocksSound
<1>4. BlocksInOrder'
  BY DEF BlocksSound, BlocksInOrder
<1>. QED BY <1>3, <1>4 DEF BlocksSound

\* Without a step of the server of pages.
LEMMA OthersKeepBlocks ==
  ASSUME SandboxSound, SandboxSound', BlocksSound, OfKind("block")' = OfKind("block"),
         sequence'["block"] >= sequence["block"], calls'["notion"] = calls["notion"],
         sent' \in {sent, sent + 1}
  PROVE  BlocksSound'
<1>1. Before \in Nat /\ Before <= Before' /\ Before' \in Nat
  BY BeforeTyped, NextBeforeTyped DEF Before
<1>2. BlockCount * Before <= BlockCount * Before' /\ BlockCount * Before \in Nat
      /\ BlockCount * Before' \in Nat
  BY <1>1, RoomGrows, Zenon
<1>3. calls["notion"].pos \in Nat
  BY CallTyped DEF Server, ServerCall
<1>4. calls["notion"].at = "append" =>
        /\ calls["notion"].pos <= BlockCount * Before'
        /\ \A b \in OfKind("block") : calls["notion"].target \in b.of => b.pos < calls["notion"].pos
  BY <1>2, <1>3 DEF BlocksSound
<1>. QED BY <1>1, <1>4, SameBlocks

LEMMA RunnerBlocks ==
  ASSUME SandboxSound, SandboxSound', BlocksSound,
         ResetTables \/ LookForContainer \/ CreateContainer \/ TakeFixtureId \/ InsertFixture \/ EndRun
  PROVE  BlocksSound'
<1>1. calls' = calls /\ sent' = sent
  BY DEF ResetTables, LookForContainer, CreateContainer, TakeFixtureId, InsertFixture, EndRun, Filling
<1>2. CASE ResetTables
  <2>1. OfKind("block")' = {}
    BY <1>2 DEF ResetTables, OfKind
  <2>2. Before' = Before
    BY <1>1 DEF Before
  <2>. QED BY <1>1, <2>1, <2>2 DEF BlocksSound, BlocksInOrder
<1>3. CASE ~ResetTables
  <2>1. runner.at \in {"fill", "create", "insert"} => NextFixture.kind \in Kind \ {"block"}
    BY FixturesTyped DEF SandboxSound, SandboxTyped, RefsFollow, NextFixture, Fixture
  <2>2. sequence["block"] \in Nat /\ sequence \in [Kind -> Nat] /\ "block" \in Kind
    BY DEF SandboxSound, SandboxTyped, Kind
  <2>3. /\ sequence'["block"] = sequence["block"]
        /\ rows' = rows \/ \E row : rows' = rows \cup {row} /\ row.id[1] # "block"
    <3>1. CASE LookForContainer \/ EndRun
      BY <3>1 DEF LookForContainer, EndRun
    <3>2. CASE CreateContainer
      <4>. DEFINE row == NewRow(<<NextFixture.kind, sequence[NextFixture.kind] + 1>>, NextFixture.name, {})
      <4>1. row.id[1] # "block" /\ NextFixture.kind # "block" /\ NextFixture.kind \in Kind
        BY <2>1, <3>2 DEF CreateContainer, NewRow
      <4>. HIDE DEF row
      <4>2. UNCHANGED <<rows, sequence>> \/ (rows' = rows \cup {row} /\ TakeId(NextFixture.kind))
        BY <3>2 DEF CreateContainer, row
      <4>. QED BY <2>2, <4>1, <4>2 DEF TakeId
    <3>3. CASE TakeFixtureId
      BY <2>1, <2>2, <3>3 DEF TakeFixtureId, TakeId
    <3>4. CASE InsertFixture
      <4>1. FixtureRow.id[1] # "block" /\ sequence' = sequence
        BY <2>1, <3>4 DEF InsertFixture, FixtureRow, NewRow
      <4>2. rows' = rows \/ rows' = rows \cup {FixtureRow}
        BY <3>4 DEF InsertFixture
      <4>. QED BY <4>1, <4>2
    <3>. QED BY <1>3, <3>1, <3>2, <3>3, <3>4
  <2>4. OfKind("block")' = OfKind("block")
    BY <2>3 DEF OfKind
  <2>. QED BY <1>1, <2>2, <2>3, <2>4, OthersKeepBlocks
<1>. QED BY <1>2, <1>3

LEMMA SendBlocks ==
  ASSUME SandboxSound, SandboxSound', BlocksSound, SendCall
  PROVE  BlocksSound'
<1>1. PICK s \in Server : \E op, target, run : Send(s, op, target, run)
  BY DEF SendCall, Server
<1>2. /\ sent' = sent + 1 /\ UNCHANGED <<rows, sequence>> /\ calls[s].at = "idle"
      /\ \A r \in Server : r # s => calls'[r] = calls[r]
      /\ calls'[s].at = "look"
  BY <1>1 DEF Send, SandboxSound, SandboxTyped, NoCallHere
<1>3. OfKind("block")' = OfKind("block") /\ sequence["block"] \in Nat
  BY <1>2 DEF OfKind, SandboxSound, SandboxTyped, Kind
<1>4. CASE s # "notion"
  BY <1>2, <1>3, <1>4, OthersKeepBlocks DEF Server
<1>5. CASE s = "notion"
  <2>1. Before = sent /\ sent \in Nat
    BY <1>2, <1>5, CallTyped, BeforeTyped DEF Server, Before, CallFits
  <2>2. Before <= Before'
    BY <1>2, <2>1 DEF Before
  <2>. QED BY <1>2, <1>3, <1>5, <2>2, SameBlocks
<1>. QED BY <1>4, <1>5

LEMMA WorkBlocks ==
  ASSUME SandboxSound, SandboxSound', BlocksSound, NEW s \in Server, Work(s)
  PROVE  BlocksSound'
<1>. DEFINE c == calls[s]
<1>1. /\ c \in ServerCall /\ CallFits(s) /\ sequence \in [Kind -> Nat] /\ sequence["block"] \in Nat
      /\ sent' = sent /\ (AppendBlocks(s) \/ BlocksStay) /\ sent \in Nat
  BY CallTyped, WorkCalls, WorkRows, BeforeTyped DEF SandboxSound, SandboxTyped, Kind
<1>2. \A r \in Server \ {s} : calls'[r] = calls[r]
  BY DEF Work, Look, CreateChannel, Check, Take, Insert, Position, AppendBlocks, ReadContact,
         WriteContact, Ends, Goes, Finds, SandboxSound, SandboxTyped
<1>3. CASE AppendBlocks(s)
  <2>. DEFINE new(i) == [NewRow(<<"block", sequence["block"] + i>>, Unnamed, {c.target})
                           EXCEPT !.pos = c.pos + i - 1]
  <2>1. /\ rows' = rows \cup {new(i) : i \in 1 .. BlockCount}
        /\ sequence'["block"] = sequence["block"] + BlockCount
        /\ calls'[s] = NoCallHere /\ c.at = "append"
    BY <1>1, <1>3 DEF AppendBlocks, Ends, SandboxSound, SandboxTyped, Kind
  <2>2. s = "notion" /\ c.op = "append_blocks" /\ c.number \in 1 .. sent
    BY <1>1, <2>1 DEF CallFits
  <2>3. Before = sent - 1 /\ Before' = sent /\ calls'["notion"].at = "idle"
    BY <1>1, <2>1, <2>2 DEF Before, NoCallHere
  <2>4. /\ BlockCount * Before' = BlockCount * Before + BlockCount
        /\ BlockCount * Before \in Nat /\ BlockCount \in Nat \ {0}
    BY <1>1, <2>2, <2>3, BoundsTyped
  <2>5. /\ c.pos \in Nat /\ c.pos <= BlockCount * Before
        /\ \A b \in OfKind("block") : c.target \in b.of => b.pos < c.pos
    BY <1>1, <2>1, <2>2 DEF BlocksSound, ServerCall
  <2>6. \A i \in 1 .. BlockCount :
          /\ new(i).id = <<"block", sequence["block"] + i>> /\ new(i).of = {c.target}
          /\ new(i).pos = c.pos + i - 1
    BY DEF NewRow
  <2>. HIDE DEF new
  <2>7. OfKind("block")' = OfKind("block") \cup {new(i) : i \in 1 .. BlockCount}
    BY <2>1, <2>6 DEF OfKind
  <2>8. \A b \in OfKind("block") : b.id[2] \in Nat /\ b.pos \in Nat
    BY DEF SandboxSound, SandboxTyped, OfKind, Row, RowId
  <2>9. c.target \in RowId
    BY <1>1 DEF ServerCall
  <2>10. ASSUME NEW b \in OfKind("block")'
         PROVE  /\ b.id[2] <= sequence'["block"] /\ b.pos < BlockCount * Before'
                /\ \E page \in RowId : b.of = {page}
    <3>1. CASE b \in OfKind("block")
      BY <1>1, <2>1, <2>4, <2>8, <3>1 DEF BlocksSound
    <3>2. CASE b \notin OfKind("block")
      <4>1. PICK i \in 1 .. BlockCount : b = new(i)
        BY <2>7, <3>2
      <4>2. b.id[2] = sequence["block"] + i /\ b.pos = c.pos + i - 1 /\ b.of = {c.target}
        BY <2>6, <4>1
      <4>. QED BY <1>1, <2>1, <2>4, <2>5, <2>9, <4>2
    <3>. QED BY <3>1, <3>2
  <2>11. ASSUME NEW a \in OfKind("block")', NEW b \in OfKind("block")', a.of = b.of, a.id[2] < b.id[2]
         PROVE  a.pos < b.pos
    <3>1. CASE a \in OfKind("block") /\ b \in OfKind("block")
      BY <2>11, <3>1 DEF BlocksSound, BlocksInOrder
    <3>2. CASE a \in OfKind("block") /\ b \notin OfKind("block")
      <4>1. PICK i \in 1 .. BlockCount : b = new(i)
        BY <2>7, <3>2
      <4>2. b.pos = c.pos + i - 1 /\ b.of = {c.target}
        BY <2>6, <4>1
      <4>3. a.pos < c.pos /\ a.pos \in Nat
        BY <2>5, <2>8, <2>11, <3>2, <4>2
      <4>. QED BY <2>4, <2>5, <4>2, <4>3
    <3>3. CASE a \notin OfKind("block") /\ b \in OfKind("block")
      <4>1. PICK i \in 1 .. BlockCount : a = new(i)
        BY <2>7, <3>3
      <4>2. a.id[2] = sequence["block"] + i
        BY <2>6, <4>1
      <4>3. b.id[2] <= sequence["block"] /\ b.id[2] \in Nat
        BY <2>8, <3>3 DEF BlocksSound
      <4>. QED BY <1>1, <2>4, <2>11, <4>2, <4>3
    <3>4. CASE a \notin OfKind("block") /\ b \notin OfKind("block")
      <4>1. PICK i \in 1 .. BlockCount, j \in 1 .. BlockCount : a = new(i) /\ b = new(j)
        BY <2>7, <3>4
      <4>2. /\ a.id[2] = sequence["block"] + i /\ a.pos = c.pos + i - 1
            /\ b.id[2] = sequence["block"] + j /\ b.pos = c.pos + j - 1
        BY <2>6, <4>1
      <4>. QED BY <1>1, <2>4, <2>5, <2>11, <4>2
    <3>. QED BY <3>1, <3>2, <3>3, <3>4
  <2>. QED BY <2>3, <2>10, <2>11 DEF BlocksSound, BlocksInOrder
<1>4. CASE BlocksStay /\ s # "notion"
  <2>1. calls'["notion"] = calls["notion"]
    BY <1>2, <1>4 DEF Server
  <2>. QED BY <1>1, <1>4, <2>1, OthersKeepBlocks DEF BlocksStay
<1>5. CASE BlocksStay /\ s = "notion" /\ ~AppendBlocks(s)
  <2>1. CASE Position(s)
    <3>1. /\ calls'[s].at = "append" /\ calls'[s].pos = NextPosition(c.target)
          /\ calls'[s].target = c.target /\ calls'[s].op = c.op
      BY <1>1, <2>1 DEF Position, SandboxSound, SandboxTyped, ServerCall
    <3>2. Before' = Before
      BY <1>1, <1>5, <3>1 DEF Before
    <3>. QED BY <1>1, <1>5, <3>1, <3>2, PositionIsNext, SameBlocks, BeforeTyped DEF BlocksStay
  <2>2. CASE ~Position(s)
    <3>1. /\ calls'[s].at # "append"
          /\ calls'[s].op # "append_blocks" \/ calls'[s].op = c.op
      <4>. DEFINE d == calls'[s]
      <4>1. CASE Ends(s)
        BY <1>1, <4>1 DEF Ends, SandboxSound, SandboxTyped, NoCallHere
      <4>2. ASSUME NEW at, at # "append",
                   Goes(s, at) \/ (\E q : Finds(s, at, q))
                     \/ (\E t : calls' = [calls EXCEPT ![s].at = at, ![s].taken = t])
                     \/ (\E f : calls' = [calls EXCEPT ![s].at = at, ![s].fields = f])
            PROVE  d.at # "append" /\ d.op = c.op
        <5>1. calls[s] \in ServerCall /\ s \in DOMAIN calls
          BY <1>1 DEF SandboxSound, SandboxTyped
        <5>2. ASSUME Goes(s, at) PROVE d.at = at /\ d.op = c.op
          BY <5>1, <5>2 DEF Goes, ServerCall
        <5>3. ASSUME NEW q, Finds(s, at, q) PROVE d.at = at /\ d.op = c.op
          BY <5>1, <5>3 DEF Finds, ServerCall
        <5>4. ASSUME NEW t, calls' = [calls EXCEPT ![s].at = at, ![s].taken = t]
              PROVE  d.at = at /\ d.op = c.op
          BY <5>1, <5>4 DEF ServerCall
        <5>5. ASSUME NEW f, calls' = [calls EXCEPT ![s].at = at, ![s].fields = f]
              PROVE  d.at = at /\ d.op = c.op
          BY <5>1, <5>5 DEF ServerCall
        <5>. HIDE DEF d
        <5>. QED BY <4>2, <5>2, <5>3, <5>4, <5>5
      <4>3. CASE Look(s)
        <5>1. AfterLook(c.op) # "append"
          BY <1>1 DEF AfterLook, ServerCall, Op
        <5>2. Ends(s) \/ Goes(s, "create") \/ \E q : Finds(s, AfterLook(c.op), q)
          BY <4>3, Zenon DEF Look
        <5>. QED BY <4>1, <4>2, <5>1, <5>2
      <4>4. CASE CreateChannel(s)
        BY <4>1, <4>2, <4>4 DEF CreateChannel
      <4>5. CASE Check(s)
        <5>1. Ends(s) \/ Goes(s, "take") \/ Goes(s, "position")
          BY <4>5, Zenon DEF Check
        <5>. QED BY <4>1, <4>2, <5>1
      <4>6. CASE Take(s)
        BY <4>2, <4>6 DEF Take
      <4>7. CASE Insert(s) \/ WriteContact(s)
        BY <4>1, <4>7 DEF Insert, WriteContact
      <4>8. CASE ReadContact(s)
        BY <4>1, <4>2, <4>8 DEF ReadContact
      <4>. QED BY <1>5, <2>2, <4>3, <4>4, <4>5, <4>6, <4>7, <4>8 DEF Work
    <3>2. Before <= Before'
      BY <1>1, <1>5, <3>1, BeforeTyped DEF Before
    <3>. QED BY <1>1, <1>5, <3>1, <3>2, SameBlocks DEF BlocksStay
  <2>. QED BY <2>1, <2>2
<1>. QED BY <1>1, <1>3, <1>4, <1>5

-----------------------------------------------------------------------------
\* A reset no server writes into

Count(kind, n) == Cardinality({j \in 1 .. n : Fixtures[j].kind = kind})
CanonicalRow(i) == NewRow(CanonicalId(i), Fixtures[i].name, {IdOf(n) : n \in Fixtures[i].of})
TakenNow(kind) == IF runner.at = "insert" /\ NextFixture.kind = kind THEN 1 ELSE 0

(***************************************************************************)
(* Its rows are those of the fixtures it has inserted, with their          *)
(* canonical ids; the sequences have counted them, and the id just taken.  *)
(***************************************************************************)
Canonical ==
  runner.at # "idle" /\ ~touched =>
    /\ rows = {CanonicalRow(i) : i \in 1 .. runner.step - 1}
    /\ \A i \in 1 .. runner.step - 1 : runner.refs[Fixtures[i].name] = CanonicalId(i)
    /\ \A k \in Kind : sequence[k] = Count(k, runner.step - 1) + TakenNow(k)
    /\ runner.at = "insert" => runner.taken = Count(NextFixture.kind, runner.step)
    /\ runner.at = "create" => NextFixture.kind \in Container

LEMMA CountStarts ==
  ASSUME NEW kind
  PROVE  Count(kind, 0) = 0
<1>1. {j \in 1 .. 0 : Fixtures[j].kind = kind} = {}
  OBVIOUS
<1>. QED BY <1>1, FS_EmptySet DEF Count

LEMMA CountGoesOn ==
  ASSUME NEW kind, NEW n \in Nat \ {0}
  PROVE  /\ Count(kind, n - 1) \in Nat
         /\ Count(kind, n) = Count(kind, n - 1) + (IF Fixtures[n].kind = kind THEN 1 ELSE 0)
<1>. DEFINE Ahead == {j \in 1 .. n - 1 : Fixtures[j].kind = kind}
<1>1. IsFiniteSet(1 .. n - 1)
  BY FS_Interval
<1>2. Ahead \subseteq 1 .. n - 1 /\ n \notin Ahead
  OBVIOUS
<1>3. IsFiniteSet(Ahead) /\ Cardinality(Ahead) \in Nat
  BY <1>1, <1>2, FS_Subset, FS_CardinalityType
<1>4. 1 .. n = (1 .. n - 1) \cup {n}
  OBVIOUS
<1>5. CASE Fixtures[n].kind = kind
  <2>1. {j \in 1 .. n : Fixtures[j].kind = kind} = Ahead \cup {n}
    BY <1>4, <1>5
  <2>2. Cardinality(Ahead \cup {n}) = Cardinality(Ahead) + 1
    BY <1>2, <1>3, FS_AddElement
  <2>. QED BY <1>3, <1>5, <2>1, <2>2 DEF Count
<1>6. CASE Fixtures[n].kind # kind
  <2>1. {j \in 1 .. n : Fixtures[j].kind = kind} = Ahead
    BY <1>4, <1>6
  <2>. QED BY <1>3, <1>6, <2>1 DEF Count
<1>. QED BY <1>5, <1>6

LEMMA IdOfFixture ==
  ASSUME NEW i \in 1 .. Len(Fixtures)
  PROVE  IdOf(Fixtures[i].name) = CanonicalId(i)
<1>1. \A j \in DOMAIN Fixtures : Fixtures[j].name = Fixtures[i].name => j = i
  BY FixturesTyped, SandboxAssumption DEF SandboxAssumption
<1>. DEFINE CanonicalIds == {CanonicalId(j) : j \in DOMAIN Fixtures}
            Names(id) == \E j \in DOMAIN Fixtures :
                           Fixtures[j].name = Fixtures[i].name /\ CanonicalId(j) = id
<1>2. CanonicalId(i) \in CanonicalIds /\ Names(CanonicalId(i))
  BY FixturesTyped
<1>3. \A id \in CanonicalIds : Names(id) => id = CanonicalId(i)
  BY <1>1
<1>4. IdOf(Fixtures[i].name) = CHOOSE id \in CanonicalIds : Names(id)
  BY DEF IdOf
<1>. HIDE DEF CanonicalIds, Names
<1>. QED BY <1>2, <1>3, <1>4

\* The row of the fixture a reset is at has the canonical id, name and references.
LEMMA PlacedCanonical ==
  ASSUME SandboxSound, Canonical, runner.at \in {"fill", "create", "insert"}, ~touched, ~touched',
         rows' = rows \cup {CanonicalRow(runner.step)}, runner' = Placed(CanonicalId(runner.step)),
         \A k \in Kind : sequence'[k] = Count(k, runner.step)
  PROVE  Canonical'
<1>1. runner.step \in 1 .. Len(Fixtures)
  BY FixturesTyped DEF SandboxSound, SandboxTyped, RefsFollow
<1>2. /\ runner'.at \in {"fill", "filled"} /\ runner'.step = runner.step + 1
      /\ DOMAIN runner'.refs = DOMAIN runner.refs \cup {NextFixture.name}
      /\ \A n \in DOMAIN runner'.refs :
           runner'.refs[n] = IF n = NextFixture.name THEN CanonicalId(runner.step) ELSE runner.refs[n]
  BY DEF Placed
<1>3. 1 .. runner'.step - 1 = (1 .. runner.step - 1) \cup {runner.step}
  BY <1>1, <1>2
<1>4. rows' = {CanonicalRow(i) : i \in 1 .. runner'.step - 1}
  <2>1. rows = {CanonicalRow(i) : i \in 1 .. runner.step - 1}
    BY DEF Canonical
  <2>. QED BY <1>3, <2>1
<1>5. ASSUME NEW i \in 1 .. runner'.step - 1
      PROVE  runner'.refs[Fixtures[i].name] = CanonicalId(i)
  <2>1. CASE i = runner.step
    BY <1>2, <2>1 DEF NextFixture
  <2>2. CASE i # runner.step
    <3>1. i \in 1 .. runner.step - 1 /\ i \in DOMAIN Fixtures /\ runner.step \in DOMAIN Fixtures
      BY <1>1, <1>3, <2>2, FixturesTyped
    <3>2. Fixtures[i].name # NextFixture.name
      BY <2>2, <3>1, SandboxAssumption DEF SandboxAssumption, NextFixture
    <3>3. Fixtures[i].name \in DOMAIN runner.refs
      BY <3>1 DEF SandboxSound, RefsFollow
    <3>. QED BY <1>2, <3>1, <3>2, <3>3 DEF Canonical
  <2>. QED BY <2>1, <2>2
<1>6. ASSUME NEW k \in Kind
      PROVE  sequence'[k] = Count(k, runner'.step - 1) + TakenNow(k)'
  <2>1. runner'.step - 1 = runner.step /\ TakenNow(k)' = 0 /\ Count(k, runner.step) \in Nat
    <3>1. runner'.step - 1 = runner.step /\ runner.step + 1 \in Nat \ {0} /\ (runner.step + 1) - 1 = runner.step
      BY <1>1, <1>2
    <3>2. Count(k, (runner.step + 1) - 1) \in Nat
      BY <3>1, CountGoesOn
    <3>. QED BY <1>2, <3>1, <3>2 DEF TakenNow
  <2>. QED BY <2>1
<1>. QED BY <1>2, <1>4, <1>5, <1>6 DEF Canonical

LEMMA RunnerCanonical ==
  ASSUME SandboxSound, Canonical,
         ResetTables \/ LookForContainer \/ CreateContainer \/ TakeFixtureId \/ InsertFixture \/ EndRun
  PROVE  Canonical'
<1>1. CASE ResetTables
  <2>1. /\ rows' = {} /\ runner'.step = 1 /\ runner'.at \in {"fill", "filled"}
        /\ sequence' = [k \in Kind |-> 0]
    BY <1>1, FreshRunner DEF ResetTables, Begun
  <2>2. 1 .. runner'.step - 1 = {} /\ runner'.step - 1 = 0
    BY <2>1
  <2>3. \A k \in Kind : sequence'[k] = Count(k, runner'.step - 1) + TakenNow(k)'
    BY <2>1, <2>2, CountStarts DEF TakenNow
  <2>. QED BY <2>1, <2>2, <2>3 DEF Canonical
<1>2. CASE runner'.at = "idle" \/ touched'
  BY <1>2 DEF Canonical
<1>3. CASE ~ResetTables /\ runner'.at # "idle" /\ ~touched'
  <2>1. /\ UNCHANGED touched /\ ~touched /\ runner.at \in {"fill", "create", "insert"}
        /\ runner.step \in 1 .. Len(Fixtures) /\ NextFixture = Fixtures[runner.step]
        /\ NextFixture \in Fixture /\ NextFixture.kind \in Kind
    <3>1. UNCHANGED touched /\ runner.at \in {"fill", "create", "insert"}
      BY <1>3, FreshRunner DEF LookForContainer, CreateContainer, TakeFixtureId, InsertFixture, EndRun, Filling
    <3>2. ~touched
      BY <1>3, <3>1
    <3>. QED BY <3>1, <3>2, FixturesTyped DEF SandboxSound, SandboxTyped, RefsFollow, NextFixture, Fixture
  <2>2. /\ rows = {CanonicalRow(i) : i \in 1 .. runner.step - 1}
        /\ \A i \in 1 .. runner.step - 1 : runner.refs[Fixtures[i].name] = CanonicalId(i)
        /\ \A k \in Kind : sequence[k] = Count(k, runner.step - 1) + TakenNow(k)
        /\ runner.at = "insert" => runner.taken = Count(NextFixture.kind, runner.step)
        /\ runner.at = "create" => NextFixture.kind \in Container
    BY <2>1 DEF Canonical
  <2>3. \A k \in Kind :
          /\ Count(k, runner.step - 1) \in Nat
          /\ Count(k, runner.step) = Count(k, runner.step - 1) + (IF NextFixture.kind = k THEN 1 ELSE 0)
    <3>1. runner.step \in Nat \ {0} /\ Fixtures[runner.step].kind = NextFixture.kind
      BY <2>1, FixturesTyped
    <3>. QED BY <3>1, CountGoesOn
  <2>4. CanonicalId(runner.step) = <<NextFixture.kind, Count(NextFixture.kind, runner.step)>>
    BY DEF CanonicalId, Count, NextFixture
  <2>5. CASE LookForContainer
    <3>1. Named(NextFixture.kind, NextFixture.name) = {}
      <4>1. ASSUME NEW r \in rows, r.name = NextFixture.name PROVE FALSE
        <5>1. PICK i \in 1 .. runner.step - 1 : r = CanonicalRow(i)
          BY <2>2, <4>1
        <5>2. Fixtures[i].name = Fixtures[runner.step].name
          BY <2>1, <4>1, <5>1 DEF CanonicalRow, NewRow
        <5>. QED BY <2>1, <5>2, FixturesTyped, SandboxAssumption DEF SandboxAssumption
      <4>. QED BY <4>1 DEF Named
    <3>2. runner' = [runner EXCEPT !.at = "create"] /\ UNCHANGED <<rows, sequence>>
          /\ runner.at = "fill" /\ NextFixture.kind \in Container
      BY <2>5, <3>1 DEF LookForContainer
    <3>3. runner'.at = "create" /\ runner'.step = runner.step /\ runner'.refs = runner.refs
      BY <3>2 DEF SandboxSound, SandboxTyped
    <3>4. \A k \in Kind : TakenNow(k) = 0 /\ TakenNow(k)' = 0
      BY <3>2, <3>3 DEF TakenNow
    <3>5. NextFixture' = NextFixture
      BY <3>3 DEF NextFixture
    <3>. QED BY <2>2, <3>2, <3>3, <3>4, <3>5 DEF Canonical
  <2>6. CASE CreateContainer
    <3>. DEFINE row == NewRow(<<NextFixture.kind, sequence[NextFixture.kind] + 1>>, NextFixture.name, {})
    <3>1. rows' = rows \cup {row} /\ TakeId(NextFixture.kind) /\ runner' = Placed(row.id)
          /\ runner.at = "create"
      BY <1>3, <2>6, FreshRunner DEF CreateContainer
    <3>2. \A k \in Kind : TakenNow(k) = 0 /\ sequence[k] = Count(k, runner.step - 1)
      BY <2>2, <2>3, <3>1 DEF TakenNow
    <3>3. row.id = CanonicalId(runner.step)
      BY <2>1, <2>3, <2>4, <3>2 DEF NewRow
    <3>4. row = CanonicalRow(runner.step)
      <4>1. runner.step \in DOMAIN Fixtures /\ Fixtures[runner.step].kind \in Container
        BY <2>1, <2>2, <3>1, FixturesTyped
      <4>2. NextFixture.of = {}
        BY <2>1, <4>1, SandboxAssumption DEF SandboxAssumption
      <4>3. {IdOf(n) : n \in NextFixture.of} = {}
        BY <4>2
      <4>4. row = NewRow(CanonicalId(runner.step), NextFixture.name, {})
        BY <3>3 DEF NewRow
      <4>. QED BY <2>1, <4>3, <4>4 DEF CanonicalRow
    <3>5. \A k \in Kind : sequence'[k] = Count(k, runner.step)
      BY <2>1, <2>3, <3>1, <3>2 DEF TakeId, SandboxSound, SandboxTyped
    <3>. HIDE DEF row
    <3>. QED BY <1>3, <2>1, <3>1, <3>3, <3>4, <3>5, PlacedCanonical
  <2>7. CASE TakeFixtureId
    <3>1. /\ runner' = [runner EXCEPT !.at = "insert", !.taken = sequence[NextFixture.kind] + 1]
          /\ rows' = rows /\ TakeId(NextFixture.kind) /\ runner.at = "fill"
      BY <2>7 DEF TakeFixtureId
    <3>2. /\ runner'.at = "insert" /\ runner'.step = runner.step /\ runner'.refs = runner.refs
          /\ runner'.taken = sequence[NextFixture.kind] + 1 /\ NextFixture' = NextFixture
      BY <3>1 DEF SandboxSound, SandboxTyped, NextFixture
    <3>3. \A k \in Kind : sequence[k] = Count(k, runner.step - 1)
      BY <2>2, <2>3, <3>1 DEF TakenNow
    <3>4. \A k \in Kind : sequence'[k] = Count(k, runner.step - 1) + TakenNow(k)'
      <4>1. \A k \in Kind :
              sequence'[k] = Count(k, runner.step - 1) + (IF NextFixture.kind = k THEN 1 ELSE 0)
        BY <2>1, <2>3, <3>1, <3>3 DEF TakeId, SandboxSound, SandboxTyped
      <4>2. \A k : TakenNow(k)' = IF NextFixture.kind = k THEN 1 ELSE 0
        BY <3>2 DEF TakenNow
      <4>. QED BY <4>1, <4>2
    <3>5. runner'.taken = Count(NextFixture.kind, runner.step)
      BY <2>1, <2>3, <3>2, <3>3
    <3>. QED BY <2>2, <3>1, <3>2, <3>4, <3>5 DEF Canonical
  <2>8. CASE InsertFixture
    <3>1. rows' = rows \cup {FixtureRow} /\ UNCHANGED sequence /\ runner' = Placed(FixtureRow.id)
          /\ runner.at = "insert"
      BY <1>3, <2>8, FreshRunner DEF InsertFixture
    <3>2. FixtureRow.id = CanonicalId(runner.step)
      BY <2>2, <2>4, <3>1 DEF FixtureRow, NewRow
    <3>3. \A n \in NextFixture.of : runner.refs[n] = IdOf(n)
      <4>1. ASSUME NEW n \in NextFixture.of PROVE runner.refs[n] = IdOf(n)
        <5>1. PICK j \in 1 .. runner.step - 1 : n = Fixtures[j].name
          BY <2>1, FixturesTyped, SandboxAssumption DEF SandboxAssumption
        <5>2. j \in 1 .. Len(Fixtures)
          BY <2>1, FixturesTyped
        <5>. QED BY <2>2, <5>1, <5>2, IdOfFixture
      <4>. QED BY <4>1
    <3>4. {runner.refs[n] : n \in NextFixture.of} = {IdOf(n) : n \in NextFixture.of}
      BY <3>3
    <3>5. FixtureRow = CanonicalRow(runner.step)
      BY <2>1, <2>2, <2>4, <3>1, <3>4 DEF FixtureRow, CanonicalRow
    <3>6. \A k \in Kind : sequence'[k] = Count(k, runner.step)
      BY <2>2, <2>3, <3>1 DEF TakenNow
    <3>. QED BY <1>3, <2>1, <3>1, <3>2, <3>5, <3>6, PlacedCanonical
  <2>9. ~EndRun
    BY <1>3, FreshRunner DEF EndRun
  <2>. QED BY <1>3, <2>5, <2>6, <2>7, <2>8, <2>9
<1>. QED BY <1>1, <1>2, <1>3

LEMMA SameCanonical ==
  ASSUME SandboxSound, Canonical, UNCHANGED runner,
         touched' = TRUE \/ UNCHANGED <<rows, sequence, touched>>
  PROVE  Canonical'
<1>1. CASE touched' = TRUE
  BY <1>1 DEF Canonical
<1>2. CASE UNCHANGED <<rows, sequence, touched>>
  BY <1>2 DEF Canonical, TakenNow, NextFixture
<1>. QED BY <1>1, <1>2

LEMMA CanonicalMeans ==
  ASSUME SandboxSound, Canonical
  PROVE  ResetCanonical
<1>1. RefsResolve
  BY DEF SandboxSound
<1>2. ASSUME runner.at = "filled", ~touched PROVE CanonicalRows
  <2>1. runner.step - 1 = Len(Fixtures) /\ 1 .. runner.step - 1 = DOMAIN Fixtures
        /\ 1 .. Len(Fixtures) = DOMAIN Fixtures
    BY <1>2, FixturesTyped DEF SandboxSound, RefsFollow
  <2>2. rows = {CanonicalRow(i) : i \in DOMAIN Fixtures}
    BY <1>2, <2>1 DEF Canonical
  <2>3. ASSUME NEW k \in Kind
        PROVE  sequence[k] = Cardinality({i \in DOMAIN Fixtures : Fixtures[i].kind = k})
    <3>1. sequence[k] = Count(k, Len(Fixtures)) + 0 /\ sequence[k] \in Nat
      BY <1>2, <2>1 DEF Canonical, TakenNow, SandboxSound, SandboxTyped
    <3>2. Count(k, Len(Fixtures)) \in Nat
      <4>1. IsFiniteSet(1 .. Len(Fixtures))
        BY FixturesTyped, FS_Interval
      <4>2. {j \in 1 .. Len(Fixtures) : Fixtures[j].kind = k} \subseteq 1 .. Len(Fixtures)
        OBVIOUS
      <4>3. IsFiniteSet({j \in 1 .. Len(Fixtures) : Fixtures[j].kind = k})
        BY <4>1, <4>2, FS_Subset
      <4>. QED BY <4>3, FS_CardinalityType DEF Count
    <3>3. sequence[k] = Count(k, Len(Fixtures))
      BY <3>1, <3>2
    <3>4. {i \in DOMAIN Fixtures : Fixtures[i].kind = k} = {j \in 1 .. Len(Fixtures) : Fixtures[j].kind = k}
      BY <2>1
    <3>. QED BY <3>3, <3>4 DEF Count
  <2>. QED BY <2>2, <2>3 DEF CanonicalRows, CanonicalRow
<1>. QED BY <1>1, <1>2 DEF ResetCanonical

-----------------------------------------------------------------------------
\* Contacts

PersonRow(r) == r.id[1] = "person"

(***************************************************************************)
(* The ids of contacts are their own, and an update that has read its      *)
(* contact has read every field that is set on it.                         *)
(***************************************************************************)
FieldsSound ==
  /\ \A q, r \in rows : PersonRow(r) /\ q.id = r.id => q = r
  /\ LET call == calls["crm"]
     IN  call.at = "write" =>
           \A r \in rows, f \in ContactField :
             r.id = call.target /\ r.fields[f] # 0 => call.fields[f] # 0

\* A contact is there as it was, or new and without fields.
LEMMA SameFields ==
  ASSUME FieldsSound, NEW row, row.fields = Untouched, rows' = rows \cup {row},
         PersonRow(row) => ~Clashes(row), calls'["crm"] = calls["crm"]
  PROVE  FieldsSound'
<1>1. ASSUME NEW q \in rows', NEW r \in rows', PersonRow(r), q.id = r.id
      PROVE  q = r
  <2>1. \A p \in rows : PersonRow(row) => p.id # row.id
    BY DEF PersonRow, Clashes
  <2>2. PersonRow(q)
    BY <1>1 DEF PersonRow
  <2>. QED BY <1>1, <2>1, <2>2 DEF FieldsSound
<1>2. ASSUME NEW r \in rows', NEW f \in ContactField, calls'["crm"].at = "write",
             r.id = calls'["crm"].target, r.fields[f] # 0
      PROVE  calls'["crm"].fields[f] # 0
  <2>1. row.fields[f] = 0
    BY DEF Untouched
  <2>. QED BY <1>2, <2>1 DEF FieldsSound
<1>. QED BY <1>1, <1>2 DEF FieldsSound

LEMMA RowsKeepFields ==
  ASSUME FieldsSound, rows' = rows \/ rows' = {}, calls'["crm"] = calls["crm"]
  PROVE  FieldsSound'
BY DEF FieldsSound

LEMMA RunnerFields ==
  ASSUME SandboxSound, FieldsSound,
         ResetTables \/ LookForContainer \/ CreateContainer \/ TakeFixtureId \/ InsertFixture \/ EndRun
  PROVE  FieldsSound'
<1>1. calls' = calls
  BY DEF ResetTables, LookForContainer, CreateContainer, TakeFixtureId, InsertFixture, EndRun, Filling
<1>2. CASE rows' = rows \/ rows' = {}
  BY <1>1, <1>2, RowsKeepFields
<1>3. CASE ~(rows' = rows \/ rows' = {})
  <2>1. CASE CreateContainer
    <3>. DEFINE row == NewRow(<<NextFixture.kind, sequence[NextFixture.kind] + 1>>, NextFixture.name, {})
    <3>1. ~Clashes(row) /\ rows' = rows \cup {row}
      BY <1>3, <2>1 DEF CreateContainer
    <3>2. row.fields = Untouched
      BY DEF NewRow
    <3>. HIDE DEF row
    <3>. QED BY <1>1, <3>1, <3>2, SameFields
  <2>2. CASE InsertFixture
    <3>1. ~Clashes(FixtureRow) /\ rows' = rows \cup {FixtureRow}
      BY <1>3, <2>2 DEF InsertFixture
    <3>2. FixtureRow.fields = Untouched
      BY DEF FixtureRow, NewRow
    <3>. QED BY <1>1, <3>1, <3>2, SameFields
  <2>. QED BY <1>3, <2>1, <2>2 DEF ResetTables, LookForContainer, TakeFixtureId, EndRun
<1>. QED BY <1>2, <1>3

LEMMA SendFields ==
  ASSUME SandboxSound, FieldsSound, SendCall
  PROVE  FieldsSound'
<1>1. PICK s \in Server : \E op, target, run : Send(s, op, target, run)
  BY DEF SendCall, Server
<1>2. rows' = rows /\ calls'[s].at = "look" /\ \A r \in Server : r # s => calls'[r] = calls[r]
  BY <1>1 DEF Send, SandboxSound, SandboxTyped, NoCallHere
<1>3. CASE s = "crm"
  BY <1>2, <1>3 DEF FieldsSound
<1>4. CASE s # "crm"
  BY <1>2, <1>4, RowsKeepFields DEF Server
<1>. QED BY <1>3, <1>4

\* What the write of an update leaves of the contacts.
LEMMA WriteKeepsFields ==
  ASSUME SandboxSound, FieldsSound, NEW s \in Server, WriteContact(s)
  PROVE  /\ FieldsSound'
         /\ \A r \in rows, f \in ContactField :
              r.fields[f] # 0 => \E q \in rows' : q.id = r.id /\ q.fields[f] # 0
<1>. DEFINE c == calls[s]
<1>1. c.at = "write" /\ c \in ServerCall /\ CallFits(s) /\ rows \subseteq Row
  BY CallTyped DEF WriteContact, SandboxSound, SandboxTyped
<1>2. s = "crm" /\ c.target[1] = "person" /\ c.number \in 1 .. sent /\ c.fields \in [ContactField -> Nat]
  BY <1>1 DEF CallFits, ServerCall
<1>3. PICK f \in ContactField :
        rows' = {IF r.id = c.target THEN [r EXCEPT !.fields = MergedFields(c, f)] ELSE r : r \in rows}
  BY DEF WriteContact
<1>. DEFINE Updated(r) == IF r.id = c.target THEN [r EXCEPT !.fields = MergedFields(c, f)] ELSE r
<1>4. rows' = {Updated(r) : r \in rows}
  BY <1>3
<1>5. \A r \in rows : Updated(r).id = r.id
  BY <1>1 DEF Row
<1>6. ASSUME NEW r \in rows, NEW g \in ContactField, r.fields[g] # 0
      PROVE  Updated(r).fields[g] # 0
  <2>1. CASE r.id = c.target
    <3>1. Updated(r).fields[g] = IF g = f THEN c.number ELSE c.fields[g]
      BY <1>1, <1>2, <2>1 DEF MergedFields, Row
    <3>2. c.number # 0
      BY <1>2
    <3>3. c.fields[g] # 0
      BY <1>1, <1>2, <1>6, <2>1 DEF FieldsSound
    <3>. QED BY <3>1, <3>2, <3>3
  <2>2. CASE r.id # c.target
    BY <1>6, <2>2
  <2>. QED BY <2>1, <2>2
<1>7. calls'["crm"].at # "write"
  BY <1>2 DEF WriteContact, Ends, NoCallHere, SandboxSound, SandboxTyped
<1>. HIDE DEF Updated
<1>8. ASSUME NEW q \in rows', NEW r \in rows', PersonRow(r), q.id = r.id
      PROVE  q = r
  <2>1. PICK p \in rows, o \in rows : q = Updated(p) /\ r = Updated(o)
    BY <1>4
  <2>2. p.id = o.id /\ PersonRow(o)
    BY <1>5, <1>8, <2>1 DEF PersonRow
  <2>3. p = o
    BY <2>2 DEF FieldsSound
  <2>. QED BY <2>1, <2>3
<1>9. FieldsSound'
  BY <1>7, <1>8 DEF FieldsSound
<1>10. \A r \in rows, g \in ContactField :
         r.fields[g] # 0 => \E q \in rows' : q.id = r.id /\ q.fields[g] # 0
  BY <1>4, <1>5, <1>6
<1>. QED BY <1>9, <1>10

LEMMA WorkFields ==
  ASSUME SandboxSound, BlocksSound, FieldsSound, NEW s \in Server, Work(s)
  PROVE  FieldsSound'
<1>. DEFINE c == calls[s]
<1>1. /\ c \in ServerCall /\ CallFits(s) /\ rows \subseteq Row
      /\ \A r \in Server \ {s} : calls'[r] = calls[r]
  BY CallTyped
     DEF Work, Look, CreateChannel, Check, Take, Insert, Position, AppendBlocks, ReadContact,
         WriteContact, Ends, Goes, Finds, SandboxSound, SandboxTyped
<1>2. CASE WriteContact(s)
  BY <1>2, WriteKeepsFields
<1>3. CASE ReadContact(s)
  <2>1. rows' = rows /\ c.at = "read" /\ s = "crm" /\ c.target[1] = "person"
    BY <1>1, <1>3 DEF ReadContact, OnlyRead, CallFits
  <2>2. CASE Ends(s)
    <3>1. calls'["crm"].at # "write"
      BY <2>1, <2>2 DEF Ends, NoCallHere, SandboxSound, SandboxTyped
    <3>. QED BY <2>1, <3>1 DEF FieldsSound
  <2>3. CASE \E r \in RowAt(c.target) : calls' = [calls EXCEPT ![s].at = "write", ![s].fields = r.fields]
    <3>1. PICK r \in rows : r.id = c.target
                          /\ calls' = [calls EXCEPT ![s].at = "write", ![s].fields = r.fields]
      BY <2>3 DEF RowAt
    <3>2. calls'["crm"].target = c.target /\ calls'["crm"].fields = r.fields
      BY <1>1, <2>1, <3>1 DEF SandboxSound, SandboxTyped, ServerCall
    <3>3. \A q \in rows : q.id = c.target => q = r
      BY <2>1, <3>1 DEF FieldsSound, PersonRow
    <3>. QED BY <2>1, <3>2, <3>3 DEF FieldsSound
  <2>. QED BY <1>3, <2>2, <2>3 DEF ReadContact
<1>4. CASE ~WriteContact(s) /\ ~ReadContact(s)
  <2>1. rows \subseteq rows' /\ \A q \in rows' \ rows : Inserted(q)
    BY <1>4, WorkRows
  <2>2. ASSUME NEW q \in rows', NEW r \in rows', PersonRow(r), q.id = r.id
        PROVE  q = r
    BY <2>1, <2>2 DEF Inserted, PersonRow, FieldsSound
  <2>3. calls'["crm"] = calls["crm"] \/ calls'["crm"].at # "write"
    <3>1. CASE s # "crm"
      BY <1>1, <3>1 DEF Server
    <3>2. CASE s = "crm"
      <4>1. calls'[s].at # "write"
        <5>1. CASE Ends(s)
          BY <5>1 DEF Ends, SandboxSound, SandboxTyped, NoCallHere
        <5>2. ASSUME NEW at, at # "write",
                     Goes(s, at) \/ (\E q : Finds(s, at, q))
                       \/ (\E t : calls' = [calls EXCEPT ![s].at = at, ![s].taken = t])
                       \/ (\E n : calls' = [calls EXCEPT ![s].at = at, ![s].pos = n])
              PROVE  calls'[s].at # "write"
          BY <1>1, <5>2 DEF Goes, Finds, SandboxSound, SandboxTyped, ServerCall
        <5>3. CASE Look(s)
          <6>1. AfterLook(c.op) # "write"
            BY <1>1 DEF AfterLook, ServerCall, Op
          <6>2. Ends(s) \/ Goes(s, "create") \/ \E q : Finds(s, AfterLook(c.op), q)
            BY <5>3, Zenon DEF Look
          <6>. QED BY <5>1, <5>2, <6>1, <6>2
        <5>4. CASE CreateChannel(s)
          BY <5>1, <5>2, <5>4 DEF CreateChannel
        <5>5. CASE Check(s)
          <6>1. Ends(s) \/ Goes(s, "take") \/ Goes(s, "position")
            BY <5>5, Zenon DEF Check
          <6>. QED BY <5>1, <5>2, <6>1
        <5>6. CASE Take(s)
          BY <5>2, <5>6 DEF Take
        <5>7. CASE Insert(s) \/ AppendBlocks(s)
          BY <5>1, <5>7 DEF Insert, AppendBlocks
        <5>8. CASE Position(s)
          BY <5>2, <5>8 DEF Position
        <5>. QED BY <1>4, <5>3, <5>4, <5>5, <5>6, <5>7, <5>8 DEF Work
      <4>. QED BY <3>2, <4>1
    <3>. QED BY <3>1, <3>2
  <2>4. ASSUME NEW r \in rows', NEW f \in ContactField, calls'["crm"].at = "write",
               r.id = calls'["crm"].target, r.fields[f] # 0
        PROVE  calls'["crm"].fields[f] # 0
    <3>1. CASE r \in rows
      BY <2>3, <2>4, <3>1 DEF FieldsSound
    <3>2. CASE r \notin rows
      BY <2>1, <2>4, <3>2 DEF Inserted, Untouched
    <3>. QED BY <3>1, <3>2
  <2>. QED BY <2>2, <2>4 DEF FieldsSound
<1>. QED BY <1>2, <1>3, <1>4

-----------------------------------------------------------------------------
\* The specification

SandboxInv == SandboxSound /\ BlocksSound /\ Canonical /\ FieldsSound

LEMMA SandboxInvStarts == SandboxInit => SandboxInv
<1>. SUFFICES ASSUME SandboxInit PROVE SandboxInv
  OBVIOUS
<1>1. SandboxSound
  BY SandboxStarts
<1>2. rows = {} /\ calls["notion"].at = "idle" /\ calls["crm"].at = "idle" /\ runner.at = "idle"
  BY DEF SandboxInit, NoCallHere, Server, Fresh
<1>. QED BY <1>1, <1>2 DEF SandboxInv, BlocksSound, BlocksInOrder, Canonical, FieldsSound, OfKind

LEMMA SandboxInvStays == SandboxInv /\ [SandboxNext]_sandboxVars => SandboxInv'
<1>. SUFFICES ASSUME SandboxInv, [SandboxNext]_sandboxVars PROVE SandboxInv'
  OBVIOUS
<1>1. SandboxSound /\ BlocksSound /\ Canonical /\ FieldsSound
  BY DEF SandboxInv
<1>2. CASE ResetTables \/ LookForContainer \/ CreateContainer \/ TakeFixtureId \/ InsertFixture \/ EndRun
  <2>1. SandboxSound'
    BY <1>1, <1>2, ResetSound, RunnerSound
  <2>. QED BY <1>1, <1>2, <2>1, RunnerBlocks, RunnerCanonical, RunnerFields DEF SandboxInv
<1>3. CASE SendCall
  <2>1. SandboxSound' /\ BlocksSound' /\ FieldsSound'
    BY <1>1, <1>3, SendSound, SendBlocks, SendFields
  <2>2. UNCHANGED <<runner, rows, sequence, touched>>
    BY <1>3 DEF SendCall, Send
  <2>. QED BY <1>1, <2>1, <2>2, SameCanonical DEF SandboxInv
<1>4. ASSUME NEW s \in Server, Work(s) PROVE SandboxInv'
  <2>1. SandboxSound'
    BY <1>1, <1>4, WorkSound
  <2>2. BlocksSound' /\ FieldsSound'
    BY <1>1, <1>4, <2>1, WorkBlocks, WorkFields
  <2>3. UNCHANGED runner /\ (touched' = TRUE \/ UNCHANGED <<rows, sequence, touched>>)
    BY <1>1, <1>4, WorkCalls, WorkRows
  <2>. QED BY <1>1, <2>1, <2>2, <2>3, SameCanonical DEF SandboxInv
<1>5. CASE UNCHANGED sandboxVars
  <2>1. UNCHANGED <<rows, sequence, runner, calls, resets, sent, touched>>
    BY <1>5 DEF sandboxVars
  <2>2. SandboxSound'
    BY <1>1, <2>1 DEF SandboxSound, SandboxTyped, CallsFit, CallFits, RefsFollow, RefsResolve
  <2>3. BlocksSound'
    BY <1>1, <2>1 DEF BlocksSound, BlocksInOrder, OfKind, Before
  <2>4. Canonical' /\ FieldsSound'
    BY <1>1, <2>1, SameCanonical DEF FieldsSound
  <2>. QED BY <2>2, <2>3, <2>4 DEF SandboxInv
<1>. QED BY <1>2, <1>3, <1>4, <1>5 DEF SandboxNext

LEMMA SandboxKeeps == SandboxSpec => []SandboxInv
BY SandboxInvStarts, SandboxInvStays, PTL DEF SandboxSpec

(***************************************************************************)
(* The tables, sequences and calls have their types.                       *)
(***************************************************************************)
THEOREM SandboxTypes == SandboxSpec => []SandboxTypeOK
<1>1. ASSUME SandboxInv PROVE SandboxTypeOK
  <2>1. SandboxTyped /\ \A s \in Server : calls[s] \in ServerCall
    BY <1>1 DEF SandboxInv, SandboxSound, SandboxTyped
  <2>2. touched \in BOOLEAN
    BY <2>1 DEF SandboxTyped
  <2>3. DOMAIN runner.refs \subseteq Name
    BY <2>1 DEF SandboxTyped
  <2>. QED BY <2>1, <2>2, <2>3 DEF SandboxTypeOK, SandboxTyped, ServerCall
<1>. QED BY <1>1, SandboxKeeps, PTL

(***************************************************************************)
(* The rows of a reset that no server wrote into are the canonical ones,   *)
(* however the resets and calls before it ended.                           *)
(***************************************************************************)
THEOREM ResetsAreCanonical == SandboxSpec => []ResetCanonical
<1>1. ASSUME SandboxInv PROVE ResetCanonical
  BY <1>1, CanonicalMeans DEF SandboxInv
<1>. QED BY <1>1, SandboxKeeps, PTL

(***************************************************************************)
(* The blocks of a page are numbered in the order they were appended.      *)
(***************************************************************************)
THEOREM BlocksStayInOrder == SandboxSpec => []BlocksInOrder
<1>1. ASSUME SandboxInv PROVE BlocksInOrder
  BY <1>1 DEF SandboxInv, BlocksSound
<1>. QED BY <1>1, SandboxKeeps, PTL

(***************************************************************************)
(* No update loses a field of its contact.                                 *)
(***************************************************************************)
THEOREM UpdatesMerge == SandboxSpec => FieldsStay
<1>. DEFINE Stays == resets' = resets =>
              \A r \in rows, f \in ContactField :
                r.fields[f] # 0 => \E q \in rows' : q.id = r.id /\ q.fields[f] # 0
<1>1. ASSUME SandboxInv, [SandboxNext]_sandboxVars PROVE [Stays]_sandboxVars
  <2>1. SandboxSound /\ BlocksSound /\ FieldsSound
    BY <1>1 DEF SandboxInv
  <2>2. CASE rows \subseteq rows'
    BY <2>2
  <2>3. CASE ResetTables
    <3>1. resets' = resets + 1 /\ resets \in Nat
      BY <2>1, <2>3, BoundsTyped DEF ResetTables, SandboxSound, SandboxTyped
    <3>. QED BY <3>1
  <2>4. CASE LookForContainer \/ CreateContainer \/ TakeFixtureId \/ InsertFixture \/ EndRun
    <3>1. rows \subseteq rows'
      BY <2>4 DEF LookForContainer, CreateContainer, TakeFixtureId, InsertFixture, EndRun
    <3>. QED BY <2>2, <3>1
  <2>5. CASE SendCall
    <3>1. rows' = rows
      BY <2>5 DEF SendCall, Send
    <3>. QED BY <2>2, <3>1
  <2>6. ASSUME NEW s \in Server, Work(s) PROVE Stays
    <3>1. CASE WriteContact(s)
      BY <2>1, <3>1, WriteKeepsFields
    <3>2. CASE ~WriteContact(s)
      <4>1. rows \subseteq rows'
        BY <2>1, <2>6, <3>2, WorkRows
      <4>. QED BY <2>2, <4>1
    <3>. QED BY <3>1, <3>2
  <2>. QED BY <1>1, <2>3, <2>4, <2>5, <2>6 DEF SandboxNext
<1>. QED BY <1>1, SandboxKeeps, PTL DEF SandboxSpec, FieldsStay

-----------------------------------------------------------------------------
(***************************************************************************)
(* Verdicts.  Threads are flat: a message with replies is no reply, and a  *)
(* reply is younger than its thread.                                       *)
(***************************************************************************)
FlatThreads ==
  /\ IsFiniteSet(posts)
  /\ \A m \in posts :
       /\ m = [ts |-> m.ts, channel |-> m.channel, thread |-> m.thread, text |-> m.text, by |-> m.by]
       /\ m.ts \in Nat \ {0} /\ m.ts <= Cardinality(posts)
       /\ m.thread \in Nat /\ m.thread < m.ts
  /\ \A m, reply \in posts : reply.thread = m.ts => m.thread = 0

CreatedPage ==
  [title : Text,
   properties : UNION {[given -> SUBSET (Phrase \cup Day)] : given \in SUBSET DOMAIN Schema},
   blocks : Seq([type : BlockType, text : Text])]

\* Properties have values of their kinds.
SoundPages ==
  /\ created \in Seq(CreatedPage)
  /\ \A i \in DOMAIN created : \A name \in DOMAIN created[i].properties :
       created[i].properties[name] \in Value[name]

SoundActivities == \A a \in activities : a = [contact |-> a.contact, text |-> a.text]

VerdictsInv == FlatThreads /\ SoundPages /\ SoundActivities

LEMMA FixturesFlat == VerdictsInit => VerdictsInv
<1>. SUFFICES ASSUME VerdictsInit PROVE VerdictsInv
  OBVIOUS
<1>. DEFINE fixture(n) == [ts |-> n, channel |-> SummaryChannel, thread |-> n - 1, text |-> Phrase,
                           by |-> "fixture"]
<1>1. posts = {fixture(1), fixture(2)} /\ created = <<>> /\ activities = {}
  BY DEF VerdictsInit
<1>2. fixture(1) # fixture(2)
  <2>1. fixture(1).ts = 1 /\ fixture(2).ts = 2
    OBVIOUS
  <2>. QED BY <2>1
<1>3. IsFiniteSet({fixture(2)}) /\ Cardinality({fixture(2)}) = 1
  BY FS_Singleton
<1>4. posts = {fixture(2)} \cup {fixture(1)} /\ fixture(1) \notin {fixture(2)}
  BY <1>1, <1>2
<1>5. IsFiniteSet(posts) /\ Cardinality(posts) = 2
  <2>. HIDE DEF fixture
  <2>. QED BY <1>3, <1>4, FS_AddElement
<1>6. FlatThreads
  BY <1>1, <1>5 DEF FlatThreads
<1>. QED BY <1>1, <1>6 DEF VerdictsInv, SoundPages, SoundActivities

LEMMA PostsStayFlat ==
  ASSUME FlatThreads, PostMessage
  PROVE  FlatThreads'
<1>1. PICK channel \in SlackChannel, text \in Text, thread \in {0} \cup {m.ts : m \in posts} :
        /\ \A m \in posts : m.ts = thread => m.channel = channel /\ m.thread = 0
        /\ posts' = posts \cup {[ts |-> Cardinality(posts) + 1, channel |-> channel,
                                 thread |-> thread, text |-> text, by |-> "bot"]}
  BY DEF PostMessage
<1>. DEFINE new == [ts |-> Cardinality(posts) + 1, channel |-> channel,
                    thread |-> thread, text |-> text, by |-> "bot"]
<1>2. Cardinality(posts) \in Nat
  BY FS_CardinalityType DEF FlatThreads
<1>3. /\ new.ts = Cardinality(posts) + 1 /\ new.thread = thread
      /\ new = [ts |-> new.ts, channel |-> new.channel, thread |-> new.thread, text |-> new.text,
                by |-> new.by]
  OBVIOUS
<1>4. thread \in Nat /\ thread <= Cardinality(posts)
  BY <1>2 DEF FlatThreads
<1>. HIDE DEF new
<1>5. new \notin posts
  BY <1>2, <1>3 DEF FlatThreads
<1>6. IsFiniteSet(posts') /\ Cardinality(posts') = Cardinality(posts) + 1
  BY <1>1, <1>5, FS_AddElement DEF FlatThreads, new
<1>7. posts' = posts \cup {new}
  BY <1>1 DEF new
<1>8. \A m \in posts' :
        /\ m = [ts |-> m.ts, channel |-> m.channel, thread |-> m.thread, text |-> m.text, by |-> m.by]
        /\ m.ts \in Nat \ {0} /\ m.ts <= Cardinality(posts')
        /\ m.thread \in Nat /\ m.thread < m.ts
  BY <1>2, <1>3, <1>4, <1>6, <1>7 DEF FlatThreads
<1>9. ASSUME NEW m \in posts', NEW reply \in posts', reply.thread = m.ts
      PROVE  m.thread = 0
  <2>1. CASE m = new
    <3>1. m.ts = Cardinality(posts) + 1
      BY <1>3, <2>1
    <3>2. CASE reply = new
      BY <1>2, <1>3, <1>4, <1>9, <3>1, <3>2
    <3>3. CASE reply \in posts
      <4>1. reply.thread < reply.ts /\ reply.ts <= Cardinality(posts) /\ reply.thread \in Nat
            /\ reply.ts \in Nat
        BY <3>3 DEF FlatThreads
      <4>. QED BY <1>2, <1>9, <3>1, <4>1
    <3>. QED BY <1>7, <3>2, <3>3
  <2>2. CASE m \in posts /\ reply = new
    BY <1>1, <1>3, <1>9, <2>2
  <2>3. CASE m \in posts /\ reply \in posts
    BY <1>9, <2>3 DEF FlatThreads
  <2>. QED BY <1>7, <2>1, <2>2, <2>3
<1>. QED BY <1>6, <1>8, <1>9 DEF FlatThreads

LEMMA PagesStaySound ==
  ASSUME SoundPages, CreatePage \/ AppendBlock
  PROVE  SoundPages'
<1>1. CASE CreatePage
  <2>1. PICK title \in Text, given \in SUBSET DOMAIN Schema :
          \E properties \in [given -> SUBSET (Phrase \cup Day)] :
            /\ \A name \in given : properties[name] \in Value[name]
            /\ created' = Append(created, [title |-> title, properties |-> properties, blocks |-> <<>>])
    BY <1>1 DEF CreatePage
  <2>2. PICK properties \in [given -> SUBSET (Phrase \cup Day)] :
          /\ \A name \in given : properties[name] \in Value[name]
          /\ created' = Append(created, [title |-> title, properties |-> properties, blocks |-> <<>>])
    BY <2>1
  <2>. DEFINE page == [title |-> title, properties |-> properties, blocks |-> <<>>]
  <2>3. page \in CreatedPage /\ page.properties = properties /\ DOMAIN properties = given
    BY DEF CreatedPage
  <2>. HIDE DEF page
  <2>4. created' = Append(created, page)
    BY <2>2 DEF page
  <2>. QED BY <2>2, <2>3, <2>4 DEF SoundPages
<1>2. CASE AppendBlock
  <2>1. PICK i \in DOMAIN created, type \in BlockType, text \in Text :
          created' = [created EXCEPT ![i].blocks = Append(@, [type |-> type, text |-> text])]
    BY <1>2 DEF AppendBlock
  <2>2. created[i] \in CreatedPage /\ i \in 1 .. Len(created) /\ DOMAIN created = 1 .. Len(created)
    BY DEF SoundPages
  <2>. DEFINE blocks == Append(created[i].blocks, [type |-> type, text |-> text])
              page == [created[i] EXCEPT !.blocks = blocks]
  <2>3. blocks \in Seq([type : BlockType, text : Text])
    BY <2>2 DEF CreatedPage
  <2>. HIDE DEF blocks
  <2>4. page \in CreatedPage /\ page.properties = created[i].properties
    BY <2>2, <2>3 DEF CreatedPage
  <2>5. created' = [created EXCEPT ![i] = page]
    BY <2>1 DEF blocks
  <2>. HIDE DEF page
  <2>6. created' \in Seq(CreatedPage) /\ DOMAIN created' = DOMAIN created
        /\ \A j \in DOMAIN created : created'[j] = IF j = i THEN page ELSE created[j]
    BY <2>2, <2>4, <2>5 DEF SoundPages
  <2>. QED BY <2>4, <2>6 DEF SoundPages
<1>. QED BY <1>1, <1>2

LEMMA VerdictsKeep == VerdictsSpec => []VerdictsInv
<1>1. ASSUME VerdictsInv, [VerdictsNext]_verdictVars PROVE VerdictsInv'
  <2>1. CASE PostMessage
    BY <1>1, <2>1, PostsStayFlat DEF VerdictsInv, SoundPages, SoundActivities, PostMessage
  <2>2. CASE CreatePage \/ AppendBlock
    <3>1. UNCHANGED <<posts, activities>>
      BY <2>2 DEF CreatePage, AppendBlock
    <3>. QED BY <1>1, <2>2, <3>1, PagesStaySound DEF VerdictsInv, FlatThreads, SoundActivities
  <2>3. CASE LogNote
    <3>1. SoundActivities'
      BY <1>1, <2>3 DEF VerdictsInv, SoundActivities, LogNote
    <3>. QED BY <1>1, <2>3, <3>1 DEF VerdictsInv, FlatThreads, SoundPages, LogNote
  <2>4. CASE UNCHANGED verdictVars
    BY <1>1, <2>4 DEF VerdictsInv, FlatThreads, SoundPages, SoundActivities, verdictVars
  <2>. QED BY <1>1, <2>1, <2>2, <2>3, <2>4 DEF VerdictsNext
<1>. QED BY <1>1, FixturesFlat, PTL DEF VerdictsSpec

-----------------------------------------------------------------------------
\* What the two snapshots have in common

LEMMA SameMessages ==
  ASSUME FlatThreads
  PROVE  SandboxEnd.messages = LiveEnd.messages
<1>1. ASSUME NEW m \in posts PROVE LiveThread(m) = m.thread
  <2>1. CASE \E reply \in posts : reply.thread = m.ts
    BY <2>1 DEF FlatThreads, LiveThread, SlackThread
  <2>2. CASE ~ \E reply \in posts : reply.thread = m.ts
    BY <2>2 DEF FlatThreads, LiveThread, SlackThread
  <2>. QED BY <2>1, <2>2
<1>2. \A m \in posts : SandboxMessage(m) = LiveMessage(m)
  BY <1>1 DEF SandboxMessage, LiveMessage
<1>3. {SandboxMessage(m) : m \in posts} = {LiveMessage(m) : m \in posts}
  BY <1>2
<1>. QED BY <1>3 DEF SandboxEnd, LiveEnd

LEMMA SameActivities ==
  ASSUME SoundActivities
  PROVE  SandboxEnd.activities = LiveEnd.activities
<1>1. ASSUME NEW a \in activities PROVE a \in LiveActivities
  <2>. DEFINE note == [body |-> a.text, targets |-> {a.contact}]
  <2>1. note \in Notes /\ a = [contact |-> a.contact, text |-> note.body] /\ a.contact \in note.targets
    BY DEF SoundActivities, Notes
  <2>2. a \in {[contact |-> contact, text |-> note.body] : contact \in note.targets}
    BY <2>1
  <2>. HIDE DEF note
  <2>. QED BY <2>1, <2>2 DEF LiveActivities
<1>2. ASSUME NEW a \in LiveActivities PROVE a \in activities
  <2>1. PICK note \in Notes : a \in {[contact |-> contact, text |-> note.body] : contact \in note.targets}
    BY DEF LiveActivities
  <2>2. PICK b \in activities : note = [body |-> b.text, targets |-> {b.contact}]
    BY <2>1 DEF Notes
  <2>3. a = [contact |-> b.contact, text |-> b.text]
    BY <2>1, <2>2
  <2>. QED BY <2>3 DEF SoundActivities
<1>. QED BY <1>1, <1>2 DEF SandboxEnd, LiveEnd

\* A page read back is as it was written, but for empty properties.
LEMMA SamePages ==
  ASSUME SoundPages
  PROVE  /\ DOMAIN SandboxEnd.pages = DOMAIN LiveEnd.pages
         /\ \A i \in DOMAIN SandboxEnd.pages :
              /\ LiveEnd.pages[i].title = SandboxEnd.pages[i].title
              /\ LiveEnd.pages[i].blocks = SandboxEnd.pages[i].blocks
              /\ \A name \in DOMAIN Schema : \A value \in Value[name] \ {{}} :
                   PropertyOf(LiveEnd.pages[i], name) = value
                     <=> PropertyOf(SandboxEnd.pages[i], name) = value
<1>1. SandboxEnd.pages = created /\ DOMAIN LiveEnd.pages = DOMAIN created
      /\ \A i \in DOMAIN created : LiveEnd.pages[i] = LivePage(created[i])
  BY DEF SandboxEnd, LiveEnd
<1>2. ASSUME NEW i \in DOMAIN created
      PROVE  LET page == created[i]
             IN  /\ LivePage(page).title = page.title /\ LivePage(page).blocks = page.blocks
                 /\ DOMAIN LivePage(page).properties = DOMAIN Schema
                 /\ \A name \in DOMAIN Schema :
                      LivePage(page).properties[name] =
                        IF name \in DOMAIN page.properties THEN page.properties[name]
                        ELSE Empty(Schema[name])
  <2>. DEFINE page == created[i]
              notion == Stored(ToNotion(page.properties))
              read == [name \in DOMAIN Schema |-> notion[name][Schema[name]]]
  <2>1. page \in CreatedPage
    BY DEF SoundPages
  <2>2. LivePage(page) = [page EXCEPT !.properties = read]
    BY DEF LivePage
  <2>3. ASSUME NEW name \in DOMAIN Schema
        PROVE  read[name] = IF name \in DOMAIN page.properties THEN page.properties[name]
                            ELSE Empty(Schema[name])
    <3>1. CASE name \in DOMAIN page.properties
      BY <3>1 DEF Stored, ToNotion
    <3>2. CASE name \notin DOMAIN page.properties
      BY <3>2 DEF Stored, ToNotion
    <3>. QED BY <3>1, <3>2
  <2>4. DOMAIN read = DOMAIN Schema
    OBVIOUS
  <2>. HIDE DEF read
  <2>5. /\ LivePage(page).title = page.title /\ LivePage(page).blocks = page.blocks
        /\ LivePage(page).properties = read
    BY <2>1, <2>2 DEF CreatedPage
  <2>. QED BY <2>3, <2>4, <2>5
<1>3. ASSUME NEW i \in DOMAIN created, NEW name \in DOMAIN Schema, NEW value \in Value[name] \ {{}}
      PROVE  PropertyOf(LivePage(created[i]), name) = value <=> PropertyOf(created[i], name) = value
  <2>. DEFINE page == created[i]
  <2>1. CASE name \in DOMAIN page.properties
    BY <1>2, <2>1 DEF PropertyOf
  <2>2. CASE name \notin DOMAIN page.properties
    <3>1. PropertyOf(LivePage(page), name) = Empty(Schema[name]) /\ PropertyOf(page, name) = None
      BY <1>2, <2>2 DEF PropertyOf
    <3>2. CASE name = "due"
      BY <3>1, <3>2 DEF Empty, Schema
    <3>3. CASE name \in {"tags", "summary"}
      <4>1. Empty(Schema[name]) = {}
        BY <3>3 DEF Empty, Schema
      <4>2. value \subseteq Phrase /\ value # {} /\ Null \notin Phrase
        BY <3>3, VerdictsAssumption DEF Value, VerdictsAssumption
      <4>. QED BY <3>1, <4>1, <4>2 DEF None
    <3>. QED BY <3>2, <3>3 DEF Schema
  <2>. QED BY <2>1, <2>2
<1>. QED BY <1>1, <1>2, <1>3

-----------------------------------------------------------------------------
\* The validators, on two end states that have that in common

Alike(state, other) ==
  /\ state.messages = other.messages /\ state.activities = other.activities
  /\ DOMAIN state.pages = DOMAIN other.pages
  /\ \A i \in DOMAIN state.pages :
       /\ other.pages[i].title = state.pages[i].title
       /\ other.pages[i].blocks = state.pages[i].blocks
       /\ \A name \in DOMAIN Schema : \A value \in Value[name] \ {{}} :
            PropertyOf(other.pages[i], name) = value <=> PropertyOf(state.pages[i], name) = value

LEMMA SameOfMessages ==
  ASSUME NEW state, NEW other, state.messages = other.messages,
         NEW channel, NEW thread
  PROVE  /\ SlackMessagePosted(state, channel, thread) = SlackMessagePosted(other, channel, thread)
         /\ Latest(state, channel, thread) = Latest(other, channel, thread)
<1>1. BotMessages(state, channel, thread) = BotMessages(other, channel, thread)
  BY DEF BotMessages
<1>. QED BY <1>1 DEF SlackMessagePosted, Latest

LEMMA SamePage ==
  ASSUME NEW state, NEW other, Alike(state, other), NEW phrase
  PROVE  MatchingPages(state, phrase) = MatchingPages(other, phrase)
BY DEF Alike, MatchingPages

LEMMA SameOfPages ==
  ASSUME NEW state, NEW other, Alike(state, other), NEW phrase
  PROVE  /\ NotionPageCreated(state, phrase) <=> NotionPageCreated(other, phrase)
         /\ \A name \in DOMAIN Schema : \A value \in Value[name] \ {{}} :
              NotionPropertyEquals(state, phrase, name, value)
                <=> NotionPropertyEquals(other, phrase, name, value)
         /\ \A terms, least :
              NotionTodosMention(state, phrase, terms, least)
                <=> NotionTodosMention(other, phrase, terms, least)
<1>. DEFINE Match == {j \in MatchingPages(state, phrase) : MatchingPages(state, phrase) = {j}}
<1>1. Match \subseteq DOMAIN state.pages
  BY DEF MatchingPages
<1>2. /\ TheMatchingPage(state, phrase) = {state.pages[i] : i \in Match}
      /\ TheMatchingPage(other, phrase) = {other.pages[i] : i \in Match}
  BY SamePage DEF TheMatchingPage
<1>. HIDE DEF Match
<1>3. NotionPageCreated(state, phrase) <=> NotionPageCreated(other, phrase)
  BY SamePage DEF NotionPageCreated
<1>4. ASSUME NEW name \in DOMAIN Schema, NEW value \in Value[name] \ {{}}
      PROVE  NotionPropertyEquals(state, phrase, name, value)
               <=> NotionPropertyEquals(other, phrase, name, value)
  <2>1. \A i \in Match :
          PropertyOf(other.pages[i], name) = value <=> PropertyOf(state.pages[i], name) = value
    BY <1>1 DEF Alike
  <2>. QED BY <1>2, <2>1 DEF NotionPropertyEquals
<1>5. ASSUME NEW terms, NEW least
      PROVE  NotionTodosMention(state, phrase, terms, least)
               <=> NotionTodosMention(other, phrase, terms, least)
  <2>. DEFINE Todos(blocks) == {i \in DOMAIN blocks : blocks[i].type = "to_do"}
              Mention(blocks) == /\ Cardinality(Todos(blocks)) >= least
                                 /\ terms \subseteq UNION {blocks[i].text : i \in Todos(blocks)}
  <2>1. \A s : NotionTodosMention(s, phrase, terms, least)
                 <=> \E page \in TheMatchingPage(s, phrase) : Mention(page.blocks)
    BY Zenon DEF NotionTodosMention
  <2>2. \A i \in Match : other.pages[i].blocks = state.pages[i].blocks
    BY <1>1 DEF Alike
  <2>. HIDE DEF Mention
  <2>. QED BY <1>2, <2>1, <2>2
<1>. QED BY <1>3, <1>4, <1>5

LEMMA AlikePass ==
  ASSUME NEW state, NEW other, Alike(state, other)
  PROVE  Passed(state) = Passed(other)
<1>1. state.messages = other.messages /\ state.activities = other.activities
  BY DEF Alike
<1>2. \A c, t : SlackMessagePosted(state, c, t) = SlackMessagePosted(other, c, t)
  BY <1>1, SameOfMessages
<1>3. ASSUME NEW c, NEW t, NEW x
      PROVE  /\ MessageMentionsTerms(state, c, t, x) = MessageMentionsTerms(other, c, t, x)
             /\ MessageExcludesTerms(state, c, t, x) = MessageExcludesTerms(other, c, t, x)
             /\ MessageMentionsAmount(state, c, t, x) = MessageMentionsAmount(other, c, t, x)
  <2>1. Latest(state, c, t) = Latest(other, c, t)
    BY <1>1, SameOfMessages
  <2>. QED BY <2>1 DEF MessageMentionsTerms, MessageExcludesTerms, MessageMentionsAmount
<1>4. \A c, p : CrmActivityLogged(state, c, p) = CrmActivityLogged(other, c, p)
  BY <1>1 DEF CrmActivityLogged
<1>5. Passed(state).posted = Passed(other).posted
  BY <1>2 DEF Passed
<1>6. /\ Passed(state).mentions = Passed(other).mentions
      /\ Passed(state).excludes = Passed(other).excludes
      /\ Passed(state).amounts = Passed(other).amounts
  BY <1>3 DEF Passed
<1>7. Passed(state).notes = Passed(other).notes
  BY <1>4 DEF Passed
<1>8. Passed(state).pages = Passed(other).pages
  BY SameOfPages DEF Passed
<1>9. Passed(state).todos = Passed(other).todos
  BY SameOfPages DEF Passed
<1>10. Passed(state).property = Passed(other).property
  <2>. DEFINE Right(s, name) ==
                {x \in Phrase \X (Value[name] \ {{}}) : NotionPropertyEquals(s, x[1], name, x[2])}
  <2>1. ASSUME NEW name \in DOMAIN Schema PROVE Right(state, name) = Right(other, name)
    <3>1. ASSUME NEW x \in Phrase \X (Value[name] \ {{}})
          PROVE  NotionPropertyEquals(state, x[1], name, x[2])
                   <=> NotionPropertyEquals(other, x[1], name, x[2])
      <4>1. x[2] \in Value[name] \ {{}}
        OBVIOUS
      <4>. QED BY <4>1, SameOfPages
    <3>. QED BY <3>1
  <2>. QED BY <2>1 DEF Passed
<1>. QED BY <1>5, <1>6, <1>7, <1>8, <1>9, <1>10 DEF Passed

(***************************************************************************)
(* Every validator a task may configure passes in the sandbox when, and    *)
(* only when, it passes live, whatever was written.                        *)
(***************************************************************************)
THEOREM VerdictsAgree == VerdictsSpec => []SameVerdictInBothModes
<1>1. ASSUME VerdictsInv PROVE SameVerdictInBothModes
  <2>1. Alike(SandboxEnd, LiveEnd)
    BY <1>1, SameMessages, SameActivities, SamePages DEF VerdictsInv, Alike
  <2>. QED BY <2>1, AlikePass DEF SameVerdictInBothModes
<1>. QED BY <1>1, VerdictsKeep, PTL
-----------------------------------------------------------------------------
(***************************************************************************)
(* Types.  What the invariants above leave open of a component's types     *)
(* rests on them.                                                          *)
(***************************************************************************)

ChannelsRest ==
  /\ skew \in Skews
  /\ worker.found \subseteq 0 .. now /\ worker.thread \in 0 .. now
  /\ channelRun \in 0 .. ChannelRuns /\ asked \in 0 .. ChannelWrites
  /\ seen.messages \subseteq messages /\ seen.run \in 0 .. ChannelRuns

LEMMA ChannelsRestStep ==
  ASSUME ChannelsInv, ChannelsRest, [ChannelsNext]_channelVars PROVE ChannelsRest'
<1>1. /\ now \in Nat /\ channelRun \in Nat /\ worker \in Worker /\ messages \subseteq Message
      /\ pages \subseteq Page /\ WrittenByNow /\ ChannelRuns \in Nat /\ ChannelWrites \in Nat
      /\ 0 .. now \subseteq 0 .. now + 1 /\ now + 1 \in 0 .. now + 1
  BY LiveChannelsAssumption DEF ChannelsInv, ChannelsTyped
<1>2. Off.found = {} /\ Off.thread = 0 /\ NotSeen.run = 0 /\ NotSeen.messages = {}
  BY DEF Off, NotSeen
<1>3. CASE StartReset
  <2>1. worker'.found = {} /\ worker'.thread = 0
    BY <1>3 DEF StartReset, Off
  <2>2. channelRun' \in 0 .. ChannelRuns
    BY <1>1, <1>3 DEF StartReset
  <2>. QED BY <1>1, <1>2, <1>3, <2>1, <2>2 DEF StartReset, ChannelsRest
<1>4. CASE Resolve \/ BreakOff
  <2>1. worker' = Off \/ (worker'.found = worker.found /\ worker'.thread = worker.thread)
    BY <1>1, <1>4 DEF Resolve, BreakOff, Worker
  <2>. QED BY <1>1, <1>2, <1>4, <2>1 DEF Resolve, BreakOff, Idle, ChannelsRest
<1>5. CASE PostThread
  <2>1. now' = now + 1 /\ messages \subseteq messages' /\ UNCHANGED <<skew, channelRun, asked, seen>>
    BY <1>5 DEF PostThread, PostAs, Idle
  <2>2. worker'.found = worker.found /\ worker'.thread \in {worker.thread, now + 1}
    BY <1>1, <1>5 DEF PostThread, Worker
  <2>. QED BY <1>1, <2>1, <2>2 DEF ChannelsRest
<1>6. CASE QueryPages
  <2>1. worker'.found = {p.id : p \in Live} /\ worker'.thread = worker.thread
    BY <1>1, <1>6 DEF QueryPages, Worker
  <2>2. {p.id : p \in Live} \subseteq 0 .. now
    BY <1>1 DEF Live, WrittenByNow, Page
  <2>. QED BY <1>6, <2>1, <2>2 DEF QueryPages, Idle, ChannelsRest
<1>7. CASE TrashPage
  <2>1. worker'.found \subseteq worker.found /\ worker'.thread = worker.thread
    BY <1>1, <1>7 DEF TrashPage, Worker
  <2>. QED BY <1>7, <2>1 DEF TrashPage, Idle, ChannelsRest
<1>8. CASE CreateFixturePage
  <2>1. worker'.found = worker.found /\ worker'.thread = worker.thread /\ now' = now + 1
    BY <1>1, <1>8 DEF CreateFixturePage, CreateAs, Worker
  <2>. QED BY <1>1, <1>8, <2>1 DEF CreateFixturePage, Idle, ChannelsRest
<1>9. CASE Snapshot
  <2>1. seen'.run = channelRun /\ seen'.messages \subseteq messages /\ worker' = Off
    BY <1>9 DEF Snapshot, History
  <2>. QED BY <1>1, <1>2, <1>9, <2>1 DEF Snapshot, ChannelsRest
<1>10. CASE AskServer
  <2>1. /\ asked' = asked + 1 /\ asked < ChannelWrites
        /\ UNCHANGED <<now, skew, messages, worker, channelRun, seen>>
    BY <1>10 DEF AskServer, Ask
  <2>. QED BY <1>1, <2>1 DEF ChannelsRest
<1>11. CASE ResolveChannel \/ UNCHANGED channelVars
  BY <1>11 DEF ResolveChannel, channelVars, ChannelsRest
<1>12. ASSUME NEW s \in {"slack", "notion"}, Publish(s) PROVE ChannelsRest'
  <2>1. /\ now' \in {now, now + 1} /\ messages \subseteq messages'
        /\ UNCHANGED <<skew, worker, channelRun, asked, seen>>
    BY <1>12 DEF Publish, PostAs, CreateAs
  <2>. QED BY <1>1, <2>1 DEF ChannelsRest
<1>. QED BY <1>3, <1>4, <1>5, <1>6, <1>7, <1>8, <1>9, <1>10, <1>11, <1>12 DEF ChannelsNext

LEMMA ChannelsTypesHold == ChannelsSpec => []ChannelsTypeOK
<1>1. ChannelsInit => ChannelsRest
  BY LiveChannelsAssumption DEF ChannelsInit, ChannelsRest, Off, NotSeen
<1>2. ASSUME ChannelsInv, ChannelsRest PROVE ChannelsTypeOK
  <2>1. ChannelsTyped /\ WrittenByNow
    BY <1>2 DEF ChannelsInv
  <2>2. ASSUME NEW s \in {"slack", "notion"}
        PROVE  /\ posting[s].at \in {"idle", "sent", "resolved"} /\ posting[s].channel \in Channel
               /\ posting[s].run \in 0 .. ChannelRuns
    <3>1. posting[s] \in Posting /\ posting[s].run <= channelRun
      BY <2>1 DEF ChannelsTyped, WrittenByNow
    <3>2. channelRun \in 0 .. ChannelRuns /\ ChannelRuns \in Nat
      BY <1>2, LiveChannelsAssumption DEF ChannelsRest
    <3>. QED BY <3>1, <3>2 DEF Posting
  <2>. QED BY <1>2, <2>1, <2>2 DEF ChannelsTyped, Worker, WorkerAt, ChannelsRest, ChannelsTypeOK
<1>3. ChannelsInv /\ [ChannelsNext]_channelVars => ChannelsInv'
  BY ChannelsStepInv
<1>4. ChannelsInv /\ ChannelsRest /\ [ChannelsNext]_channelVars => ChannelsRest'
  BY ChannelsRestStep
<1>. QED BY <1>1, <1>2, <1>3, <1>4, ChannelsInitInv, PTL DEF ChannelsSpec

CrmRest ==
  /\ activity.run \in 0 .. CrmRuns
  /\ counts \in [run : 0 .. CrmRuns, activity : 0 .. CrmCalls, late : 0 .. CrmLate]
  /\ disturbed \in BOOLEAN /\ loose \subseteq 1 .. nextId

\* Ids are handed out in order.
LEMMA IdsGrow ==
  ASSUME CrmInv, NEW q \in CrmRequest, Performed(q)
  PROVE  nextId' \in Nat /\ nextId' >= nextId
<1>1. nextId \in Nat
  BY DEF CrmInv, CrmTyped
<1>2. q.rows \in Seq(CrmRow)
  BY DEF CrmRequest
<1>3. Len(q.rows) \in Nat
  BY <1>2
<1>4. nextId' = nextId \/ nextId' = nextId + Len(q.rows)
  BY DEF Performed
<1>. QED BY <1>1, <1>3, <1>4

LEMMA LooseStay ==
  ASSUME CrmInv, CrmRest, nextId' \in Nat, nextId' >= nextId
  PROVE  loose \subseteq 1 .. nextId'
<1>1. nextId \in Nat /\ loose \subseteq 1 .. nextId
  BY DEF CrmInv, CrmTyped, CrmRest
<1>. QED BY <1>1

LEMMA CrmRestStep == ASSUME CrmInv, CrmRest, [CrmNext]_crmVars PROVE CrmRest'
<1>1. /\ nextId \in Nat /\ nextId > 5 /\ activity \in ActivityRecord /\ late \subseteq CrmRequest
      /\ CrmRuns \in Nat /\ CrmCalls \in Nat /\ CrmLate \in Nat
      /\ NoActivity.run = 0
  BY LiveCrmAssumption DEF CrmInv, CrmTyped, NoActivity
<1>2. CASE UNCHANGED crmVars \/ Query \/ Filled \/ Stop
  BY <1>2 DEF crmVars, Query, Filled, Stop, CrmRest
<1>3. CASE Begin
  <2>1. counts' \in [run : 0 .. CrmRuns, activity : 0 .. CrmCalls, late : 0 .. CrmLate]
    <3>1. counts.run + 1 \in 0 .. CrmRuns /\ counts' = [counts EXCEPT !.run = counts.run + 1]
      BY <1>1, <1>3 DEF Begin, CrmRest
    <3>. QED BY <3>1 DEF CrmRest
  <2>. QED BY <1>3, <2>1 DEF Begin, CrmRest
<1>4. CASE GiveUp
  <2>1. counts' \in [run : 0 .. CrmRuns, activity : 0 .. CrmCalls, late : 0 .. CrmLate]
    <3>1. counts.late + 1 \in 0 .. CrmLate /\ counts' = [counts EXCEPT !.late = counts.late + 1]
      BY <1>1, <1>4 DEF GiveUp, CrmRest
    <3>. QED BY <3>1 DEF CrmRest
  <2>. QED BY <1>4, <2>1 DEF GiveUp, CrmRest
<1>5. CASE Perform
  <2>1. nextId' \in Nat /\ nextId' >= nextId
    <3>1. CASE reset.at = "create"
      <4>1. Batch \in Seq(CrmRow)
        BY <1>5, <3>1, BatchIs DEF Perform, Requesting, CrmInv
      <4>2. Len(Batch) \in Nat
        BY <4>1
      <4>3. nextId' = nextId \/ nextId' = nextId + Len(Batch)
        BY <1>5, <3>1 DEF Perform, Request, Performed, Creates
      <4>. QED BY <1>1, <4>2, <4>3
    <3>2. CASE reset.at # "create"
      <4>1. Request.do # "create"
        BY <1>5, <3>2 DEF Perform, Requesting, Request, Destroys, Destroy
      <4>. QED BY <1>1, <1>5, <4>1 DEF Perform, Performed
    <3>. QED BY <3>1, <3>2
  <2>. QED BY <1>5, <2>1, LooseStay DEF Perform, CrmRest
<1>6. CASE Arrive
  <2>1. PICK q \in late : Performed(q)
    BY <1>6 DEF Arrive
  <2>2. nextId' \in Nat /\ nextId' >= nextId
    BY <1>1, <2>1, IdsGrow
  <2>3. nextId .. nextId' - 1 \subseteq 1 .. nextId'
    <3>1. PICK next : next = nextId'
      OBVIOUS
    <3>2. next \in Nat /\ nextId \in Nat /\ nextId > 5
      BY <1>1, <2>2, <3>1
    <3>3. \A id \in nextId .. next - 1 : id \in 1 .. next
      BY ONLY <3>2
    <3>. QED BY <3>1, <3>3
  <2>. QED BY <1>6, <2>2, <2>3, LooseStay DEF Arrive, CrmRest
<1>7. CASE SendActivity
  <2>1. counts' \in [run : 0 .. CrmRuns, activity : 0 .. CrmCalls, late : 0 .. CrmLate]
    <3>1. counts.activity + 1 \in 0 .. CrmCalls
          /\ counts' = [counts EXCEPT !.activity = counts.activity + 1]
      BY <1>1, <1>7 DEF SendActivity, CrmRest
    <3>. QED BY <3>1 DEF CrmRest
  <2>2. activity'.run = counts.run
    BY <1>7 DEF SendActivity
  <2>. QED BY <1>7, <2>1, <2>2 DEF SendActivity, CrmRest
<1>8. CASE CheckContact \/ DropActivity
  <2>1. activity'.run \in {activity.run, 0}
    BY <1>1, <1>8 DEF CheckContact, DropActivity, ActivityRecord
  <2>. QED BY <1>1, <1>8, <2>1 DEF CheckContact, DropActivity, CrmRest
<1>9. CASE CreateNote
  <2>1. nextId' = nextId \/ nextId' = nextId + 1
    BY <1>9 DEF CreateNote, Performed, Creates
  <2>2. nextId' = nextId + 1 \/ nextId' = nextId
    BY <2>1
  <2>3. loose \subseteq 1 .. nextId' /\ nextId \in 1 .. nextId'
    BY <1>1, <2>2, LooseStay
  <2>4. activity'.run = activity.run
    BY <1>1, <1>9 DEF CreateNote, ActivityRecord
  <2>. QED BY <1>9, <2>3, <2>4 DEF CreateNote, CrmRest
<1>10. CASE CreateTarget
  <2>1. nextId' = nextId \/ nextId' = nextId + 1
    BY <1>10 DEF CreateTarget, Performed, Creates
  <2>2. loose \subseteq 1 .. nextId'
    BY <1>1, <2>1, LooseStay
  <2>3. loose' \subseteq loose /\ activity'.run = 0 /\ counts' = counts /\ disturbed' = TRUE
    BY <1>1, <1>10 DEF CreateTarget
  <2>. QED BY <1>1, <2>2, <2>3 DEF CrmRest
<1>. QED BY <1>2, <1>3, <1>4, <1>5, <1>6, <1>7, <1>8, <1>9, <1>10 DEF CrmNext

LEMMA CrmTypesHold == CrmSpec => []CrmTypeOK
<1>1. CrmInit => CrmRest
  <2>. SUFFICES ASSUME CrmInit PROVE CrmRest
    OBVIOUS
  <2>1. 0 \in 0 .. CrmRuns /\ 0 \in 0 .. CrmCalls /\ 0 \in 0 .. CrmLate
    BY LiveCrmAssumption
  <2>2. activity.run = 0 /\ counts = [run |-> 0, activity |-> 0, late |-> 0]
        /\ disturbed = FALSE /\ loose = {}
    BY DEF CrmInit, NoActivity
  <2>. QED BY <2>1, <2>2 DEF CrmRest
<1>2. ASSUME CrmInv, CrmRest PROVE CrmTypeOK
  <2>1. CrmTyped /\ SoundRecords
    BY <1>2 DEF CrmInv
  <2>2. ASSUME NEW r \in records PROVE r.id \in 1 .. nextId
    <3>1. r.id \in Nat /\ nextId \in Nat /\ r.id < nextId
      BY <2>1 DEF CrmTyped, CrmRecord, SoundRecords
    <3>2. r.id >= 1
      <4>1. CASE r \in Others
        BY <4>1 DEF Others, R
      <4>2. CASE r \notin Others
        BY <2>1, <3>1, <4>2 DEF SoundRecords
      <4>. QED BY <4>1, <4>2
    <3>. QED BY <3>1, <3>2
  <2>3. ASSUME NEW r \in records PROVE r.id < nextId /\ r.kind \in CrmKind /\ r.of \subseteq 1 .. nextId
    <3>1. r.of \subseteq Ids(records) /\ r.id < nextId /\ r.kind \in CrmKind
      BY <2>1 DEF CrmTyped, CrmRecord, SoundRecords
    <3>. QED BY <2>2, <3>1 DEF Ids
  <2>4. \A r, q \in records : r.id = q.id => r = q
    BY <2>1 DEF SoundRecords
  <2>5. reset \in ResetRecord /\ Len(reset.refs) <= Len(CrmFixtures) /\ activity \in ActivityRecord
    BY <2>1 DEF CrmTyped
  <2>. QED BY <1>2, <2>3, <2>4, <2>5 DEF CrmRest, CrmTypeOK, ResetRecord, ResetAt, ActivityRecord
<1>3. CrmInv /\ CrmRest /\ [CrmNext]_crmVars => CrmRest'
  BY CrmRestStep
<1>. QED BY <1>1, <1>2, <1>3, CrmInitInv, CrmStepInv, PTL DEF CrmSpec

Post == [ts : Nat, channel : SlackChannel, thread : Nat, text : Text, by : {"fixture", "bot"}]
VerdictsRest == posts \subseteq Post /\ activities \subseteq [contact : Contact, text : Text]

LEMMA VerdictsRestHolds == VerdictsSpec => []VerdictsRest
<1>1. VerdictsInit => VerdictsRest
  <2>. SUFFICES ASSUME VerdictsInit PROVE VerdictsRest
    OBVIOUS
  <2>1. Phrase \in Text /\ SummaryChannel \in SlackChannel
    BY VerdictsAssumption DEF VerdictsAssumption, Text, SlackChannel
  <2>2. \A n \in {1, 2} : n \in Nat /\ n - 1 \in Nat
    OBVIOUS
  <2>. QED BY <2>1, <2>2 DEF VerdictsInit, VerdictsRest, Post
<1>2. ASSUME VerdictsInv, VerdictsRest, [VerdictsNext]_verdictVars PROVE VerdictsRest'
  <2>1. CASE PostMessage
    <3>1. PICK channel \in SlackChannel, text \in Text, thread \in {0} \cup {m.ts : m \in posts} :
            posts' = posts \cup {[ts |-> Cardinality(posts) + 1, channel |-> channel,
                                  thread |-> thread, text |-> text, by |-> "bot"]}
      BY <2>1 DEF PostMessage
    <3>2. Cardinality(posts) + 1 \in Nat
      BY <1>2, FS_CardinalityType DEF VerdictsInv, FlatThreads
    <3>3. thread \in Nat
      BY <1>2 DEF VerdictsRest, Post
    <3>. QED BY <1>2, <2>1, <3>1, <3>2, <3>3 DEF PostMessage, VerdictsRest, Post
  <2>2. CASE LogNote
    BY <1>2, <2>2 DEF LogNote, VerdictsRest
  <2>3. CASE CreatePage \/ AppendBlock \/ UNCHANGED verdictVars
    BY <1>2, <2>3 DEF CreatePage, AppendBlock, verdictVars, VerdictsRest
  <2>. QED BY <1>2, <2>1, <2>2, <2>3 DEF VerdictsNext
<1>. QED BY <1>1, <1>2, VerdictsKeep, PTL DEF VerdictsSpec

LEMMA VerdictsTypesHold == VerdictsSpec => []VerdictsTypeOK
<1>1. ASSUME VerdictsInv, VerdictsRest PROVE VerdictsTypeOK
  <2>1. \A i \in DOMAIN created : created[i] \in CreatedPage
    BY <1>1 DEF VerdictsInv, SoundPages
  <2>2. \A i \in DOMAIN created :
          /\ created[i].title \in Text
          /\ DOMAIN created[i].properties \subseteq DOMAIN Schema
          /\ created[i].blocks \in Seq([type : BlockType, text : Text])
    BY <2>1 DEF CreatedPage
  <2>. QED BY <1>1, <2>2 DEF VerdictsRest, Post, VerdictsTypeOK
<1>. QED BY <1>1, VerdictsKeep, VerdictsRestHolds, PTL

-----------------------------------------------------------------------------
\* A behaviour of the components is one of each of them.
LEMMA EachRuns ==
  ASSUME [ComponentsNext]_componentsVars
  PROVE  /\ UNCHANGED component
         /\ [SandboxNext]_sandboxVars /\ [CrmNext]_crmVars /\ [ChannelsNext]_channelVars
         /\ [EvalNext]_evalVars /\ [LimitsNext]_limitVars /\ [ApiNext]_apiVars
         /\ [VerdictsNext]_verdictVars /\ [RoutingNext]_routingVars /\ [RoiNext]_roiVars
<1>1. CASE UNCHANGED componentsVars
  BY <1>1 DEF componentsVars
<1>2. CASE ComponentsNext
  BY <1>2 DEF ComponentsNext, OthersStay
<1>. QED BY <1>1, <1>2

(***************************************************************************)
(* The type invariant of every component that runs by itself, for any      *)
(* fixtures, clocks, rates, models and bounds: states stay in the domains  *)
(* that the code's classes and tables declare, which includes that no      *)
(* bucket overflows (store.py), no client has more hits than its limit     *)
(* (rate_limit.py), no reference of the CRM is to an id it never gave.     *)
(***************************************************************************)
THEOREM ComponentsTypesHold == ComponentsSpec => []ComponentsTypeOK
<1>1. ComponentsInit =>
        /\ SandboxInit /\ CrmInit /\ ChannelsInit /\ EvalInit /\ LimitsInit /\ ApiInit
        /\ VerdictsInit /\ RoutingInit /\ RoiInit
  BY DEF ComponentsInit
<1>2. ComponentsSpec => SandboxSpec /\ CrmSpec /\ ChannelsSpec
  BY <1>1, EachRuns, PTL DEF ComponentsSpec, SandboxSpec, CrmSpec, ChannelsSpec
<1>3. ComponentsSpec => EvalSpec /\ LimitsSpec /\ ApiSpec
  BY <1>1, EachRuns, PTL DEF ComponentsSpec, EvalSpec, LimitsSpec, ApiSpec
<1>4. ComponentsSpec => VerdictsSpec /\ RoutingSpec /\ RoiSpec
  BY <1>1, EachRuns, PTL DEF ComponentsSpec, VerdictsSpec, RoutingSpec, RoiSpec
<1>5. /\ SandboxTypeOK /\ CrmTypeOK /\ ChannelsTypeOK /\ EvalTypeOK /\ LimitsTypeOK /\ ApiTypeOK
      /\ VerdictsTypeOK /\ RoutingTypeOK /\ RoiTypeOK
      => ComponentsTypeOK
  BY DEF ComponentsTypeOK
<1>. QED BY <1>2, <1>3, <1>4, <1>5, SandboxTypes, CrmTypesHold, ChannelsTypesHold, EvalTypesHold,
            LimitsTypes, ApiTypesHold, VerdictsTypesHold, RoutingTypesHold, RoiTypes, PTL
=============================================================================
