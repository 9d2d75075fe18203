------------------------------ MODULE LiveChannels ------------------------------
(***************************************************************************)
(* Live Slack and Notion (backends/slack.py, notion.py): what the snapshot *)
(* of a run (runner/runner.py) sees of the messages and pages written.     *)
(* Slack messages are never removed: they are told apart by their time,    *)
(* and replies are only read under parents that are new enough.  Notion    *)
(* pages are trashed by a reset, one by one, and have a time in minutes.   *)
(*                                                                         *)
(* now counts the writes at the services, which stamp them; the runner's   *)
(* clock is now + skew.  Runner and servers are processes with a cache of  *)
(* the channel ids each.                                                   *)
(***************************************************************************)
EXTENDS Integers, FiniteSets

CONSTANTS
  Skews,                       \* how far the runner's clock may be from the services'
  Minute,                      \* writes in a minute, for the precision of Notion
  ChannelRuns, ChannelWrites   \* bounds of the model: resets, calls and alerts

Channel == {"first", "second"}  \* on the first and the second page of conversations.list
Message == [id : Nat, channel : Channel, parent : Nat, run : Nat, since : Nat]
Page == [id : Nat, run : Nat, since : Nat, trashed : BOOLEAN]

ASSUME LiveChannelsAssumption ==
  Skews \subseteq Int /\ Minute \in Nat \ {0} /\ ChannelRuns \in Nat /\ ChannelWrites \in Nat

VARIABLES
  now, skew,
  messages, pages,  \* an id is the time of the write; since is the run it came in
  cache,            \* channels each process resolved
  worker,           \* the runner
  posting,          \* the call each server performs
  channelRun,       \* resets begun
  asked,            \* calls and alerts sent
  seen              \* history: what the last snapshot returned

channelVars == <<now, skew, messages, pages, cache, worker, posting, channelRun, asked, seen>>

Process == {"runner", "server"}
Off == [at |-> "idle", since |-> 0, found |-> {}, thread |-> 0]
NoPost == [at |-> "idle", channel |-> "first", parent |-> 0, run |-> 0]
NotSeen == [run |-> 0, messages |-> {}, pages |-> {}]

ChannelsTypeOK ==
  /\ now \in Nat /\ skew \in Skews
  /\ messages \subseteq Message /\ pages \subseteq Page
  /\ cache \in [Process -> SUBSET Channel]
  /\ worker.at \in {"idle", "resolve", "parent", "reply", "query", "trash", "create", "filled"}
  /\ worker.since \in Int /\ worker.found \subseteq 0 .. now /\ worker.thread \in 0 .. now
  /\ \A s \in {"slack", "notion"} :
       /\ posting[s].at \in {"idle", "sent", "resolved"} /\ posting[s].channel \in Channel
       /\ posting[s].run \in 0 .. ChannelRuns
  /\ channelRun \in 0 .. ChannelRuns /\ asked \in 0 .. ChannelWrites
  /\ seen.messages \subseteq messages /\ seen.run \in 0 .. ChannelRuns

ChannelsInit ==
  /\ now = 10 /\ skew \in Skews
  /\ messages = {} /\ pages = {}
  /\ cache = [p \in Process |-> {}] /\ worker = Off
  /\ posting = [s \in {"slack", "notion"} |-> NoPost]
  /\ channelRun = 0 /\ asked = 0 /\ seen = NotSeen

-----------------------------------------------------------------------------
\* Services

PostAs(channel, parent, run) ==
  /\ now' = now + 1
  /\ messages' = messages \cup
       {[id |-> now + 1, channel |-> channel, parent |-> parent, run |-> run, since |-> channelRun]}
CreateAs(run) ==
  /\ now' = now + 1
  /\ pages' = pages \cup {[id |-> now + 1, run |-> run, since |-> channelRun, trashed |-> FALSE]}

InMinute(time) == time \div Minute
Live == {p \in pages : ~p.trashed}

\* _resolve_channels: the lookup goes from page to page into the cache, which is taken
\* for complete as soon as it is not empty; an error may end it after the first page.
Resolved(p) ==
  \/ cache[p] # {} /\ UNCHANGED cache
  \/ cache[p] = {} /\ cache' = [cache EXCEPT ![p] = Channel]
LookupFails(p) ==
  cache[p] = {} /\ \E known \in {{}, {"first"}} : cache' = [cache EXCEPT ![p] = known]

-----------------------------------------------------------------------------
\* The runner: since, reset, snapshot

Idle == UNCHANGED <<skew, posting, channelRun, asked, seen>>

\* reset_started is taken before the reset.
StartReset ==
  /\ worker.at = "idle" /\ channelRun < ChannelRuns
  /\ worker' = [Off EXCEPT !.at = "resolve", !.since = now + skew]
  /\ channelRun' = channelRun + 1 /\ seen' = NotSeen
  /\ UNCHANGED <<now, skew, messages, pages, cache, posting, asked>>

Resolve ==
  /\ worker.at = "resolve"
  /\ \/ Resolved("runner") /\ worker' = [worker EXCEPT !.at = "parent"]
     \/ LookupFails("runner") /\ worker' = Off
  /\ UNCHANGED <<now, messages, pages>> /\ Idle

\* post_fixture_thread
PostThread ==
  /\ \/ /\ worker.at = "parent" /\ PostAs("first", 0, 0)
        /\ worker' = [worker EXCEPT !.at = "reply", !.thread = now + 1]
     \/ /\ worker.at = "reply" /\ PostAs("first", worker.thread, 0)
        /\ worker' = [worker EXCEPT !.at = "query"]
  /\ UNCHANGED <<pages, cache>> /\ Idle

\* reset_database
QueryPages ==
  /\ worker.at = "query"
  /\ worker' = [worker EXCEPT !.at = "trash", !.found = {p.id : p \in Live}]
  /\ UNCHANGED <<now, messages, pages, cache>> /\ Idle

TrashPage ==
  /\ worker.at = "trash"
  /\ IF worker.found = {}
     THEN worker' = [worker EXCEPT !.at = "create"] /\ UNCHANGED pages
     ELSE \E id \in worker.found :
            /\ worker' = [worker EXCEPT !.found = @ \ {id}]
            /\ pages' = {IF p.id = id THEN [p EXCEPT !.trashed = TRUE] ELSE p : p \in pages}
  /\ UNCHANGED <<now, messages, cache>> /\ Idle

\* Mutant: reset_started is taken when the reset is done.
CreateFixturePageAndStart ==
  /\ worker.at = "create" /\ CreateAs(0)
  /\ worker' = [worker EXCEPT !.at = "filled", !.since = now + 1 + skew]
  /\ UNCHANGED <<messages, cache>> /\ Idle

CreateFixturePage ==
  /\ worker.at = "create" /\ CreateAs(0)
  /\ worker' = [worker EXCEPT !.at = "filled"]
  /\ UNCHANGED <<messages, cache>> /\ Idle

\* _history: the new top-level messages, and the new replies to them.
History(since, known) ==
  LET top == {m \in messages : m.parent = 0 /\ m.id > since /\ m.channel \in known}
  IN  top \cup {m \in messages : m.id > since /\ \E t \in top : t.id = m.parent}

\* pages_since: "created_time has minute precision".
PagesSince(since) == {p \in Live : InMinute(p.id) >= InMinute(since)}

Awaited == \E s \in {"slack", "notion"} : posting[s].at # "idle" /\ posting[s].run = channelRun

Snapshot ==
  /\ worker.at = "filled" /\ ~Awaited
  /\ seen' = [run |-> channelRun, messages |-> History(worker.since, cache["runner"]),
              pages |-> PagesSince(worker.since)]
  /\ worker' = Off
  /\ UNCHANGED <<now, skew, messages, pages, cache, posting, channelRun, asked>>

\* A request fails, or the process dies and with it its cache.
BreakOff ==
  /\ worker.at # "idle" /\ worker' = Off
  /\ cache' \in {cache, [cache EXCEPT !["runner"] = {}]}
  /\ UNCHANGED <<now, messages, pages>> /\ Idle

-----------------------------------------------------------------------------
\* The servers

Ask(s, call) ==
  /\ posting[s].at = "idle" /\ asked < ChannelWrites
  /\ posting' = [posting EXCEPT ![s] = call] /\ asked' = asked + 1
  /\ UNCHANGED <<now, skew, messages, pages, cache, worker, channelRun, seen>>

\* The run writes to its thread, beside it, or a page; the guard posts alerts as run 0.
AskServer ==
  \/ Ask("slack", [NoPost EXCEPT !.at = "sent", !.channel = "second"])
  \/ /\ worker.at = "filled" /\ ~Awaited
     /\ \/ \E channel \in Channel :
             Ask("slack", [at |-> "sent", channel |-> channel, parent |-> 0, run |-> channelRun])
        \/ Ask("slack", [at |-> "sent", channel |-> "first", parent |-> worker.thread,
                         run |-> channelRun])
        \/ Ask("notion", [NoPost EXCEPT !.at = "resolved", !.run = channelRun])

ResolveChannel ==
  /\ posting["slack"].at = "sent"
  /\ \/ Resolved("server") /\ posting' = [posting EXCEPT !["slack"].at = "resolved"]
     \/ LookupFails("server") /\ posting' = [posting EXCEPT !["slack"] = NoPost]
  /\ UNCHANGED <<now, skew, messages, pages, worker, channelRun, asked, seen>>

\* chat.postMessage, to a channel the server can see, or pages.create; or an error.
Publish(s) ==
  /\ posting[s].at = "resolved"
  /\ \/ /\ s = "slack" /\ posting[s].channel \in cache["server"]
        /\ PostAs(posting[s].channel, posting[s].parent, posting[s].run) /\ UNCHANGED pages
     \/ s = "notion" /\ CreateAs(posting[s].run) /\ UNCHANGED messages
     \/ UNCHANGED <<now, messages, pages>>
  /\ posting' = [posting EXCEPT ![s] = NoPost]
  /\ UNCHANGED <<skew, cache, worker, channelRun, asked, seen>>

ChannelsNext ==
  \/ StartReset \/ Resolve \/ PostThread \/ QueryPages \/ TrashPage \/ CreateFixturePage
  \/ Snapshot \/ BreakOff \/ AskServer \/ ResolveChannel
  \/ \E s \in {"slack", "notion"} : Publish(s)

ChannelsSpec == ChannelsInit /\ [][ChannelsNext]_channelVars

-----------------------------------------------------------------------------

(***************************************************************************)
(* A run is judged on all it wrote.  "replies to parents older than since  *)
(* are invisible here, so callers pass the reset start time": it takes a   *)
(* clock of the runner that is not ahead, and a complete channel lookup.   *)
(* And on nothing written before its reset: pages were trashed, although   *)
(* some have its minute; messages are older than its start, if the clock   *)
(* of the runner is not behind.                                            *)
(***************************************************************************)
SnapshotIsRun ==
  seen.run > 0 =>
    /\ skew <= 0 /\ cache["runner"] = Channel =>
         {m \in messages : m.run = seen.run} \subseteq seen.messages
    /\ skew <= 0 => {p \in pages : p.run = seen.run} \subseteq seen.pages
    /\ skew >= 0 => \A m \in seen.messages : m.since = seen.run
    /\ \A p \in seen.pages : p.since = seen.run
=============================================================================
