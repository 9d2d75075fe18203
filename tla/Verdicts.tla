-------------------------------- MODULE Verdicts --------------------------------
(***************************************************************************)
(* The judgement of a run (validators/) over what the connector servers    *)
(* wrote.  The same writes are read back from the sandbox and from live    *)
(* Slack, Notion and Twenty (mcp_servers/backends/), whose objects carry   *)
(* different fields, and the validators see only the converted end state.  *)
(*                                                                         *)
(* A text is the set of the phrases and amounts in it.  A message is known *)
(* by its ts, in the order of the writes; 0 is no thread.                  *)
(***************************************************************************)
EXTENDS Naturals, Sequences, FiniteSetsExt

CONSTANTS
  Phrase, Amount,     \* what a text may contain
  SummaryChannel, OtherChannel,
  Contact, Day,
  Null,               \* null
  MaxWrites           \* bound of the model

ASSUME VerdictsAssumption ==
  /\ Phrase # {} /\ Amount \subseteq Nat /\ Null \notin Phrase \cup Day  \* fixtures have a text
  /\ MaxWrites \in Nat

VARIABLES
  posts,       \* [ts, channel, thread, text, by]
  created,     \* pages: [title, properties, blocks], in order
  activities   \* [contact, text]

verdictVars == <<posts, created, activities>>

SlackChannel == {SummaryChannel, OtherChannel}
Text == (SUBSET (Phrase \cup Amount)) \ {{}}  \* blank texts are refused
Schema == [tags |-> "multi_select", summary |-> "rich_text", due |-> "date"]
Value == [tags |-> SUBSET Phrase, summary |-> SUBSET Phrase, due |-> {{d} : d \in Day}]
None == {Null}
BlockType == {"paragraph", "to_do"}

Written == Cardinality(posts) + Len(created) + Cardinality(activities)
           + FoldSet(LAMBDA i, n : n + Len(created[i].blocks), 0, DOMAIN created)

VerdictsTypeOK ==
  /\ posts \subseteq [ts : Nat, channel : SlackChannel, thread : Nat, text : Text,
                      by : {"fixture", "bot"}]
  /\ \A i \in DOMAIN created :
       /\ created[i].title \in Text
       /\ DOMAIN created[i].properties \subseteq DOMAIN Schema
       /\ created[i].blocks \in Seq([type : BlockType, text : Text])
  /\ activities \subseteq [contact : Contact, text : Text]

\* A reset posted a thread of two messages.
VerdictsInit ==
  /\ posts = {[ts |-> n, channel |-> SummaryChannel, thread |-> n - 1, text |-> Phrase,
               by |-> "fixture"] : n \in {1, 2}}
  /\ created = <<>> /\ activities = {}

-----------------------------------------------------------------------------
\* The writes

\* A reply needs its thread; it is posted under the parent.
PostMessage ==
  /\ \E channel \in SlackChannel, text \in Text, thread \in {0} \cup {m.ts : m \in posts} :
       /\ \A m \in posts : m.ts = thread => m.channel = channel /\ m.thread = 0
       /\ posts' = posts \cup {[ts |-> Cardinality(posts) + 1, channel |-> channel,
                                thread |-> thread, text |-> text, by |-> "bot"]}
  /\ UNCHANGED <<created, activities>>

\* validate_properties: those of the schema, by their kinds; any may be left out.
CreatePage ==
  /\ \E title \in Text, given \in SUBSET DOMAIN Schema :
       \E properties \in [given -> SUBSET (Phrase \cup Day)] :
         /\ \A name \in given : properties[name] \in Value[name]
         /\ created' = Append(created, [title |-> title, properties |-> properties, blocks |-> <<>>])
  /\ UNCHANGED <<posts, activities>>

AppendBlock ==
  /\ \E i \in DOMAIN created, type \in BlockType, text \in Text :
       created' = [created EXCEPT ![i].blocks = Append(@, [type |-> type, text |-> text])]
  /\ UNCHANGED <<posts, activities>>

LogNote ==
  /\ \E contact \in Contact, text \in Text :
       activities' = activities \cup {[contact |-> contact, text |-> text]}
  /\ UNCHANGED <<posts, created>>

VerdictsNext == Written < MaxWrites + 2 /\ (PostMessage \/ CreatePage \/ AppendBlock \/ LogNote)

VerdictsSpec == VerdictsInit /\ [][VerdictsNext]_verdictVars

-----------------------------------------------------------------------------
\* The two snapshots

SandboxMessage(m) ==
  [channel |-> m.channel, ts |-> m.ts, text |-> m.text, bot |-> m.by = "bot", thread |-> m.thread]

\* Slack: a message with replies has itself for a thread.
SlackThread(m) == IF \E reply \in posts : reply.thread = m.ts THEN m.ts ELSE m.thread

\* Mutant: the thread as Slack gives it.
RawThread(m) == SlackThread(m)

LiveThread(m) == IF SlackThread(m) # m.ts THEN SlackThread(m) ELSE 0

\* Bot messages are those with the event type of an output.
LiveMessage(m) ==
  [channel |-> m.channel, ts |-> m.ts, text |-> m.text, bot |-> m.by = "bot",
   thread |-> LiveThread(m)]

\* to_notion_properties: a Notion value is an object under the kind of its property.
ToNotion(properties) ==
  [name \in DOMAIN properties |-> [k \in {Schema[name]} |-> properties[name]]]

\* Notion keeps every property of the schema, one that was not set as an empty one.
Empty(kind) == IF kind = "date" THEN None ELSE {}
Stored(properties) ==
  [name \in DOMAIN Schema |->
     IF name \in DOMAIN properties THEN properties[name] ELSE [k \in {Schema[name]} |-> Empty(k)]]

\* from_notion_page: the value under the kind the schema has for the property.
LivePage(page) ==
  LET notion == Stored(ToNotion(page.properties))
  IN  [page EXCEPT !.properties = [name \in DOMAIN Schema |-> notion[name][Schema[name]]]]

\* Twenty keeps an activity as a note with the contact for its target; the notes are read
\* back with one activity for each target.
Notes == {[body |-> a.text, targets |-> {a.contact}] : a \in activities}
LiveActivities ==
  UNION {{[contact |-> contact, text |-> note.body] : contact \in note.targets} : note \in Notes}

SandboxEnd ==
  [messages |-> {SandboxMessage(m) : m \in posts}, pages |-> created, activities |-> activities]
LiveEnd ==
  [messages |-> {LiveMessage(m) : m \in posts},
   pages |-> [i \in DOMAIN created |-> LivePage(created[i])],
   activities |-> LiveActivities]

-----------------------------------------------------------------------------
\* validators/library.py, over an end state

BotMessages(state, channel, thread) ==
  {m \in state.messages : m.bot /\ m.channel = channel /\ m.thread = thread}

\* The latest, if there is one.
Latest(state, channel, thread) ==
  {m \in BotMessages(state, channel, thread) :
     \A n \in BotMessages(state, channel, thread) : n.ts <= m.ts}

SlackMessagePosted(state, channel, thread) == BotMessages(state, channel, thread) # {}
MessageMentionsTerms(state, channel, thread, terms) ==
  \E m \in Latest(state, channel, thread) : terms \subseteq m.text
MessageExcludesTerms(state, channel, thread, terms) ==
  \E m \in Latest(state, channel, thread) : terms \cap m.text = {}

\* Within a relative tolerance of 0.005.
Near(a, amount) == 200 * a <= 201 * amount /\ 200 * a >= 199 * amount
MessageMentionsAmount(state, channel, thread, amount) ==
  \E m \in Latest(state, channel, thread) : \E a \in m.text \cap Amount : Near(a, amount)

MatchingPages(state, phrase) == {i \in DOMAIN state.pages : phrase \in state.pages[i].title}
TheMatchingPage(state, phrase) ==
  {state.pages[i] : i \in {j \in MatchingPages(state, phrase) : MatchingPages(state, phrase) = {j}}}

NotionPageCreated(state, phrase) == Cardinality(MatchingPages(state, phrase)) = 1
PropertyOf(page, name) == IF name \in DOMAIN page.properties THEN page.properties[name] ELSE None
NotionPropertyEquals(state, phrase, name, value) ==
  \E page \in TheMatchingPage(state, phrase) : PropertyOf(page, name) = value
NotionTodosMention(state, phrase, terms, least) ==
  \E page \in TheMatchingPage(state, phrase) :
    LET todos == {i \in DOMAIN page.blocks : page.blocks[i].type = "to_do"}
    IN  /\ Cardinality(todos) >= least
        /\ terms \subseteq UNION {page.blocks[i].text : i \in todos}

CrmActivityLogged(state, contact, phrase) ==
  LET matching == {a \in state.activities : phrase \in a.text}
  IN  matching # {} /\ \A a \in matching : a.contact = contact

\* run_validators: what passes, of everything a task may ask for.
Passed(state) ==
  [posted   |-> {x \in SlackChannel \X {0, 1} : SlackMessagePosted(state, x[1], x[2])},
   mentions |-> {x \in SlackChannel \X {0, 1} \X Phrase :
                   MessageMentionsTerms(state, x[1], x[2], {x[3]})},
   excludes |-> {x \in SlackChannel \X {0, 1} \X Phrase :
                   MessageExcludesTerms(state, x[1], x[2], {x[3]})},
   amounts  |-> {x \in SlackChannel \X {0, 1} \X Amount :
                   MessageMentionsAmount(state, x[1], x[2], x[3])},
   pages    |-> {p \in Phrase : NotionPageCreated(state, p)},
   property |-> [name \in DOMAIN Schema |->
                   {x \in Phrase \X (Value[name] \ {{}}) : NotionPropertyEquals(state, x[1], name, x[2])}],
   todos    |-> {x \in Phrase \X Phrase \X {1, 2} : NotionTodosMention(state, x[1], {x[2]}, x[3])},
   notes    |-> {x \in Contact \X Phrase : CrmActivityLogged(state, x[1], x[2])}]

-----------------------------------------------------------------------------

(***************************************************************************)
(* A task is judged alike in both modes: whatever was written, each        *)
(* validator a task may configure passes on the sandbox's snapshot exactly *)
(* when it passes on the live one, provided no property is expected to be  *)
(* empty, which only live pages say of a property that was never set.      *)
(***************************************************************************)
SameVerdictInBothModes == Passed(SandboxEnd) = Passed(LiveEnd)
=============================================================================
