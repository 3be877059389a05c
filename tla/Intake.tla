-------------------------------- MODULE Intake --------------------------------
(***************************************************************************)
(* How a message comes in: pushed on the WebSocket of every channel,       *)
(* posted to a webhook, or polled with yzj-cli and handed to the channels  *)
(* of its group; and what Dispatcher.Handle makes of it, from the filter   *)
(* of the robot's name over the duplicates and the @-mentions to the       *)
(* commands.  What happens to an accepted job is JobQueue.                 *)
(*                                                                         *)
(* A text is its @-words and, after them, its words: commands or "text".   *)
(* A channel is known to its users by the name of its role, and role_id    *)
(* and name are the same.                                                  *)
(***************************************************************************)
EXTENDS Naturals, Sequences, FiniteSets

CONSTANTS
  Bots,       \* the channels
  Config,     \* bot.Config of each, and where the robot sits
  Loaded,     \* the channels that each load of the configuration finds
  Labels,     \* yzj_group_name of each polled group
  Messages,
  Text,       \* what each message says
  Begins,     \* the names that each @-word begins with
  Hooks,      \* bound: webhook requests at a time
  Nobody,
  MaxSeen,    \* maxSeen
  MaxCopies,  \* bound: deliveries of a message on one way
  MaxLoads,   \* bound: loads of the configuration
  MaxSwitches \* bound: switches

WS == {b \in Bots : Config[b].mode \in {"websocket", "both"}}
Hooked == {b \in Bots : Config[b].mode \in {"webhook", "both"}}
Polled == {b \in Bots : Config[b].mode = "yzj_cli"}
Groups == {Config[b].group_id : b \in Polled}

ASSUME IntakeAssumption ==
  /\ {MaxSeen, MaxLoads} \subseteq Nat \ {0} /\ {Hooks, MaxCopies, MaxSwitches} \subseteq Nat
  /\ DOMAIN Config = Bots /\ Loaded \in [1 .. MaxLoads -> SUBSET Bots] /\ DOMAIN Text = Messages /\ Groups \subseteq DOMAIN Labels

VARIABLES
  gen,      \* loads so far
  seen,     \* dedupe.Store of each load
  enabled,  \* the channels that are switched on
  frames,   \* what waits for each reader
  sent,     \* copies of each message on each way
  worker,   \* the goroutines that handle messages
  switches,
  answers,  \* what Handle has decided
  repeats,  \* messages that a channel has answered twice in a load
  dropped   \* keys that each load has forgotten

vars == <<gen, seen, enabled, frames, sent, worker, switches, answers, repeats, dropped>>

Ways == {"push", "post", "poll"}
Readers == WS \X (1 .. MaxLoads)  \* the reader of the WebSocket of a load
Posts == {"webhook"} \X (1 .. Hooks)
Watchers == Groups \X {0}
Workers == Readers \cup Posts \cup Watchers
NoWork == [pc |-> "idle", msg |-> Nobody, bot |-> Nobody, source |-> "none", load |-> 0,
           targets |-> {}]
Init ==
  /\ gen = 1 /\ seen = [g \in 1 .. MaxLoads |-> {}] /\ enabled = Bots
  /\ frames = [r \in Readers |-> <<>>] /\ sent = [w \in Ways |-> [m \in Messages |-> 0]]
  /\ worker = [w \in Workers |-> NoWork]
  /\ switches = 0 /\ answers = {} /\ repeats = {} /\ dropped = [g \in 1 .. MaxLoads |-> {}]

\* Registry.Get; a dispatcher of an older load asks the same registry.
Known == Loaded[gen]

Copy(way, m) ==
  sent[way][m] < MaxCopies /\ sent' = [sent EXCEPT ![way][m] = @ + 1]

Work(w, work) == worker' = [worker EXCEPT ![w] = work]

\* Faulty: the watcher leaves a message with the first target that takes it.
DoneAtOnce(w) == Work(w, NoWork)

\* The next thing a goroutine does: the watcher goes on to its next target.
Done(w) == Work(w, IF worker[w].targets = {} THEN NoWork ELSE [worker[w] EXCEPT !.pc = "target"])
-----------------------------------------------------------------------------
(* The WebSocket: every channel of the account is told of every message to a robot *)

Robots(m) == {b \in WS \cup Hooked : Config[b].group_id = Text[m].chat}

Push(m) ==
  /\ ~Text[m].robot /\ Robots(m) # {} /\ Copy("push", m)
  /\ frames' = [r \in Readers |-> IF r[1] \in enabled \cap Known /\ r[2] = gen
                                    THEN Append(frames[r], m)
                                  ELSE frames[r]]
  /\ UNCHANGED <<gen, seen, enabled, worker, switches, answers, repeats, dropped>>

\* The reader handles one frame after the other; one without a text is acknowledged.
Read(r) ==
  /\ worker[r] = NoWork /\ frames[r] # <<>>
  /\ frames' = [frames EXCEPT ![r] = Tail(@)]
  /\ IF Text[Head(frames[r])].words = <<>> THEN UNCHANGED worker
     ELSE Work(r, [NoWork EXCEPT !.pc = "handle", !.msg = Head(frames[r]), !.bot = r[1],
                                 !.source = "websocket", !.load = r[2]])
  /\ UNCHANGED <<gen, seen, enabled, sent, switches, answers, repeats, dropped>>
-----------------------------------------------------------------------------
(* The webhook *)

\* A robot ID set aside for tests passes unsigned.
VerifySignature(b, m) ==
  Config[b].secret /\ Text[m].robotId # "test-robotId" => Text[m].signed

\* The handler answers the platform and leaves the message to a goroutine.
Post(h, b, m) ==
  /\ worker[h] = NoWork /\ ~Text[m].robot /\ Text[m].chat = Config[b].group_id
  /\ b \in Known /\ Copy("post", m)
  /\ Text[m].words # <<>> /\ VerifySignature(b, m)
  /\ Work(h, [NoWork EXCEPT !.pc = "handle", !.msg = m, !.bot = b, !.source = "webhook",
                            !.load = gen])
  /\ UNCHANGED <<gen, seen, enabled, frames, switches, answers, repeats, dropped>>
-----------------------------------------------------------------------------
(* onPollMessage *)

Targets(g) == {b \in Polled : Config[b].group_id = g}

Poll(w, m) ==
  LET asked == Targets(w[1]) \cap enabled \cap Known IN
  /\ worker[w] = NoWork /\ asked # {} /\ Text[m].chat = w[1] /\ Copy("poll", m)
  /\ Work(w, [NoWork EXCEPT !.pc = "target", !.msg = m, !.source = "yzj_cli", !.load = gen,
                            !.targets = asked])
  /\ UNCHANGED <<gen, seen, enabled, frames, switches, answers, repeats, dropped>>

MentionsBots(b, m) ==
  LET ids == Config[b].openids IN
  IF ids # {} /\ Text[m].at # {}
    THEN Text[m].at \cap ids # {}
    ELSE \/ \E token \in Text[m].tokens : Begins[token] \cap Config[b].aliases # {}
         \/ Text[m].at # {} /\ Config[b].aliases = {}

IsFromBot(m) == Text[m].robot

HasImages(m) == "image" \in Text[m].media

QuotesBot(b, m) ==
  LET ids == Config[b].openids
      names == Config[b].aliases IN
  /\ Text[m].quoted # Nobody
  /\ ids # {} => Text[m].quoted \in ids
  /\ ids = {} /\ names # {} => Text[m].quotedName \in names \cup {Nobody}

PollTrigger(b, m) ==
  /\ ~IsFromBot(m)
  /\ \/ Config[b].trigger \in {"direct", "any"}
     \/ /\ HasImages(m)
        /\ \/ Config[b].imageTrigger = "any"
           \/ Config[b].imageTrigger = "quote_bot" /\ QuotesBot(b, m)
     \/ MentionsBots(b, m)

\* Channels that share a group must bear its name, when it has one.
Labelled(b, g, load) ==
  Cardinality(Targets(g) \cap Loaded[load]) > 1 /\ Labels[g] # Nobody => Config[b].group = Labels[g]

NextTarget(w, b) ==
  /\ worker[w].pc = "target" /\ b \in worker[w].targets
  /\ LET rest == [worker[w] EXCEPT !.targets = @ \ {b}] IN
     Work(w, IF Labelled(b, w[1], worker[w].load) /\ PollTrigger(b, worker[w].msg)
               THEN [rest EXCEPT !.pc = "handle", !.bot = b]
               ELSE IF rest.targets = {} THEN NoWork ELSE rest)
  /\ UNCHANGED <<gen, seen, enabled, frames, sent, switches, answers, repeats, dropped>>
-----------------------------------------------------------------------------
(* Handle *)

\* Faulty: the ids are not compared.
ForBotOfName(b, m) ==
  Text[m].robotName \in {Nobody, Config[b].role} \cup Config[b].aliases

\* websocketMessageForBot
ForBot(b, m) ==
  IF Text[m].robotId # Nobody /\ Config[b].openids # {}
    THEN Text[m].robotId \in Config[b].openids
    ELSE Text[m].robotName \in {Nobody, Config[b].role} \cup Config[b].aliases

\* What AlreadySeen leaves of the keys: above the limit half of them are dropped.
Kept(keys) ==
  IF Cardinality(keys) <= MaxSeen THEN {keys}
  ELSE {kept \in SUBSET keys : Cardinality(kept) = Cardinality(keys) - MaxSeen \div 2}

\* Faulty: the way a message came is part of its key.
KeyOfWay(w) == <<worker[w].bot, worker[w].msg, worker[w].source>>

Key(w) == <<worker[w].bot, worker[w].msg>>

\* Registry.Get, the filter of the robot's name, and AlreadySeen.
Check(w) ==
  LET g == worker[w].load IN
  /\ worker[w].pc = "handle"
  /\ IF \/ worker[w].bot \notin Known
        \/ worker[w].source = "websocket" /\ ~ForBot(worker[w].bot, worker[w].msg)
        \/ Key(w) \in seen[g]
       THEN Done(w) /\ UNCHANGED <<seen, dropped>>
       ELSE /\ \E kept \in Kept(seen[g] \cup {Key(w)}) :
                 /\ seen' = [seen EXCEPT ![g] = kept]
                 /\ dropped' = [dropped EXCEPT ![g] = @ \cup ((seen[g] \cup {Key(w)}) \ kept)]
            /\ Work(w, [worker[w] EXCEPT !.pc = "decide"])
  /\ UNCHANGED <<gen, enabled, frames, sent, switches, answers, repeats>>

\* The roles that the @-words of a text name in a group.
Mentioned(m, group) ==
  {t \in Text[m].tokens : \E b \in Known : Config[b].role = t /\ Config[b].group = group}

MessageTargetsBot(b, m) ==
  LET roles == Mentioned(m, Config[b].group) IN
  IF roles = {} THEN Text[m].private \/ Text[m].tokens = {} ELSE Config[b].role \in roles

Allowed(b, m) == Config[b].allow = {} \/ Text[m].from \in Config[b].allow

Modes == {"plan", "ask", "agent"}
Flags == Modes \cup {"clear", "help", "memory", "forget"}

\* cmdFlagRe takes the space after a command with it: of two commands next to each
\* other it does not find the second.
Found(words) ==
  LET found[i \in 1 .. Len(words)] ==
        words[i] \in Flags /\ (i = 1 \/ ~found[i - 1])
  IN  {i \in 1 .. Len(words) : found[i]}

\* Parse, and what Handle does with the result.
Says(words, word) == \E i \in DOMAIN words : words[i] = word

Outcome(b, words) ==
  LET found == Found(words)
      rest == {words[i] : i \in DOMAIN words \ found}
      kinds == {words[i] : i \in found} IN
  IF Says(words, "stop") THEN "stop"
  ELSE IF Says(words, "jobs") THEN "jobs"
  ELSE IF ~Config[b].commands THEN "job"
  ELSE IF Says(words, "memory") THEN "memory"
  ELSE IF Says(words, "forget") THEN "forget"
  ELSE IF rest = {} /\ kinds \ Modes # {} THEN "reply"
  ELSE "job"

Decide(w) ==
  LET b == worker[w].bot
      m == worker[w].msg
      forced == worker[w].source = "yzj_cli" IN
  /\ worker[w].pc = "decide"
  /\ IF ~forced /\ ~MessageTargetsBot(b, m) THEN UNCHANGED <<answers, repeats>>
     ELSE LET answer == [bot |-> b, msg |-> m, load |-> worker[w].load,
                         as |-> IF Allowed(b, m) THEN Outcome(b, Text[m].words) ELSE "denied"] IN
          /\ answers' = answers \cup {answer}
          /\ repeats' = IF answer \in answers THEN repeats \cup {answer} ELSE repeats
  /\ Done(w)
  /\ UNCHANGED <<gen, seen, enabled, frames, sent, switches, dropped>>
-----------------------------------------------------------------------------
(* What the control API does to it *)

\* A WebSocket that is switched off is closed, with what it has not delivered.
Switch(b) ==
  /\ switches < MaxSwitches /\ switches' = switches + 1
  /\ enabled' = IF b \in enabled THEN enabled \ {b} ELSE enabled \cup {b}
  /\ frames' = [r \in Readers |-> IF r[1] = b THEN <<>> ELSE frames[r]]
  /\ UNCHANGED <<gen, seen, sent, worker, answers, repeats, dropped>>

\* A load makes a dispatcher with a dedupe.Store of its own; a message in hand stays
\* with the dispatcher that has it.
Load ==
  /\ gen < MaxLoads /\ gen' = gen + 1
  /\ frames' = [r \in Readers |-> <<>>]
  /\ UNCHANGED <<seen, enabled, sent, worker, switches, answers, repeats, dropped>>

Handling(w) == Check(w) \/ Decide(w)
Watching(w) == \E b \in Polled : NextTarget(w, b)

Next ==
  \/ \E m \in Messages : Push(m)
  \/ \E r \in Readers : Read(r)
  \/ \E m \in Messages, h \in Posts, b \in Hooked : Post(h, b, m)
  \/ \E w \in Watchers : (\E m \in Messages : Poll(w, m)) \/ Watching(w)
  \/ \E w \in Workers : Handling(w)
  \/ \E b \in Bots : Switch(b)
  \/ Load

Fairness ==
  /\ \A r \in Readers : WF_vars(Read(r))
  /\ \A w \in Watchers : WF_vars(Watching(w))
  /\ \A w \in Workers : WF_vars(Handling(w))

Spec == Init /\ [][Next]_vars /\ Fairness
-----------------------------------------------------------------------------
\* However often and on however many ways a message is delivered, and whichever
\* goroutine is first, a channel answers it once in a load; unless the store of its
\* dispatcher has had to drop the key (AlreadySeen, Handle).
AnsweredOnce ==
  \A answer \in repeats : <<answer.bot, answer.msg>> \in dropped[answer.load]

\* The ways besides its role in which a text, which names somebody, speaks to a polled
\* channel: its ID, an alias of its own, a picture that quotes it or goes to everybody, a
\* trigger that asks for no name, and any mention when it has no alias to be told by.
SpokenTo(b, m) ==
  \/ Config[b].openids \cap Text[m].at # {}
  \/ \E token \in Text[m].tokens : Begins[token] \cap Config[b].aliases # {}
  \/ HasImages(m) /\ (Config[b].imageTrigger = "any" \/ QuotesBot(b, m))
  \/ Config[b].trigger # "mention"
  \/ Config[b].aliases = {}

\* Nobody answers for another, though every WebSocket hears of every message: an answer
\* comes from a channel of the chat where the message was written, unless it was pushed
\* without an ID, or to a channel without one, and no name speaks against that channel
\* (README.md:133 asks for yzj_bot_open_id on that account); and when the message names
\* somebody, from one it names, or from a webhook or WebSocket channel it was sent to in
\* private, or from a polled channel that it speaks to in another way
\* (websocketMessageForBot, MessageTargetsBot, pollTrigger, samePollGroupLabel).
NobodyElseAnswers ==
  \A answer \in answers :
    LET b == answer.bot
        m == answer.msg IN
    /\ \/ Config[b].group_id = Text[m].chat
       \/ /\ b \in WS /\ (Text[m].robotId = Nobody \/ Config[b].openids = {})
          /\ Text[m].robotName \in {Nobody, Config[b].role} \cup Config[b].aliases
    /\ Text[m].tokens = {} \/ Config[b].role \in Text[m].tokens
       \/ IF b \in Polled THEN SpokenTo(b, m) ELSE Text[m].private

\* A polled message is answered by every channel of its group that it mentions, and an
\* earlier target that takes it up keeps no later one from it, as long as no channel has
\* been switched and no load has removed this one (onPollMessage).
MentionsAreAnswered ==
  \A m \in Messages, b \in Polled :
    /\ switches = 0 /\ sent["poll"][m] > 0 /\ \A w \in Watchers : worker[w].msg # m
    /\ Config[b].group_id = Text[m].chat /\ ~IsFromBot(m) /\ MentionsBots(b, m)
    /\ \A g \in 1 .. gen : b \in Loaded[g]
    => \E answer \in answers : answer.bot = b /\ answer.msg = m
=============================================================================
