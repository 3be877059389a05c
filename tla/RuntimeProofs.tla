---------------------------- MODULE RuntimeProofs ----------------------------
(***************************************************************************)
(* Machine-checked proofs about Runtime: type correctness, the one loop of *)
(* a client that is on, and the switches shown, saved and in force.        *)
(***************************************************************************)
EXTENDS Runtime, FiniteSetTheorems, TLAPS

LoopState == [pc : {"none", "top", "dial", "up", "giveup", "tell"},
              cancelled : BOOLEAN, fails : 0 .. AuthLimit, done : BOOLEAN]

RequestState == [pc : {"idle", "snap", "load", "back"}, bare : BOOLEAN,
                 keep : BOOLEAN, snap : [Channels -> Switch]]

(* Types *)

LEMMA Facts ==
  /\ AuthLimit \in Nat /\ AuthLimit >= 1 /\ MaxLoads \in Nat /\ MaxSwitches \in Nat
  /\ WS \subseteq Channels /\ \A S \in Configs : S \subseteq Channels
  /\ \A g \in Loads : g \in Nat
BY RuntimeAssumption DEF Loads

LEMMA NoneTyped ==
  /\ NoLoop \in LoopState /\ NewLoop \in LoopState
  /\ NoSwitches \in [Channels -> Switch] /\ Idle \in RequestState
  /\ NewLoop.pc = "top" /\ NewLoop.cancelled = FALSE /\ NoLoop.pc = "none"
<1>1. NoLoop \in LoopState /\ NoLoop.pc = "none" /\ NoLoop.cancelled = FALSE
  BY Facts DEF NoLoop, LoopState
<1>2. NewLoop \in LoopState /\ NewLoop.pc = "top" /\ NewLoop.cancelled = FALSE
  BY <1>1 DEF NewLoop, LoopState
<1>3. NoSwitches \in [Channels -> Switch]
  BY DEF NoSwitches, Switch
<1>4. Idle \in RequestState
  BY <1>3 DEF Idle, RequestState
<1> QED
  BY <1>1, <1>2, <1>3, <1>4

LEMMA LoopFields ==
  ASSUME NEW x \in LoopState
  PROVE  /\ [x EXCEPT !.cancelled = TRUE] \in LoopState
         /\ [x EXCEPT !.cancelled = TRUE].pc = x.pc /\ [x EXCEPT !.cancelled = TRUE].cancelled = TRUE
         /\ \A pc \in {"none", "top", "dial", "up", "giveup", "tell"} :
              [x EXCEPT !.pc = pc] \in LoopState
BY DEF LoopState

\* TypeOK with the types of the loops and requests named, and what the reloads and the
\* clients' loops leave of the last load.
PolledGroups == {GroupOf[c] : c \in Channels \ WS}
PollTyped == watchers \subseteq PolledGroups /\ watching \subseteq watchers /\ quiet \subseteq watchers

Typed ==
  /\ up \in BOOLEAN /\ closing \in BOOLEAN /\ config \in Configs /\ gen \in Loads
  /\ loaded \in Configs \cup {{}} /\ PollTyped
  /\ enabled \in [Channels -> Switch] /\ file \in [Channels -> Switch]
  /\ on \in [Loads -> SUBSET WS]
  /\ loop \in [Loops -> LoopState] /\ request \in [Requests -> RequestState]
  /\ switches \in 0 .. MaxSwitches
  /\ wanted \in [Channels -> Switch] /\ torn \subseteq Channels /\ bare \in BOOLEAN

LEMMA TypedIsTypeOK == Typed <=> TypeOK
BY DEF Typed, PollTyped, PolledGroups, TypeOK, LoopState, RequestState

LEMMA LoadedTyped ==
  ASSUME Typed
  PROVE  loaded \subseteq Channels
BY Facts DEF Typed

LEMMA SetupTyped ==
  ASSUME NEW S, S \subseteq Channels, SetupPollers(S)
  PROVE  watchers' \subseteq PolledGroups
BY DEF SetupPollers, PolledGroups

\* The watchers that are on when the switches are applied are among those there are.
LEMMA RecomputeTyped ==
  ASSUME watchers' \subseteq PolledGroups,
         \E S, f : (Recompute(watchers, S, f) /\ UNCHANGED watchers) \/ Recompute(watchers', S, f)
  PROVE  PollTyped'
BY DEF Recompute, PollTyped

LEMMA SamePollTyped ==
  ASSUME PollTyped, UNCHANGED <<watchers, watching, quiet>>
  PROVE  PollTyped'
BY DEF PollTyped

LEMMA SetEnabledTyped ==
  ASSUME Typed, NEW g \in Loads, NEW On, NEW Off, On \subseteq WS, SetEnabled(g, On, Off)
  PROVE  on' \in [Loads -> SUBSET WS] /\ loop' \in [Loops -> LoopState]
<1>1. on' \in [Loads -> SUBSET WS]
  BY DEF SetEnabled, Typed
<1>2. \A l \in Loops : loop[l] \in LoopState /\ [loop[l] EXCEPT !.cancelled = TRUE] \in LoopState
  BY LoopFields DEF Typed
<1>3. loop' \in [Loops -> LoopState]
  BY <1>2, NoneTyped DEF SetEnabled
<1> QED
  BY <1>1, <1>3

LEMMA SwitchedTyped ==
  ASSUME Typed, NEW S, NEW v \in BOOLEAN
  PROVE  /\ [c \in Channels |-> IF c \in S THEN OfBool(v) ELSE enabled[c]] \in [Channels -> Switch]
         /\ [c \in Channels |-> IF c \in S THEN OfBool(v) ELSE wanted[c]] \in [Channels -> Switch]
BY DEF Typed, OfBool, Switch

LEMMA SetTyped ==
  ASSUME Typed, NEW S, S \subseteq Channels, NEW v \in BOOLEAN, Set(S, v)
  PROVE  /\ on' \in [Loads -> SUBSET WS] /\ loop' \in [Loops -> LoopState]
         /\ enabled' \in [Channels -> Switch] /\ file' \in [Channels -> Switch]
         /\ PollTyped' /\ UNCHANGED <<up, config, gen, loaded>>
<1>1. gen \in Loads
  BY DEF Typed
<1>2. on' \in [Loads -> SUBSET WS] /\ loop' \in [Loops -> LoopState]
  BY <1>1, SetEnabledTyped DEF Set
<1>3. enabled' \in [Channels -> Switch]
  BY SwitchedTyped DEF Set
<1>4. PollTyped'
  BY RecomputeTyped DEF Set, Typed, PollTyped
<1> QED
  BY <1>2, <1>3, <1>4 DEF Set

LEMMA AskedTyped ==
  ASSUME Typed, NEW S, S \subseteq Channels, NEW v \in BOOLEAN, Asked(S, v)
  PROVE  /\ switches' \in 0 .. MaxSwitches /\ wanted' \in [Channels -> Switch]
         /\ torn' \subseteq Channels /\ UNCHANGED <<closing, request>>
<1>1. switches' \in 0 .. MaxSwitches
  BY Facts DEF Asked, Typed
<1>2. wanted' \in [Channels -> Switch]
  BY SwitchedTyped DEF Asked
<1>3. torn' \subseteq Channels
  BY DEF Asked, Typed
<1> QED
  BY <1>1, <1>2, <1>3 DEF Asked

LEMMA SwitchTyped ==
  ASSUME Typed, NEW v \in BOOLEAN,
         \/ \E c \in Channels : SetChannelEnabled(c, v) \/ SetRoleEnabled(RoleOf[c], v)
         \/ SetAll(v)
  PROVE  Typed'
<1>1. PICK S \in SUBSET Channels : Set(S, v) /\ Asked(S, v) /\ bare' \in BOOLEAN
  <2>1. loaded \subseteq Channels
    BY LoadedTyped
  <2> QED
    BY <2>1 DEF SetChannelEnabled, SetRoleEnabled, SetAll, Typed
<1>2. /\ on' \in [Loads -> SUBSET WS] /\ loop' \in [Loops -> LoopState]
      /\ enabled' \in [Channels -> Switch] /\ file' \in [Channels -> Switch]
      /\ PollTyped' /\ UNCHANGED <<up, config, gen, loaded>>
  BY <1>1, SetTyped
<1>3. /\ switches' \in 0 .. MaxSwitches /\ wanted' \in [Channels -> Switch]
      /\ torn' \subseteq Channels /\ UNCHANGED <<closing, request>>
  BY <1>1, AskedTyped
<1> QED
  BY <1>1, <1>2, <1>3 DEF Typed

LEMMA RequestTyped ==
  ASSUME Typed, NEW q \in Requests, NEW x \in RequestState, request' = [request EXCEPT ![q] = x]
  PROVE  request' \in [Requests -> RequestState]
BY DEF Typed

LEMMA AskTyped ==
  ASSUME Typed, NEW q \in Requests, NEW keep \in BOOLEAN,
         AskReload(q, keep) \/ \E conf \in Configs : Put(q, conf, keep)
  PROVE  Typed'
<1>1. request[q] \in RequestState
  BY DEF Typed
<1>2. switches' \in 0 .. MaxSwitches
  BY Facts DEF AskReload, Put, Typed
<1>3. CASE AskReload(q, keep)
  <2> DEFINE x == [request[q] EXCEPT !.pc = "snap", !.keep = keep]
  <2>1. x \in RequestState /\ request' = [request EXCEPT ![q] = x]
    BY <1>1, <1>3 DEF AskReload, RequestState, Typed
  <2> HIDE DEF x
  <2>2. request' \in [Requests -> RequestState]
    BY <2>1, RequestTyped
  <2> QED
    BY <1>2, <1>3, <2>2, SamePollTyped DEF AskReload, Typed, ghosts
<1>4. ASSUME NEW conf \in Configs, Put(q, conf, keep) PROVE Typed'
  <2> DEFINE x == [request[q] EXCEPT !.pc = "snap", !.bare = ~keep, !.keep = keep]
  <2>1. x \in RequestState /\ request' = [request EXCEPT ![q] = x]
    BY <1>1, <1>4 DEF Put, RequestState, Typed
  <2> HIDE DEF x
  <2>2. request' \in [Requests -> RequestState]
    BY <2>1, RequestTyped
  <2> QED
    BY <1>2, <1>4, <2>2, SamePollTyped DEF Put, Typed, ghosts
<1> QED
  BY <1>3, <1>4

LEMMA FilledTyped ==
  ASSUME NEW f \in [Channels -> Switch], NEW S
  PROVE  Filled(f, S) \in [Channels -> Switch]
BY DEF Filled, Switch

LEMMA AllOnTyped ==
  ASSUME NEW f \in [Channels -> Switch], NEW S
  PROVE  [c \in Channels |-> IF c \in S THEN "on" ELSE f[c]] \in [Channels -> Switch]
BY DEF Switch

LEMMA ReloadTyped ==
  ASSUME Typed, NEW q \in Requests, ReloadStep(q)
  PROVE  Typed'
<1>1. /\ request[q] \in RequestState /\ request[q].snap \in [Channels -> Switch]
      /\ gen \in Loads /\ loaded \subseteq Channels /\ config \in Configs
      /\ config \subseteq Channels
  BY Facts, LoadedTyped DEF Typed, RequestState
<1>2. CASE Snapshot(q)
  <2> DEFINE s == IF request[q].keep THEN enabled ELSE NoSwitches
             x == [request[q] EXCEPT !.pc = "load", !.snap = s]
  <2>1. s \in [Channels -> Switch]
    BY NoneTyped DEF Typed
  <2>2. request' = [request EXCEPT ![q] = x]
    BY <1>2 DEF Snapshot, Typed
  <2> HIDE DEF s
  <2>3. x \in RequestState
    BY <1>1, <2>1 DEF RequestState
  <2> HIDE DEF x
  <2>4. request' \in [Requests -> RequestState]
    BY <2>2, <2>3, RequestTyped
  <2> QED
    BY <1>2, <2>4, SamePollTyped DEF Snapshot, Typed, ghosts
<1>3. CASE Load(q)
  <2>1. on' \in [Loads -> SUBSET WS] /\ loop' \in [Loops -> LoopState]
    BY <1>1, <1>3, SetEnabledTyped DEF Load
  <2>2. gen' \in Loads
    BY <1>1, <1>3, Facts DEF Load, Loads
  <2>3. request' \in [Requests -> RequestState]
    <3> DEFINE x == [request[q] EXCEPT !.pc = "back"]
    <3>1. x \in RequestState
      BY <1>1 DEF RequestState
    <3>2. request' = [request EXCEPT ![q] = Idle] \/ request' = [request EXCEPT ![q] = x]
      BY <1>3 DEF Load, Typed
    <3> HIDE DEF x
    <3> QED
      BY <3>1, <3>2, NoneTyped, RequestTyped
  <2>4. bare' \in BOOLEAN /\ loaded' = config
    BY <1>3 DEF Load, Typed
  <2>5. PollTyped'
    <3>1. SetupPollers(config) /\ watching' = {} /\ quiet' = {}
      BY <1>3 DEF Load
    <3> QED
      BY <1>1, <3>1, SetupTyped DEF PollTyped
  <2> QED
    BY <1>1, <1>3, <2>1, <2>2, <2>3, <2>4, <2>5 DEF Load, Typed
<1>4. CASE LoadFails(q)
  <2>1. request' \in [Requests -> RequestState]
    BY <1>4, NoneTyped, RequestTyped DEF LoadFails
  <2> QED
    BY <1>4, <2>1, SamePollTyped DEF LoadFails, Typed, ghosts
<1>5. CASE WriteBack(q)
  <2> DEFINE clients == loaded \cap WS
             switch == IF request[q].keep THEN Filled(request[q].snap, clients)
                       ELSE [c \in Channels |-> IF c \in loaded THEN "on" ELSE enabled[c]]
  <2>1. switch \in [Channels -> Switch]
    BY <1>1, FilledTyped, AllOnTyped DEF Typed
  <2>2. enabled' = switch /\ file' = switch /\ Recompute(watchers, loaded, switch)
        /\ SetEnabled(gen, {c \in clients : switch[c] = "on"}, {c \in clients : switch[c] = "off"})
    BY <1>5 DEF WriteBack
  <2> HIDE DEF switch
  <2>3. on' \in [Loads -> SUBSET WS] /\ loop' \in [Loops -> LoopState]
    BY <1>1, <2>2, SetEnabledTyped
  <2>4. request' \in [Requests -> RequestState]
    BY <1>5, NoneTyped, RequestTyped DEF WriteBack
  <2>5. wanted' \in [Channels -> Switch]
    BY <1>5, AllOnTyped DEF WriteBack, Typed
  <2>6. torn' \subseteq Channels /\ bare' \in BOOLEAN
    BY <1>1, <1>5 DEF WriteBack, Typed
  <2>7. UNCHANGED <<up, closing, config, gen, loaded, watchers, switches>>
    BY <1>5 DEF WriteBack
  <2>8. PollTyped'
    BY <2>2, <2>7, RecomputeTyped DEF Typed, PollTyped
  <2> QED
    BY <2>1, <2>2, <2>3, <2>4, <2>5, <2>6, <2>7, <2>8 DEF Typed
<1> QED
  BY <1>2, <1>3, <1>4, <1>5 DEF ReloadStep

LEMMA LoopOf ==
  ASSUME NEW l \in Loops
  PROVE  l[1] \in Loads /\ l[2] \in WS /\ l[3] \in Copies /\ l = <<l[1], l[2], l[3]>>
BY DEF Loops

\* A loop goes on, or returns, by itself.
LEMMA AloneTyped ==
  ASSUME Typed, NEW l \in Loops, NEW x \in LoopState, loop' = [loop EXCEPT ![l] = x], InLoop(l)
  PROVE  Typed'
<1>1. loop' \in [Loops -> LoopState]
  BY DEF Typed
<1> QED
  BY <1>1, SamePollTyped DEF InLoop, Typed, ghosts

\* The steps of a loop that change nothing but itself.
AloneStep(l) ==
  \/ Top(l) \/ DialFails(l) \/ Dialled(l) \/ AuthFails(l) \/ AuthPasses(l) \/ ReadEnds(l)
  \/ Cancelled(l) \/ ReadDone(l) \/ Stale(l)

\* Such a step leaves its loop's context alone, and ends it only when it is cancelled or
\* its client is off.
LEMMA AloneFacts ==
  ASSUME Typed, NEW l \in Loops, AloneStep(l)
  PROVE  /\ InLoop(l) /\ Runs(l)
         /\ \E x \in LoopState :
              /\ loop' = [loop EXCEPT ![l] = x]
              /\ \/ x = NoLoop /\ (loop[l].cancelled \/ l[2] \notin on[l[1]])
                 \/ x.cancelled = loop[l].cancelled /\ x.pc \notin {"none", "tell"}
              /\ loop[l].pc # "tell"
<1>1. loop[l] \in LoopState /\ AuthLimit \in Nat /\ AuthLimit >= 1
  BY Facts DEF Typed
<1> DEFINE y(pc) == [loop[l] EXCEPT !.pc = pc]
           z(pc) == [loop[l] EXCEPT !.pc = pc, !.done = FALSE]
           ended(f) == [loop[l] EXCEPT !.fails = f, !.done = TRUE]
<1>2. \A pc \in {"top", "dial", "up", "giveup"} :
        /\ y(pc) \in LoopState /\ y(pc).cancelled = loop[l].cancelled /\ y(pc).pc = pc
        /\ z(pc) \in LoopState /\ z(pc).cancelled = loop[l].cancelled /\ z(pc).pc = pc
  BY <1>1 DEF LoopState
<1>3. \A f \in 0 .. AuthLimit :
        /\ ended(f) \in LoopState /\ ended(f).cancelled = loop[l].cancelled
        /\ ended(f).pc = loop[l].pc
  BY <1>1 DEF LoopState
<1>4. CASE Top(l) \/ DialFails(l) \/ Dialled(l)
  <2>1. InLoop(l) /\ loop[l].pc \notin {"none", "tell"}
    BY <1>4 DEF Top, DialFails, Dialled
  <2>2. \/ Return(l) /\ (loop[l].cancelled \/ l[2] \notin on[l[1]])
        \/ \E pc \in {"top", "dial", "up", "giveup"} : loop' = [loop EXCEPT ![l] = y(pc)]
    BY <1>4 DEF Top, DialFails, Dialled, Go, Typed
  <2> HIDE DEF y
  <2> QED
    BY <2>1, <2>2, <1>2, NoneTyped DEF Return, Runs
<1>5. CASE Cancelled(l)
  BY <1>5, NoneTyped DEF Cancelled, Return, Runs
<1>6. CASE ReadDone(l) \/ Stale(l)
  <2>1. InLoop(l) /\ loop[l].pc \notin {"none", "tell"}
    BY <1>6 DEF ReadDone, Stale
  <2>2. \E pc \in {"top", "giveup"} : loop' = [loop EXCEPT ![l] = z(pc)]
    BY <1>6 DEF ReadDone, Stale, Typed
  <2> HIDE DEF z
  <2> QED
    BY <2>1, <2>2, <1>2 DEF Runs
<1>7. CASE AuthFails(l) \/ ReadEnds(l)
  <2>1. InLoop(l) /\ loop[l].pc = "up"
    BY <1>7 DEF AuthFails, ReadEnds
  <2>2. \E f \in 0 .. AuthLimit : loop' = [loop EXCEPT ![l] = ended(f)]
    <3>1. CASE AuthFails(l)
      <4> DEFINE f == IF loop[l].fails < AuthLimit THEN loop[l].fails + 1 ELSE loop[l].fails
      <4>1. f \in 0 .. AuthLimit
        BY <1>1 DEF LoopState
      <4>2. loop' = [loop EXCEPT ![l] = ended(f)]
        BY <3>1 DEF AuthFails, Typed
      <4> QED
        BY <4>1, <4>2
    <3>2. CASE ReadEnds(l)
      <4>1. loop[l].fails \in 0 .. AuthLimit /\ ended(loop[l].fails) = [loop[l] EXCEPT !.done = TRUE]
        BY <1>1 DEF LoopState
      <4>2. loop' = [loop EXCEPT ![l] = [loop[l] EXCEPT !.done = TRUE]]
        BY <3>2 DEF ReadEnds, Typed
      <4> QED
        BY <4>1, <4>2
    <3> QED
      BY <1>7, <3>1, <3>2
  <2> HIDE DEF ended
  <2> QED
    BY <2>1, <2>2, <1>3 DEF Runs
<1>8. CASE AuthPasses(l)
  <2> DEFINE x == [loop[l] EXCEPT !.fails = 0]
  <2>1. x \in LoopState /\ x.cancelled = loop[l].cancelled /\ x.pc = "up"
    BY <1>1, <1>8 DEF LoopState, AuthPasses
  <2>2. InLoop(l) /\ loop[l].pc = "up" /\ loop' = [loop EXCEPT ![l] = x]
    BY <1>8 DEF AuthPasses, Typed
  <2> HIDE DEF x
  <2> QED
    BY <2>1, <2>2 DEF Runs
<1> QED
  BY <1>4, <1>5, <1>6, <1>7, <1>8 DEF AloneStep

LEMMA LoopTyped ==
  ASSUME Typed, NEW l \in Loops, LoopStep(l)
  PROVE  Typed'
<1>1. \A m \in Loops : /\ loop[m] \in LoopState /\ [loop[m] EXCEPT !.cancelled = TRUE] \in LoopState
                       /\ [loop[m] EXCEPT !.pc = "tell", !.cancelled = TRUE] \in LoopState
  <2>1. \A m \in Loops : loop[m] \in LoopState
    BY DEF Typed
  <2> QED
    BY <2>1 DEF LoopState
<1>2. l[1] \in Loads /\ l[2] \in WS /\ l[2] \in Channels
  BY LoopOf, Facts
<1>3. CASE AloneStep(l)
  BY <1>3, AloneFacts, AloneTyped
<1>4. CASE GiveUp(l)
  <2>1. loop' \in [Loops -> LoopState]
    BY <1>1, <1>4 DEF GiveUp
  <2>2. on' \in [Loads -> SUBSET WS]
    BY <1>2, <1>4 DEF GiveUp, Typed
  <2> QED
    BY <1>4, <2>1, <2>2, SamePollTyped DEF GiveUp, Typed, ghosts
<1>5. CASE Tell(l)
  <2>1. loop' \in [Loops -> LoopState]
    BY <1>1, <1>5, NoneTyped DEF Tell
  <2>2. on' \in [Loads -> SUBSET WS]
    BY <1>2, <1>5 DEF Tell, Typed
  <2>3. enabled' \in [Channels -> Switch] /\ wanted' \in [Channels -> Switch]
    BY <1>2, <1>5 DEF Tell, Typed, Switch
  <2>4. PollTyped'
    BY <1>5, RecomputeTyped, SamePollTyped DEF Tell, Typed, PollTyped
  <2>5. torn' \subseteq Channels /\ file' = enabled'
    BY <1>2, <1>5 DEF Tell, Typed
  <2> QED
    BY <1>5, <2>1, <2>2, <2>3, <2>4, <2>5 DEF Tell, Typed
<1> QED
  BY <1>3, <1>4, <1>5 DEF LoopStep, AloneStep

LEMMA MainTyped ==
  ASSUME Typed, Boot \/ Shutdown \/ DisposeWatchers \/ Exit \/ \E g \in watchers : WatcherGivesUp(g)
  PROVE  Typed'
<1>1. gen \in Loads /\ loaded \subseteq Channels /\ config \in Configs /\ config \subseteq Channels
  BY Facts, LoadedTyped DEF Typed
<1>2. CASE Boot
  <2> DEFINE clients == config \cap WS
             restored == Filled(file, clients)
             all == config # {} /\ \A c \in clients : restored[c] # "on"
             switch == IF all THEN [c \in Channels |-> IF c \in config THEN "on" ELSE restored[c]]
                       ELSE restored
  <2>1. restored \in [Channels -> Switch]
    BY FilledTyped DEF Typed
  <2> HIDE DEF restored
  <2>2. switch \in [Channels -> Switch]
    BY <2>1, AllOnTyped
  <2>3. enabled' = switch /\ file' = switch
        /\ SetupPollers(config) /\ Recompute(watchers', config, switch)
        /\ SetEnabled(gen + 1, {c \in clients : switch[c] = "on"}, {})
        /\ torn' = (IF all THEN torn \cup Channels ELSE torn)
    BY <1>2 DEF Boot, restored
  <2> HIDE DEF switch, all
  <2>4. gen + 1 \in Loads
    BY <1>1, <1>2, Facts DEF Boot, Loads
  <2>5. on' \in [Loads -> SUBSET WS] /\ loop' \in [Loops -> LoopState]
    BY <2>3, <2>4, SetEnabledTyped
  <2>6. PollTyped'
    BY <1>1, <2>3, SetupTyped, RecomputeTyped
  <2>7. torn' \subseteq Channels
    BY <2>3 DEF Typed
  <2>8. up' = TRUE /\ gen' = gen + 1 /\ loaded' = config
        /\ UNCHANGED <<closing, config, request, switches, wanted, bare>>
    BY <1>2 DEF Boot
  <2> QED
    BY <1>1, <2>2, <2>3, <2>4, <2>5, <2>6, <2>7, <2>8 DEF Typed
<1>3. CASE Shutdown
  <2>1. Set(loaded, FALSE) /\ torn' = torn \cup loaded /\ closing' = TRUE
        /\ UNCHANGED <<request, switches, wanted, bare>>
    BY <1>3 DEF Shutdown
  <2>2. /\ on' \in [Loads -> SUBSET WS] /\ loop' \in [Loops -> LoopState]
        /\ enabled' \in [Channels -> Switch] /\ file' \in [Channels -> Switch]
        /\ PollTyped' /\ UNCHANGED <<up, config, gen, loaded>>
    BY <1>1, <2>1, SetTyped
  <2> QED
    BY <1>1, <2>1, <2>2 DEF Typed
<1>4. CASE Exit
  <2>1. on' \in [Loads -> SUBSET WS] /\ loop' \in [Loops -> LoopState]
        /\ request' \in [Requests -> RequestState] /\ enabled' \in [Channels -> Switch]
    BY <1>4, NoneTyped DEF Exit
  <2>2. PollTyped'
    BY <1>4 DEF Exit, PollTyped
  <2> QED
    BY <1>4, <2>1, <2>2 DEF Exit, Typed
<1>5. CASE DisposeWatchers \/ \E g \in watchers : WatcherGivesUp(g)
  <2>1. PollTyped'
    BY <1>5 DEF DisposeWatchers, WatcherGivesUp, Typed, PollTyped
  <2> QED
    BY <1>5, <2>1 DEF DisposeWatchers, WatcherGivesUp, Typed
<1> QED
  BY <1>2, <1>3, <1>4, <1>5

LEMMA InitTyped == Init => Typed
<1> SUFFICES ASSUME Init PROVE Typed
  OBVIOUS
<1>1. 0 \in Loads /\ 0 \in 0 .. MaxSwitches
  BY Facts DEF Loads
<1> QED
  BY <1>1, NoneTyped DEF Init, Typed, PollTyped

LEMMA NextTyped == Typed /\ [Next]_vars => Typed'
<1> SUFFICES ASSUME Typed, [Next]_vars PROVE Typed'
  OBVIOUS
<1>1. CASE Ask
  BY <1>1, SwitchTyped, AskTyped DEF Ask
<1>2. CASE UNCHANGED vars
  BY <1>2, SamePollTyped DEF vars, Typed
<1> QED
  BY <1>1, <1>2, MainTyped, ReloadTyped, LoopTyped DEF Next

LEMMA TypedHolds == Spec => []Typed
BY InitTyped, NextTyped, PTL DEF Spec

\* The switches, clients, watchers, loops and requests keep their types, for every set of
\* channels and configurations.
THEOREM TypeCorrect == Spec => []TypeOK
BY TypedHolds, TypedIsTypeOK, PTL
-----------------------------------------------------------------------------
(* One loop per client that is on *)

LiveLoop(l) == Runs(l) /\ ~loop[l].cancelled

\* A client that is on has a loop that has not been cancelled, one that is off has none,
\* and only the clients of the last load, of channels it has, are on; a loop that has given
\* up is cancelled.
Connected ==
  /\ \A g \in Loads : g # gen => on[g] = {}
  /\ on[gen] \subseteq loaded
  /\ \A l \in Loops : LiveLoop(l) => l[2] \in on[l[1]]
  /\ \A l \in Loops : loop[l].pc = "tell" => loop[l].cancelled
  /\ \A l, m \in Loops : LiveLoop(l) /\ LiveLoop(m) /\ l[1] = m[1] /\ l[2] = m[2] => l = m
  /\ \A g \in Loads, c \in WS : c \in on[g] => HasLoop(g, c)

LEMMA HasLoopIs ==
  /\ \A g \in Loads, c \in WS :
       HasLoop(g, c) <=> \E l \in Loops : LiveLoop(l) /\ l[1] = g /\ l[2] = c
  /\ \A g \in Loads, c \in WS :
       HasLoop(g, c)' <=> \E l \in Loops : LiveLoop(l)' /\ l[1] = g /\ l[2] = c
<1> SUFFICES ASSUME NEW g \in Loads, NEW c \in WS
             PROVE  /\ HasLoop(g, c) <=> \E l \in Loops : LiveLoop(l) /\ l[1] = g /\ l[2] = c
                    /\ HasLoop(g, c)' <=> \E l \in Loops : LiveLoop(l)' /\ l[1] = g /\ l[2] = c
  OBVIOUS
<1>1. \A k \in Copies : <<g, c, k>> \in Loops /\ <<g, c, k>>[1] = g /\ <<g, c, k>>[2] = c
  BY DEF Loops
<1>2. \A l \in Loops : l[1] = g /\ l[2] = c => l[3] \in Copies /\ l = <<g, c, l[3]>>
  BY LoopOf
<1>3. HasLoop(g, c) => \E l \in Loops : LiveLoop(l) /\ l[1] = g /\ l[2] = c
  BY <1>1 DEF HasLoop, LiveLoop, Runs
<1>4. HasLoop(g, c)' => \E l \in Loops : LiveLoop(l)' /\ l[1] = g /\ l[2] = c
  BY <1>1 DEF HasLoop, LiveLoop, Runs
<1>5. ASSUME NEW l \in Loops, LiveLoop(l), l[1] = g, l[2] = c PROVE HasLoop(g, c)
  BY <1>2, <1>5 DEF HasLoop, LiveLoop, Runs
<1>6. ASSUME NEW l \in Loops, LiveLoop(l)', l[1] = g, l[2] = c PROVE HasLoop(g, c)'
  BY <1>2, <1>6 DEF HasLoop, LiveLoop, Runs
<1> QED
  BY <1>3, <1>4, <1>5, <1>6

LEMMA FreeCopyIs ==
  ASSUME NEW g, NEW c, FreeCopies(g, c) # {}
  PROVE  FreeCopy(g, c) \in Copies /\ ~Runs(<<g, c, FreeCopy(g, c)>>)
<1>1. FreeCopy(g, c) \in FreeCopies(g, c)
  BY DEF FreeCopy
<1> QED
  BY <1>1 DEF FreeCopies

\* What SetEnabled leaves of the loops of each client, and that no loop that tells of its
\* end is lost.
LEMMA SetEnabledFacts ==
  ASSUME Typed, Connected, NEW g \in Loads, NEW On, NEW Off, On \subseteq WS,
         On \cap Off = {}, SetEnabled(g, On, Off)
  PROVE  /\ on'[g] = (on[g] \cup On) \ Off /\ \A h \in Loads : h # g => on'[h] = on[h]
         /\ \A l \in Loops : loop[l].pc = "tell" <=> loop'[l].pc = "tell"
         /\ \A l \in Loops : LiveLoop(l)' => l[2] \in on'[l[1]]
         /\ \A l \in Loops : loop'[l].pc = "tell" => loop'[l].cancelled
         /\ \A l, m \in Loops : LiveLoop(l)' /\ LiveLoop(m)' /\ l[1] = m[1] /\ l[2] = m[2] => l = m
         /\ \A h \in Loads, c \in WS : c \in on'[h] => HasLoop(h, c)'
<1> DEFINE Born(l) == l[1] = g /\ l[2] \in On /\ ~HasLoop(g, l[2]) /\ l[3] = FreeCopy(g, l[2])
           Cut(l) == l[1] = g /\ l[2] \in Off /\ Runs(l)
<1>1. on'[g] = (on[g] \cup On) \ Off /\ \A h \in Loads : h # g => on'[h] = on[h]
  BY DEF SetEnabled, Typed
<1>2. \A l \in Loops : l[1] \in Loads /\ l[2] \in WS /\ l[3] \in Copies /\ l = <<l[1], l[2], l[3]>>
  BY LoopOf
<1>3. \A l \in Loops : Born(l) => ~Runs(l) /\ ~Cut(l)
  <2> SUFFICES ASSUME NEW l \in Loops, Born(l) PROVE ~Runs(l)
    OBVIOUS
  <2>1. FreeCopies(g, l[2]) # {}
    BY DEF SetEnabled
  <2> QED
    BY <2>1, <1>2, FreeCopyIs
<1>4. \A l \in Loops : /\ Cut(l) => loop'[l] = [loop[l] EXCEPT !.cancelled = TRUE]
                       /\ Born(l) => loop'[l] = NewLoop
                       /\ ~Cut(l) /\ ~Born(l) => loop'[l] = loop[l]
  BY <1>3 DEF SetEnabled
<1>5. \A l \in Loops : /\ Cut(l) => loop'[l].cancelled /\ loop'[l].pc = loop[l].pc
                       /\ Born(l) => LiveLoop(l)' /\ loop'[l].pc = "top" /\ loop[l].pc = "none"
                       /\ ~Born(l) => (LiveLoop(l)' <=> LiveLoop(l) /\ ~Cut(l))
  <2> SUFFICES ASSUME NEW l \in Loops
               PROVE  /\ Cut(l) => loop'[l].cancelled /\ loop'[l].pc = loop[l].pc
                      /\ Born(l) => LiveLoop(l)' /\ loop'[l].pc = "top" /\ loop[l].pc = "none"
                      /\ ~Born(l) => (LiveLoop(l)' <=> LiveLoop(l) /\ ~Cut(l))
    OBVIOUS
  <2>1. loop[l] \in LoopState
    BY DEF Typed
  <2>2. CASE Cut(l)
    <3>1. loop'[l].cancelled = TRUE /\ loop'[l].pc = loop[l].pc
      BY <2>1, <2>2, <1>4, LoopFields
    <3> QED
      BY <3>1, <2>2, <1>3 DEF LiveLoop, Runs
  <2>3. CASE Born(l)
    <3>1. loop'[l] = NewLoop /\ ~Runs(l)
      BY <2>3, <1>3, <1>4
    <3> QED
      BY <3>1, <2>3, <1>3, NoneTyped DEF LiveLoop, Runs
  <2>4. CASE ~Born(l) /\ ~Cut(l)
    BY <2>4, <1>4 DEF LiveLoop, Runs
  <2> QED
    BY <2>2, <2>3, <2>4
<1> HIDE DEF Born, Cut
<1>6. \A l \in Loops : loop[l].pc = "tell" <=> loop'[l].pc = "tell"
  BY <1>4, <1>5
<1>7. \A l \in Loops : LiveLoop(l)' => l[2] \in on'[l[1]]
  <2> SUFFICES ASSUME NEW l \in Loops, LiveLoop(l)' PROVE l[2] \in on'[l[1]]
    OBVIOUS
  <2>1. CASE Born(l)
    BY <2>1, <1>1 DEF Born
  <2>2. CASE ~Born(l)
    <3>1. LiveLoop(l) /\ ~Cut(l) /\ l[2] \in on[l[1]]
      BY <2>2, <1>5 DEF Connected
    <3>2. l[1] = g => l[2] \notin Off
      BY <3>1 DEF Cut, LiveLoop
    <3> QED
      BY <3>1, <3>2, <1>1, <1>2
  <2> QED
    BY <2>1, <2>2
<1>8. \A l \in Loops : loop'[l].pc = "tell" => loop'[l].cancelled
  <2> SUFFICES ASSUME NEW l \in Loops, loop'[l].pc = "tell" PROVE loop'[l].cancelled
    OBVIOUS
  <2>1. loop[l].pc = "tell" /\ loop[l].cancelled /\ ~Born(l)
    BY <1>5, <1>6 DEF Connected
  <2> QED
    BY <2>1, <1>4, <1>5
<1>9. \A l, m \in Loops : LiveLoop(l)' /\ LiveLoop(m)' /\ l[1] = m[1] /\ l[2] = m[2] => l = m
  <2> SUFFICES ASSUME NEW l \in Loops, NEW m \in Loops, LiveLoop(l)', LiveLoop(m)',
                      l[1] = m[1], l[2] = m[2]
               PROVE  l = m
    OBVIOUS
  <2>1. CASE ~Born(l) /\ ~Born(m)
    BY <2>1, <1>5 DEF Connected
  <2>2. CASE Born(l) /\ Born(m)
    BY <2>2, <1>2 DEF Born
  <2>3. ASSUME NEW a \in Loops, NEW b \in Loops, Born(a), ~Born(b), LiveLoop(b)',
               a[1] = b[1], a[2] = b[2]
        PROVE  FALSE
    <3>1. LiveLoop(b)
      BY <2>3, <1>5
    <3> QED
      BY <3>1, <2>3, <1>2, HasLoopIs DEF Born
  <2> QED
    BY <2>1, <2>2, <2>3
<1>10. \A h \in Loads, c \in WS : c \in on'[h] => HasLoop(h, c)'
  <2> SUFFICES ASSUME NEW h \in Loads, NEW c \in WS, c \in on'[h]
               PROVE  \E l \in Loops : LiveLoop(l)' /\ l[1] = h /\ l[2] = c
    BY HasLoopIs
  <2>1. CASE HasLoop(h, c)
    <3>1. PICK l \in Loops : LiveLoop(l) /\ l[1] = h /\ l[2] = c
      BY <2>1, HasLoopIs
    <3>2. ~Cut(l)
      BY <3>1, <1>1 DEF Cut
    <3>3. ~Born(l)
      BY <3>1, <1>3 DEF LiveLoop
    <3> QED
      BY <3>1, <3>2, <3>3, <1>5
  <2>2. CASE ~HasLoop(h, c)
    <3>1. c \notin on[h]
      BY <2>2 DEF Connected
    <3>2. h = g /\ c \in On
      BY <3>1, <1>1
    <3>3. FreeCopies(g, c) # {}
      BY <2>2, <3>2 DEF SetEnabled
    <3> DEFINE l == <<g, c, FreeCopy(g, c)>>
    <3>4. l \in Loops /\ l[1] = g /\ l[2] = c /\ l[3] = FreeCopy(g, c)
      BY <3>3, FreeCopyIs DEF Loops
    <3>5. Born(l)
      BY <2>2, <3>2, <3>4 DEF Born
    <3> QED
      BY <3>2, <3>4, <3>5, <1>5
  <2> QED
    BY <2>1, <2>2
<1> QED
  BY <1>1, <1>6, <1>7, <1>8, <1>9, <1>10

\* Nothing of the bridge is left when it has exited.
Alive == ~up => loaded = {} /\ (\A q \in Requests : request[q].pc = "idle") /\ \A l \in Loops : ~Runs(l)

LEMMA InitAlive == Init => Alive
BY DEF Init, Alive, Idle, NoLoop, Runs

LEMMA StepsAlive ==
  ASSUME Typed, Alive
  PROVE  /\ \A S, v : Set(S, v) /\ up => Alive'
         /\ \A q \in Requests : ReloadStep(q) => up
         /\ \A l \in Loops : LoopStep(l) => up
<1>1. \A q \in Requests : ReloadStep(q) => up
  BY DEF Alive, ReloadStep, Snapshot, Load, LoadFails, WriteBack
<1>2. \A l \in Loops : LoopStep(l) => Runs(l)
  BY DEF LoopStep, Top, DialFails, Dialled, AuthFails, AuthPasses, ReadEnds, Cancelled, ReadDone,
         Stale, GiveUp, Tell, Runs
<1> QED
  BY <1>1, <1>2 DEF Alive, Set

LEMMA NextAlive == Typed /\ Alive /\ [Next]_vars => Alive'
<1> SUFFICES ASSUME Typed, Alive, [Next]_vars PROVE Alive'
  OBVIOUS
<1>1. CASE up /\ up' = up
  BY <1>1 DEF Alive
<1>2. CASE Exit
  BY <1>2, NoneTyped DEF Exit, Alive, Idle, Runs
<1>3. CASE Boot
  BY <1>3 DEF Boot, Alive
<1>4. CASE UNCHANGED vars
  BY <1>4 DEF vars, Alive, Runs
<1>5. CASE DisposeWatchers \/ \E g \in watchers : WatcherGivesUp(g)
  BY <1>5 DEF DisposeWatchers, WatcherGivesUp, Alive, Runs
<1>6. CASE Ask \/ Shutdown \/ (\E q \in Requests : ReloadStep(q)) \/ \E l \in Loops : LoopStep(l)
  <2>1. up
    BY <1>6, StepsAlive DEF Ask, Asked, SetChannelEnabled, SetRoleEnabled, SetAll, AskReload, Put,
                            Shutdown
  <2>2. up' = up
    BY <1>6 DEF Ask, SetChannelEnabled, SetRoleEnabled, SetAll, Set, AskReload, Put, Shutdown,
                ReloadStep, Snapshot, Load, LoadFails, WriteBack, LoopStep, Top, DialFails, Dialled,
                AuthFails, AuthPasses, ReadEnds, Cancelled, ReadDone, Stale, GiveUp, Tell,
                InLoop
  <2> QED
    BY <2>1, <2>2, <1>1
<1> QED
  BY <1>2, <1>3, <1>4, <1>5, <1>6 DEF Next

\* Connected without the operators it is made of, for steps that leave it alone.
LEMMA SameConnected ==
  ASSUME Connected, UNCHANGED <<on, loop, gen, loaded>>
  PROVE  Connected'
<1>1. \A l \in Loops : LiveLoop(l)' <=> LiveLoop(l)
  BY DEF LiveLoop, Runs
<1>2. \A g \in Loads, c \in WS : HasLoop(g, c)' <=> HasLoop(g, c)
  BY DEF HasLoop, Runs
<1> QED
  BY <1>1, <1>2 DEF Connected

\* A SetEnabled of the clients of the last load.
LEMMA SetStaysConnected ==
  ASSUME Typed, Connected, gen \in Loads, NEW On, NEW Off, On \subseteq WS, On \subseteq loaded,
         On \cap Off = {}, SetEnabled(gen, On, Off), UNCHANGED <<gen, loaded>>
  PROVE  Connected'
<1>1. /\ on'[gen] = (on[gen] \cup On) \ Off /\ \A h \in Loads : h # gen => on'[h] = on[h]
      /\ \A l \in Loops : LiveLoop(l)' => l[2] \in on'[l[1]]
      /\ \A l \in Loops : loop'[l].pc = "tell" => loop'[l].cancelled
      /\ \A l, m \in Loops : LiveLoop(l)' /\ LiveLoop(m)' /\ l[1] = m[1] /\ l[2] = m[2] => l = m
      /\ \A h \in Loads, c \in WS : c \in on'[h] => HasLoop(h, c)'
  BY SetEnabledFacts
<1>2. /\ \A g \in Loads : g # gen => on[g] = {}
      /\ on[gen] \subseteq loaded
  BY DEF Connected
<1>3. /\ \A g \in Loads : g # gen' => on'[g] = {}
      /\ on'[gen'] \subseteq loaded'
  BY <1>1, <1>2
<1> QED
  BY <1>1, <1>3 DEF Connected

LEMMA SetConnected ==
  ASSUME Typed, Connected, NEW S, S \subseteq loaded, NEW v \in BOOLEAN, Set(S, v)
  PROVE  Connected'
<1> DEFINE On == IF v THEN S \cap WS ELSE {}
           Off == IF v THEN {} ELSE S \cap WS
<1>1. On \subseteq WS /\ On \subseteq loaded /\ On \cap Off = {} /\ SetEnabled(gen, On, Off)
      /\ UNCHANGED <<gen, loaded>> /\ gen \in Loads
  BY DEF Set, Typed
<1> HIDE DEF On, Off
<1> QED
  BY <1>1, SetStaysConnected

LEMMA ReloadConnected ==
  ASSUME Typed, Connected, NEW q \in Requests, ReloadStep(q)
  PROVE  Connected'
<1>1. gen \in Loads /\ gen \in Nat
  BY Facts DEF Typed
<1>2. CASE Snapshot(q) \/ LoadFails(q)
  BY <1>2, SameConnected DEF Snapshot, LoadFails
<1>3. CASE Load(q)
  <2>1. SetEnabled(gen, {}, loaded \cap WS) /\ gen' = gen + 1
    BY <1>3 DEF Load
  <2>2. \A g \in Loads : on'[g] = {}
    <3>1. on'[gen] = {}
      <4>1. on'[gen] = on[gen] \ (loaded \cap WS)
        BY <1>1, <2>1, SetEnabledFacts
      <4>2. on[gen] \subseteq loaded \cap WS
        BY <1>1 DEF Connected, Typed
      <4> QED
        BY <4>1, <4>2
    <3>2. \A g \in Loads : g # gen => on'[g] = {}
      BY <1>1, <2>1, SetEnabledFacts DEF Connected
    <3> QED
      BY <3>1, <3>2
  <2>3. /\ \A l \in Loops : LiveLoop(l)' => l[2] \in on'[l[1]]
        /\ \A l \in Loops : loop'[l].pc = "tell" => loop'[l].cancelled
        /\ \A l, m \in Loops : LiveLoop(l)' /\ LiveLoop(m)' /\ l[1] = m[1] /\ l[2] = m[2] => l = m
        /\ \A h \in Loads, c \in WS : c \in on'[h] => HasLoop(h, c)'
    <3>1. {} \subseteq WS /\ {} \cap (loaded \cap WS) = {}
      OBVIOUS
    <3> QED
      BY <1>1, <2>1, <3>1, SetEnabledFacts
  <2>4. gen' \in Loads
    BY <1>1, <1>3, Facts DEF Load, Loads
  <2> QED
    BY <2>2, <2>3, <2>4 DEF Connected
<1>4. CASE WriteBack(q)
  <2> DEFINE clients == loaded \cap WS
             switch == IF request[q].keep THEN Filled(request[q].snap, clients)
                       ELSE [c \in Channels |-> IF c \in loaded THEN "on" ELSE enabled[c]]
             On == {c \in clients : switch[c] = "on"}
             Off == {c \in clients : switch[c] = "off"}
  <2>1. SetEnabled(gen, On, Off) /\ UNCHANGED <<gen, loaded>>
    BY <1>4 DEF WriteBack
  <2> HIDE DEF switch
  <2>2. On \subseteq WS /\ On \subseteq loaded /\ On \cap Off = {}
    OBVIOUS
  <2> HIDE DEF On, Off
  <2> QED
    BY <1>1, <2>1, <2>2, SetStaysConnected
<1> QED
  BY <1>2, <1>3, <1>4 DEF ReloadStep

\* The steps of main, and the watchers that give up.
MainStep ==
  \/ Boot \/ Shutdown \/ DisposeWatchers \/ Exit
  \/ \E g \in watchers : WatcherGivesUp(g)

LEMMA MainConnected ==
  ASSUME Typed, Alive, Connected, MainStep
  PROVE  Connected'
<1>1. gen \in Loads /\ gen \in Nat
  BY Facts DEF Typed
<1>2. CASE Boot
  <2>1. PICK On \in SUBSET (config \cap WS) : SetEnabled(gen + 1, On, {})
    BY <1>2 DEF Boot
  <2>2. gen + 1 \in Loads /\ gen' = gen + 1 /\ loaded' = config
    BY <1>1, <1>2, Facts DEF Boot, Loads
  <2>3. \A g \in Loads : on[g] = {}
    BY <1>2 DEF Boot, Alive, Connected
  <2>4. on'[gen + 1] = On /\ \A g \in Loads : g # gen + 1 => on'[g] = {}
    <3>1. On \subseteq WS /\ On \cap {} = {}
      OBVIOUS
    <3>2. on'[gen + 1] = (on[gen + 1] \cup On) \ {} /\ \A g \in Loads : g # gen + 1 => on'[g] = on[g]
      BY <2>1, <2>2, <3>1, SetEnabledFacts
    <3> QED
      BY <2>2, <2>3, <3>2
  <2>5. On \subseteq WS /\ On \subseteq config /\ On \cap {} = {}
    OBVIOUS
  <2> QED
    BY <2>1, <2>2, <2>4, <2>5, SetEnabledFacts DEF Connected
<1>3. CASE Shutdown
  BY <1>3, SetConnected DEF Shutdown
<1>4. CASE Exit
  <2>1. /\ \A g \in Loads : on'[g] = {} /\ \A l \in Loops : ~LiveLoop(l)' /\ loop'[l].pc = "none"
        /\ gen' = gen
    BY <1>4, NoneTyped DEF Exit, LiveLoop, Runs
  <2> QED
    BY <1>1, <2>1 DEF Connected
<1>5. CASE DisposeWatchers \/ \E g \in watchers : WatcherGivesUp(g)
  BY <1>5, SameConnected DEF DisposeWatchers, WatcherGivesUp
<1> QED
  BY <1>2, <1>3, <1>4, <1>5 DEF MainStep

\* A client is turned off together with its loops.
LEMMA CutConnected ==
  ASSUME Typed, Connected, NEW g \in Loads, NEW c \in WS, UNCHANGED <<gen, loaded>>,
         on'[g] = on[g] \ {c}, \A h \in Loads : h # g => on'[h] = on[h],
         \A m \in Loops : LiveLoop(m)' <=> LiveLoop(m) /\ ~(m[1] = g /\ m[2] = c),
         \A m \in Loops : loop'[m].pc = "tell" => loop'[m].cancelled
  PROVE  Connected'
<1>1. \A m \in Loops : m[1] \in Loads /\ m[2] \in WS
  BY LoopOf
<1>2. \A m \in Loops : LiveLoop(m)' => m[2] \in on'[m[1]]
  BY <1>1 DEF Connected
<1>3. \A h \in Loads, d \in WS : d \in on'[h] => HasLoop(h, d)'
  <2> SUFFICES ASSUME NEW h \in Loads, NEW d \in WS, d \in on'[h]
               PROVE  \E m \in Loops : LiveLoop(m)' /\ m[1] = h /\ m[2] = d
    BY HasLoopIs
  <2>1. d \in on[h] /\ ~(h = g /\ d = c)
    OBVIOUS
  <2>2. PICK m \in Loops : LiveLoop(m) /\ m[1] = h /\ m[2] = d
    BY <2>1, HasLoopIs DEF Connected
  <2> QED
    BY <2>1, <2>2
<1>4. \A m, n \in Loops : LiveLoop(m)' /\ LiveLoop(n)' /\ m[1] = n[1] /\ m[2] = n[2] => m = n
  BY DEF Connected
<1>5. (\A h \in Loads : h # gen => on'[h] = {}) /\ on'[gen] \subseteq loaded
  BY DEF Connected, Typed
<1> QED
  BY <1>2, <1>3, <1>4, <1>5 DEF Connected

LEMMA LoopConnected ==
  ASSUME Typed, Connected, NEW l \in Loops, LoopStep(l)
  PROVE  Connected'
<1>1. l[1] \in Loads /\ l[2] \in WS /\ gen \in Loads /\ \A m \in Loops : m[1] \in Loads /\ m[2] \in WS
  BY LoopOf DEF Typed
<1>2. CASE AloneStep(l)
  <2>1. PICK x \in LoopState :
          /\ loop' = [loop EXCEPT ![l] = x]
          /\ \/ x = NoLoop /\ (loop[l].cancelled \/ l[2] \notin on[l[1]])
             \/ x.cancelled = loop[l].cancelled /\ x.pc \notin {"none", "tell"}
    BY <1>2, AloneFacts
  <2>2. UNCHANGED <<on, gen, loaded>> /\ Runs(l)
    BY <1>2, AloneFacts DEF InLoop
  <2>3. loop'[l] = x /\ \A m \in Loops : m # l => loop'[m] = loop[m]
    BY <2>1 DEF Typed
  <2>4. \A m \in Loops : LiveLoop(m)' <=> LiveLoop(m)
    <3>1. \A m \in Loops : m # l => (LiveLoop(m)' <=> LiveLoop(m))
      BY <2>3 DEF LiveLoop, Runs
    <3>2. CASE x = NoLoop /\ (loop[l].cancelled \/ l[2] \notin on[l[1]])
      <4>1. ~LiveLoop(l)
        BY <3>2 DEF Connected, LiveLoop
      <4> QED
        BY <3>1, <3>2, <4>1, <2>3, NoneTyped DEF LiveLoop, Runs
    <3>3. CASE x.cancelled = loop[l].cancelled /\ x.pc \notin {"none", "tell"}
      BY <3>1, <3>3, <2>2, <2>3 DEF LiveLoop, Runs
    <3> QED
      BY <3>2, <3>3, <2>1
  <2>5. \A m \in Loops : loop'[m].pc = "tell" => loop'[m].cancelled
    BY <2>1, <2>3, NoneTyped DEF Connected
  <2>6. \A g \in Loads, c \in WS : HasLoop(g, c) => HasLoop(g, c)'
    BY <2>4, HasLoopIs
  <2> QED
    BY <2>2, <2>4, <2>5, <2>6 DEF Connected
<1>3. CASE GiveUp(l)
  <2>1. /\ on'[l[1]] = on[l[1]] \ {l[2]} /\ \A g \in Loads : g # l[1] => on'[g] = on[g]
        /\ UNCHANGED <<gen, loaded>>
    BY <1>1, <1>3 DEF GiveUp, Typed
  <2>2. \A m \in Loops :
          /\ m[1] = l[1] /\ m[2] = l[2] => ~LiveLoop(m)'
          /\ ~(m[1] = l[1] /\ m[2] = l[2]) => loop'[m] = loop[m]
          /\ loop'[m].pc = "tell" => loop'[m].cancelled
    <3> SUFFICES ASSUME NEW m \in Loops
                 PROVE  /\ m[1] = l[1] /\ m[2] = l[2] => ~LiveLoop(m)'
                        /\ ~(m[1] = l[1] /\ m[2] = l[2]) => loop'[m] = loop[m]
                        /\ loop'[m].pc = "tell" => loop'[m].cancelled
      OBVIOUS
    <3>1. loop[m] \in LoopState /\ loop[l] \in LoopState
      BY DEF Typed
    <3>2. CASE m = l
      <4>1. loop'[m] = [loop[l] EXCEPT !.pc = "tell", !.cancelled = TRUE]
        BY <1>3, <3>2 DEF GiveUp
      <4>2. loop'[m].cancelled = TRUE
        BY <3>1, <4>1 DEF LoopState
      <4> QED
        BY <3>2, <4>2 DEF LiveLoop
    <3>3. CASE m # l /\ m[1] = l[1] /\ m[2] = l[2] /\ Runs(m)
      <4>1. loop'[m] = [loop[m] EXCEPT !.cancelled = TRUE]
        BY <1>3, <3>3 DEF GiveUp
      <4>2. loop'[m].cancelled = TRUE
        BY <3>1, <4>1 DEF LoopState
      <4> QED
        BY <3>3, <4>2 DEF LiveLoop
    <3>4. CASE m # l /\ ~(m[1] = l[1] /\ m[2] = l[2] /\ Runs(m))
      <4>1. loop'[m] = loop[m]
        BY <1>3, <3>4 DEF GiveUp
      <4> QED
        BY <3>4, <4>1 DEF LiveLoop, Runs, Connected
    <3> QED
      BY <3>2, <3>3, <3>4
  <2>3. \A m \in Loops : LiveLoop(m)' <=> LiveLoop(m) /\ ~(m[1] = l[1] /\ m[2] = l[2])
    BY <2>2 DEF LiveLoop, Runs
  <2> QED
    BY <1>1, <2>1, <2>2, <2>3, CutConnected
<1>4. CASE Tell(l)
  <2> DEFINE c == l[2]
  <2>1. \A m \in Loops : loop[m] \in LoopState
    BY DEF Typed
  <2>2. loop[l].pc = "tell" /\ ~LiveLoop(l) /\ ~LiveLoop(l)' /\ loop'[l].pc = "none"
    BY <1>4, NoneTyped DEF Tell, Connected, LiveLoop, Runs
  <2>3. CASE c \notin loaded
    <3>1. UNCHANGED <<on, gen, loaded>> /\ \A m \in Loops : m # l => loop'[m] = loop[m]
      BY <1>4, <2>3 DEF Tell
    <3>2. \A m \in Loops : LiveLoop(m)' <=> LiveLoop(m)
      BY <2>2, <3>1 DEF LiveLoop, Runs
    <3>3. \A m \in Loops : loop'[m].pc = "tell" => loop'[m].cancelled
      BY <2>2, <3>1 DEF Connected
    <3>4. \A g \in Loads, d \in WS : HasLoop(g, d) => HasLoop(g, d)'
      BY <3>2, HasLoopIs
    <3> QED
      BY <3>1, <3>2, <3>3, <3>4 DEF Connected
  <2>4. CASE c \in loaded
    <3>1. /\ on'[gen] = on[gen] \ {c} /\ \A g \in Loads : g # gen => on'[g] = on[g]
          /\ UNCHANGED <<gen, loaded>>
      BY <1>1, <1>4, <2>4 DEF Tell, Typed
    <3>2. \A m \in Loops : m # l => IF m[1] = gen /\ m[2] = c /\ Runs(m)
                                      THEN loop'[m] = [loop[m] EXCEPT !.cancelled = TRUE]
                                      ELSE loop'[m] = loop[m]
      BY <1>4, <2>4 DEF Tell
    <3>3. \A m \in Loops : m # l /\ m[1] = gen /\ m[2] = c /\ Runs(m) =>
            loop'[m].cancelled = TRUE /\ loop'[m].pc = loop[m].pc
      BY <2>1, <3>2 DEF LoopState
    <3>4. \A m \in Loops : LiveLoop(m)' <=> LiveLoop(m) /\ ~(m[1] = gen /\ m[2] = c)
      BY <2>2, <3>2, <3>3 DEF LiveLoop, Runs
    <3>5. \A m \in Loops : loop'[m].pc = "tell" => loop'[m].cancelled
      BY <2>2, <3>2, <3>3 DEF Connected
    <3> QED
      BY <1>1, <3>1, <3>4, <3>5, CutConnected
  <2> QED
    BY <2>3, <2>4
<1> QED
  BY <1>2, <1>3, <1>4 DEF LoopStep, AloneStep

LEMMA InitConnected == Init => Connected
<1> SUFFICES ASSUME Init PROVE Connected
  OBVIOUS
<1>1. (\A g \in Loads : on[g] = {}) /\ gen \in Loads
  BY Facts DEF Init, Loads
<1>2. \A l \in Loops : ~LiveLoop(l) /\ loop[l].pc = "none"
  BY NoneTyped DEF Init, LiveLoop, Runs
<1> QED
  BY <1>1, <1>2 DEF Connected

LEMMA NextConnected == Typed /\ Alive /\ Connected /\ [Next]_vars => Connected'
<1> SUFFICES ASSUME Typed, Alive, Connected, [Next]_vars PROVE Connected'
  OBVIOUS
<1>1. CASE Ask
  <2>1. ASSUME NEW S, S \subseteq loaded, NEW v \in BOOLEAN, Set(S, v) PROVE Connected'
    BY <2>1, SetConnected
  <2>2. ASSUME NEW q \in Requests, NEW keep \in BOOLEAN,
               AskReload(q, keep) \/ \E conf \in Configs : Put(q, conf, keep)
        PROVE  Connected'
    BY <2>2, SameConnected DEF AskReload, Put
  <2>3. ASSUME NEW v \in BOOLEAN,
               \/ \E c \in Channels : SetChannelEnabled(c, v) \/ SetRoleEnabled(RoleOf[c], v)
               \/ SetAll(v)
        PROVE  Connected'
    <3>1. \E S : S \subseteq loaded /\ Set(S, v)
      BY <2>3 DEF SetChannelEnabled, SetRoleEnabled, SetAll
    <3> QED
      BY <2>1, <3>1
  <2> QED
    BY <1>1, <2>2, <2>3 DEF Ask
<1>2. CASE UNCHANGED vars
  BY <1>2, SameConnected DEF vars
<1> QED
  BY <1>1, <1>2, MainConnected, ReloadConnected, LoopConnected DEF Next, MainStep

LEMMA ConnectedHolds == Spec => [](Typed /\ Alive /\ Connected)
BY InitTyped, NextTyped, InitAlive, NextAlive, InitConnected, NextConnected, PTL DEF Spec

\* A client that is on has one loop that has not been cancelled, one that is off or of an
\* earlier load none, whatever is switched, reloaded, given up and restarted in between
\* (Client.SetEnabled, Load).
THEOREM OneLoop == Spec => []OneLiveLoop
<1>1. Typed /\ Connected => OneLiveLoop
  <2> SUFFICES ASSUME Typed, Connected, NEW g \in Loads, NEW c \in WS
               PROVE  /\ Cardinality(Live(g, c)) = IF c \in on[g] THEN 1 ELSE 0
                      /\ g # gen => c \notin on[g]
    BY DEF OneLiveLoop
  <2>1. \A k \in Copies : <<g, c, k>> \in Loops /\ <<g, c, k>>[1] = g /\ <<g, c, k>>[2] = c
                          /\ (k \in Live(g, c) <=> LiveLoop(<<g, c, k>>))
    BY DEF Loops, Live, LiveLoop
  <2>2. CASE c \in on[g]
    <3>1. PICK k \in Copies : Runs(<<g, c, k>>) /\ ~loop[<<g, c, k>>].cancelled
      BY <2>2 DEF Connected, HasLoop
    <3>2. \A j \in Live(g, c) : j = k
      <4> SUFFICES ASSUME NEW j \in Live(g, c) PROVE j = k
        OBVIOUS
      <4>1. j \in Copies /\ LiveLoop(<<g, c, j>>) /\ LiveLoop(<<g, c, k>>)
        BY <3>1 DEF Live, LiveLoop
      <4>2. <<g, c, j>> = <<g, c, k>>
        BY <2>1, <4>1 DEF Connected
      <4> QED
        BY <4>2
    <3>3. Live(g, c) = {k}
      BY <3>1, <3>2 DEF Live
    <3> QED
      BY <2>2, <3>3, FS_Singleton DEF Connected
  <2>3. CASE c \notin on[g]
    <3>1. Live(g, c) = {}
      BY <2>1, <2>3 DEF Connected, Live
    <3> QED
      BY <2>3, <3>1, FS_EmptySet
  <2> QED
    BY <2>2, <2>3
<1> QED
  BY <1>1, ConnectedHolds, PTL

-----------------------------------------------------------------------------
(* The switches shown and saved *)

Writing == \E q \in Requests : request[q].pc = "back"
Telling(g, c) == \E k \in Copies : loop[<<g, c, k>>].pc = "tell"

\* Nothing connects or polls that is off.
NothingOff ==
  /\ watching \subseteq Watched(loaded, enabled)
  /\ on[gen] \subseteq {c \in loaded : enabled[c] = "on"}

\* The clients and watchers of the last load that are not off run, or have given up.
InForce ==
  /\ watchers \cap Watched(loaded, enabled) \subseteq watching \cup quiet
  /\ \A c \in loaded \cap WS : enabled[c] # "off" => c \in on[gen] \/ Telling(gen, c)

Shown == up => file = enabled /\ NothingOff /\ (bare \/ Writing \/ InForce)

LEMMA ShownIs == Shown <=> SwitchIsClient
BY DEF Shown, SwitchIsClient, NothingOff, InForce, Writing, Telling

\* A client about to tell that it has given up does so whatever is set.
LEMMA SetTells ==
  ASSUME Typed, Connected, NEW g \in Loads, NEW On, NEW Off, On \subseteq WS,
         On \cap Off = {}, SetEnabled(g, On, Off)
  PROVE  /\ on'[g] = (on[g] \cup On) \ Off
         /\ \A c \in WS : Telling(g, c) => \E k \in Copies : loop'[<<g, c, k>>].pc = "tell"
<1>1. on'[g] = (on[g] \cup On) \ Off
  BY SetEnabledFacts
<1>2. \A l \in Loops : loop[l].pc = "tell" <=> loop'[l].pc = "tell"
  BY SetEnabledFacts
<1>3. \A c \in WS, k \in Copies : <<g, c, k>> \in Loops
  BY DEF Loops
<1>4. \A c \in WS : Telling(g, c) => \E k \in Copies : loop'[<<g, c, k>>].pc = "tell"
  BY <1>2, <1>3 DEF Telling
<1> QED
  BY <1>1, <1>4

LEMMA SetShown ==
  ASSUME Typed, Connected, Shown, up, NEW S, S \subseteq loaded, NEW v \in BOOLEAN, Set(S, v),
         UNCHANGED request, bare' = bare \/ S = loaded
  PROVE  Shown'
<1> DEFINE On == IF v THEN S \cap WS ELSE {}
           Off == IF v THEN {} ELSE S \cap WS
<1>1. /\ On \subseteq WS /\ On \cap Off = {} /\ SetEnabled(gen, On, Off)
      /\ UNCHANGED <<gen, loaded, up, watchers>> /\ gen \in Loads
      /\ watching' = watchers \cap Watched(loaded, enabled') /\ file' = enabled'
      /\ On \subseteq S /\ Off \subseteq S
  BY DEF Set, Recompute, Typed
<1>2. \A c \in S : c \in Channels /\ enabled'[c] = OfBool(v)
  BY LoadedTyped DEF Set
<1>3. \A c \in Channels \ S : enabled'[c] = enabled[c]
  BY DEF Set
<1>4. (\A c \in On : enabled'[c] = "on") /\ (\A c \in S \cap WS : c \in Off \/ enabled'[c] = "on")
  <2>1. CASE v
    BY <2>1, <1>2 DEF OfBool
  <2>2. CASE ~v
    BY <2>2, <1>2 DEF OfBool
  <2> QED
    BY <2>1, <2>2
<1>5. \A c \in S \cap WS : c \in On \/ enabled'[c] = "off"
  <2>1. CASE v
    BY <2>1
  <2>2. CASE ~v
    BY <2>2, <1>2 DEF OfBool
  <2> QED
    BY <2>1, <2>2
<1>6. on[gen] \subseteq WS /\ loaded \subseteq Channels
  BY <1>1, LoadedTyped DEF Typed
<1> HIDE DEF On, Off
<1>7. on'[gen] = (on[gen] \cup On) \ Off
      /\ \A c \in WS : Telling(gen, c) => \E k \in Copies : loop'[<<gen, c, k>>].pc = "tell"
  BY <1>1, SetTells
<1>8. \A c \in WS : Telling(gen, c) => Telling(gen, c)'
  BY <1>1, <1>7 DEF Telling
<1>9. NothingOff'
  <2>1. \A c \in on'[gen] : c \in loaded /\ enabled'[c] = "on"
    <3> SUFFICES ASSUME NEW c \in on'[gen] PROVE c \in loaded /\ enabled'[c] = "on"
      OBVIOUS
    <3>1. CASE c \in On
      BY <3>1, <1>1, <1>4
    <3>2. CASE c \in on[gen] /\ c \in S
      BY <3>2, <1>4, <1>6, <1>7
    <3>3. CASE c \in on[gen] /\ c \notin S
      BY <3>3, <1>3, <1>6 DEF Shown, NothingOff
    <3> QED
      BY <3>1, <3>2, <3>3, <1>7
  <2> QED
    BY <1>1, <2>1 DEF NothingOff
<1>10. InForce \/ S = loaded => InForce'
  <2> SUFFICES ASSUME InForce \/ S = loaded, NEW c \in loaded \cap WS, enabled'[c] # "off"
               PROVE  c \in on'[gen] \/ Telling(gen, c)'
    BY <1>1 DEF InForce
  <2>1. CASE c \in S
    BY <2>1, <1>1, <1>5, <1>7
  <2>2. CASE c \notin S
    <3>1. c \in Channels /\ InForce /\ c \notin Off
      BY <2>2, <1>1, <1>6
    <3> QED
      BY <2>2, <3>1, <1>3, <1>7, <1>8 DEF InForce
  <2> QED
    BY <2>1, <2>2
<1>11. Writing => Writing'
  BY DEF Writing
<1> QED
  BY <1>1, <1>9, <1>10, <1>11 DEF Shown

LEMMA ReloadShown ==
  ASSUME Typed, Alive, Connected, Shown, NEW q \in Requests, ReloadStep(q)
  PROVE  Shown'
<1>1. up /\ gen \in Loads /\ loaded \subseteq Channels
  BY StepsAlive, LoadedTyped DEF Typed
<1>2. CASE Snapshot(q) \/ LoadFails(q)
  <2>1. UNCHANGED <<up, gen, loaded, enabled, file, on, watchers, watching, loop, bare, quiet>>
    BY <1>2 DEF Snapshot, LoadFails, ghosts
  <2>2. Writing => Writing'
    <3> SUFFICES ASSUME NEW p \in Requests, request[p].pc = "back" PROVE Writing'
      BY DEF Writing
    <3>1. request'[p] = request[p]
      BY <1>2 DEF Snapshot, LoadFails, Typed
    <3> QED
      BY <3>1 DEF Writing
  <2>3. NothingOff' <=> NothingOff
    BY <2>1 DEF NothingOff
  <2>4. InForce => InForce'
    BY <2>1 DEF InForce, Telling
  <2> QED
    BY <2>1, <2>2, <2>3, <2>4 DEF Shown
<1>3. CASE Load(q)
  <2>1. UNCHANGED <<up, enabled, file>> /\ gen' = gen + 1 /\ watching' = {}
    BY <1>3 DEF Load
  <2>2. bare' \/ Writing'
    <3>1. CASE request[q].bare
      BY <1>3, <3>1 DEF Load
    <3>2. CASE ~request[q].bare
      <4>1. request' = [request EXCEPT ![q] = [request[q] EXCEPT !.pc = "back"]]
        BY <1>3, <3>2 DEF Load, Typed
      <4>2. request'[q].pc = "back"
        BY <4>1 DEF Typed, RequestState
      <4> QED
        BY <4>2 DEF Writing
    <3> QED
      BY <3>1, <3>2
  <2>3. on'[gen'] = {}
    <3>1. SetEnabled(gen, {}, loaded \cap WS) /\ {} \subseteq WS /\ {} \cap (loaded \cap WS) = {}
      BY <1>3 DEF Load
    <3>2. \A g \in Loads : g # gen => on'[g] = on[g]
      BY <1>1, <3>1, SetEnabledFacts
    <3>3. gen' \in Loads /\ gen' # gen
      BY <1>1, <1>3, <2>1, Facts DEF Load, Loads
    <3> QED
      BY <3>2, <3>3 DEF Connected
  <2>4. NothingOff'
    BY <2>1, <2>3 DEF NothingOff
  <2> QED
    BY <2>1, <2>2, <2>4, <1>1 DEF Shown
<1>4. CASE WriteBack(q)
  <2> DEFINE clients == loaded \cap WS
             switch == IF request[q].keep THEN Filled(request[q].snap, clients)
                       ELSE [c \in Channels |-> IF c \in loaded THEN "on" ELSE enabled[c]]
             On == {c \in clients : switch[c] = "on"}
             Off == {c \in clients : switch[c] = "off"}
  <2>1. /\ SetEnabled(gen, On, Off) /\ UNCHANGED <<gen, loaded, up>>
        /\ enabled' = switch /\ file' = switch /\ UNCHANGED watchers
        /\ watching' = watchers \cap Watched(loaded, switch)
    BY <1>4 DEF WriteBack, Recompute
  <2>2. \A c \in clients : switch[c] \in {"on", "off"}
    <3>1. request[q].snap \in [Channels -> Switch]
      BY DEF Typed, RequestState
    <3> QED
      BY <3>1, <1>1 DEF Filled, Switch
  <2> HIDE DEF switch
  <2>3. On \subseteq WS /\ On \cap Off = {} /\ On \cup Off = clients
    BY <2>2
  <2>4. \A c \in On : enabled'[c] = "on"
    BY <2>1
  <2>5. on[gen] \subseteq clients
    BY <1>1 DEF Connected, Typed
  <2>6. \A c \in Off : enabled'[c] = "off"
    BY <2>1
  <2> HIDE DEF On, Off
  <2>7. on'[gen] = (on[gen] \cup On) \ Off
    BY <1>1, <2>1, <2>3, SetTells
  <2>8. on'[gen] = On
    BY <2>3, <2>5, <2>7
  <2>9. NothingOff'
    BY <2>1, <2>3, <2>4, <2>8 DEF NothingOff
  <2>10. InForce'
    BY <2>1, <2>3, <2>6, <2>8 DEF InForce
  <2> QED
    BY <2>1, <2>9, <2>10 DEF Shown
<1> QED
  BY <1>2, <1>3, <1>4 DEF ReloadStep

LEMMA LoopShown ==
  ASSUME Typed, Connected, Shown, NEW l \in Loops, LoopStep(l)
  PROVE  Shown'
<1>1. /\ l[1] \in Loads /\ l[2] \in WS /\ l[2] \in Channels /\ l[3] \in Copies
      /\ l = <<l[1], l[2], l[3]>> /\ gen \in Loads
  BY LoopOf, Facts DEF Typed
<1>2. \A c \in WS, k \in Copies : <<gen, c, k>> \in Loops
  BY <1>1 DEF Loops
<1>3. CASE AloneStep(l)
  <2>1. PICK x \in LoopState : loop' = [loop EXCEPT ![l] = x]
    BY <1>3, AloneFacts
  <2>2. loop[l].pc # "tell" /\ InLoop(l)
    BY <1>3, AloneFacts
  <2>3. UNCHANGED <<up, gen, loaded, enabled, file, on, watchers, watching, request, bare, quiet>>
    BY <2>2 DEF InLoop, ghosts
  <2>4. \A c \in WS : Telling(gen, c) => Telling(gen, c)'
    <3> SUFFICES ASSUME NEW c \in WS, NEW k \in Copies, loop[<<gen, c, k>>].pc = "tell"
                 PROVE  loop'[<<gen, c, k>>].pc = "tell"
      BY <2>3 DEF Telling
    <3> QED
      BY <1>2, <2>1, <2>2 DEF Typed
  <2>5. (NothingOff' <=> NothingOff) /\ (InForce => InForce')
    BY <2>3, <2>4 DEF NothingOff, InForce
  <2> QED
    BY <2>3, <2>5 DEF Shown, Writing
<1>4. CASE GiveUp(l)
  <2>1. UNCHANGED <<up, gen, loaded, enabled, file, watchers, watching, request, bare, quiet>>
    BY <1>4 DEF GiveUp, ghosts
  <2>2. \A m \in Loops : loop[m].pc = "tell" => loop'[m].pc = "tell"
    <3> SUFFICES ASSUME NEW m \in Loops, loop[m].pc = "tell" PROVE loop'[m].pc = "tell"
      OBVIOUS
    <3>1. m # l /\ loop[m] \in LoopState
      BY <1>4 DEF GiveUp, Typed
    <3>2. loop'[m] = loop[m] \/ loop'[m] = [loop[m] EXCEPT !.cancelled = TRUE]
      BY <1>4, <3>1 DEF GiveUp
    <3> QED
      BY <3>1, <3>2, LoopFields
  <2>3. loop'[l].pc = "tell"
    <3>1. loop'[l] = [loop[l] EXCEPT !.pc = "tell", !.cancelled = TRUE] /\ loop[l] \in LoopState
      BY <1>4 DEF GiveUp, Typed
    <3> QED
      BY <3>1 DEF LoopState
  <2>4. \A c \in WS : Telling(gen, c) => Telling(gen, c)'
    BY <1>2, <2>1, <2>2 DEF Telling
  <2>5. \A c \in WS : c # l[2] \/ l[1] # gen => (c \in on'[gen] <=> c \in on[gen])
    BY <1>1, <1>4 DEF GiveUp, Typed
  <2>6. l[1] = gen => Telling(gen, l[2])'
    BY <1>1, <2>1, <2>3 DEF Telling
  <2>7. InForce => InForce'
    <3> SUFFICES ASSUME InForce, NEW c \in loaded \cap WS, enabled[c] # "off"
                 PROVE  c \in on'[gen] \/ Telling(gen, c)'
      BY <2>1 DEF InForce
    <3> QED
      BY <2>1, <2>4, <2>5, <2>6 DEF InForce
  <2>8. NothingOff => NothingOff'
    <3>1. on'[gen] \subseteq on[gen]
      BY <1>1, <1>4 DEF GiveUp, Typed
    <3> QED
      BY <2>1, <3>1 DEF NothingOff
  <2> QED
    BY <2>1, <2>7, <2>8 DEF Shown, Writing
<1>5. CASE Tell(l)
  <2> DEFINE c == l[2]
  <2>1. UNCHANGED <<up, gen, loaded, watchers, request, bare>> /\ file' = enabled'
    BY <1>5 DEF Tell
  <2>2. \A m \in Loops : m # l /\ loop[m].pc = "tell" => loop'[m].pc = "tell"
    <3> SUFFICES ASSUME NEW m \in Loops, m # l, loop[m].pc = "tell" PROVE loop'[m].pc = "tell"
      OBVIOUS
    <3>1. loop[m] \in LoopState
      BY DEF Typed
    <3>2. loop'[m] = loop[m] \/ loop'[m] = [loop[m] EXCEPT !.cancelled = TRUE]
      BY <1>5 DEF Tell
    <3> QED
      BY <3>1, <3>2, LoopFields
  <2>3. \A d \in WS \ {c} : Telling(gen, d) => Telling(gen, d)'
    <3> SUFFICES ASSUME NEW d \in WS \ {c}, NEW k \in Copies, loop[<<gen, d, k>>].pc = "tell"
                 PROVE  loop'[<<gen, d, k>>].pc = "tell"
      BY <2>1 DEF Telling
    <3>1. <<gen, d, k>> # l
      BY <1>1
    <3> QED
      BY <1>2, <2>2, <3>1
  <2>4. \A d \in WS \ {c} : (d \in on'[gen] <=> d \in on[gen]) /\ enabled'[d] = enabled[d]
    <3>1. \A d \in WS : d \in Channels
      BY Facts
    <3> QED
      BY <1>1, <1>5, <3>1 DEF Tell, Typed
  <2>5. c \in loaded => c \notin on'[gen] /\ enabled'[c] = "off"
    BY <1>1, <1>5 DEF Tell, Typed
  <2>6. CASE c \in loaded
    <3>1. watching' = watchers \cap Watched(loaded, enabled')
      BY <1>5, <2>6 DEF Tell, Recompute
    <3>2. on'[gen] = on[gen] \ {c}
      BY <1>1, <1>5, <2>6 DEF Tell, Typed
    <3>3. on[gen] \subseteq WS
      BY <1>1 DEF Typed
    <3>4. NothingOff => NothingOff'
      <4> SUFFICES ASSUME NothingOff, NEW d \in on'[gen]
                   PROVE  d \in loaded /\ enabled'[d] = "on"
        BY <2>1, <3>1 DEF NothingOff
      <4> QED
        BY <2>4, <3>2, <3>3 DEF NothingOff
    <3>5. InForce => InForce'
      <4> SUFFICES ASSUME InForce, NEW d \in loaded \cap WS, enabled'[d] # "off"
                   PROVE  d \in on'[gen] \/ Telling(gen, d)'
        BY <2>1, <3>1 DEF InForce
      <4>1. d # c
        BY <2>5
      <4> QED
        BY <4>1, <2>3, <2>4 DEF InForce
    <3> QED
      BY <2>1, <3>4, <3>5 DEF Shown, Writing
  <2>7. CASE c \notin loaded
    <3>1. UNCHANGED <<on, enabled, watching, quiet>>
      BY <1>5, <2>7 DEF Tell
    <3>2. NothingOff' <=> NothingOff
      BY <2>1, <3>1 DEF NothingOff
    <3>3. InForce => InForce'
      <4> SUFFICES ASSUME InForce, NEW d \in loaded \cap WS, enabled[d] # "off"
                   PROVE  d \in on'[gen] \/ Telling(gen, d)'
        BY <2>1, <3>1 DEF InForce
      <4>1. d # c
        BY <2>7
      <4> QED
        BY <4>1, <2>3, <2>4 DEF InForce
    <3> QED
      BY <2>1, <3>1, <3>2, <3>3 DEF Shown, Writing
  <2> QED
    BY <2>6, <2>7
<1> QED
  BY <1>3, <1>4, <1>5 DEF LoopStep, AloneStep

LEMMA MainShown ==
  ASSUME Typed, Alive, Connected, Shown, MainStep
  PROVE  Shown'
<1>1. CASE Exit
  BY <1>1 DEF Exit, Shown
<1>2. CASE Shutdown
  BY <1>2, SetShown DEF Shutdown
<1>3. CASE Boot
  <2> DEFINE clients == config \cap WS
             restored == Filled(file, clients)
             all == config # {} /\ \A c \in clients : restored[c] # "on"
             switch == IF all THEN [c \in Channels |-> IF c \in config THEN "on" ELSE restored[c]]
                       ELSE restored
             On == {c \in clients : switch[c] = "on"}
  <2>1. /\ enabled' = switch /\ file' = switch /\ watching' = watchers' \cap Watched(config, switch)
        /\ SetEnabled(gen + 1, On, {}) /\ loaded' = config /\ gen' = gen + 1
    BY <1>3 DEF Boot, Recompute
  <2> HIDE DEF switch
  <2>2. gen \in Nat /\ gen + 1 \in Loads
    BY <1>3, Facts DEF Boot, Loads, Typed
  <2>3. on[gen + 1] = {}
    BY <2>2 DEF Connected
  <2>4. On \subseteq WS /\ {} \subseteq WS /\ On \cap {} = {} /\ \A c \in On : enabled'[c] = "on"
    BY <2>1
  <2>5. on'[gen + 1] = (on[gen + 1] \cup On) \ {}
    <3> HIDE DEF On
    <3> QED
      BY <2>1, <2>2, <2>4, SetEnabledFacts
  <2>6. on'[gen'] = On
    BY <2>1, <2>3, <2>5
  <2>7. \A c \in clients : c \in On \/ enabled'[c] = "off"
    <3>1. \A c \in clients : c \in Channels /\ file[c] \in Switch
      BY Facts DEF Typed
    <3>2. \A c \in clients : switch[c] \in {"on", "off"}
      BY <3>1 DEF switch, Filled, Switch
    <3> QED
      BY <2>1, <3>2
  <2>8. NothingOff'
    BY <2>1, <2>4, <2>6 DEF NothingOff
  <2>9. InForce'
    BY <2>1, <2>6, <2>7 DEF InForce
  <2> QED
    BY <2>1, <2>8, <2>9 DEF Shown
<1>4. CASE DisposeWatchers \/ \E g \in watchers : WatcherGivesUp(g)
  <2>1. /\ UNCHANGED <<up, gen, loaded, enabled, file, on, watchers, loop, request, bare>>
        /\ watching' \subseteq watching /\ watching \cup quiet \subseteq watching' \cup quiet'
    BY <1>4 DEF DisposeWatchers, WatcherGivesUp
  <2>2. NothingOff => NothingOff'
    BY <2>1 DEF NothingOff
  <2>3. InForce => InForce'
    BY <2>1 DEF InForce, Telling
  <2> QED
    BY <2>1, <2>2, <2>3 DEF Shown, Writing
<1> QED
  BY <1>1, <1>2, <1>3, <1>4 DEF MainStep

LEMMA NextShown == Typed /\ Alive /\ Connected /\ Shown /\ [Next]_vars => Shown'
<1> SUFFICES ASSUME Typed, Alive, Connected, Shown, [Next]_vars PROVE Shown'
  OBVIOUS
<1>1. CASE Ask
  <2>1. ASSUME NEW q \in Requests, NEW keep \in BOOLEAN,
               AskReload(q, keep) \/ \E conf \in Configs : Put(q, conf, keep)
        PROVE  Shown'
    <3>1. UNCHANGED <<up, gen, loaded, enabled, file, on, watchers, watching, loop, bare, quiet>>
      BY <2>1 DEF AskReload, Put, ghosts
    <3>2. Writing => Writing'
      <4> SUFFICES ASSUME NEW p \in Requests, request[p].pc = "back" PROVE Writing'
        BY DEF Writing
      <4>1. request'[p] = request[p]
        BY <2>1 DEF AskReload, Put, Typed, Idle
      <4> QED
        BY <4>1 DEF Writing
    <3>3. (NothingOff' <=> NothingOff) /\ (InForce => InForce')
      BY <3>1 DEF NothingOff, InForce, Telling
    <3> QED
      BY <3>1, <3>2, <3>3 DEF Shown
  <2>2. ASSUME NEW v \in BOOLEAN,
               \/ \E c \in Channels : SetChannelEnabled(c, v) \/ SetRoleEnabled(RoleOf[c], v)
               \/ SetAll(v)
        PROVE  Shown'
    <3>1. \E S : S \subseteq loaded /\ Set(S, v) /\ up /\ UNCHANGED request
                 /\ (bare' = bare \/ S = loaded)
      BY <2>2 DEF SetChannelEnabled, SetRoleEnabled, SetAll, Asked
    <3> QED
      BY <3>1, SetShown
  <2> QED
    BY <1>1, <2>1, <2>2 DEF Ask
<1>2. CASE UNCHANGED vars
  BY <1>2 DEF vars, Shown, NothingOff, InForce, Writing, Telling
<1> QED
  BY <1>1, <1>2, MainShown, ReloadShown, LoopShown DEF Next, MainStep

LEMMA InitShown == Init => Shown
BY DEF Init, Shown

\* While the bridge runs the switches shown are those saved, and nothing connects or polls
\* that is off.  What is not off runs, but for a reload that has yet to write the switches
\* back, a save that asked not to keep them, a client about to tell that it has given up, a
\* group for which no watcher could be made, and a watcher that has given up or was disposed
\* of since the switches were last applied (SetChannelEnabled, SaveAndReload, setupPollers,
\* noteError, main).
THEOREM SwitchShown == Spec => []SwitchIsClient
<1>1. Init => Typed /\ Alive /\ Connected /\ Shown
  BY InitTyped, InitAlive, InitConnected, InitShown
<1>2. Typed /\ Alive /\ Connected /\ Shown /\ [Next]_vars =>
        (Typed /\ Alive /\ Connected /\ Shown)'
  BY NextTyped, NextAlive, NextConnected, NextShown
<1>3. Typed /\ Alive /\ Connected /\ Shown => SwitchIsClient
  BY ShownIs
<1> QED
  BY <1>1, <1>2, <1>3, PTL DEF Spec

-----------------------------------------------------------------------------
(* The switches that were made *)

\* A reload that keeps the switches has them in its snapshot.
Carries(q) == request[q].pc \in {"load", "back"} /\ request[q].keep

Held ==
  \A c \in Channels \ torn : wanted[c] # "unset" =>
    /\ file[c] = wanted[c] /\ (up => enabled[c] = wanted[c])
    /\ \A q \in Requests : Carries(q) => request[q].snap[c] = wanted[c]

\* A step that leaves the switches alone, and takes no snapshot, and makes nobody less torn.
LEMMA SameHeld ==
  ASSUME Held, torn \subseteq torn', UNCHANGED <<wanted, file, enabled>>, up' => up,
         \A q \in Requests : Carries(q)' => Carries(q) /\ request'[q].snap = request[q].snap
  PROVE  Held'
BY DEF Held

\* A request of another one is not changed.
LEMMA OtherRequests ==
  ASSUME Typed, NEW q \in Requests, NEW x, request' = [request EXCEPT ![q] = x]
  PROVE  /\ request'[q] = x
         /\ \A p \in Requests : p # q => request'[p] = request[p] /\ (Carries(p)' <=> Carries(p))
BY DEF Typed, Carries

LEMMA AskedHeld ==
  ASSUME Typed, Held, up, file = enabled, NEW S, S \subseteq loaded, NEW v \in BOOLEAN,
         Set(S, v), Asked(S, v)
  PROVE  Held'
<1>1. S \subseteq Channels /\ UNCHANGED <<up, request>>
  BY LoadedTyped DEF Set, Asked
<1>2. \A c \in Channels : /\ file'[c] = (IF c \in S THEN OfBool(v) ELSE enabled[c])
                          /\ enabled'[c] = (IF c \in S THEN OfBool(v) ELSE enabled[c])
                          /\ wanted'[c] = (IF c \in S THEN OfBool(v) ELSE wanted[c])
  BY DEF Set, Asked
<1>3. \A q \in Requests : Carries(q)' <=> Carries(q)
  BY <1>1 DEF Carries
<1> SUFFICES ASSUME NEW c \in Channels \ torn', wanted'[c] # "unset"
             PROVE  /\ file'[c] = wanted'[c] /\ enabled'[c] = wanted'[c]
                    /\ \A q \in Requests : Carries(q) => request[q].snap[c] = wanted'[c]
  BY <1>1, <1>3 DEF Held
<1>4. CASE c \in S
  <2>1. ~Reloading
    BY <1>4 DEF Asked
  <2>2. \A q \in Requests : ~Carries(q)
    BY <2>1 DEF Reloading, Carries
  <2> QED
    BY <1>2, <1>4, <2>2
<1>5. CASE c \notin S
  <2>1. c \notin torn
    BY <1>5 DEF Asked
  <2> QED
    BY <1>1, <1>2, <1>5, <2>1 DEF Held
<1> QED
  BY <1>4, <1>5

LEMMA ReloadHeld ==
  ASSUME Typed, Alive, Held, up => file = enabled, NEW q \in Requests, ReloadStep(q)
  PROVE  Held'
<1>1. up /\ loaded \subseteq Channels /\ request[q] \in RequestState
  BY StepsAlive, LoadedTyped DEF Typed
<1>2. CASE Snapshot(q)
  <2> DEFINE s == IF request[q].keep THEN enabled ELSE NoSwitches
             x == [request[q] EXCEPT !.pc = "load", !.snap = s]
  <2>1. /\ request' = [request EXCEPT ![q] = x]
        /\ UNCHANGED <<up, wanted, file, enabled, torn>>
    BY <1>2 DEF Snapshot, ghosts, Typed
  <2> HIDE DEF s
  <2>2. x.snap = s /\ x.keep = request[q].keep
    BY <1>1 DEF RequestState
  <2> HIDE DEF x
  <2>3. /\ request'[q] = x
        /\ \A p \in Requests : p # q => request'[p] = request[p] /\ (Carries(p)' <=> Carries(p))
    BY <2>1, OtherRequests
  <2>4. Carries(q)' => request'[q].snap = enabled
    BY <2>2, <2>3 DEF Carries, s
  <2> QED
    BY <1>1, <2>1, <2>3, <2>4 DEF Held
<1>3. CASE Load(q) \/ LoadFails(q)
  <2> DEFINE x == [request[q] EXCEPT !.pc = "back"]
  <2>1. UNCHANGED <<up, wanted, file, enabled, torn>>
    BY <1>3 DEF Load, LoadFails, ghosts
  <2>2. request[q].pc = "load"
        /\ (request' = [request EXCEPT ![q] = Idle] \/ request' = [request EXCEPT ![q] = x])
    BY <1>3 DEF Load, LoadFails, Typed
  <2>3. x.snap = request[q].snap /\ x.keep = request[q].keep /\ Idle.pc = "idle"
    BY <1>1 DEF RequestState, Idle
  <2> HIDE DEF x
  <2>4. \A p \in Requests : p # q => request'[p] = request[p] /\ (Carries(p)' <=> Carries(p))
    BY <2>2, OtherRequests
  <2>5. Carries(q)' => Carries(q) /\ request'[q].snap = request[q].snap
    <3>1. request'[q] = Idle \/ request'[q] = x
      BY <2>2 DEF Typed
    <3> QED
      BY <2>2, <2>3, <3>1 DEF Carries
  <2> QED
    BY <2>1, <2>4, <2>5, SameHeld
<1>4. CASE WriteBack(q)
  <2> DEFINE clients == loaded \cap WS
             switch == IF request[q].keep THEN Filled(request[q].snap, clients)
                       ELSE [c \in Channels |-> IF c \in loaded THEN "on" ELSE enabled[c]]
  <2>1. /\ enabled' = switch /\ file' = switch /\ request' = [request EXCEPT ![q] = Idle]
        /\ request[q].pc = "back" /\ UNCHANGED up
    BY <1>4 DEF WriteBack
  <2>2. /\ ~Carries(q)'
        /\ \A p \in Requests : p # q => request'[p] = request[p] /\ (Carries(p)' <=> Carries(p))
    <3>1. request'[q] = Idle
      BY <2>1 DEF Typed
    <3> QED
      BY <2>1, <3>1, OtherRequests DEF Carries, Idle
  <2>3. CASE request[q].keep
    <3>1. UNCHANGED <<wanted, torn>> /\ Carries(q)
      BY <1>4, <2>1, <2>3 DEF WriteBack, Carries
    <3>2. \A c \in Channels : request[q].snap[c] # "unset" => switch[c] = request[q].snap[c]
      BY <2>3 DEF Filled
    <3> HIDE DEF switch
    <3> QED
      BY <1>1, <2>1, <2>2, <3>1, <3>2 DEF Held
  <2>4. CASE ~request[q].keep
    <3>1. \A c \in Channels : /\ switch[c] = (IF c \in loaded THEN "on" ELSE enabled[c])
                              /\ wanted'[c] = (IF c \in loaded THEN "on" ELSE wanted[c])
      BY <1>4, <2>4 DEF WriteBack
    <3>2. torn \subseteq torn'
          /\ \A p \in Requests : p # q /\ Carries(p) => loaded \subseteq torn'
      BY <1>4, <2>4 DEF WriteBack, Carries
    <3> HIDE DEF switch
    <3> QED
      BY <1>1, <2>1, <2>2, <3>1, <3>2 DEF Held
  <2> QED
    BY <2>3, <2>4
<1> QED
  BY <1>2, <1>3, <1>4 DEF ReloadStep

LEMMA LoopHeld ==
  ASSUME Typed, Alive, Held, up => file = enabled, NEW l \in Loops, LoopStep(l)
  PROVE  Held'
<1>1. up
  BY StepsAlive
<1>2. CASE AloneStep(l)
  <2>1. InLoop(l)
    BY <1>2, AloneFacts
  <2> QED
    BY <2>1, SameHeld DEF InLoop, ghosts, Carries
<1>3. CASE GiveUp(l)
  BY <1>3, SameHeld DEF GiveUp, ghosts, Carries
<1>4. CASE Tell(l)
  <2> DEFINE c == l[2]
  <2>1. UNCHANGED <<up, request>> /\ file' = enabled' /\ c \in Channels
    BY <1>4, LoopOf, Facts DEF Tell
  <2>2. \A q \in Requests : Carries(q)' <=> Carries(q)
    BY <2>1 DEF Carries
  <2>3. torn \subseteq torn' /\ (c \notin torn' => \A q \in Requests : ~Carries(q))
    BY <1>4 DEF Tell, Reloading, Carries
  <2>4. CASE c \notin loaded
    BY <1>1, <1>4, <2>1, <2>2, <2>3, <2>4 DEF Tell, Held
  <2>5. CASE c \in loaded
    <3>1. \A d \in Channels : /\ enabled'[d] = (IF d = c THEN "off" ELSE enabled[d])
                              /\ wanted'[d] = (IF d = c THEN "off" ELSE wanted[d])
      BY <1>4, <2>5 DEF Tell, Typed
    <3> HIDE DEF c
    <3> QED
      BY <1>1, <2>1, <2>2, <2>3, <3>1 DEF Held
  <2> QED
    BY <2>4, <2>5
<1> QED
  BY <1>2, <1>3, <1>4 DEF LoopStep, AloneStep

LEMMA MainHeld ==
  ASSUME Typed, Alive, Held, up => file = enabled, MainStep
  PROVE  Held'
<1>1. CASE Boot
  <2> DEFINE clients == config \cap WS
             restored == Filled(file, clients)
             all == config # {} /\ \A c \in clients : restored[c] # "on"
             switch == IF all THEN [c \in Channels |-> IF c \in config THEN "on" ELSE restored[c]]
                       ELSE restored
  <2>1. /\ enabled' = switch /\ file' = switch /\ torn' = (IF all THEN torn \cup Channels ELSE torn)
        /\ UNCHANGED <<request, wanted>> /\ ~up
    BY <1>1 DEF Boot
  <2>2. \A q \in Requests : ~Carries(q)'
    BY <2>1 DEF Alive, Carries
  <2>3. \A c \in Channels : file[c] # "unset" => restored[c] = file[c]
    BY DEF Filled
  <2> HIDE DEF restored, all
  <2>4. \A c \in Channels \ torn' : switch[c] = restored[c] /\ c \notin torn
    BY <2>1
  <2> HIDE DEF switch
  <2> QED
    BY <2>1, <2>2, <2>3, <2>4 DEF Held
<1>2. CASE Shutdown
  <2>1. /\ up /\ file' = enabled' /\ UNCHANGED <<up, request, wanted>> /\ torn' = torn \cup loaded
        /\ \A c \in Channels \ loaded : enabled'[c] = enabled[c]
    BY <1>2 DEF Shutdown, Set
  <2>2. \A q \in Requests : Carries(q)' <=> Carries(q)
    BY <2>1 DEF Carries
  <2> QED
    BY <2>1, <2>2 DEF Held
<1>3. CASE Exit
  <2>1. \A q \in Requests : ~Carries(q)'
    BY <1>3 DEF Exit, Carries, Idle
  <2> QED
    BY <1>3, <2>1 DEF Exit, Held
<1>4. CASE DisposeWatchers \/ \E g \in watchers : WatcherGivesUp(g)
  BY <1>4 DEF DisposeWatchers, WatcherGivesUp, Held, Carries
<1> QED
  BY <1>1, <1>2, <1>3, <1>4 DEF MainStep

LEMMA NextHeld == Typed /\ Alive /\ Shown /\ Held /\ [Next]_vars => Held'
<1> SUFFICES ASSUME Typed, Alive, Shown, Held, [Next]_vars PROVE Held'
  OBVIOUS
<1>1. up => file = enabled
  BY DEF Shown
<1>2. CASE Ask
  <2>1. ASSUME NEW q \in Requests, NEW keep \in BOOLEAN,
               AskReload(q, keep) \/ \E conf \in Configs : Put(q, conf, keep)
        PROVE  Held'
    <3>1. \E x : request' = [request EXCEPT ![q] = x] /\ x.pc = "snap"
      <4>1. request[q] \in RequestState /\ request \in [Requests -> RequestState]
        BY DEF Typed
      <4>2. CASE AskReload(q, keep)
        <5> DEFINE x == [request[q] EXCEPT !.pc = "snap", !.keep = keep]
        <5>1. request' = [request EXCEPT ![q] = x] /\ x.pc = "snap"
          BY <4>1, <4>2 DEF AskReload, RequestState
        <5> QED
          BY <5>1
      <4>3. ASSUME NEW conf \in Configs, Put(q, conf, keep)
            PROVE  \E x : request' = [request EXCEPT ![q] = x] /\ x.pc = "snap"
        <5> DEFINE x == [request[q] EXCEPT !.pc = "snap", !.bare = ~keep, !.keep = keep]
        <5>1. request' = [request EXCEPT ![q] = x] /\ x.pc = "snap"
          BY <4>1, <4>3 DEF Put, RequestState
        <5> QED
          BY <5>1
      <4> QED
        BY <2>1, <4>2, <4>3
    <3>2. \A p \in Requests : Carries(p)' => Carries(p) /\ request'[p].snap = request[p].snap
      BY <3>1, OtherRequests DEF Carries
    <3>3. UNCHANGED <<up, wanted, file, enabled, torn>>
      BY <2>1 DEF AskReload, Put, ghosts
    <3> QED
      BY <3>2, <3>3, SameHeld
  <2>2. ASSUME NEW v \in BOOLEAN,
               \/ \E c \in Channels : SetChannelEnabled(c, v) \/ SetRoleEnabled(RoleOf[c], v)
               \/ SetAll(v)
        PROVE  Held'
    <3>1. \E S : S \subseteq loaded /\ Set(S, v) /\ Asked(S, v) /\ up
      BY <2>2 DEF SetChannelEnabled, SetRoleEnabled, SetAll, Asked
    <3> QED
      BY <1>1, <3>1, AskedHeld
  <2> QED
    BY <1>2, <2>1, <2>2 DEF Ask
<1>3. CASE UNCHANGED vars
  BY <1>3, SameHeld DEF vars, Carries
<1> QED
  BY <1>1, <1>2, <1>3, MainHeld, ReloadHeld, LoopHeld DEF Next, MainStep

LEMMA InitHeld == Init => Held
BY DEF Init, Held, NoSwitches

\* A switch that was made, or that a client made when it gave up, holds until the next one:
\* through later reloads, failed ones, crashes and changes of the configuration, unless it
\* was made during a reload or undone by a shutdown.
THEOREM SwitchesStay == Spec => []SwitchesHold
<1>1. Init => Typed /\ Alive /\ Connected /\ Shown /\ Held
  BY InitTyped, InitAlive, InitConnected, InitShown, InitHeld
<1>2. Typed /\ Alive /\ Connected /\ Shown /\ Held /\ [Next]_vars =>
        (Typed /\ Alive /\ Connected /\ Shown /\ Held)'
  BY NextTyped, NextAlive, NextConnected, NextShown, NextHeld
<1>3. Held => SwitchesHold
  BY DEF Held, SwitchesHold
<1> QED
  BY <1>1, <1>2, <1>3, PTL DEF Spec
=============================================================================
