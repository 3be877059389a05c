------------------------------- MODULE Runtime --------------------------------
(***************************************************************************)
(* The runtime: the switches of the channels, their file, the WebSocket    *)
(* clients and group watchers they turn on and off, the reload that        *)
(* replaces all of them, the clients and watchers that give up after       *)
(* failures of authentication, and the shutdown and start of the bridge.   *)
(*                                                                         *)
(* Runtime.mu makes each switch and each Load one step; a reload takes it  *)
(* three times.  A client is named by the load that made it, for the loops *)
(* of replaced clients are still there when the new ones run.              *)
(***************************************************************************)
EXTENDS Naturals, FiniteSets

CONSTANTS
  Channels,
  WS,           \* the channels with a WebSocket client; the others are polled
  GroupOf,      \* the group of a polled channel
  RoleOf,       \* the role of each channel
  Configs,      \* the sets of channels a configuration may hold
  Requests,     \* the goroutines of the control API that save or reload
  Copies,       \* bound: loops of one client at a time
  AuthLimit,    \* ws_auth_fail_limit
  MaxLoads,     \* bound: loads
  MaxSwitches   \* bound: switches and reloads asked for

ASSUME RuntimeAssumption ==
  /\ WS \subseteq Channels /\ DOMAIN GroupOf = Channels \ WS /\ DOMAIN RoleOf = Channels
  /\ Configs \subseteq SUBSET Channels /\ Configs # {} /\ Copies \subseteq Nat
  /\ AuthLimit \in Nat \ {0} /\ MaxLoads \in Nat \ {0} /\ MaxSwitches \in Nat

VARIABLES
  up,        \* the bridge runs
  closing,   \* Shutdown has yet to dispose of the watchers
  config,    \* config.yaml
  gen,       \* the number of the last load
  loaded,    \* the channels of the last load
  enabled,   \* Runtime.enabled
  file,      \* wss_enabled.json
  on,        \* the enabled clients of each load
  watchers,  \* the groups that have a watcher, PollWatchers
  watching,  \* the groups whose watcher is enabled
  loop,      \* the loops of the clients
  request,   \* the goroutines that reload
  switches,  \* requests so far
  wanted,    \* the last switch asked for, or made by a client that gives up
  torn,      \* channels with a switch during a reload, or changed by shutdown and start
  bare,      \* a save has asked not to keep the switches
  quiet      \* groups whose watcher was turned off, by itself or by a shutdown, since the
             \* switches were last applied to the watchers

vars == <<up, closing, config, gen, loaded, enabled, file, on, watchers, watching, loop,
          request, switches, wanted, torn, bare, quiet>>
ghosts == <<wanted, torn, bare, quiet>>

Loads == 0 .. MaxLoads
Switch == {"on", "off", "unset"}
NoSwitches == [c \in Channels |-> "unset"]
OfBool(v) == IF v THEN "on" ELSE "off"

Loops == Loads \X WS \X Copies

NoLoop == [pc |-> "none", cancelled |-> FALSE, fails |-> 0, done |-> FALSE]
NewLoop == [NoLoop EXCEPT !.pc = "top"]
Idle == [pc |-> "idle", bare |-> FALSE, keep |-> FALSE, snap |-> NoSwitches]

Init ==
  /\ up = FALSE /\ closing = FALSE /\ config \in Configs /\ gen = 0 /\ loaded = {}
  /\ enabled = NoSwitches /\ file = NoSwitches
  /\ on = [g \in Loads |-> {}] /\ watchers = {} /\ watching = {} /\ loop = [l \in Loops |-> NoLoop]
  /\ request = [q \in Requests |-> Idle] /\ switches = 0
  /\ wanted = NoSwitches /\ torn = {} /\ bare = FALSE /\ quiet = {}
-----------------------------------------------------------------------------
(* ws.Client.SetEnabled and Dispose *)

Runs(l) == loop[l].pc # "none"

\* Client.cancel is set: it is that of the loop that has not been cancelled.
HasLoop(g, c) == \E k \in Copies : Runs(<<g, c, k>>) /\ ~loop[<<g, c, k>>].cancelled

FreeCopies(g, c) == {k \in Copies : ~Runs(<<g, c, k>>)}
FreeCopy(g, c) == CHOOSE k \in FreeCopies(g, c) : TRUE

\* The clients of load g are turned on for the channels of On, off for those of Off.
SetEnabled(g, On, Off) ==
  /\ \A c \in On : HasLoop(g, c) \/ FreeCopies(g, c) # {}
  /\ on' = [on EXCEPT ![g] = (@ \cup On) \ Off]
  /\ loop' = [l \in Loops |->
       IF l[1] # g THEN loop[l]
       ELSE IF l[2] \in Off /\ Runs(l) THEN [loop[l] EXCEPT !.cancelled = TRUE]
       ELSE IF l[2] \in On /\ ~HasLoop(g, l[2]) /\ l[3] = FreeCopy(g, l[2]) THEN NewLoop
       ELSE loop[l]]

-----------------------------------------------------------------------------
(* The watchers *)

\* setupPollers disposes of the watchers that were there.  The state file may not open,
\* and the CLI may not be found when the watcher of a group is made: then it has none.
SetupPollers(chans) == watchers' \in SUBSET {GroupOf[c] : c \in chans \ WS}

\* A group is to be watched while one of its channels is not off.
Watched(chans, switch) == {GroupOf[c] : c \in {d \in chans \ WS : switch[d] # "off"}}

\* recomputePollersLocked: the switches are applied to the watchers there are, also to one
\* that has turned itself off.
Recompute(made, chans, switch) == watching' = made \cap Watched(chans, switch) /\ quiet' = {}

\* noteError: after failures of authentication a watcher turns itself off.  The runtime
\* logs it, and the switches of the group stay as they are.
WatcherGivesUp(g) ==
  /\ g \in watching
  /\ watching' = watching \ {g} /\ quiet' = quiet \cup {g}
  /\ UNCHANGED <<up, closing, config, gen, loaded, enabled, file, on, watchers, loop, request,
                 switches, wanted, torn, bare>>
-----------------------------------------------------------------------------
(* The switches of the control API *)

Set(S, v) ==
  /\ SetEnabled(gen, IF v THEN S \cap WS ELSE {}, IF v THEN {} ELSE S \cap WS)
  /\ enabled' = [c \in Channels |-> IF c \in S THEN OfBool(v) ELSE enabled[c]]
  /\ Recompute(watchers, loaded, enabled')
  /\ file' = enabled'
  /\ UNCHANGED <<up, config, gen, loaded, watchers>>

Reloading == \E q \in Requests : request[q].pc \in {"load", "back"}

Asked(S, v) ==
  /\ up /\ switches < MaxSwitches /\ switches' = switches + 1
  /\ wanted' = [c \in Channels |-> IF c \in S THEN OfBool(v) ELSE wanted[c]]
  /\ torn' = IF Reloading THEN torn \cup S ELSE torn \ S
  /\ UNCHANGED <<closing, request>>

\* A channel that is not loaded is an error.
SetChannelEnabled(c, v) ==
  c \in loaded /\ Asked({c}, v) /\ Set({c}, v) /\ UNCHANGED bare

SetRoleEnabled(r, v) ==
  LET S == {c \in loaded : RoleOf[c] = r} IN
  Asked(S, v) /\ Set(S, v) /\ UNCHANGED bare

\* StartAllWSS and StopAllWSS.
SetAll(v) == Asked(loaded, v) /\ Set(loaded, v) /\ bare' = FALSE
-----------------------------------------------------------------------------
(* SaveAndReload and ReloadFromDisk *)

\* PUT /v1/config of a configuration that can be expanded.
Put(q, conf, keep) ==
  /\ up /\ request[q] = Idle /\ switches < MaxSwitches /\ switches' = switches + 1
  /\ config' = conf
  /\ request' = [request EXCEPT ![q].pc = "snap", ![q].bare = ~keep, ![q].keep = keep]
  /\ UNCHANGED <<up, closing, gen, loaded, enabled, file, on, watchers, watching, loop, ghosts>>

AskReload(q, keep) ==
  /\ up /\ request[q] = Idle /\ switches < MaxSwitches /\ switches' = switches + 1
  /\ request' = [request EXCEPT ![q].pc = "snap", ![q].keep = keep]
  /\ UNCHANGED <<up, closing, config, gen, loaded, enabled, file, on, watchers, watching, loop, ghosts>>

Snapshot(q) ==
  /\ request[q].pc = "snap"
  /\ request' = [request EXCEPT ![q].pc = "load",
                                ![q].snap = IF request[q].keep THEN enabled ELSE NoSwitches]
  /\ UNCHANGED <<up, closing, config, gen, loaded, enabled, file, on, watchers, watching, loop, switches, ghosts>>

\* Faulty: the clients that were there are forgotten, not disposed of.
LoadBeside(q) ==
  /\ request[q].pc = "load" /\ gen < MaxLoads
  /\ gen' = gen + 1 /\ loaded' = config /\ SetupPollers(config) /\ watching' = {} /\ quiet' = {}
  /\ request' = [request EXCEPT ![q] = IF @.bare THEN Idle ELSE [@ EXCEPT !.pc = "back"]]
  /\ bare' = (bare \/ request[q].bare)
  /\ UNCHANGED <<up, closing, config, enabled, file, on, loop, switches, wanted, torn>>

\* Load(false): what was there is disposed of, and nothing is turned on.
Load(q) ==
  /\ request[q].pc = "load" /\ gen < MaxLoads
  /\ SetEnabled(gen, {}, loaded \cap WS)
  /\ gen' = gen + 1 /\ loaded' = config /\ SetupPollers(config) /\ watching' = {} /\ quiet' = {}
  /\ request' = [request EXCEPT ![q] = IF @.bare THEN Idle ELSE [@ EXCEPT !.pc = "back"]]
  /\ bare' = (bare \/ request[q].bare)
  /\ UNCHANGED <<up, closing, config, enabled, file, switches, wanted, torn>>

\* The sessions or a backend cannot be opened: the bots stay as they are.
LoadFails(q) ==
  /\ request[q].pc = "load"
  /\ request' = [request EXCEPT ![q] = Idle]
  /\ UNCHANGED <<up, closing, config, gen, loaded, enabled, file, on, watchers, watching, loop, switches, ghosts>>

\* A client without a switch is on.
Filled(switch, clients) ==
  [c \in Channels |-> IF c \in clients /\ switch[c] = "unset" THEN "on" ELSE switch[c]]

\* Faulty: the switches are not applied to the watchers.
WriteBackForgetful(q) ==
  LET clients == loaded \cap WS
      switch == IF request[q].keep THEN Filled(request[q].snap, clients)
                ELSE [c \in Channels |-> IF c \in loaded THEN "on" ELSE enabled[c]] IN
  /\ request[q].pc = "back"
  /\ SetEnabled(gen, {c \in clients : switch[c] = "on"}, {c \in clients : switch[c] = "off"})
  /\ enabled' = switch /\ file' = switch /\ UNCHANGED <<watching, quiet>>
  /\ request' = [request EXCEPT ![q] = Idle]
  /\ wanted' = IF request[q].keep THEN wanted
               ELSE [c \in Channels |-> IF c \in loaded THEN "on" ELSE wanted[c]]
  /\ torn' = IF request[q].keep \/ ~(\E p \in Requests \ {q} : request[p].pc \in {"load", "back"})
               THEN torn ELSE torn \cup loaded
  /\ bare' = FALSE
  /\ UNCHANGED <<up, closing, config, gen, loaded, watchers, switches>>

\* The snapshot is written back, or all is started.
WriteBack(q) ==
  LET clients == loaded \cap WS
      switch == IF request[q].keep THEN Filled(request[q].snap, clients)
                ELSE [c \in Channels |-> IF c \in loaded THEN "on" ELSE enabled[c]] IN
  /\ request[q].pc = "back"
  /\ SetEnabled(gen, {c \in clients : switch[c] = "on"}, {c \in clients : switch[c] = "off"})
  /\ enabled' = switch /\ file' = switch /\ Recompute(watchers, loaded, switch)
  /\ request' = [request EXCEPT ![q] = Idle]
  /\ wanted' = IF request[q].keep THEN wanted
               ELSE [c \in Channels |-> IF c \in loaded THEN "on" ELSE wanted[c]]
  /\ torn' = IF request[q].keep \/ ~(\E p \in Requests \ {q} : request[p].pc \in {"load", "back"})
               THEN torn ELSE torn \cup loaded
  /\ bare' = FALSE
  /\ UNCHANGED <<up, closing, config, gen, loaded, watchers, switches>>
-----------------------------------------------------------------------------
(* ws.Client.loop *)

Go(l, pc) == loop' = [loop EXCEPT ![l].pc = pc]
Return(l) == loop' = [loop EXCEPT ![l] = NoLoop]

InLoop(l) == UNCHANGED <<up, closing, config, gen, loaded, enabled, file, on, watchers, watching, request,
                         switches, ghosts>>

\* After time.Sleep, which a cancelled loop sleeps out like any other.
Top(l) ==
  /\ loop[l].pc = "top"
  /\ IF loop[l].cancelled \/ l[2] \notin on[l[1]] THEN Return(l) ELSE Go(l, "dial")
  /\ InLoop(l)

DialFails(l) == loop[l].pc = "dial" /\ Go(l, "top") /\ InLoop(l)

Dialled(l) == loop[l].pc = "dial" /\ ~loop[l].cancelled /\ Go(l, "up") /\ InLoop(l)

\* The goroutine that reads frames while the connection is up.
AuthFails(l) ==
  /\ loop[l].pc = "up" /\ ~loop[l].done
  /\ loop' = [loop EXCEPT ![l].fails = IF @ < AuthLimit THEN @ + 1 ELSE @, ![l].done = TRUE]
  /\ InLoop(l)

AuthPasses(l) ==
  /\ loop[l].pc = "up" /\ ~loop[l].done /\ loop[l].fails > 0
  /\ loop' = [loop EXCEPT ![l].fails = 0]
  /\ InLoop(l)

\* The connection is lost, the server sends garbage, or the loop is cancelled.
ReadEnds(l) ==
  /\ loop[l].pc = "up" /\ ~loop[l].done
  /\ loop' = [loop EXCEPT ![l].done = TRUE]
  /\ InLoop(l)

Cancelled(l) == loop[l].pc = "up" /\ loop[l].cancelled /\ Return(l) /\ InLoop(l)

ReadDone(l) ==
  /\ loop[l].pc = "up" /\ loop[l].done
  /\ loop' = [loop EXCEPT ![l].pc = IF loop[l].fails >= AuthLimit THEN "giveup" ELSE "top",
                          ![l].done = FALSE]
  /\ InLoop(l)

\* No frame for StaleMS.
Stale(l) ==
  /\ loop[l].pc = "up"
  /\ loop' = [loop EXCEPT ![l].pc = "top", ![l].done = FALSE]
  /\ InLoop(l)

\* The client turns itself off, and with it the loop that has replaced this one.
GiveUp(l) ==
  /\ loop[l].pc = "giveup"
  /\ on' = [on EXCEPT ![l[1]] = @ \ {l[2]}]
  /\ loop' = [m \in Loops |->
       IF m = l THEN [loop[l] EXCEPT !.pc = "tell", !.cancelled = TRUE]
       ELSE IF m[1] = l[1] /\ m[2] = l[2] /\ Runs(m) THEN [loop[m] EXCEPT !.cancelled = TRUE]
       ELSE loop[m]]
  /\ UNCHANGED <<up, closing, config, gen, loaded, enabled, file, watchers, watching, request,
                 switches, ghosts>>

\* OnAuthGiveUp: the runtime turns off the channel of that name, whatever client it has.
Tell(l) ==
  LET c == l[2]
      known == c \in loaded IN
  /\ loop[l].pc = "tell"
  /\ on' = IF known THEN [on EXCEPT ![gen] = @ \ {c}] ELSE on
  /\ loop' = [m \in Loops |->
       IF m = l THEN NoLoop
       ELSE IF known /\ m[1] = gen /\ m[2] = c /\ Runs(m) THEN [loop[m] EXCEPT !.cancelled = TRUE]
       ELSE loop[m]]
  /\ enabled' = IF known THEN [enabled EXCEPT ![c] = "off"] ELSE enabled
  /\ file' = enabled'
  /\ IF known THEN Recompute(watchers, loaded, enabled') ELSE UNCHANGED <<watching, quiet>>
  /\ wanted' = IF known THEN [wanted EXCEPT ![c] = "off"] ELSE wanted
  /\ torn' = IF Reloading THEN torn \cup {c} ELSE torn
  /\ UNCHANGED <<up, closing, config, gen, loaded, watchers, request, switches, bare>>
-----------------------------------------------------------------------------
(* main *)

\* Faulty: the switches are not read.
BootAfresh ==
  /\ ~up /\ gen < MaxLoads
  /\ up' = TRUE /\ gen' = gen + 1 /\ loaded' = config
  /\ enabled' = Filled(NoSwitches, config \cap WS) /\ file' = enabled'
  /\ SetupPollers(config) /\ Recompute(watchers', config, enabled')
  /\ SetEnabled(gen + 1, config \cap WS, {})
  /\ UNCHANGED <<closing, config, request, switches, wanted, torn, bare>>

\* Load(true), and everything is started when no client is enabled.
Boot ==
  LET clients == config \cap WS
      restored == Filled(file, clients)
      all == config # {} /\ \A c \in clients : restored[c] # "on"
      switch == IF all THEN [c \in Channels |-> IF c \in config THEN "on" ELSE restored[c]]
                ELSE restored IN
  /\ ~up /\ gen < MaxLoads
  /\ up' = TRUE /\ gen' = gen + 1 /\ loaded' = config
  /\ enabled' = switch /\ file' = switch
  /\ SetupPollers(config) /\ Recompute(watchers', config, switch)
  /\ SetEnabled(gen + 1, {c \in clients : switch[c] = "on"}, {})
  /\ torn' = IF all THEN torn \cup Channels ELSE torn
  /\ UNCHANGED <<closing, config, request, switches, wanted, bare>>

\* Shutdown: StopAllWSS, and then, with the mutex taken again, the watchers.
Shutdown ==
  /\ up /\ ~closing /\ closing' = TRUE
  /\ Set(loaded, FALSE)
  /\ torn' = torn \cup loaded
  /\ UNCHANGED <<request, switches, wanted, bare>>

DisposeWatchers ==
  /\ closing /\ closing' = FALSE
  /\ watching' = {} /\ quiet' = quiet \cup watching
  /\ UNCHANGED <<up, config, gen, loaded, enabled, file, on, watchers, loop, request, switches,
                 wanted, torn, bare>>

\* The process ends, after Shutdown or without.
Exit ==
  /\ up /\ up' = FALSE /\ closing' = FALSE
  /\ on' = [g \in Loads |-> {}] /\ watchers' = {} /\ watching' = {}
  /\ loop' = [l \in Loops |-> NoLoop]
  /\ request' = [q \in Requests |-> Idle] /\ loaded' = {} /\ enabled' = NoSwitches
  /\ bare' = FALSE /\ quiet' = {}
  /\ UNCHANGED <<config, gen, file, switches, wanted, torn>>
-----------------------------------------------------------------------------
LoopStep(l) ==
  \/ Top(l) \/ DialFails(l) \/ Dialled(l) \/ AuthFails(l) \/ AuthPasses(l) \/ ReadEnds(l)
  \/ Cancelled(l) \/ ReadDone(l) \/ Stale(l) \/ GiveUp(l) \/ Tell(l)

ReloadStep(q) == Snapshot(q) \/ Load(q) \/ LoadFails(q) \/ WriteBack(q)

Ask ==
  \/ \E v \in BOOLEAN :
       \/ \E c \in Channels : SetChannelEnabled(c, v)
       \/ \E c \in Channels : SetRoleEnabled(RoleOf[c], v)
       \/ SetAll(v)
  \/ \E q \in Requests, keep \in BOOLEAN :
       AskReload(q, keep) \/ \E conf \in Configs : Put(q, conf, keep)

Next ==
  \/ Boot \/ Shutdown \/ DisposeWatchers \/ Exit \/ Ask
  \/ \E q \in Requests : ReloadStep(q)
  \/ \E l \in Loops : Runs(l) /\ LoopStep(l)
  \/ \E g \in watchers : WatcherGivesUp(g)

Spec == Init /\ [][Next]_vars
-----------------------------------------------------------------------------
TypeOK ==
  /\ up \in BOOLEAN /\ closing \in BOOLEAN /\ config \in Configs /\ gen \in Loads
  /\ loaded \in Configs \cup {{}}
  /\ enabled \in [Channels -> Switch] /\ file \in [Channels -> Switch]
  /\ on \in [Loads -> SUBSET WS]
  /\ watchers \subseteq {GroupOf[c] : c \in Channels \ WS}
  /\ watching \subseteq watchers /\ quiet \subseteq watchers
  /\ loop \in [Loops -> [pc : {"none", "top", "dial", "up", "giveup", "tell"},
                         cancelled : BOOLEAN, fails : 0 .. AuthLimit, done : BOOLEAN]]
  /\ request \in [Requests -> [pc : {"idle", "snap", "load", "back"}, bare : BOOLEAN,
                               keep : BOOLEAN, snap : [Channels -> Switch]]]
  /\ switches \in 0 .. MaxSwitches
  /\ wanted \in [Channels -> Switch] /\ torn \subseteq Channels /\ bare \in BOOLEAN

Live(g, c) == {k \in Copies : Runs(<<g, c, k>>) /\ ~loop[<<g, c, k>>].cancelled}

\* However often a channel is turned off and on while an old loop waits, a loop gives
\* up, and a reload replaces its client, one loop connects it while it is on, and none
\* while it is off, nor for a client of an earlier load (SetEnabled, Load).
OneLiveLoop ==
  \A g \in Loads, c \in WS :
    /\ Cardinality(Live(g, c)) = IF c \in on[g] THEN 1 ELSE 0
    /\ g # gen => c \notin on[g]

\* While the bridge runs the file has its switches, and nothing connects or polls that is
\* off.  A client or watcher whose switch is not off runs, but for a reload between its
\* load and its end, a save that asked not to keep the switches, a client about to tell
\* that it has given up, and two cases in which the switch goes on to say that it is on: a
\* group for which no watcher could be made, until the next load, and a watcher that has
\* turned itself off or was disposed of by a shutdown, until the next switch or reload of
\* any channel (SetChannelEnabled, SaveAndReload, setupPollers, noteError, main).
SwitchIsClient ==
  up =>
    /\ file = enabled
    /\ watching \subseteq Watched(loaded, enabled)
    /\ on[gen] \subseteq {c \in loaded : enabled[c] = "on"}
    /\ \/ bare
       \/ \E q \in Requests : request[q].pc = "back"
       \/ /\ watchers \cap Watched(loaded, enabled) \subseteq watching \cup quiet
          /\ \A c \in loaded \cap WS : enabled[c] # "off" =>
               c \in on[gen] \/ \E k \in Copies : loop[<<gen, c, k>>].pc = "tell"

\* A switch that was made holds until the next one, through later reloads, failed ones,
\* crashes and changes of the configuration, unless it was made during a reload, whose
\* snapshot undoes it, or undone by a shutdown.
SwitchesHold ==
  \A c \in Channels \ torn :
    wanted[c] # "unset" => file[c] = wanted[c] /\ (up => enabled[c] = wanted[c])

\* wss_enabled.json remembers what is on and off (README.md:142), and a client that has
\* given up does not connect again after a restart (runtime.go:157).
RestartKeepsOff ==
  [][~up /\ up' => \A c \in Channels : wanted[c] = "off" => enabled'[c] # "on"]_vars
=============================================================================
