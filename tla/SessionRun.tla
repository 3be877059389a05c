----------------------------- MODULE SessionRun -----------------------------
(***************************************************************************)
(* The calls of Orchestrator.Dispatch that run a CLI agent (claude or       *)
(* cursor) in the chat of a session: the run lock, the session store and   *)
(* its file, --clear, interrupts, resets, reloads of the configuration and *)
(* crashes.                                                                *)
(*                                                                         *)
(* Every Load makes a generation: an Orchestrator with locks and a store of *)
(* its own.  Older generations of the same process live on in the jobs     *)
(* that hold them, but all share one Registry, so a call of an old          *)
(* Orchestrator may run a Backend that holds the newest store.              *)
(*                                                                         *)
(* A chat is named after the call that creates it.  A change of a store    *)
(* and the Save after it are one step.  Directories exist, and a CLI ends  *)
(* when the bridge does.  A CLI that is told to resume a chat reports that *)
(* chat in its events, as those of claude and cursor do.                   *)
(***************************************************************************)
EXTENDS Integers

CONSTANTS
  Calls,       \* calls of Dispatch
  Sessions,    \* the lock keys of the bot, engine:botID:RunLockKey
  SessionOf,   \* the session of each call
  Keyed,       \* the sessions with a store entry (not oneshot)
  Clearing,    \* the calls with the override clear=1
  Cancellable, \* the calls whose context may be cancelled
  Bare,        \* the sessions to which a --clear without a prompt may be sent
  Backend,     \* the engine of the bot
  Resets,      \* whether an idle or daily reset is configured
  Dirs,        \* workspaces the configuration may name
  NoDir,       \* an empty working directory
  NoChat,      \* an empty chat ID
  MaxReloads,  \* bound: reloads
  MaxCrashes   \* bound: crashes

ASSUME SessionRunAssumption ==
  /\ SessionOf \in [Calls -> Sessions]
  /\ Keyed \subseteq Sessions /\ Bare \subseteq Sessions
  /\ Clearing \subseteq Calls /\ Cancellable \subseteq Calls
  /\ Backend \in {"claude", "cursor"} /\ Resets \in BOOLEAN
  /\ NoDir \notin Dirs /\ NoChat \notin Calls
  /\ MaxReloads \in Nat /\ MaxCrashes \in Nat

VARIABLES
  gen,       \* the newest generation
  boot,      \* the first generation of this process
  opened,    \* gen + 1 while Load has opened the new store, else gen
  conf,      \* the configured workspace in each generation, NoDir without the bot
  free,      \* Manager.sems: whether the channel of a session holds its token
  store,     \* Store.data
  file,      \* sessions.json
  call,      \* the state of each call
  cancelled, \* the calls whose context is cancelled
  exists,    \* the chats the CLI can resume
  log,       \* the calls that have spoken in each chat
  since,     \* the calls that have spoken in each session since its last clear or reset
  cleared,   \* the chats that were current at a clear or a reset
  crashes

data == <<store, file>>
cli == <<exists, log>>
loads == <<gen, boot, opened, conf, crashes>>
ghosts == <<since, cleared>>
vars == <<gen, boot, opened, conf, free, store, file, call, cancelled, exists, log,
          since, cleared, crashes>>

Gens == 0 .. MaxReloads + MaxCrashes

Alive == boot .. gen

Entry == [chat : Calls \cup {NoChat}, cwd : Dirs \cup {NoDir}]

NoEntry == [chat |-> NoChat, cwd |-> NoDir]

Call == [pc : {"idle", "wait", "clear", "entry", "create", "spawn", "run", "record",
               "release", "done"},
         orch : Nat,      \* the generation of the Orchestrator
         backend : Nat,   \* the generation of the Backend
         ws : Dirs \cup {NoDir},
         chat : Calls \cup {NoChat}]

Idle == [pc |-> "idle", orch |-> 0, backend |-> 0, ws |-> NoDir, chat |-> NoChat]

Init ==
  /\ gen = 0 /\ boot = 0 /\ opened = 0 /\ crashes = 0
  /\ \E dir \in Dirs : conf = [g \in Gens |-> dir]
  /\ free = [g \in Gens |-> [s \in Sessions |-> TRUE]]
  /\ store = [g \in Gens |-> [s \in Sessions |-> NoEntry]]
  /\ file = [s \in Sessions |-> NoEntry]
  /\ call = [c \in Calls |-> Idle]
  /\ cancelled = {}
  /\ exists = {} /\ log = [c \in Calls |-> {}]
  /\ since = [s \in Sessions |-> {}] /\ cleared = {}

Goto(c, pc) == call' = [call EXCEPT ![c].pc = pc]

\* SetChatID, SetAgentCWD or ClearSession on the store of generation g, and Save.
Put(g, s, entry) ==
  /\ store' = [store EXCEPT ![g][s] = entry]
  /\ file' = [store[g] EXCEPT ![s] = entry]

Forget(g, s) ==
  /\ Put(g, s, [store[g][s] EXCEPT !.chat = NoChat])
  /\ cleared' = cleared \cup ({store[g][s].chat} \ {NoChat})
  /\ since' = [since EXCEPT ![s] = {}]

-----------------------------------------------------------------------------
(* Dispatch *)

\* ResolveAgentWorkspace: the directory of an earlier run, else the configured one.
Workspace(g, s) == IF store[g][s].cwd # NoDir THEN store[g][s].cwd ELSE conf[gen]

\* Without a handler there is nothing to do.
Begin(c) ==
  /\ call[c].pc = "idle"
  /\ \E g \in Alive :
       call' = [call EXCEPT ![c] =
         [pc |-> IF conf[gen] = NoDir THEN "done" ELSE "wait", orch |-> g,
          backend |-> gen, ws |-> Workspace(g, SessionOf[c]), chat |-> NoChat]]
  /\ UNCHANGED <<free, data, cancelled, cli, loads, ghosts>>

\* Faulty variants of Acquire: the token stays in the channel; --clear is done
\* by callers that still wait.
AcquireShared(c) ==
  /\ call[c].pc = "wait"
  /\ free[call[c].orch][SessionOf[c]]
  /\ Goto(c, IF c \in Clearing THEN "clear" ELSE "entry")
  /\ UNCHANGED <<free, data, cancelled, cli, loads, ghosts>>

AcquireClearing(c) ==
  LET g == call[c].orch  s == SessionOf[c] IN
  /\ call[c].pc = "wait"
  /\ \/ /\ free[g][s] /\ free' = [free EXCEPT ![g][s] = FALSE]
        /\ Goto(c, "entry") /\ UNCHANGED <<data, ghosts>>
     \/ /\ c \in Clearing /\ Forget(g, s) /\ UNCHANGED <<call, free>>
  /\ UNCHANGED <<cancelled, cli, loads>>

\* select with the token ready; a cancelled context may be ready too.
Acquire(c) ==
  LET g == call[c].orch  s == SessionOf[c] IN
  /\ call[c].pc = "wait"
  /\ free[g][s]
  /\ free' = [free EXCEPT ![g][s] = FALSE]
  /\ Goto(c, IF c \in Clearing THEN "clear" ELSE "entry")
  /\ UNCHANGED <<data, cancelled, cli, loads, ghosts>>

\* A faulty AbandonWait that releases a token it has not got.
AbandonWaitReleasing(c) ==
  /\ call[c].pc = "wait" /\ c \in cancelled
  /\ free' = [free EXCEPT ![call[c].orch][SessionOf[c]] = TRUE]
  /\ Goto(c, "done")
  /\ UNCHANGED <<data, cancelled, cli, loads, ghosts>>

\* select with the context done: the call is interrupted.
AbandonWait(c) ==
  /\ call[c].pc = "wait" /\ c \in cancelled
  /\ Goto(c, "done")
  /\ UNCHANGED <<free, data, cancelled, cli, loads, ghosts>>

\* The override clear=1, on the store of the Orchestrator.
Clear(c) ==
  /\ call[c].pc = "clear"
  /\ IF SessionOf[c] \in Keyed
     THEN Forget(call[c].orch, SessionOf[c])
     ELSE UNCHANGED <<data, ghosts>>
  /\ Goto(c, "entry")
  /\ UNCHANGED <<free, cancelled, cli, loads>>

\* A faulty Release that forgets the token.
ReleaseKept(c) ==
  /\ call[c].pc = "release"
  /\ Goto(c, "done")
  /\ UNCHANGED <<free, data, cancelled, cli, loads, ghosts>>

\* The deferred release of the run lock.
Release(c) ==
  /\ call[c].pc = "release"
  /\ free' = [free EXCEPT ![call[c].orch][SessionOf[c]] = TRUE]
  /\ Goto(c, "done")
  /\ UNCHANGED <<data, cancelled, cli, loads, ghosts>>

-----------------------------------------------------------------------------
(* Backend.Run *)

\* Claude invents the ID of a new chat, cursor asks the CLI for it.
Resume(c, chat) ==
  call' = [call EXCEPT
    ![c].chat = IF chat = NoChat /\ Backend = "claude" THEN c ELSE chat,
    ![c].pc = IF chat = NoChat /\ Backend = "cursor" THEN "create" ELSE "spawn"]

\* Claude begins a new chat when the working directory has changed.
Moved(c) ==
  /\ Backend = "claude"
  /\ store[call[c].backend][SessionOf[c]].cwd \notin {NoDir, call[c].ws}

\* The session's chat, unless it has been idle for too long or is of another
\* day: then the session is cleared first.  A chat in use is the youngest.
GetEntry(c) ==
  LET g == call[c].backend  s == SessionOf[c] IN
  /\ call[c].pc = "entry"
  /\ \/ /\ Resets /\ store[g][s].chat # NoChat
        /\ Forget(g, s)
        /\ Resume(c, NoChat)
     \/ /\ Resume(c, IF Moved(c) THEN NoChat ELSE store[g][s].chat)
        /\ since' = IF Moved(c) THEN [since EXCEPT ![s] = {}] ELSE since
        /\ UNCHANGED <<data, cleared>>
  /\ UNCHANGED <<free, cancelled, cli, loads>>

\* Faulty variants of CreateChat: the chat is recorded only at the end of the
\* run; the chat is recorded although the CLI has failed; a failure returns
\* without releasing the lock.
CreateChatUnsaved(c) ==
  /\ call[c].pc = "create"
  /\ exists' = exists \cup {c}
  /\ call' = [call EXCEPT ![c].chat = c, ![c].pc = "spawn"]
  /\ UNCHANGED <<free, data, cancelled, log, loads, ghosts>>

CreateChatUnchecked(c) ==
  /\ call[c].pc = "create"
  /\ exists' \in {exists, exists \cup {c}}
  /\ call' = [call EXCEPT ![c].chat = c, ![c].pc = "spawn"]
  /\ UNCHANGED <<free, data, cancelled, log, loads, ghosts>>

\* cursor: create-chat, and the new chat is recorded before it is used.
CreateChat(c) ==
  LET g == call[c].backend  s == SessionOf[c] IN
  /\ call[c].pc = "create"
  /\ \/ /\ exists' = exists \cup {c}
        /\ call' = [call EXCEPT ![c].chat = c, ![c].pc = "spawn"]
        /\ IF s \in Keyed THEN Put(g, s, [store[g][s] EXCEPT !.chat = c]) ELSE UNCHANGED data
     \/ /\ Goto(c, "release")
        /\ UNCHANGED <<data, exists>>
  /\ UNCHANGED <<free, cancelled, log, loads, ghosts>>

\* cmd.Start may fail, and does when the context is done: nothing is recorded.
Spawn(c) ==
  /\ call[c].pc = "spawn"
  /\ \/ Goto(c, "run")
     \/ Goto(c, "release")
  /\ UNCHANGED <<free, data, cancelled, cli, loads, ghosts>>

\* The CLI ends, is killed at the timeout or at an interrupt; it may have
\* spoken if there was a chat to resume or it was to begin a new one.
RunEnds(c) ==
  LET chat == call[c].chat  s == SessionOf[c] IN
  /\ call[c].pc = "run"
  /\ \/ /\ chat \in exists \cup {c}
        /\ exists' = exists \cup {chat}
        /\ log' = [log EXCEPT ![chat] = @ \cup {c}]
        /\ since' = IF s \in Keyed THEN [since EXCEPT ![s] = @ \cup {c}] ELSE since
     \/ UNCHANGED <<cli, since>>
  /\ Goto(c, "record")
  /\ UNCHANGED <<free, data, cancelled, loads, cleared>>

\* A faulty Record that drops the chat of an interrupted run.
RecordUninterrupted(c) ==
  LET g == call[c].backend  s == SessionOf[c] IN
  /\ call[c].pc = "record"
  /\ IF s \in Keyed /\ c \notin cancelled
     THEN Put(g, s, [chat |-> call[c].chat, cwd |-> store[g][s].cwd])
     ELSE UNCHANGED data
  /\ Goto(c, "release")
  /\ UNCHANGED <<free, cancelled, cli, loads, ghosts>>

\* SetChatID, whether the run went well or not, and for claude SetAgentCWD.
Record(c) ==
  LET g == call[c].backend  s == SessionOf[c] IN
  /\ call[c].pc = "record"
  /\ IF s \in Keyed
     THEN Put(g, s, [chat |-> call[c].chat,
                     cwd |-> IF Backend = "claude" THEN call[c].ws ELSE store[g][s].cwd])
     ELSE UNCHANGED data
  /\ Goto(c, "release")
  /\ UNCHANGED <<free, cancelled, cli, loads, ghosts>>

-----------------------------------------------------------------------------
(* Around the calls *)

\* --stop, or a GUI client that goes away.
Cancel(c) ==
  /\ c \in Cancellable \ cancelled /\ call[c].pc \notin {"idle", "done"}
  /\ cancelled' = cancelled \cup {c}
  /\ UNCHANGED <<free, data, call, cli, loads, ghosts>>

\* A message that is nothing but --clear: Handle answers "已清除会话" and returns.
BareClear(s) ==
  /\ s \in Bare \cap Keyed
  /\ store[gen][s].chat \notin cleared \cup {NoChat}
  /\ cleared' = cleared \cup {store[gen][s].chat}
  /\ UNCHANGED <<free, data, call, cancelled, cli, loads, since>>

\* Load reads the session file ...
OpenStore ==
  /\ opened = gen /\ gen - crashes < MaxReloads
  /\ opened' = gen + 1
  /\ store' = [store EXCEPT ![gen + 1] = file]
  /\ UNCHANGED <<gen, boot, conf, crashes, free, file, call, cancelled, cli, ghosts>>

\* ... and later replaces the bots, the Orchestrator and its locks.
Load ==
  /\ opened = gen + 1
  /\ gen' = opened
  /\ \E dir \in Dirs \cup {NoDir} : conf' = [conf EXCEPT ![gen + 1] = dir]
  /\ UNCHANGED <<boot, opened, crashes, free, data, call, cancelled, cli, ghosts>>

\* The process ends and starts again; a call that was under way is gone.
Crash ==
  /\ crashes < MaxCrashes
  /\ crashes' = crashes + 1
  /\ gen' = gen + 1 /\ boot' = gen + 1 /\ opened' = gen + 1
  /\ conf' = [conf EXCEPT ![gen + 1] = conf[gen]]
  /\ store' = [store EXCEPT ![gen + 1] = file]
  /\ call' = [c \in Calls |-> IF call[c].pc = "idle" THEN Idle ELSE [Idle EXCEPT !.pc = "done"]]
  /\ UNCHANGED <<free, file, cancelled, cli, ghosts>>

Step(c) == \/ Acquire(c) \/ AbandonWait(c) \/ Clear(c) \/ GetEntry(c) \/ CreateChat(c)
           \/ Spawn(c) \/ RunEnds(c) \/ Record(c) \/ Release(c)

Next == \/ \E c \in Calls : Begin(c) \/ Step(c) \/ Cancel(c)
        \/ \E s \in Sessions : BareClear(s)
        \/ OpenStore \/ Load \/ Crash

Spec == Init /\ [][Next]_vars

\* A call goes on as long as it can: the CLI has a timeout, and a channel hands
\* its token to those who wait in turn.
FairSpec == Spec /\ \A c \in Calls : WF_vars(Step(c))

-----------------------------------------------------------------------------
(* Properties *)

\* The type of the state: generations, locks, stores and calls.
TypeOK ==
  /\ gen \in Gens /\ boot \in Gens /\ boot <= gen /\ opened \in {gen, gen + 1} \cap Gens
  /\ crashes \in Nat /\ crashes <= MaxCrashes /\ opened - crashes <= MaxReloads
  /\ conf \in [Gens -> Dirs \cup {NoDir}]
  /\ free \in [Gens -> [Sessions -> BOOLEAN]]
  /\ store \in [Gens -> [Sessions -> Entry]]
  /\ file \in [Sessions -> Entry]
  /\ call \in [Calls -> Call]
  /\ \A c \in Calls : call[c].orch \in Gens /\ call[c].backend \in Gens
  /\ cancelled \subseteq Calls
  /\ exists \subseteq Calls /\ log \in [Calls -> SUBSET Calls]
  /\ since \in [Sessions -> SUBSET Calls] /\ cleared \subseteq Calls

Holding(c) == call[c].pc \in {"clear", "entry", "create", "spawn", "run", "record", "release"}

Holders(g, s) == {c \in Calls : Holding(c) /\ call[c].orch = g /\ SessionOf[c] = s}

\* The token of a session is in its channel or with exactly one call, however
\* waiting, interrupts, reloads and crashes interleave (runlock.go, "must be
\* called exactly once").
TokenConserved ==
  \A g \in Alive, s \in Sessions :
    /\ free[g][s] <=> Holders(g, s) = {}
    /\ \A c, d \in Holders(g, s) : c = d

Running(c) == call[c].pc = "run"

\* Two CLI processes never work in one chat, unless a reload came between
\* their calls: the new Orchestrator has locks of its own.
OneProcessPerChat ==
  \A c, d \in Calls : Running(c) /\ Running(d) /\ c # d /\ call[c].chat = call[d].chat
                        => call[c].orch # call[d].orch

\* A call under way belongs to this process.
CallsAreAlive ==
  \A c \in Calls : call[c].pc \notin {"idle", "done"} =>
    call[c].orch \in Alive /\ call[c].backend \in Alive

\* Sessions never share a chat, and a call has one when it starts the CLI.
ChatsStayHome ==
  /\ \A s \in Sessions : file[s].chat # NoChat => SessionOf[file[s].chat] = s
  /\ \A g \in Gens, s \in Sessions :
       store[g][s].chat # NoChat => SessionOf[store[g][s].chat] = s
  /\ \A c \in Calls :
       /\ call[c].chat # NoChat => SessionOf[call[c].chat] = SessionOf[c]
       /\ call[c].pc \in {"spawn", "run", "record"} => call[c].chat # NoChat

\* TokenConserved, and the tokens of generations to come are in their channels.
TokensInPlace ==
  \A g \in Gens, s \in Sessions : g >= boot =>
    /\ free[g][s] <=> Holders(g, s) = {}
    /\ \A c, d \in Holders(g, s) : c = d

\* With this TokenConserved and OneProcessPerChat are inductive.
SessionInv == TypeOK /\ CallsAreAlive /\ ChatsStayHome /\ TokensInPlace

NoReload == opened = crashes

\* Until a reload, a run continues the chat of everyone who has spoken in its
\* session since the last clear or reset, interrupted runs included (claude.go
\* and cursor.go record the chat of a run that failed).
ContextKept ==
  NoReload => \A c \in Calls : Running(c) => since[SessionOf[c]] \subseteq log[call[c].chat]

\* Until a reload, nobody runs in a chat that was current when its session was
\* cleared: the bot has answered "已清除会话" (commands.go).
ClearedIsOver ==
  NoReload => \A c \in Calls : Running(c) => call[c].chat \notin cleared

\* The chat of a run is one the CLI can resume, or a new one.
ResumeFindsChat == \A c \in Calls : Running(c) => call[c].chat \in exists \cup {c}

\* "The working directory is bots[].workspace only" (src/README.md).
WorkspaceFollowsConfig ==
  \A c \in Calls : Running(c) => call[c].ws = conf[call[c].backend]

\* A call that has begun ends.
EveryCallEnds == \A c \in Calls : call[c].pc = "wait" ~> call[c].pc = "done"
-----------------------------------------------------------------------------
(* Where the chats of a session are, on top of SessionInv *)

\* A call that has no chat of its own yet.
Fresh(c) == call[c].pc \in {"idle", "wait", "clear", "entry", "create"}

\* The chat of a call that has not created it is nowhere.
FreshNowhere ==
  \A c \in Calls : Fresh(c) =>
    /\ c \notin cleared
    /\ \A s \in Sessions : file[s].chat # c
    /\ \A g \in Gens, s \in Sessions : store[g][s].chat # c
    /\ \A d \in Calls : call[d].chat # c

\* No Load has ended, in this process or an earlier one.
FirstLoad == gen = crashes

\* Without a Load there is one generation in a process, and the file is its store.
OneGeneration == crashes <= gen /\ (FirstLoad => boot = gen /\ store[gen] = file)

InChat(c) == call[c].pc \in {"spawn", "run", "record"}

\* The chats that are in use were not cleared.
InUseNotCleared ==
  FirstLoad => /\ \A s \in Sessions : store[gen][s].chat \notin cleared
               /\ \A c \in Calls : InChat(c) => call[c].chat \notin cleared

\* Everyone who has spoken in a session is in its chat; claude records a new chat
\* after the run, ...
Placed(s) ==
  \/ since[s] = {}
  \/ store[gen][s].chat # NoChat /\ since[s] \subseteq log[store[gen][s].chat]
  \/ Backend = "claude" /\ \E c \in Calls : call[c].pc = "record" /\ SessionOf[c] = s

\* ... cursor before it.
Follows(c) ==
  /\ InChat(c) => since[SessionOf[c]] \subseteq log[call[c].chat]
  /\ SessionOf[c] \in Keyed =>
       /\ call[c].pc = "create" => store[gen][SessionOf[c]].chat = NoChat
       /\ Backend = "cursor" /\ InChat(c) => store[gen][SessionOf[c]].chat = call[c].chat

\* A crash between the run and SetChatID costs claude the chat.
Lasting == FirstLoad /\ (Backend = "cursor" \/ crashes = 0)

SinceInChat ==
  /\ \A s \in Sessions \ Keyed : since[s] = {}
  /\ \A c \in Calls : call[c].pc = "create" => Backend = "cursor"
  /\ Lasting => (\A s \in Keyed : Placed(s)) /\ (\A c \in Calls : Follows(c))

\* The cursor CLI has created every chat that is recorded or resumed.
ChatsExist ==
  Backend = "cursor" =>
    /\ \A s \in Sessions : file[s].chat \in exists \cup {NoChat}
    /\ \A g \in Gens, s \in Sessions : store[g][s].chat \in exists \cup {NoChat}
    /\ \A c \in Calls : call[c].chat \in exists \cup {NoChat}

\* With this ContextKept, ClearedIsOver and ResumeFindsChat are inductive.
ChatInv == SessionInv /\ FreshNowhere /\ OneGeneration /\ SinceInChat /\ ChatsExist
=============================================================================
