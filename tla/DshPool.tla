------------------------------- MODULE DshPool -------------------------------
(***************************************************************************)
(* The DSH backend: the pool of `dsh` processes, the reader of each of     *)
(* them, the JSON-RPC calls and event subscriptions of the runs that share *)
(* a process, and the reaper.                                              *)
(*                                                                         *)
(* A run is one DSH.Run, within the run lock of its chat.  A session is     *)
(* named after the run that made its ID.  The process is external: it      *)
(* answers calls in any order, takes the turns of a session one by one,    *)
(* and may be slow, hang or exit.  What it writes is read when it is        *)
(* written, and a run writes its next call when it has read the answer to  *)
(* the one before.                                                         *)
(***************************************************************************)
EXTENDS Naturals, Sequences, FiniteSets

CONSTANTS
  Runs,       \* numbered in the order in which those of a chat begin
  Chats,
  ChatOf,     \* the chat of each run
  Keys,       \* the pool keys: entry, profile, provider, model
  KeyOf,      \* the key of each chat
  Moved,      \* the runs that may find another workspace, or an idle session
  Nesting,    \* the runs whose turn holds a turn of its own
  Clearable,  \* the chats to which --clear is sent, at most once
  NoRun,
  MaxRuns,    \* bound: runs that begin
  MaxProcs,   \* bound: processes ever started
  MaxLosses,  \* bound: processes that exit by themselves or are reaped alive
  Cap         \* the capacity of a subscription, 512 in the code

ASSUME DshPoolAssumption ==
  /\ ChatOf \in [Runs -> Chats] /\ KeyOf \in [Chats -> Keys]
  /\ Moved \subseteq Runs /\ Nesting \subseteq Runs
  /\ Clearable \subseteq Chats
  /\ Runs \subseteq Nat /\ NoRun \notin Runs
  /\ MaxRuns \in Nat /\ MaxProcs \in Nat /\ MaxLosses \in Nat /\ Cap \in Nat

VARIABLES
  pool,     \* dshPool: the process of each key, 0 without one
  spawner,  \* the run that holds dshSpawnMu
  proc,     \* dshProc: the processes started so far
  run,      \* the state of each run
  entry,    \* the session the store keeps for each chat
  toClear,  \* the chats that have not been cleared yet
  server,   \* what each process does inside
  disk,     \* the sessions a process can resume
  losses,
  unseen    \* runs that left a turn behind which the pool had not seen start

external == <<server, disk, losses>>
vars == <<pool, spawner, proc, run, entry, toClear, external, unseen>>

Procs == 1 .. Len(proc)

Proc == [key : Keys,
         up : BOOLEAN,              \* whether the operating system still has it
         dead : BOOLEAN,
         stopping : BOOLEAN,        \* whether a goroutine of stop is under way
         known : SUBSET Runs,
         inflight : SUBSET Runs,
         pending : SUBSET Runs,     \* the runs whose call waits for a response
         subs : SUBSET Runs]

NewProc(k) == [key |-> k, up |-> TRUE, dead |-> FALSE, stopping |-> FALSE,
               known |-> {}, inflight |-> {}, pending |-> {}, subs |-> {}]

Methods == {"session/resume", "session/working-directory/set", "session/prompt"}

\* An event of the turn that a run has asked for.
Frame == [kind : {"start", "text", "end"}, run : Runs]

Run == [pc : {"idle", "spawn", "initialize", "route", "wait", "hot", "cold", "await",
              "collect", "done"},
        sid : Runs, proc : Nat, method : Methods,
        reply : {"none", "ok", "missing", "failed", "dead"},
        queue : Seq(Frame),                       \* the channel of the subscription
        depth : Nat, saw : BOOLEAN, from : SUBSET Runs,
        status : {"none", "ok", "error", "stopped", "agent_missing"}]

Server == [calls : SUBSET [run : Runs, method : Methods],
           live : SUBSET Runs,                    \* the sessions it holds
           turns : [Runs -> Seq(Frame)]]          \* the events each session still owes

Init ==
  /\ pool = [k \in Keys |-> 0] /\ spawner = NoRun /\ proc = <<>>
  /\ run = [r \in Runs |-> [pc |-> "idle", sid |-> r, proc |-> 0,
              method |-> "session/resume", reply |-> "none",
              queue |-> <<>>, depth |-> 0, saw |-> FALSE, from |-> {}, status |-> "none"]]
  /\ entry = [c \in Chats |-> NoRun] /\ toClear = Clearable
  /\ server = <<>> /\ disk = {} /\ losses = 0 /\ unseen = {}

Goto(r, pc) == run' = [run EXCEPT ![r].pc = pc]

\* Faulty: a call that times out stays in pending.
LeaveSubscription(p, r) == [p EXCEPT !.subs = @ \ {r}]

\* Every path out of Run: the subscription is cancelled, the waiting call forgotten.
Leave(p, r) == [p EXCEPT !.pending = @ \ {r}, !.subs = @ \ {r}]

MarkDead(p) ==
  [p EXCEPT !.dead = TRUE, !.known = {}, !.inflight = {}, !.pending = {}]

MarkKnown(p, s) == [p EXCEPT !.known = @ \cup {s}]

EvictSession(p, s) ==
  [p EXCEPT !.known = @ \ {s}, !.inflight = @ \ {s}, !.subs = {r \in @ : run[r].sid # s}]
-----------------------------------------------------------------------------
(* The pool *)

Pooled(k) == pool[k] # 0 /\ ~proc[pool[k]].dead

\* Run, with the run lock of its chat, up to the first look at the pool.
Begin(r) ==
  /\ run[r].pc = "idle" /\ Cardinality({q \in Runs : run[q].pc # "idle"}) < MaxRuns
  /\ \A q \in Runs \ {r} : ChatOf[q] = ChatOf[r] =>
       run[q].pc = "done" \/ (run[q].pc = "idle" /\ q > r)
  /\ LET old == entry[ChatOf[r]]
         k == KeyOf[ChatOf[r]]
     IN  \E fresh \in {old = NoRun, r \in Moved} :
           run' = [run EXCEPT ![r].sid = IF fresh \/ old = NoRun THEN r ELSE old,
                              ![r].pc = IF Pooled(k) THEN "route" ELSE "spawn",
                              ![r].proc = IF Pooled(k) THEN pool[k] ELSE 0]
  /\ UNCHANGED <<pool, spawner, proc, entry, toClear, external, unseen>>

\* With dshSpawnMu: the pool once more, else a process of its own.
SecondLook(r, k) ==
  /\ Pooled(k)
  /\ run' = [run EXCEPT ![r].pc = "route", ![r].proc = pool[k]]
  /\ UNCHANGED <<spawner, proc, server>>

Start(r, k) ==
  /\ Len(proc) < MaxProcs
  /\ proc' = Append(proc, NewProc(k))
  /\ server' = Append(server, [calls |-> {}, live |-> {}, turns |-> [s \in Runs |-> <<>>]])
  /\ run' = [run EXCEPT ![r].pc = "initialize", ![r].proc = Len(proc')]
  /\ spawner' = r

\* cmd.Start fails.
NoAgent(r) ==
  /\ run' = [run EXCEPT ![r].pc = "done", ![r].status = "agent_missing"]
  /\ UNCHANGED <<spawner, proc, server>>

\* Faulty: the first look at the pool is taken for the second.
SpawnUnchecked(r) ==
  /\ run[r].pc = "spawn" /\ spawner = NoRun
  /\ Start(r, KeyOf[ChatOf[r]])
  /\ UNCHANGED <<pool, entry, toClear, disk, losses, unseen>>

Spawn(r) ==
  /\ run[r].pc = "spawn" /\ spawner = NoRun
  /\ LET k == KeyOf[ChatOf[r]] IN
     \/ SecondLook(r, k)
     \/ ~Pooled(k) /\ (Start(r, k) \/ NoAgent(r))
  /\ UNCHANGED <<pool, entry, toClear, disk, losses, unseen>>

Initialized(r) ==
  /\ run[r].pc = "initialize" /\ proc[run[r].proc].up
  /\ pool' = [pool EXCEPT ![KeyOf[ChatOf[r]]] = run[r].proc]
  /\ Goto(r, "route")
  /\ spawner' = NoRun
  /\ UNCHANGED <<proc, entry, toClear, external, unseen>>

\* initialize is not answered in time, or the process has exited.
InitializeFails(r) ==
  /\ run[r].pc = "initialize"
  /\ proc' = [proc EXCEPT ![run[r].proc].up = FALSE]
  /\ run' = [run EXCEPT ![r].pc = "done", ![r].status = "agent_missing"]
  /\ spawner' = NoRun
  /\ UNCHANGED <<pool, entry, toClear, external, unseen>>

\* dshReap takes dead processes out of the pool, and stops some of those without a turn
\* in progress: after a TTL, or the least recently used beyond dshPoolWarm.
Idle(p) == ~proc[p].dead /\ proc[p].inflight = {}

Reap ==
  LET pooled == {p \in Procs : pool[proc[p].key] = p} IN
  \E picked \in SUBSET {p \in pooled : Idle(p)} :
    LET gone == picked \cup {p \in pooled : proc[p].dead} IN
    /\ gone # {}
    /\ pool' = [k \in Keys |-> IF pool[k] \in gone THEN 0 ELSE pool[k]]
    /\ proc' = [p \in Procs |-> IF p \in picked
                                  THEN [proc[p] EXCEPT !.stopping = TRUE] ELSE proc[p]]
    /\ losses' = losses + Cardinality(picked) /\ losses' <= MaxLosses
    /\ UNCHANGED <<spawner, run, entry, toClear, server, disk, unseen>>

\* stop: shutdown makes the process exit, and kill does when it does not.
Stop(p) ==
  /\ proc[p].stopping
  /\ proc' = [proc EXCEPT ![p].stopping = FALSE, ![p].up = FALSE]
  /\ UNCHANGED <<pool, spawner, run, entry, toClear, external, unseen>>
-----------------------------------------------------------------------------
(* The run *)

\* Run returns; collectReply is followed by persist.
Finish(r, status, collected) ==
  /\ run' = [run EXCEPT ![r].pc = "done", ![r].status = status, ![r].queue = <<>>]
  /\ proc' = [proc EXCEPT ![run[r].proc] = Leave(@, r)]
  /\ entry' = IF collected THEN [entry EXCEPT ![ChatOf[r]] = run[r].sid] ELSE entry

Route(r) ==
  /\ run[r].pc = "route"
  /\ LET p == proc[run[r].proc] IN
     Goto(r, CASE run[r].sid \notin p.known -> "cold"
               [] run[r].sid \in p.known \cap p.inflight -> "wait"
               [] OTHER -> "hot")
  /\ UNCHANGED <<pool, spawner, proc, entry, toClear, external, unseen>>

WaitIdle(r) ==
  LET p == proc[run[r].proc] IN
  /\ run[r].pc = "wait"
  /\ \/ ~p.dead /\ run[r].sid \notin p.inflight /\ Goto(r, "hot") /\ UNCHANGED <<proc, entry>>
     \/ p.dead /\ Finish(r, "error", FALSE)
  /\ UNCHANGED <<pool, spawner, toClear, external, unseen>>

\* Faulty: the wait for the rest of an abandoned turn has no deadline.
WaitForever(r) == FALSE /\ UNCHANGED vars

WaitTimesOut(r) ==
  /\ run[r].pc = "wait"
  /\ Finish(r, "stopped", FALSE)
  /\ UNCHANGED <<pool, spawner, toClear, external, unseen>>

\* callCtx up to the write, which a process that has exited refuses.
Call(p, r, method) ==
  IF ~p.dead /\ p.up
    THEN /\ server' = [server EXCEPT ![run[r].proc].calls =
                         @ \cup {[run |-> r, method |-> method]}]
         /\ proc' = [proc EXCEPT ![run[r].proc] = [p EXCEPT !.pending = @ \cup {r}]]
         /\ run' = [run EXCEPT ![r].pc = "await", ![r].method = method, ![r].reply = "none"]
         /\ UNCHANGED entry
    ELSE /\ run' = [run EXCEPT ![r].pc = "done", ![r].status = "error", ![r].queue = <<>>]
         /\ proc' = [proc EXCEPT ![run[r].proc] = Leave(MarkDead(p), r)]
         /\ UNCHANGED <<entry, server>>

Subscribe(r) ==
  LET p == proc[run[r].proc] IN
  /\ run[r].pc \in {"hot", "cold"}
  /\ Call(IF p.dead THEN p ELSE [p EXCEPT !.subs = @ \cup {r}], r,
          IF run[r].pc = "hot" THEN "session/working-directory/set" ELSE "session/resume")
  /\ UNCHANGED <<pool, spawner, toClear, disk, losses, unseen>>

\* Faulty: markKnown whatever session/resume answered.
ResumedAnyway(r) ==
  /\ run[r].method = "session/resume" /\ run[r].reply \in {"ok", "missing"}
  /\ Call(MarkKnown(proc[run[r].proc], run[r].sid), r, "session/working-directory/set")

\* What Run does with the response.
Resumed(r) ==
  LET p == proc[run[r].proc] IN
  /\ run[r].method = "session/resume" /\ run[r].reply \in {"ok", "missing"}
  /\ Call(IF run[r].reply = "ok" THEN MarkKnown(p, run[r].sid) ELSE p, r,
          "session/working-directory/set")

DirectorySet(r) ==
  /\ run[r].method = "session/working-directory/set" /\ run[r].reply = "ok"
  /\ Call(proc[run[r].proc], r, "session/prompt")

\* A new session becomes known; the others are.
Prompted(r) ==
  /\ run[r].method = "session/prompt" /\ run[r].reply = "ok"
  /\ proc' = [proc EXCEPT ![run[r].proc] = MarkKnown(@, run[r].sid)]
  /\ Goto(r, "collect")
  /\ UNCHANGED <<entry, server>>

Refused(r) ==
  /\ run[r].reply \in {"failed", "dead"}
  /\ Finish(r, "error", FALSE)
  /\ UNCHANGED server

Receive(r) ==
  /\ run[r].pc = "await" /\ run[r].reply # "none"
  /\ Resumed(r) \/ DirectorySet(r) \/ Prompted(r) \/ Refused(r)
  /\ UNCHANGED <<pool, spawner, toClear, disk, losses, unseen>>

\* A run that gives up may leave a turn, accepted or still to be, of which the pool
\* has not read the start.
Owed(r) == server[run[r].proc].turns[run[r].sid]

Leaves(r) ==
  IF /\ run[r].sid \notin proc[run[r].proc].inflight
     /\ \/ [run |-> r, method |-> "session/prompt"] \in server[run[r].proc].calls
        \/ \E i \in DOMAIN Owed(r) : Owed(r)[i].run = r
    THEN unseen \cup {r} ELSE unseen

CallDead(r) ==
  /\ run[r].pc = "await" /\ proc[run[r].proc].dead
  /\ Finish(r, "error", FALSE)
  /\ UNCHANGED <<pool, spawner, toClear, external, unseen>>

CallTimesOut(r) ==
  /\ run[r].pc = "await" /\ run[r].reply = "none"
  /\ Finish(r, "error", FALSE)
  /\ unseen' = Leaves(r)
  /\ UNCHANGED <<pool, spawner, toClear, external>>

\* collectReply: one event, the death of the process, or the end of the context.
Depth(r, f) ==
  CASE f.kind = "start" -> IF run[r].saw THEN run[r].depth + 1 ELSE 1
    [] f.kind = "end" /\ run[r].saw -> run[r].depth - 1
    [] OTHER -> run[r].depth

TurnIsOver(r, f) == f.kind = "end" /\ run[r].saw /\ Depth(r, f) = 0

Collect(r) ==
  /\ run[r].pc = "collect" /\ run[r].queue # <<>>
  /\ LET f == Head(run[r].queue) IN
     IF TurnIsOver(r, f)
       THEN Finish(r, "ok", TRUE)
       ELSE /\ run' = [run EXCEPT
                 ![r].queue = Tail(@),
                 ![r].depth = Depth(r, f),
                 ![r].saw = @ \/ f.kind = "start",
                 ![r].from = IF f.kind = "text" /\ run[r].saw THEN @ \cup {f.run} ELSE @]
            /\ UNCHANGED <<proc, entry>>
  /\ UNCHANGED <<pool, spawner, toClear, external, unseen>>

CollectDead(r) ==
  /\ run[r].pc = "collect" /\ proc[run[r].proc].dead
  /\ Finish(r, "error", TRUE)
  /\ UNCHANGED <<pool, spawner, toClear, external, unseen>>

CollectStopped(r) ==
  /\ run[r].pc = "collect"
  /\ Finish(r, "stopped", TRUE)
  /\ unseen' = Leaves(r)
  /\ UNCHANGED <<pool, spawner, toClear, external>>

\* ClearSession, within the run lock of the chat.
Clear(c) ==
  LET s == entry[c] IN
  /\ c \in toClear /\ s # NoRun
  /\ \A r \in Runs : ChatOf[r] = c => run[r].pc \in {"idle", "done"}
  /\ entry' = [entry EXCEPT ![c] = NoRun] /\ toClear' = toClear \ {c}
  /\ proc' = IF ~Pooled(KeyOf[c]) THEN proc
             ELSE [proc EXCEPT ![pool[KeyOf[c]]] = EvictSession(@, s)]
  /\ UNCHANGED <<pool, spawner, run, external, unseen>>
-----------------------------------------------------------------------------
(* The process and its reader *)

TurnEvents(r) ==
  LET f(kind) == [kind |-> kind, run |-> r]
  IN  IF r \in Nesting THEN <<f("start"), f("start"), f("end"), f("text"), f("end")>>
                       ELSE <<f("start"), f("text"), f("end")>>

Take(p, call) == [server[p] EXCEPT !.calls = @ \ {call}]

\* A response, which only a run that still waits gets, and what the process did for it.
Response(p, call) ==
  LET r == call.run
      s == run[r].sid
      answer(kind) == run' = IF r \in proc[p].pending
                               THEN [run EXCEPT ![r].reply = kind] ELSE run IN
  /\ \/ /\ call.method = "session/resume" /\ s \in disk \cup server[p].live
        /\ server' = [server EXCEPT ![p] = [Take(p, call) EXCEPT !.live = @ \cup {s}]]
        /\ answer("ok") /\ UNCHANGED disk
     \/ /\ call.method = "session/resume" /\ s \notin disk \cup server[p].live
        /\ server' = [server EXCEPT ![p] = Take(p, call)]
        /\ answer("missing") /\ UNCHANGED disk
     \/ /\ call.method = "session/working-directory/set"
        /\ server' = [server EXCEPT ![p] = [Take(p, call) EXCEPT !.live = @ \cup {s}]]
        /\ answer("ok") /\ UNCHANGED disk
     \/ /\ call.method = "session/prompt"
        /\ server' = [server EXCEPT ![p] =
                        [Take(p, call) EXCEPT !.turns[s] = @ \o TurnEvents(r)]]
        /\ disk' = disk \cup {s}
        /\ answer("ok")
     \/ /\ server' = [server EXCEPT ![p] = Take(p, call)]
        /\ answer("failed") /\ UNCHANGED disk
  /\ proc' = [proc EXCEPT ![p].pending = @ \ {r}]

Inflight(p, s, kind) ==
  CASE kind = "start" -> proc[p].inflight \cup {s}
    [] kind = "end" -> proc[p].inflight \ {s}
    [] OTHER -> proc[p].inflight

\* Faulty: every subscriber of the process gets every event.
AllSubscribers(p, s) == proc[p].subs

Subscribers(p, s) == {r \in proc[p].subs : run[r].sid = s}

\* An event of session s.  A full subscription loses it.
Event(p, s) ==
  /\ server[p].turns[s] # <<>>
  /\ LET f == Head(server[p].turns[s]) IN
     /\ proc' = [proc EXCEPT ![p].inflight = Inflight(p, s, f.kind)]
     /\ run' = [r \in Runs |-> IF r \in Subscribers(p, s) /\ Len(run[r].queue) < Cap
                                 THEN [run[r] EXCEPT !.queue = Append(@, f)] ELSE run[r]]
  /\ server' = [server EXCEPT ![p].turns[s] = Tail(@)]
  /\ UNCHANGED disk

HandleFrame(p) ==
  /\ proc[p].up /\ ~proc[p].dead
  /\ \/ \E call \in server[p].calls : Response(p, call)
     \/ \E s \in Runs : Event(p, s)
  /\ UNCHANGED <<pool, spawner, entry, toClear, losses, unseen>>

\* The end of stdout: the waiting calls get nil.
ReaderEnds(p) ==
  /\ ~proc[p].up /\ ~proc[p].dead
  /\ run' = [r \in Runs |-> IF r \in proc[p].pending
                              THEN [run[r] EXCEPT !.reply = "dead"] ELSE run[r]]
  /\ proc' = [proc EXCEPT ![p] = MarkDead(@)]
  /\ UNCHANGED <<pool, spawner, entry, toClear, external, unseen>>

Exit(p) ==
  /\ proc[p].up /\ losses < MaxLosses
  /\ proc' = [proc EXCEPT ![p].up = FALSE]
  /\ losses' = losses + 1
  /\ UNCHANGED <<pool, spawner, run, entry, toClear, server, disk, unseen>>
-----------------------------------------------------------------------------
RunStep(r) ==
  \/ Spawn(r) \/ Initialized(r) \/ Route(r) \/ WaitIdle(r) \/ Subscribe(r)
  \/ Receive(r) \/ CallDead(r) \/ Collect(r) \/ CollectDead(r)

Timer(r) == InitializeFails(r) \/ WaitTimesOut(r) \/ CallTimesOut(r) \/ CollectStopped(r)

Next ==
  \/ \E r \in Runs : Begin(r) \/ RunStep(r) \/ Timer(r)
  \/ \E p \in Procs : HandleFrame(p) \/ ReaderEnds(p) \/ Stop(p) \/ Exit(p)
  \/ \E c \in Chats : Clear(c)
  \/ Reap

\* A run goes on or, every wait of it has a deadline, gives up.  Nothing is asked of the
\* process: the reader is only sure to see its end.
Fairness ==
  /\ \A r \in Runs : WF_vars(RunStep(r) \/ Timer(r))
  /\ WF_vars(\E p \in Procs : ReaderEnds(p) \/ Stop(p))

Spec == Init /\ [][Next]_vars /\ Fairness
-----------------------------------------------------------------------------
TypeOK ==
  /\ pool \in [Keys -> 0 .. MaxProcs] /\ spawner \in Runs \cup {NoRun}
  /\ proc \in Seq(Proc)
  /\ run \in [Runs -> Run]
  /\ entry \in [Chats -> Runs \cup {NoRun}] /\ toClear \subseteq Chats
  /\ server \in Seq(Server) /\ disk \subseteq Runs
  /\ losses \in 0 .. MaxLosses /\ unseen \subseteq Runs

\* A reply is made of the run's own turn and of nothing else, and is not called
\* complete without it, in a session in which no run has left a turn the pool did not
\* know of: neither the turns of other chats in the same process, nor the known rest of
\* an abandoned turn, nor the end of a turn within it confuse it (handleFrame, waitIdle,
\* collectReply).
OwnAnswer ==
  \A r \in Runs : run[r].status = "ok" =>
    \/ run[r].from = {r}
    \/ \E q \in unseen : run[q].sid = run[r].sid

\* Run waits until the turn that an abandoned run has left is over and its events are
\* dropped, so a reply is never made of another run's turn (dsh.go:130).
NoResidue == \A r \in Runs : run[r].status = "ok" => run[r].from \subseteq {r}

\* A process that the system still has is in the pool, or on its way into it, or
\* somebody is about to stop it: none is lost when two runs start one at once
\* (dshPoolGetOrCreate), and none when the reaper takes it out.
NoOrphan ==
  \A p \in Procs : proc[p].up =>
    \/ pool[proc[p].key] = p
    \/ proc[p].stopping
    \/ spawner # NoRun /\ run[spawner].pc = "initialize" /\ run[spawner].proc = p

\* What a pool process is said to know it holds, so a hot session/prompt always meets
\* its session (markKnown, evictSession, markDead).
KnownIsLive == \A p \in Procs : proc[p].known \subseteq server[p].live

\* Only runs that are still in Run own a pending call or a subscription, on whichever
\* path the others have left (unregisterPending, unsub).
NothingLeftBehind ==
  \A p \in Procs : \A r \in proc[p].pending \cup proc[p].subs :
    run[r].proc = p /\ run[r].pc \in {"await", "collect"}

\* Every run ends, whatever the process does: no answer, no event, a lost event, a
\* process that hangs in a turn or exits at any point.
EveryRunEnds == \A r \in Runs : run[r].pc # "idle" ~> run[r].pc = "done"
=============================================================================
