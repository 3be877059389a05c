---------------------------- MODULE DshPoolProofs -----------------------------
(***************************************************************************)
(* Machine-checked proofs about DshPool: nothing is left behind by a run,  *)
(* no process is lost, what a process is said to know it holds, and the    *)
(* reply of a run is made of its own turn.                                 *)
(***************************************************************************)
EXTENDS DshPool, SequenceTheorems, FiniteSetTheorems, TLAPS

Placed == {"initialize", "route", "wait", "hot", "cold", "await", "collect"}

Typed ==
  /\ DOMAIN run = Runs
  /\ \A r \in Runs : {"pc", "sid", "proc", "method", "reply"} \subseteq DOMAIN run[r]
                     /\ run[r].sid \in Runs
  /\ proc \in Seq(Proc)
  /\ pool \in [Keys -> 0 .. Len(proc)]
  /\ spawner \in Runs \cup {NoRun}
  /\ entry \in [Chats -> Runs \cup {NoRun}]
  /\ \A r \in Runs : run[r].pc \in Placed => run[r].proc \in Procs

\* The pool holds processes of its keys, a process that is dead has exited, and who
\* initializes a process is the spawner, for a key without one.
Keyed ==
  /\ \A k \in Keys : pool[k] # 0 => proc[pool[k]].key = k
  /\ \A p \in Procs : proc[p].dead => ~proc[p].up
  /\ \A r \in Runs : run[r].pc = "initialize" => spawner = r
  /\ spawner # NoRun => /\ run[spawner].pc = "initialize"
                        /\ ~Pooled(KeyOf[ChatOf[spawner]])
                        /\ proc[run[spawner].proc].key = KeyOf[ChatOf[spawner]]

IInv == Typed /\ Keyed /\ NothingLeftBehind /\ NoOrphan
-----------------------------------------------------------------------------
(* Processes *)

LEMMA Facts ==
  /\ ChatOf \in [Runs -> Chats] /\ KeyOf \in [Chats -> Keys] /\ NoRun \notin Runs
  /\ Runs \subseteq Nat
BY DshPoolAssumption

LEMMA KeyOfRun == \A r \in Runs : KeyOf[ChatOf[r]] \in Keys
BY Facts

LEMMA NewProcType ==
  ASSUME NEW k \in Keys
  PROVE  /\ NewProc(k) \in Proc /\ NewProc(k).key = k /\ ~NewProc(k).dead
         /\ NewProc(k).pending = {} /\ NewProc(k).subs = {} /\ NewProc(k).known = {}
BY DEF NewProc, Proc

\* What the changes of a process leave alone.
LEMMA LeaveFields ==
  ASSUME NEW x \in Proc, NEW r
  PROVE  LET y == Leave(x, r) IN
         /\ y \in Proc /\ y.key = x.key /\ y.up = x.up /\ y.dead = x.dead
         /\ y.stopping = x.stopping /\ y.known = x.known
         /\ y.pending = x.pending \ {r} /\ y.subs = x.subs \ {r}
BY DEF Leave, Proc

LEMMA MarkDeadFields ==
  ASSUME NEW x \in Proc
  PROVE  LET y == MarkDead(x) IN
         /\ y \in Proc /\ y.key = x.key /\ y.up = x.up /\ y.dead = TRUE
         /\ y.stopping = x.stopping /\ y.known = {} /\ y.pending = {} /\ y.subs = x.subs
BY DEF MarkDead, Proc

LEMMA MarkKnownFields ==
  ASSUME NEW x \in Proc, NEW s \in Runs
  PROVE  LET y == MarkKnown(x, s) IN
         /\ y \in Proc /\ y.key = x.key /\ y.up = x.up /\ y.dead = x.dead
         /\ y.stopping = x.stopping /\ y.known = x.known \cup {s}
         /\ y.pending = x.pending /\ y.subs = x.subs
BY DEF MarkKnown, Proc

LEMMA PendingFields ==
  ASSUME NEW x \in Proc, NEW r \in Runs
  PROVE  LET y == [x EXCEPT !.pending = @ \cup {r}] IN
         /\ y \in Proc /\ y.key = x.key /\ y.up = x.up /\ y.dead = x.dead
         /\ y.stopping = x.stopping /\ y.known = x.known
         /\ y.pending = x.pending \cup {r} /\ y.subs = x.subs
BY DEF Proc

LEMMA SubsFields ==
  ASSUME NEW x \in Proc, NEW r \in Runs
  PROVE  LET y == [x EXCEPT !.subs = @ \cup {r}] IN
         /\ y \in Proc /\ y.key = x.key /\ y.up = x.up /\ y.dead = x.dead
         /\ y.stopping = x.stopping /\ y.known = x.known
         /\ y.pending = x.pending /\ y.subs = x.subs \cup {r}
BY DEF Proc

\* A change of one process.
LEMMA SetProc ==
  ASSUME proc \in Seq(Proc), NEW n \in Procs, NEW x \in Proc, proc' = [proc EXCEPT ![n] = x]
  PROVE  /\ proc' \in Seq(Proc) /\ Len(proc') = Len(proc) /\ Procs' = Procs
         /\ proc'[n] = x /\ \A p \in Procs \ {n} : proc'[p] = proc[p]
BY DEF Procs

LEMMA ProcType ==
  ASSUME proc \in Seq(Proc), NEW p \in Procs
  PROVE  proc[p] \in Proc
BY DEF Procs
-----------------------------------------------------------------------------
(* A run on its process *)

\* How a run that has found its process changes it: the run stays where it is or is
\* done, and is an owner of a call or a subscription only where it may be.
Serves(r) ==
  LET n == run[r].proc
      old == proc[n]
      new == proc'[n] IN
  /\ n \in Procs
  /\ DOMAIN run' = Runs /\ \A d \in Runs \ {r} : run'[d] = run[d]
  /\ {"pc", "sid", "proc", "method", "reply"} \subseteq DOMAIN run'[r]
  /\ run'[r].sid = run[r].sid /\ run'[r].proc = n
  /\ run[r].pc # "initialize" /\ run'[r].pc # "initialize"
  /\ proc' \in Seq(Proc) /\ Len(proc') = Len(proc) /\ Procs' = Procs
  /\ \A p \in Procs \ {n} : proc'[p] = proc[p]
  /\ new.key = old.key /\ new.up = old.up /\ new.stopping = old.stopping
  /\ old.dead => new.dead
  /\ new.dead => old.dead \/ ~old.up
  /\ new.pending \cup new.subs \subseteq old.pending \cup old.subs \cup {r}
  /\ r \in new.pending \cup new.subs => run'[r].pc \in {"await", "collect"}
  /\ UNCHANGED <<pool, spawner>>
  /\ entry' \in [Chats -> Runs \cup {NoRun}]

LEMMA ServesKeepsTyped ==
  ASSUME Typed, NEW r \in Runs, Serves(r)
  PROVE  Typed'
BY DEF Typed, Serves

LEMMA ServesKeepsKeyed ==
  ASSUME Typed, Keyed, NEW r \in Runs, Serves(r)
  PROVE  Keyed'
<1>1. \A p \in Procs : /\ proc'[p].key = proc[p].key /\ proc'[p].up = proc[p].up
                       /\ (proc[p].dead => proc'[p].dead)
                       /\ (proc'[p].dead => proc[p].dead \/ ~proc[p].up)
  BY DEF Serves
<1>2. Procs' = Procs /\ UNCHANGED <<pool, spawner>>
  BY DEF Serves
<1>3. \A k \in Keys : pool[k] # 0 => pool[k] \in Procs
  BY DEF Typed, Procs
<1>4. \A k \in Keys : pool'[k] # 0 => proc'[pool'[k]].key = k
  BY <1>1, <1>2, <1>3 DEF Keyed
<1>5. \A p \in Procs' : proc'[p].dead => ~proc'[p].up
  BY <1>1, <1>2 DEF Keyed
<1>6. \A d \in Runs : run'[d].pc = "initialize" => spawner' = d
  BY <1>2 DEF Serves, Keyed
<1>7. ASSUME spawner' # NoRun
      PROVE  /\ run'[spawner'].pc = "initialize"
             /\ ~Pooled(KeyOf[ChatOf[spawner]])'
             /\ proc'[run'[spawner'].proc].key = KeyOf[ChatOf[spawner']]
  <2>1. spawner \in Runs /\ run[spawner].pc = "initialize" /\ spawner # r
    BY <1>2, <1>7 DEF Typed, Keyed, Serves
  <2>2. run'[spawner] = run[spawner] /\ run[spawner].proc \in Procs
    BY <2>1 DEF Serves, Typed, Placed
  <2>3. ~Pooled(KeyOf[ChatOf[spawner]]) /\ KeyOf[ChatOf[spawner]] \in Keys
    BY <1>2, <1>7, <2>1, KeyOfRun DEF Keyed
  <2>4. ~Pooled(KeyOf[ChatOf[spawner]])'
    BY <2>3, <1>1, <1>2, <1>3 DEF Pooled
  <2> QED
    BY <2>1, <2>2, <2>4, <1>1, <1>2, <1>7 DEF Keyed
<1> QED
  BY <1>2, <1>4, <1>5, <1>6, <1>7 DEF Keyed

LEMMA ServesKeepsOwners ==
  ASSUME Typed, NothingLeftBehind, NEW r \in Runs, Serves(r)
  PROVE  NothingLeftBehind'
<1> SUFFICES ASSUME NEW p \in Procs', NEW d \in proc'[p].pending \cup proc'[p].subs
             PROVE  run'[d].proc = p /\ run'[d].pc \in {"await", "collect"}
  BY DEF NothingLeftBehind
<1>1. p \in Procs
  BY DEF Serves
<1>2. CASE d = r
  <2>1. p = run[r].proc
    BY <1>1, <1>2 DEF Serves, NothingLeftBehind
  <2> QED
    BY <2>1, <1>2 DEF Serves
<1>3. CASE d # r
  <2>1. d \in proc[p].pending \cup proc[p].subs
    BY <1>1, <1>3 DEF Serves
  <2>2. d \in Runs
    BY <1>1, <2>1, ProcType DEF Typed, Proc
  <2>3. run[d].proc = p /\ run[d].pc \in {"await", "collect"}
    BY <1>1, <2>1 DEF NothingLeftBehind
  <2> QED
    BY <1>3, <2>2, <2>3 DEF Serves
<1> QED
  BY <1>2, <1>3

LEMMA ServesKeepsAll ==
  ASSUME IInv, NEW r \in Runs, Serves(r)
  PROVE  IInv'
<1>1. Typed' /\ Keyed' /\ NothingLeftBehind'
  BY ServesKeepsTyped, ServesKeepsKeyed, ServesKeepsOwners DEF IInv
<1>2. NoOrphan'
  <2> SUFFICES ASSUME NEW p \in Procs', proc'[p].up
               PROVE  \/ pool'[proc'[p].key] = p
                      \/ proc'[p].stopping
                      \/ spawner' # NoRun /\ run'[spawner'].pc = "initialize" /\ run'[spawner'].proc = p
    BY DEF NoOrphan
  <2>1. p \in Procs /\ proc[p].up /\ proc'[p].key = proc[p].key
        /\ proc'[p].stopping = proc[p].stopping /\ pool' = pool /\ spawner' = spawner
    BY DEF Serves
  <2>2. \/ pool[proc[p].key] = p
        \/ proc[p].stopping
        \/ spawner # NoRun /\ run[spawner].pc = "initialize" /\ run[spawner].proc = p
    BY <2>1 DEF IInv, NoOrphan
  <2>3. CASE spawner # NoRun /\ run[spawner].pc = "initialize" /\ run[spawner].proc = p
    <3>1. spawner \in Runs /\ spawner # r
      BY <2>3 DEF IInv, Typed, Serves
    <3> QED
      BY <3>1, <2>1, <2>3 DEF Serves
  <2> QED
    BY <2>1, <2>2, <2>3
<1> QED
  BY <1>1, <1>2 DEF IInv

\* A run that goes on, and its process as it becomes.
LEMMA ServesBy ==
  ASSUME Typed, NEW r \in Runs, run[r].pc \in Placed \ {"initialize"}, NEW x \in Proc,
         proc' = [proc EXCEPT ![run[r].proc] = x],
         x.key = proc[run[r].proc].key, x.up = proc[run[r].proc].up,
         x.stopping = proc[run[r].proc].stopping,
         proc[run[r].proc].dead => x.dead,
         x.dead => proc[run[r].proc].dead \/ ~proc[run[r].proc].up,
         x.pending \cup x.subs \subseteq
           proc[run[r].proc].pending \cup proc[run[r].proc].subs \cup {r},
         DOMAIN run' = Runs, \A d \in Runs \ {r} : run'[d] = run[d],
         {"pc", "sid", "proc", "method", "reply"} \subseteq DOMAIN run'[r],
         run'[r].sid = run[r].sid, run'[r].proc = run[r].proc, run'[r].pc # "initialize",
         r \in x.pending \cup x.subs => run'[r].pc \in {"await", "collect"},
         UNCHANGED <<pool, spawner>>, entry' \in [Chats -> Runs \cup {NoRun}]
  PROVE  Serves(r)
<1>1. run[r].proc \in Procs
  BY DEF Typed
<1>2. /\ proc' \in Seq(Proc) /\ Len(proc') = Len(proc) /\ Procs' = Procs
      /\ proc'[run[r].proc] = x /\ \A p \in Procs \ {run[r].proc} : proc'[p] = proc[p]
  BY <1>1, SetProc DEF Typed
<1> QED
  BY <1>1, <1>2 DEF Serves

LEMMA ServesByGoto ==
  ASSUME Typed, NothingLeftBehind, NEW r \in Runs, NEW pc,
         run[r].pc \in {"route", "wait"}, pc \in {"cold", "wait", "hot"},
         Goto(r, pc), UNCHANGED <<pool, spawner, proc, entry>>
  PROVE  Serves(r)
<1>1. run[r].proc \in Procs /\ DOMAIN run = Runs
      /\ {"pc", "sid", "proc", "method", "reply"} \subseteq DOMAIN run[r]
  BY DEF Typed, Placed
<1>2. /\ DOMAIN run' = Runs /\ \A d \in Runs \ {r} : run'[d] = run[d]
      /\ {"pc", "sid", "proc", "method", "reply"} \subseteq DOMAIN run'[r]
      /\ run'[r].sid = run[r].sid /\ run'[r].proc = run[r].proc /\ run'[r].pc = pc
  BY <1>1 DEF Goto
<1>3. r \notin proc[run[r].proc].pending \cup proc[run[r].proc].subs
  BY <1>1 DEF NothingLeftBehind
<1>4. entry' \in [Chats -> Runs \cup {NoRun}] /\ proc' \in Seq(Proc)
  BY DEF Typed
<1> QED
  BY <1>1, <1>2, <1>3, <1>4 DEF Serves, Procs

LEMMA ServesByFinish ==
  ASSUME Typed, NEW r \in Runs, run[r].pc \in Placed \ {"initialize"},
         NEW status, NEW collected \in BOOLEAN,
         Finish(r, status, collected), UNCHANGED <<pool, spawner>>
  PROVE  Serves(r)
<1> DEFINE x == Leave(proc[run[r].proc], r)
<1>1. run[r].proc \in Procs /\ DOMAIN run = Runs /\ run[r].sid \in Runs
      /\ {"pc", "sid", "proc", "method", "reply"} \subseteq DOMAIN run[r]
  BY DEF Typed
<1>2. /\ DOMAIN run' = Runs /\ \A d \in Runs \ {r} : run'[d] = run[d]
      /\ {"pc", "sid", "proc", "method", "reply"} \subseteq DOMAIN run'[r]
      /\ run'[r].sid = run[r].sid /\ run'[r].proc = run[r].proc /\ run'[r].pc = "done"
  BY <1>1 DEF Finish
<1>3. proc' = [proc EXCEPT ![run[r].proc] = x]
  BY DEF Finish
<1>4. proc[run[r].proc] \in Proc
  BY <1>1, ProcType DEF Typed
<1>5. /\ x \in Proc /\ x.key = proc[run[r].proc].key /\ x.up = proc[run[r].proc].up
      /\ x.dead = proc[run[r].proc].dead /\ x.stopping = proc[run[r].proc].stopping
      /\ x.pending = proc[run[r].proc].pending \ {r} /\ x.subs = proc[run[r].proc].subs \ {r}
  BY <1>4, LeaveFields
<1>6. entry' \in [Chats -> Runs \cup {NoRun}]
  BY <1>1, Facts DEF Finish, Typed
<1> HIDE DEF x
<1> QED
  BY <1>2, <1>3, <1>5, <1>6, ServesBy

\* y is what the run has made of its process before the call.
LEMMA ServesByCall ==
  ASSUME Typed, NEW r \in Runs, run[r].pc \in Placed \ {"initialize"},
         NEW y \in Proc, NEW method,
         y.key = proc[run[r].proc].key, y.up = proc[run[r].proc].up,
         y.dead = proc[run[r].proc].dead, y.stopping = proc[run[r].proc].stopping,
         y.pending \cup y.subs \subseteq
           proc[run[r].proc].pending \cup proc[run[r].proc].subs \cup {r},
         Call(y, r, method), UNCHANGED <<pool, spawner>>
  PROVE  Serves(r)
<1>1. run[r].proc \in Procs /\ DOMAIN run = Runs
      /\ {"pc", "sid", "proc", "method", "reply"} \subseteq DOMAIN run[r]
  BY DEF Typed
<1>2. UNCHANGED entry /\ entry' \in [Chats -> Runs \cup {NoRun}]
  BY DEF Call, Typed
<1>3. CASE ~y.dead /\ y.up
  <2> DEFINE x == [y EXCEPT !.pending = @ \cup {r}]
  <2>1. proc' = [proc EXCEPT ![run[r].proc] = x]
    BY <1>3 DEF Call
  <2>2. /\ DOMAIN run' = Runs /\ \A d \in Runs \ {r} : run'[d] = run[d]
        /\ {"pc", "sid", "proc", "method", "reply"} \subseteq DOMAIN run'[r]
        /\ run'[r].sid = run[r].sid /\ run'[r].proc = run[r].proc /\ run'[r].pc = "await"
    BY <1>1, <1>3 DEF Call
  <2>3. /\ x \in Proc /\ x.key = y.key /\ x.up = y.up /\ x.dead = y.dead
        /\ x.stopping = y.stopping /\ x.pending = y.pending \cup {r} /\ x.subs = y.subs
    BY PendingFields
  <2> HIDE DEF x
  <2> QED
    BY <1>2, <2>1, <2>2, <2>3, ServesBy
<1>4. CASE ~(~y.dead /\ y.up)
  <2> DEFINE x == Leave(MarkDead(y), r)
  <2>1. proc' = [proc EXCEPT ![run[r].proc] = x]
    BY <1>4 DEF Call
  <2>2. /\ DOMAIN run' = Runs /\ \A d \in Runs \ {r} : run'[d] = run[d]
        /\ {"pc", "sid", "proc", "method", "reply"} \subseteq DOMAIN run'[r]
        /\ run'[r].sid = run[r].sid /\ run'[r].proc = run[r].proc /\ run'[r].pc = "done"
    BY <1>1, <1>4 DEF Call
  <2> DEFINE z == MarkDead(y)
  <2>a. /\ z \in Proc /\ z.key = y.key /\ z.up = y.up /\ z.dead = TRUE
        /\ z.stopping = y.stopping /\ z.pending = {} /\ z.subs = y.subs
    BY MarkDeadFields
  <2>3. /\ x \in Proc /\ x.key = y.key /\ x.up = y.up /\ x.dead = TRUE
        /\ x.stopping = y.stopping /\ x.pending = {} /\ x.subs = y.subs \ {r}
    <3> x = Leave(z, r)
      OBVIOUS
    <3> HIDE DEF x, z
    <3> QED
      BY <2>a, LeaveFields
  <2> HIDE DEF x
  <2> QED
    BY <1>2, <1>4, <2>1, <2>2, <2>3, ServesBy
<1> QED
  BY <1>3, <1>4

LEMMA RouteServes ==
  ASSUME IInv, NEW r \in Runs, Route(r)
  PROVE  Serves(r)
<1>1. PICK pc \in {"cold", "wait", "hot"} : Goto(r, pc)
  BY DEF Route
<1> QED
  BY <1>1, ServesByGoto DEF Route, IInv

LEMMA WaitIdleServes ==
  ASSUME IInv, NEW r \in Runs, WaitIdle(r)
  PROVE  Serves(r)
<1>1. CASE Goto(r, "hot") /\ UNCHANGED <<proc, entry>>
  BY <1>1, ServesByGoto DEF WaitIdle, IInv
<1>2. CASE Finish(r, "error", FALSE)
  BY <1>2, ServesByFinish DEF WaitIdle, IInv, Placed
<1> QED
  BY <1>1, <1>2 DEF WaitIdle

LEMMA SubscribeServes ==
  ASSUME IInv, NEW r \in Runs, Subscribe(r)
  PROVE  Serves(r)
<1> DEFINE p == proc[run[r].proc]
           y == IF p.dead THEN p ELSE [p EXCEPT !.subs = @ \cup {r}]
<1>1. run[r].pc \in Placed \ {"initialize"} /\ run[r].proc \in Procs
  BY DEF Subscribe, Placed, IInv, Typed
<1>2. p \in Proc
  BY <1>1, ProcType DEF IInv, Typed
<1>3. /\ y \in Proc /\ y.key = p.key /\ y.up = p.up /\ y.dead = p.dead
      /\ y.stopping = p.stopping /\ y.pending = p.pending /\ y.subs \subseteq p.subs \cup {r}
  BY <1>2, SubsFields
<1>4. PICK method : Call(y, r, method)
  BY DEF Subscribe
<1>5. UNCHANGED <<pool, spawner>>
  BY DEF Subscribe
<1> HIDE DEF y
<1> QED
  BY <1>1, <1>3, <1>4, <1>5, ServesByCall DEF IInv

LEMMA ReceiveServes ==
  ASSUME IInv, NEW r \in Runs, Receive(r)
  PROVE  Serves(r)
<1> DEFINE p == proc[run[r].proc]
           known == MarkKnown(p, run[r].sid)
<1>1. run[r].pc \in Placed \ {"initialize"} /\ run[r].proc \in Procs /\ run[r].sid \in Runs
      /\ Typed /\ UNCHANGED <<pool, spawner>> /\ run[r].pc = "await"
  BY DEF Receive, Placed, IInv, Typed
<1>2. p \in Proc
  BY <1>1, ProcType DEF Typed
<1>3. /\ known \in Proc /\ known.key = p.key /\ known.up = p.up /\ known.dead = p.dead
      /\ known.stopping = p.stopping /\ known.pending = p.pending /\ known.subs = p.subs
  BY <1>1, <1>2, MarkKnownFields
<1> HIDE DEF known
<1>4. CASE Resumed(r)
  <2>1. PICK y \in {p, known} : Call(y, r, "session/working-directory/set")
    BY <1>4 DEF Resumed, known
  <2> QED
    BY <1>1, <1>2, <1>3, <2>1, ServesByCall
<1>5. CASE DirectorySet(r)
  <2>1. Call(p, r, "session/prompt")
    BY <1>5 DEF DirectorySet
  <2> QED
    BY <1>1, <1>2, <2>1, ServesByCall
<1>6. CASE Prompted(r)
  <2>1. proc' = [proc EXCEPT ![run[r].proc] = known] /\ Goto(r, "collect") /\ UNCHANGED entry
    BY <1>6 DEF Prompted, known
  <2>2. DOMAIN run = Runs /\ {"pc", "sid", "proc", "method", "reply"} \subseteq DOMAIN run[r]
    BY <1>1 DEF Typed
  <2>3. /\ DOMAIN run' = Runs /\ \A d \in Runs \ {r} : run'[d] = run[d]
        /\ {"pc", "sid", "proc", "method", "reply"} \subseteq DOMAIN run'[r]
        /\ run'[r].sid = run[r].sid /\ run'[r].proc = run[r].proc /\ run'[r].pc = "collect"
    BY <2>1, <2>2 DEF Goto
  <2>4. entry' \in [Chats -> Runs \cup {NoRun}]
    BY <1>1, <2>1 DEF Typed
  <2> QED
    BY <1>1, <1>3, <2>1, <2>3, <2>4, ServesBy
<1>7. CASE Refused(r)
  BY <1>1, <1>7, ServesByFinish DEF Refused
<1> QED
  BY <1>4, <1>5, <1>6, <1>7 DEF Receive

LEMMA CollectServes ==
  ASSUME IInv, NEW r \in Runs, Collect(r)
  PROVE  Serves(r)
<1> DEFINE p == proc[run[r].proc]
           f == Head(run[r].queue)
<1>1. run[r].pc \in Placed \ {"initialize"} /\ run[r].proc \in Procs
      /\ Typed /\ UNCHANGED <<pool, spawner>> /\ run[r].pc = "collect" /\ p \in Proc
      /\ DOMAIN run = Runs /\ {"pc", "sid", "proc", "method", "reply"} \subseteq DOMAIN run[r]
  BY ProcType DEF Collect, Placed, IInv, Typed
<1>2. CASE Finish(r, "ok", TRUE)
  BY <1>1, <1>2, ServesByFinish
<1>3. CASE ~TurnIsOver(r, f)
  <2>1. /\ DOMAIN run' = Runs /\ \A d \in Runs \ {r} : run'[d] = run[d]
        /\ {"pc", "sid", "proc", "method", "reply"} \subseteq DOMAIN run'[r]
        /\ run'[r].sid = run[r].sid /\ run'[r].proc = run[r].proc /\ run'[r].pc = "collect"
        /\ UNCHANGED <<proc, entry>>
    BY <1>1, <1>3 DEF Collect
  <2>2. proc' \in Seq(Proc) /\ entry' \in [Chats -> Runs \cup {NoRun}]
    BY <1>1, <2>1 DEF Typed
  <2> QED
    BY <1>1, <2>1, <2>2 DEF Serves, Procs
<1> QED
  BY <1>2, <1>3 DEF Collect

LEMMA GivesUpServes ==
  ASSUME IInv, NEW r \in Runs,
         \/ WaitTimesOut(r) \/ CallDead(r) \/ CallTimesOut(r)
         \/ CollectDead(r) \/ CollectStopped(r)
  PROVE  Serves(r)
<1>1. \E collected \in BOOLEAN : \/ Finish(r, "stopped", collected)
                                  \/ Finish(r, "error", collected)
  BY DEF WaitTimesOut, CallDead, CallTimesOut, CollectDead, CollectStopped
<1>2. run[r].pc \in Placed \ {"initialize"} /\ UNCHANGED <<pool, spawner>>
  BY DEF WaitTimesOut, CallDead, CallTimesOut, CollectDead, CollectStopped, Placed
<1> QED
  BY <1>1, <1>2, ServesByFinish DEF IInv
-----------------------------------------------------------------------------
(* The processes, their readers, the reaper *)

\* What happens to a process whatever the runs do: no run moves, nothing is added to a
\* process, and one that leaves the pool has ended or is being stopped.
Tends ==
  /\ DOMAIN run' = Runs
  /\ \A r \in Runs : /\ {"pc", "sid", "proc", "method", "reply"} \subseteq DOMAIN run'[r]
                     /\ run'[r].pc = run[r].pc /\ run'[r].proc = run[r].proc
                     /\ run'[r].sid = run[r].sid
  /\ proc' \in Seq(Proc) /\ Len(proc') = Len(proc) /\ Procs' = Procs
  /\ \A p \in Procs :
       /\ proc'[p].key = proc[p].key
       /\ proc'[p].up => proc[p].up
       /\ proc[p].dead => proc'[p].dead
       /\ proc'[p].dead => proc[p].dead \/ ~proc[p].up
       /\ proc[p].stopping => proc'[p].stopping \/ ~proc'[p].up
       /\ proc'[p].pending \subseteq proc[p].pending /\ proc'[p].subs \subseteq proc[p].subs
  /\ pool' \in [Keys -> 0 .. Len(proc)]
  /\ \A k \in Keys : \/ pool'[k] = pool[k]
                     \/ /\ pool'[k] = 0
                        /\ pool[k] # 0 => proc'[pool[k]].stopping \/ ~proc'[pool[k]].up
  /\ spawner' = spawner
  /\ entry' \in [Chats -> Runs \cup {NoRun}]

LEMMA TendsKeepsKeyed ==
  ASSUME Typed, Keyed, Tends
  PROVE  Keyed'
<1>1. \A k \in Keys : pool[k] # 0 => pool[k] \in Procs
  BY DEF Typed, Procs
<1>2. \A k \in Keys : pool'[k] # 0 => proc'[pool'[k]].key = k
  BY <1>1 DEF Tends, Keyed
<1>3. \A p \in Procs' : proc'[p].dead => ~proc'[p].up
  BY DEF Tends, Keyed
<1>4. \A r \in Runs : run'[r].pc = "initialize" => spawner' = r
  BY DEF Tends, Keyed
<1>5. ASSUME spawner' # NoRun
      PROVE  /\ run'[spawner'].pc = "initialize"
             /\ ~Pooled(KeyOf[ChatOf[spawner]])'
             /\ proc'[run'[spawner'].proc].key = KeyOf[ChatOf[spawner']]
  <2>1. spawner' = spawner /\ spawner \in Runs /\ run[spawner].pc = "initialize"
    BY <1>5 DEF Typed, Keyed, Tends
  <2>2. run[spawner].proc \in Procs
    BY <2>1 DEF Typed, Placed
  <2>3. ~Pooled(KeyOf[ChatOf[spawner]]) /\ KeyOf[ChatOf[spawner]] \in Keys
    BY <1>5, <2>1, KeyOfRun DEF Keyed
  <2>4. ~Pooled(KeyOf[ChatOf[spawner]])'
    BY <2>3, <1>1 DEF Pooled, Tends
  <2> QED
    BY <2>1, <2>2, <2>4, <1>5 DEF Keyed, Tends
<1> QED
  BY <1>2, <1>3, <1>4, <1>5 DEF Keyed, Tends

LEMMA TendsKeepsAll ==
  ASSUME IInv, Tends
  PROVE  IInv'
<1>1. Typed'
  BY DEF Typed, Tends, IInv
<1>2. Keyed'
  BY TendsKeepsKeyed DEF IInv
<1>3. NothingLeftBehind'
  <2> SUFFICES ASSUME NEW p \in Procs', NEW d \in proc'[p].pending \cup proc'[p].subs
               PROVE  run'[d].proc = p /\ run'[d].pc \in {"await", "collect"}
    BY DEF NothingLeftBehind
  <2>1. p \in Procs /\ d \in proc[p].pending \cup proc[p].subs
    BY DEF Tends
  <2>2. d \in Runs
    BY <2>1, ProcType DEF IInv, Typed, Proc
  <2>3. run[d].proc = p /\ run[d].pc \in {"await", "collect"}
    BY <2>1 DEF IInv, NothingLeftBehind
  <2> QED
    BY <2>2, <2>3 DEF Tends
<1>4. NoOrphan'
  <2> SUFFICES ASSUME NEW p \in Procs', proc'[p].up, ~proc'[p].stopping
               PROVE  \/ pool'[proc'[p].key] = p
                      \/ spawner' # NoRun /\ run'[spawner'].pc = "initialize"
                         /\ run'[spawner'].proc = p
    BY DEF NoOrphan
  <2>1. p \in Procs /\ proc[p].up /\ proc'[p].key = proc[p].key /\ ~proc[p].stopping
    BY DEF Tends
  <2>2. proc[p].key \in Keys /\ p # 0
    BY <2>1, ProcType DEF IInv, Typed, Proc, Procs
  <2>3. CASE pool[proc[p].key] = p
    BY <2>1, <2>2, <2>3 DEF Tends
  <2>4. CASE spawner # NoRun /\ run[spawner].pc = "initialize" /\ run[spawner].proc = p
    BY <2>1, <2>4 DEF Tends, IInv, Typed
  <2> QED
    BY <2>1, <2>3, <2>4 DEF IInv, NoOrphan
<1> QED
  BY <1>1, <1>2, <1>3, <1>4 DEF IInv

LEMMA ReapTends ==
  ASSUME IInv, Reap
  PROVE  Tends
<1> DEFINE pooled == {p \in Procs : pool[proc[p].key] = p}
           gone(picked) == picked \cup {p \in pooled : proc[p].dead}
           stop(p) == [proc[p] EXCEPT !.stopping = TRUE]
<1>1. PICK picked \in SUBSET {p \in pooled : Idle(p)} :
        /\ pool' = [k \in Keys |-> IF pool[k] \in gone(picked) THEN 0 ELSE pool[k]]
        /\ proc' = [p \in Procs |-> IF p \in picked THEN stop(p) ELSE proc[p]]
        /\ UNCHANGED <<spawner, run, entry>>
  BY DEF Reap
<1>2. ASSUME NEW p \in Procs
      PROVE  /\ proc[p] \in Proc
             /\ stop(p) \in Proc /\ stop(p).key = proc[p].key /\ stop(p).up = proc[p].up
             /\ stop(p).dead = proc[p].dead /\ stop(p).stopping = TRUE
             /\ stop(p).pending = proc[p].pending /\ stop(p).subs = proc[p].subs
  <2>1. proc[p] \in Proc
    BY ProcType DEF IInv, Typed
  <2> QED
    BY <2>1 DEF Proc
<1>3. Len(proc) \in Nat /\ picked \subseteq Procs
  BY DEF IInv, Typed
<1> HIDE DEF stop
<1>4. proc' \in Seq(Proc) /\ Len(proc') = Len(proc) /\ Procs' = Procs
  <2>1. proc' \in [1 .. Len(proc) -> Proc]
    BY <1>1, <1>2 DEF Procs
  <2>2. proc' \in Seq(Proc) /\ DOMAIN proc' = 1 .. Len(proc)
    BY <2>1, <1>3
  <2> QED
    BY <2>2, <1>3, LenProperties DEF Procs
<1>5. \A p \in Procs :
        /\ proc'[p].key = proc[p].key /\ proc'[p].up = proc[p].up /\ proc'[p].dead = proc[p].dead
        /\ proc[p].stopping => proc'[p].stopping
        /\ p \in picked => proc'[p].stopping
        /\ proc'[p].pending = proc[p].pending /\ proc'[p].subs = proc[p].subs
  BY <1>1, <1>2
<1>6. /\ pool' \in [Keys -> 0 .. Len(proc)]
      /\ \A k \in Keys : \/ pool'[k] = pool[k]
                         \/ pool'[k] = 0 /\ pool[k] \in gone(picked)
  BY <1>1, <1>3 DEF IInv, Typed
<1>7. \A p \in gone(picked) : proc'[p].stopping \/ ~proc'[p].up
  BY <1>3, <1>5 DEF IInv, Keyed
<1>8. UNCHANGED <<spawner, run, entry>> /\ entry' \in [Chats -> Runs \cup {NoRun}]
  BY <1>1 DEF IInv, Typed
<1> HIDE DEF gone
<1> QED
  BY <1>4, <1>5, <1>6, <1>7, <1>8 DEF Tends, IInv, Typed

\* A process that changes by itself, while the runs stay where they are.
LEMMA TendsBy ==
  ASSUME Typed, NEW n \in Procs, NEW x \in Proc, proc' = [proc EXCEPT ![n] = x],
         x.key = proc[n].key, x.up => proc[n].up, proc[n].dead => x.dead,
         x.dead => proc[n].dead \/ ~proc[n].up,
         proc[n].stopping => x.stopping \/ ~x.up,
         x.pending \subseteq proc[n].pending, x.subs \subseteq proc[n].subs,
         DOMAIN run' = Runs,
         \A r \in Runs : /\ {"pc", "sid", "proc", "method", "reply"} \subseteq DOMAIN run'[r]
                        /\ run'[r].pc = run[r].pc /\ run'[r].proc = run[r].proc
                        /\ run'[r].sid = run[r].sid,
         UNCHANGED <<pool, spawner>>, entry' \in [Chats -> Runs \cup {NoRun}]
  PROVE  Tends
<1>1. /\ proc' \in Seq(Proc) /\ Len(proc') = Len(proc) /\ Procs' = Procs
      /\ proc'[n] = x /\ \A p \in Procs \ {n} : proc'[p] = proc[p]
  BY SetProc DEF Typed
<1>2. pool' \in [Keys -> 0 .. Len(proc)]
  BY DEF Typed
<1> QED
  BY <1>1, <1>2 DEF Tends

LEMMA StopTends ==
  ASSUME IInv, NEW p \in Procs, Stop(p)
  PROVE  Tends
<1> DEFINE x == [proc[p] EXCEPT !.stopping = FALSE, !.up = FALSE]
<1>1. proc[p] \in Proc /\ Typed
  BY ProcType DEF IInv, Typed
<1>2. /\ x \in Proc /\ x.key = proc[p].key /\ x.up = FALSE /\ x.dead = proc[p].dead
      /\ x.pending = proc[p].pending /\ x.subs = proc[p].subs
  BY <1>1 DEF Proc
<1>3. proc' = [proc EXCEPT ![p] = x] /\ UNCHANGED <<pool, spawner, run, entry>>
  BY DEF Stop
<1>4. DOMAIN run' = Runs /\ entry' \in [Chats -> Runs \cup {NoRun}]
      /\ \A r \in Runs : {"pc", "sid", "proc", "method", "reply"} \subseteq DOMAIN run'[r]
  BY <1>1, <1>3 DEF Typed
<1> HIDE DEF x
<1> QED
  BY <1>1, <1>2, <1>3, <1>4, TendsBy

LEMMA ExitTends ==
  ASSUME IInv, NEW p \in Procs, Exit(p)
  PROVE  Tends
<1> DEFINE x == [proc[p] EXCEPT !.up = FALSE]
<1>1. proc[p] \in Proc /\ Typed
  BY ProcType DEF IInv, Typed
<1>2. /\ x \in Proc /\ x.key = proc[p].key /\ x.up = FALSE /\ x.dead = proc[p].dead
      /\ x.pending = proc[p].pending /\ x.subs = proc[p].subs
  BY <1>1 DEF Proc
<1>3. proc' = [proc EXCEPT ![p] = x] /\ UNCHANGED <<pool, spawner, run, entry>>
  BY DEF Exit
<1>4. DOMAIN run' = Runs /\ entry' \in [Chats -> Runs \cup {NoRun}]
      /\ \A r \in Runs : {"pc", "sid", "proc", "method", "reply"} \subseteq DOMAIN run'[r]
  BY <1>1, <1>3 DEF Typed
<1> HIDE DEF x
<1> QED
  BY <1>1, <1>2, <1>3, <1>4, TendsBy

LEMMA ClearTends ==
  ASSUME IInv, NEW c \in Chats, Clear(c)
  PROVE  Tends
<1> DEFINE n == pool[KeyOf[c]]
           s == entry[c]
           x == EvictSession(proc[n], s)
<1>1. /\ Typed /\ UNCHANGED <<pool, spawner, run>> /\ KeyOf[c] \in Keys
      /\ entry' \in [Chats -> Runs \cup {NoRun}]
  BY Facts DEF IInv, Typed, Clear, external
<1>2. DOMAIN run' = Runs
      /\ \A r \in Runs : {"pc", "sid", "proc", "method", "reply"} \subseteq DOMAIN run'[r]
  BY <1>1 DEF Typed
<1>3. CASE ~Pooled(KeyOf[c])
  <2>1. UNCHANGED proc
    BY <1>3 DEF Clear
  <2> QED
    BY <1>1, <1>2, <2>1 DEF Typed, Tends, Procs
<1>4. CASE Pooled(KeyOf[c])
  <2>1. n \in Procs
    BY <1>1, <1>4 DEF Pooled, Typed, Procs
  <2>2. proc[n] \in Proc
    BY <1>1, <2>1, ProcType DEF Typed
  <2>3. /\ x \in Proc /\ x.key = proc[n].key /\ x.up = proc[n].up /\ x.dead = proc[n].dead
        /\ x.stopping = proc[n].stopping
        /\ x.pending = proc[n].pending /\ x.subs \subseteq proc[n].subs
    BY <2>2 DEF Proc, EvictSession
  <2>4. proc' = [proc EXCEPT ![n] = x]
    BY <1>4 DEF Clear
  <2> HIDE DEF n, x
  <2> QED
    BY <1>1, <1>2, <2>1, <2>3, <2>4, TendsBy
<1> QED
  BY <1>3, <1>4

LEMMA ReaderEndsTends ==
  ASSUME IInv, NEW p \in Procs, ReaderEnds(p)
  PROVE  Tends
<1> DEFINE x == MarkDead(proc[p])
<1>1. proc[p] \in Proc /\ Typed /\ DOMAIN run = Runs
  BY ProcType DEF IInv, Typed
<1>2. /\ x \in Proc /\ x.key = proc[p].key /\ x.up = proc[p].up /\ x.dead = TRUE
      /\ x.stopping = proc[p].stopping /\ x.pending = {} /\ x.subs = proc[p].subs
  BY <1>1, MarkDeadFields
<1>3. proc' = [proc EXCEPT ![p] = x] /\ UNCHANGED <<pool, spawner, entry>> /\ ~proc[p].up
  BY DEF ReaderEnds
<1>4. DOMAIN run' = Runs
      /\ \A r \in Runs : /\ {"pc", "sid", "proc", "method", "reply"} \subseteq DOMAIN run'[r]
                         /\ run'[r].pc = run[r].pc /\ run'[r].proc = run[r].proc
                         /\ run'[r].sid = run[r].sid
  BY <1>1 DEF Typed, ReaderEnds
<1>5. entry' \in [Chats -> Runs \cup {NoRun}]
  BY <1>1, <1>3 DEF Typed
<1> HIDE DEF x
<1> QED
  BY <1>1, <1>2, <1>3, <1>4, <1>5, TendsBy

LEMMA ResponseTends ==
  ASSUME IInv, NEW p \in Procs, NEW call, Response(p, call), UNCHANGED <<pool, spawner, entry>>
  PROVE  Tends
<1> DEFINE x == [proc[p] EXCEPT !.pending = @ \ {call.run}]
<1>1. proc[p] \in Proc /\ Typed /\ DOMAIN run = Runs
  BY ProcType DEF IInv, Typed
<1>2. /\ x \in Proc /\ x.key = proc[p].key /\ x.up = proc[p].up /\ x.dead = proc[p].dead
      /\ x.stopping = proc[p].stopping
      /\ x.pending \subseteq proc[p].pending /\ x.subs = proc[p].subs
  BY <1>1 DEF Proc
<1>3. proc' = [proc EXCEPT ![p] = x]
  BY DEF Response
<1>4. PICK kind : run' = IF call.run \in proc[p].pending
                          THEN [run EXCEPT ![call.run].reply = kind] ELSE run
  BY DEF Response
<1>5. DOMAIN run' = Runs
      /\ \A r \in Runs : /\ {"pc", "sid", "proc", "method", "reply"} \subseteq DOMAIN run'[r]
                         /\ run'[r].pc = run[r].pc /\ run'[r].proc = run[r].proc
                         /\ run'[r].sid = run[r].sid
  BY <1>1, <1>4 DEF Typed
<1>6. entry' \in [Chats -> Runs \cup {NoRun}]
  BY <1>1 DEF Typed
<1> HIDE DEF x
<1> QED
  BY <1>1, <1>2, <1>3, <1>5, <1>6, TendsBy

LEMMA EventTends ==
  ASSUME IInv, NEW p \in Procs, NEW s \in Runs, Event(p, s), UNCHANGED <<pool, spawner, entry>>
  PROVE  Tends
<1>1. proc[p] \in Proc /\ Typed /\ DOMAIN run = Runs
  BY ProcType DEF IInv, Typed
<1>2. PICK f : /\ proc' = [proc EXCEPT ![p].inflight = Inflight(p, s, f.kind)]
               /\ run' = [r \in Runs |->
                    IF r \in Subscribers(p, s) /\ Len(run[r].queue) < Cap
                      THEN [run[r] EXCEPT !.queue = Append(@, f)] ELSE run[r]]
  BY DEF Event
<1> DEFINE i == Inflight(p, s, f.kind)
           x == [proc[p] EXCEPT !.inflight = i]
<1>3. i \in SUBSET Runs
  BY <1>1 DEF Inflight, Proc
<1> HIDE DEF i
<1>4. /\ x \in Proc /\ x.key = proc[p].key /\ x.up = proc[p].up /\ x.dead = proc[p].dead
      /\ x.stopping = proc[p].stopping
      /\ x.pending = proc[p].pending /\ x.subs = proc[p].subs
  BY <1>1, <1>3 DEF Proc
<1>5. proc' = [proc EXCEPT ![p] = x]
  BY <1>2 DEF i
<1>6. DOMAIN run' = Runs
      /\ \A r \in Runs : /\ {"pc", "sid", "proc", "method", "reply"} \subseteq DOMAIN run'[r]
                         /\ run'[r].pc = run[r].pc /\ run'[r].proc = run[r].proc
                         /\ run'[r].sid = run[r].sid
  BY <1>1, <1>2 DEF Typed
<1>7. entry' \in [Chats -> Runs \cup {NoRun}]
  BY <1>1 DEF Typed
<1> HIDE DEF x
<1> QED
  BY <1>1, <1>4, <1>5, <1>6, <1>7, TendsBy

LEMMA HandleFrameTends ==
  ASSUME IInv, NEW p \in Procs, HandleFrame(p)
  PROVE  Tends
BY ResponseTends, EventTends DEF HandleFrame
-----------------------------------------------------------------------------
(* A run finds its process *)

\* A run without a process gets one of the pool, or goes on without.
Moves(r) ==
  /\ DOMAIN run' = Runs /\ \A d \in Runs \ {r} : run'[d] = run[d]
  /\ {"pc", "sid", "proc", "method", "reply"} \subseteq DOMAIN run'[r]
  /\ run'[r].sid \in Runs /\ run[r].pc \in {"idle", "spawn"}
  /\ run'[r].pc # "initialize" /\ (run'[r].pc \in Placed => run'[r].proc \in Procs)
  /\ UNCHANGED <<pool, spawner, proc, entry>>

LEMMA BeginMoves ==
  ASSUME IInv, NEW r \in Runs, Begin(r)
  PROVE  Moves(r)
<1> DEFINE k == KeyOf[ChatOf[r]]
           old == entry[ChatOf[r]]
<1>1. k \in Keys /\ old \in Runs \cup {NoRun} /\ DOMAIN run = Runs
      /\ {"pc", "sid", "proc", "method", "reply"} \subseteq DOMAIN run[r]
  BY Facts, KeyOfRun DEF IInv, Typed
<1>2. PICK fresh \in BOOLEAN :
        run' = [run EXCEPT ![r].sid = IF fresh \/ old = NoRun THEN r ELSE old,
                           ![r].pc = IF Pooled(k) THEN "route" ELSE "spawn",
                           ![r].proc = IF Pooled(k) THEN pool[k] ELSE 0]
  BY DEF Begin
<1>3. Pooled(k) => pool[k] \in Procs
  BY <1>1 DEF Pooled, IInv, Typed, Procs
<1> HIDE DEF k, old
<1>4. /\ DOMAIN run' = Runs /\ \A d \in Runs \ {r} : run'[d] = run[d]
      /\ {"pc", "sid", "proc", "method", "reply"} \subseteq DOMAIN run'[r]
      /\ run'[r].sid = (IF fresh \/ old = NoRun THEN r ELSE old)
      /\ run'[r].pc = (IF Pooled(k) THEN "route" ELSE "spawn")
      /\ run'[r].proc = (IF Pooled(k) THEN pool[k] ELSE 0)
  BY <1>1, <1>2
<1>5. run[r].pc = "idle" /\ UNCHANGED <<pool, spawner, proc, entry>>
  BY DEF Begin
<1> QED
  BY <1>1, <1>3, <1>4, <1>5 DEF Moves, Placed

LEMMA MovesKeepsAll ==
  ASSUME IInv, NEW r \in Runs, Moves(r)
  PROVE  IInv'
<1>1. Typed'
  BY DEF IInv, Typed, Moves, Procs
<1>2. Procs' = Procs /\ UNCHANGED <<pool, spawner, proc>>
  BY DEF Moves, Procs
<1>3. spawner # NoRun => spawner \in Runs \ {r}
  BY DEF IInv, Typed, Keyed, Moves
<1>4. Keyed'
  <2>1. \A d \in Runs : run'[d].pc = "initialize" => spawner' = d
    BY <1>2 DEF IInv, Keyed, Moves
  <2>2. ASSUME spawner' # NoRun
        PROVE  /\ run'[spawner'].pc = "initialize"
               /\ ~Pooled(KeyOf[ChatOf[spawner]])'
               /\ proc'[run'[spawner'].proc].key = KeyOf[ChatOf[spawner']]
    <3>1. run'[spawner] = run[spawner]
      BY <1>2, <1>3, <2>2 DEF Moves
    <3> QED
      BY <1>2, <2>2, <3>1 DEF IInv, Keyed, Pooled
  <2> QED
    BY <1>2, <2>1, <2>2 DEF IInv, Keyed
<1>5. NothingLeftBehind'
  <2> SUFFICES ASSUME NEW p \in Procs, NEW d \in proc[p].pending \cup proc[p].subs
               PROVE  run'[d].proc = p /\ run'[d].pc \in {"await", "collect"}
    BY <1>2 DEF NothingLeftBehind
  <2>1. d \in Runs /\ run[d].proc = p /\ run[d].pc \in {"await", "collect"}
    BY ProcType DEF IInv, Typed, Proc, NothingLeftBehind
  <2> QED
    BY <2>1 DEF Moves
<1>6. NoOrphan'
  <2> SUFFICES ASSUME NEW p \in Procs, proc[p].up, pool[proc[p].key] # p, ~proc[p].stopping
               PROVE  spawner # NoRun /\ run'[spawner].pc = "initialize"
                      /\ run'[spawner].proc = p
    BY <1>2 DEF NoOrphan
  <2> QED
    BY <1>3 DEF IInv, NoOrphan, Moves
<1> QED
  BY <1>1, <1>4, <1>5, <1>6 DEF IInv

LEMMA SpawnKeepsAll ==
  ASSUME IInv, NEW r \in Runs, Spawn(r)
  PROVE  IInv'
<1> DEFINE k == KeyOf[ChatOf[r]]
<1>1. /\ k \in Keys /\ run[r].pc = "spawn" /\ spawner = NoRun /\ UNCHANGED <<pool, entry>>
      /\ DOMAIN run = Runs
      /\ {"pc", "sid", "proc", "method", "reply"} \subseteq DOMAIN run[r] /\ run[r].sid \in Runs
  BY KeyOfRun DEF Spawn, IInv, Typed
<1>2. CASE SecondLook(r, k)
  <2>1. pool[k] \in Procs
    BY <1>1, <1>2 DEF SecondLook, Pooled, IInv, Typed, Procs
  <2>2. Moves(r)
    BY <1>1, <1>2, <2>1 DEF SecondLook, Moves, Placed
  <2> QED
    BY <2>2, MovesKeepsAll
<1>3. CASE NoAgent(r)
  <2>1. Moves(r)
    BY <1>1, <1>3 DEF NoAgent, Moves, Placed
  <2> QED
    BY <2>1, MovesKeepsAll
<1>4. CASE Start(r, k) /\ ~Pooled(k)
  <2> DEFINE n == Len(proc) + 1
  <2>1. Len(proc) \in Nat /\ proc \in Seq(Proc) /\ n \notin Procs
    BY DEF IInv, Typed, Procs
  <2>2. proc' = Append(proc, NewProc(k)) /\ NewProc(k) \in Proc
    BY <1>1, <1>4, NewProcType DEF Start
  <2>3. /\ proc' \in Seq(Proc) /\ Len(proc') = n /\ proc'[n] = NewProc(k)
        /\ \A p \in Procs : proc'[p] = proc[p]
        /\ Procs' = Procs \cup {n}
    BY <2>1, <2>2 DEF Procs
  <2>4. /\ DOMAIN run' = Runs /\ \A d \in Runs \ {r} : run'[d] = run[d]
        /\ {"pc", "sid", "proc", "method", "reply"} \subseteq DOMAIN run'[r]
        /\ run'[r].sid = run[r].sid /\ run'[r].pc = "initialize" /\ run'[r].proc = n
        /\ spawner' = r
    BY <1>1, <1>4, <2>3 DEF Start
  <2>5. Typed'
    <3>1. pool' \in [Keys -> 0 .. Len(proc')]
      BY <1>1, <2>1, <2>3 DEF IInv, Typed
    <3> QED
      BY <1>1, <2>3, <2>4, <3>1 DEF IInv, Typed
  <2>6. \A x \in Keys : pool[x] # 0 => pool[x] \in Procs
    BY DEF IInv, Typed, Procs
  <2>7. Keyed'
    <3>1. \A x \in Keys : pool'[x] # 0 => proc'[pool'[x]].key = x
      BY <1>1, <2>3, <2>6 DEF IInv, Keyed
    <3>2. \A p \in Procs' : proc'[p].dead => ~proc'[p].up
      BY <1>1, <2>3, NewProcType DEF IInv, Keyed
    <3>3. \A d \in Runs : run'[d].pc = "initialize" => spawner' = d
      BY <1>1, <2>4, Facts DEF IInv, Keyed
    <3>4. ~Pooled(KeyOf[ChatOf[r]])'
      BY <1>1, <1>4, <2>3, <2>6 DEF Pooled
    <3>5. proc'[run'[r].proc].key = KeyOf[ChatOf[r]]
      BY <1>1, <2>3, <2>4, NewProcType
    <3> QED
      BY <2>4, <3>1, <3>2, <3>3, <3>4, <3>5 DEF Keyed
  <2>8. NothingLeftBehind'
    <3> SUFFICES ASSUME NEW p \in Procs', NEW d \in proc'[p].pending \cup proc'[p].subs
                 PROVE  run'[d].proc = p /\ run'[d].pc \in {"await", "collect"}
      BY DEF NothingLeftBehind
    <3>1. p \in Procs /\ proc'[p] = proc[p]
      BY <1>1, <2>3, NewProcType
    <3>2. d \in Runs /\ run[d].proc = p /\ run[d].pc \in {"await", "collect"}
      BY <3>1, ProcType DEF IInv, Typed, Proc, NothingLeftBehind
    <3> QED
      BY <1>1, <2>4, <3>2
  <2>9. NoOrphan'
    <3> SUFFICES ASSUME NEW p \in Procs, proc[p].up
                 PROVE  pool[proc[p].key] = p \/ proc[p].stopping
      BY <1>1, <2>3, <2>4, Facts DEF NoOrphan
    <3> QED
      BY <1>1 DEF IInv, NoOrphan
  <2> QED
    BY <2>5, <2>7, <2>8, <2>9 DEF IInv
<1> QED
  BY <1>2, <1>3, <1>4 DEF Spawn

\* The spawner's process enters the pool.
LEMMA InitializedKeepsAll ==
  ASSUME IInv, NEW r \in Runs, Initialized(r)
  PROVE  IInv'
<1> DEFINE k == KeyOf[ChatOf[r]]
           n == run[r].proc
<1>1. /\ k \in Keys /\ run[r].pc = "initialize" /\ spawner = r /\ spawner' = NoRun
      /\ UNCHANGED <<proc, entry>> /\ n \in Procs /\ proc[n].key = k /\ ~Pooled(k)
      /\ proc[n].up /\ Procs' = Procs
  BY KeyOfRun, Facts DEF Initialized, IInv, Typed, Keyed, Placed, Procs
<1>2. DOMAIN run = Runs /\ {"pc", "sid", "proc", "method", "reply"} \subseteq DOMAIN run[r]
  BY DEF IInv, Typed
<1>3. /\ DOMAIN run' = Runs /\ \A d \in Runs \ {r} : run'[d] = run[d]
      /\ {"pc", "sid", "proc", "method", "reply"} \subseteq DOMAIN run'[r]
      /\ run'[r].sid = run[r].sid /\ run'[r].pc = "route" /\ run'[r].proc = n
  BY <1>2 DEF Initialized, Goto
<1>4. pool' = [pool EXCEPT ![k] = n] /\ pool' \in [Keys -> 0 .. Len(proc)]
      /\ n # 0 /\ pool'[k] = n /\ \A x \in Keys \ {k} : pool'[x] = pool[x]
  <2>1. n \in 0 .. Len(proc) /\ n # 0
    BY <1>1 DEF Procs, IInv, Typed
  <2>2. pool \in [Keys -> 0 .. Len(proc)] /\ pool' = [pool EXCEPT ![k] = n]
    BY DEF Initialized, IInv, Typed
  <2> QED
    BY <1>1, <2>1, <2>2
<1>5. Typed'
  <2>1. \A d \in Runs : {"pc", "sid", "proc", "method", "reply"} \subseteq DOMAIN run'[d]
                        /\ run'[d].sid \in Runs
    BY <1>3 DEF IInv, Typed
  <2>2. \A d \in Runs : run'[d].pc \in Placed => run'[d].proc \in Procs
    BY <1>1, <1>3 DEF IInv, Typed
  <2>3. /\ proc' \in Seq(Proc) /\ pool' \in [Keys -> 0 .. Len(proc')]
        /\ spawner' \in Runs \cup {NoRun} /\ entry' \in [Chats -> Runs \cup {NoRun}]
    BY <1>1, <1>4 DEF IInv, Typed
  <2> QED
    BY <1>1, <1>3, <2>1, <2>2, <2>3 DEF Typed
<1>6. Keyed'
  <2>1. \A x \in Keys : pool'[x] # 0 => proc'[pool'[x]].key = x
    BY <1>1, <1>4 DEF IInv, Keyed
  <2>2. \A d \in Runs : run'[d].pc # "initialize"
    BY <1>1, <1>3 DEF IInv, Keyed
  <2> QED
    BY <1>1, <2>1, <2>2 DEF IInv, Keyed
<1>7. NothingLeftBehind'
  <2> SUFFICES ASSUME NEW p \in Procs, NEW d \in proc[p].pending \cup proc[p].subs
               PROVE  run'[d].proc = p /\ run'[d].pc \in {"await", "collect"}
    BY <1>1 DEF NothingLeftBehind
  <2>1. d \in Runs /\ run[d].proc = p /\ run[d].pc \in {"await", "collect"}
    BY ProcType DEF IInv, Typed, Proc, NothingLeftBehind
  <2> QED
    BY <1>1, <1>3, <2>1
<1>8. NoOrphan'
  <2> SUFFICES ASSUME NEW p \in Procs, proc[p].up, ~proc[p].stopping
               PROVE  pool'[proc[p].key] = p
    BY <1>1 DEF NoOrphan
  <2>a. proc[p] \in Proc /\ p # 0
    BY ProcType DEF IInv, Typed, Procs
  <2>1. proc[p].key \in Keys /\ p # 0
    BY <2>a DEF Proc
  <2>2. p = n \/ pool[proc[p].key] = p
    BY <1>1 DEF IInv, NoOrphan
  <2>3. CASE p # n
    <3>1. pool[proc[p].key] = p /\ ~proc[p].dead
      BY <2>2, <2>3 DEF IInv, Keyed
    <3>2. proc[p].key # k
      BY <1>1, <2>1, <3>1 DEF Pooled
    <3> QED
      BY <1>4, <2>1, <3>1, <3>2
  <2> QED
    BY <1>1, <1>4, <2>3
<1> QED
  BY <1>5, <1>6, <1>7, <1>8 DEF IInv

LEMMA InitializeFailsKeepsAll ==
  ASSUME IInv, NEW r \in Runs, InitializeFails(r)
  PROVE  IInv'
<1> DEFINE n == run[r].proc
           x == [proc[n] EXCEPT !.up = FALSE]
<1>1. /\ run[r].pc = "initialize" /\ spawner = r /\ spawner' = NoRun
      /\ UNCHANGED <<pool, entry>> /\ n \in Procs /\ proc \in Seq(Proc)
  BY Facts DEF InitializeFails, IInv, Typed, Keyed, Placed
<1>2. proc[n] \in Proc
  BY <1>1, ProcType
<1>3. /\ x \in Proc /\ x.key = proc[n].key /\ x.up = FALSE /\ x.dead = proc[n].dead
      /\ x.stopping = proc[n].stopping
      /\ x.pending = proc[n].pending /\ x.subs = proc[n].subs
  BY <1>2 DEF Proc
<1>4. proc' = [proc EXCEPT ![n] = x]
  BY DEF InitializeFails
<1>5. DOMAIN run = Runs /\ {"pc", "sid", "proc", "method", "reply"} \subseteq DOMAIN run[r]
  BY DEF IInv, Typed
<1>6. /\ DOMAIN run' = Runs /\ \A d \in Runs \ {r} : run'[d] = run[d]
      /\ {"pc", "sid", "proc", "method", "reply"} \subseteq DOMAIN run'[r]
      /\ run'[r].sid = run[r].sid /\ run'[r].pc = "done" /\ run'[r].proc = n
  BY <1>5 DEF InitializeFails
<1> HIDE DEF x
<1>7. /\ proc' \in Seq(Proc) /\ Len(proc') = Len(proc) /\ Procs' = Procs
      /\ proc'[n] = x /\ \A p \in Procs \ {n} : proc'[p] = proc[p]
  BY <1>1, <1>3, <1>4, SetProc
<1>8. \A p \in Procs : /\ proc'[p].key = proc[p].key /\ proc'[p].dead = proc[p].dead
                       /\ proc'[p].stopping = proc[p].stopping
                       /\ proc'[p].pending = proc[p].pending /\ proc'[p].subs = proc[p].subs
                       /\ (proc'[p].up => proc[p].up /\ p # n)
  BY <1>3, <1>7
<1>9. Typed'
  BY <1>1, <1>6, <1>7 DEF IInv, Typed, Placed
<1>10. Keyed'
  <2>1. \A y \in Keys : pool[y] # 0 => pool[y] \in Procs
    BY DEF IInv, Typed, Procs
  <2>2. \A y \in Keys : pool'[y] # 0 => proc'[pool'[y]].key = y
    BY <1>1, <1>8, <2>1 DEF IInv, Keyed
  <2>3. \A d \in Runs : run'[d].pc # "initialize"
    BY <1>1, <1>6 DEF IInv, Keyed
  <2>4. \A p \in Procs' : proc'[p].dead => ~proc'[p].up
    BY <1>7, <1>8 DEF IInv, Keyed
  <2> QED
    BY <1>1, <2>2, <2>3, <2>4 DEF Keyed
<1>11. NothingLeftBehind'
  <2> SUFFICES ASSUME NEW p \in Procs, NEW d \in proc[p].pending \cup proc[p].subs
               PROVE  run'[d].proc = p /\ run'[d].pc \in {"await", "collect"}
    BY <1>7, <1>8 DEF NothingLeftBehind
  <2>1. d \in Runs /\ run[d].proc = p /\ run[d].pc \in {"await", "collect"}
    BY ProcType DEF IInv, Typed, Proc, NothingLeftBehind
  <2> QED
    BY <1>1, <1>6, <2>1
<1>12. NoOrphan'
  <2> SUFFICES ASSUME NEW p \in Procs, proc[p].up, p # n
               PROVE  pool[proc[p].key] = p \/ proc[p].stopping
    BY <1>1, <1>7, <1>8 DEF NoOrphan
  <2> QED
    BY <1>1 DEF IInv, NoOrphan
<1> QED
  BY <1>9, <1>10, <1>11, <1>12 DEF IInv
-----------------------------------------------------------------------------
(* Every step *)

LEMMA InitIInv ==
  ASSUME Init
  PROVE  IInv
<1>1. Typed
  BY DEF Init, Typed, Placed, Procs
<1>2. Procs = {}
  BY DEF Init, Procs
<1> QED
  BY <1>1, <1>2, Facts DEF Init, IInv, Keyed, NothingLeftBehind, NoOrphan

LEMMA RunKeepsIInv ==
  ASSUME IInv, NEW r \in Runs, Begin(r) \/ RunStep(r) \/ Timer(r)
  PROVE  IInv'
<1>1. CASE Begin(r)
  BY <1>1, BeginMoves, MovesKeepsAll
<1>2. CASE Spawn(r)
  BY <1>2, SpawnKeepsAll
<1>3. CASE Initialized(r)
  BY <1>3, InitializedKeepsAll
<1>4. CASE InitializeFails(r)
  BY <1>4, InitializeFailsKeepsAll
<1>5. CASE Route(r) \/ WaitIdle(r) \/ Subscribe(r) \/ Receive(r) \/ Collect(r)
  BY <1>5, RouteServes, WaitIdleServes, SubscribeServes, ReceiveServes, CollectServes,
     ServesKeepsAll
<1>6. CASE \/ WaitTimesOut(r) \/ CallDead(r) \/ CallTimesOut(r)
           \/ CollectDead(r) \/ CollectStopped(r)
  BY <1>6, GivesUpServes, ServesKeepsAll
<1> QED
  BY <1>1, <1>2, <1>3, <1>4, <1>5, <1>6 DEF RunStep, Timer

LEMMA NextIInv ==
  ASSUME IInv, [Next]_vars
  PROVE  IInv'
<1>1. CASE \E r \in Runs : Begin(r) \/ RunStep(r) \/ Timer(r)
  BY <1>1, RunKeepsIInv
<1>2. CASE \E p \in Procs : HandleFrame(p) \/ ReaderEnds(p) \/ Stop(p) \/ Exit(p)
  BY <1>2, HandleFrameTends, ReaderEndsTends, StopTends, ExitTends, TendsKeepsAll
<1>3. CASE \E c \in Chats : Clear(c)
  BY <1>3, ClearTends, TendsKeepsAll
<1>4. CASE Reap
  BY <1>4, ReapTends, TendsKeepsAll
<1>5. CASE UNCHANGED vars
  BY <1>5 DEF vars, IInv, Typed, Keyed, Pooled, NothingLeftBehind, NoOrphan, Procs
<1> QED
  BY <1>1, <1>2, <1>3, <1>4, <1>5 DEF Next

LEMMA AlwaysIInv == Spec => []IInv
<1>1. Init => IInv
  BY InitIInv
<1>2. IInv /\ [Next]_vars => IInv'
  BY NextIInv
<1> QED
  BY <1>1, <1>2, PTL DEF Spec
-----------------------------------------------------------------------------
(* What the processes hold *)

\* A call that a process has yet to answer is the one its run waits for, unless that run
\* is over.
Outstanding ==
  \A p \in Procs : \A call \in server[p].calls :
    LET r == call.run IN
    run[r].pc # "done" =>
      run[r].pc = "await" /\ run[r].proc = p /\ run[r].method = call.method
      /\ run[r].reply \in {"none", "dead"}

\* A run that has its answer, or prompts, has a session its process holds.
Answered ==
  \A r \in Runs :
    run[r].pc = "await" /\ (run[r].reply = "ok" \/ run[r].method = "session/prompt") =>
      run[r].sid \in server[run[r].proc].live

Served == server \in Seq(Server) /\ Len(server) = Len(proc)

Held == Served /\ Outstanding /\ Answered /\ KnownIsLive

LEMMA ServerType ==
  ASSUME Typed, Served, NEW p \in Procs
  PROVE  /\ server[p] \in Server /\ p \in DOMAIN server
         /\ server[p].calls \in SUBSET [run : Runs, method : Methods]
         /\ server[p].live \in SUBSET Runs
<1>1. server[p] \in Server /\ p \in DOMAIN server
  BY DEF Served, Typed, Procs
<1> QED
  BY <1>1 DEF Server

\* Steps that leave the processes alone: a run goes on waiting, is over, or had nothing
\* to wait for.
Quiet ==
  /\ server' = server /\ Len(proc') = Len(proc)
  /\ \A p \in Procs : proc'[p].known \subseteq proc[p].known
  /\ \A r \in Runs :
       \/ /\ run'[r].pc = run[r].pc /\ run'[r].proc = run[r].proc /\ run'[r].sid = run[r].sid
          /\ run'[r].method = run[r].method /\ run'[r].reply \in {run[r].reply, "dead"}
       \/ run'[r].pc = "done"
       \/ run[r].pc \notin {"await", "done"} /\ run'[r].pc # "await"

LEMMA QuietKeepsHeld ==
  ASSUME Typed, Held, Quiet
  PROVE  Held'
<1>1. Procs' = Procs /\ Served'
  BY DEF Quiet, Held, Served, Procs
<1>2. Outstanding'
  <2> SUFFICES ASSUME NEW p \in Procs, NEW call \in server[p].calls, run'[call.run].pc # "done"
               PROVE  /\ run'[call.run].pc = "await" /\ run'[call.run].proc = p
                      /\ run'[call.run].method = call.method
                      /\ run'[call.run].reply \in {"none", "dead"}
    BY <1>1 DEF Outstanding, Quiet
  <2>1. call.run \in Runs
    BY ServerType DEF Held
  <2> QED
    BY <2>1 DEF Held, Outstanding, Quiet
<1>3. Answered'
  BY DEF Held, Answered, Quiet
<1>4. KnownIsLive'
  BY <1>1 DEF Held, KnownIsLive, Quiet
<1> QED
  BY <1>1, <1>2, <1>3, <1>4 DEF Held

LEMMA FinishQuiet ==
  ASSUME Typed, NEW r \in Runs, run[r].pc \in Placed, NEW status, NEW collected,
         Finish(r, status, collected), UNCHANGED server
  PROVE  Quiet
<1> DEFINE n == run[r].proc
<1>1. n \in Procs /\ DOMAIN run = Runs
      /\ {"pc", "sid", "proc", "method", "reply"} \subseteq DOMAIN run[r]
  BY DEF Typed
<1>2. proc[n] \in Proc
  BY <1>1, ProcType DEF Typed
<1>3. Leave(proc[n], r) \in Proc /\ Leave(proc[n], r).known = proc[n].known
  BY <1>2, LeaveFields
<1>4. proc' = [proc EXCEPT ![n] = Leave(proc[n], r)]
  BY DEF Finish
<1>5. /\ Len(proc') = Len(proc) /\ proc'[n] = Leave(proc[n], r)
      /\ \A p \in Procs \ {n} : proc'[p] = proc[p]
  BY <1>1, <1>3, <1>4, SetProc DEF Typed
<1>6. run'[r].pc = "done" /\ \A d \in Runs \ {r} : run'[d] = run[d]
  BY <1>1 DEF Finish
<1> QED
  BY <1>3, <1>5, <1>6 DEF Quiet

\* Steps in which only one run, which waits for nothing, changes.
LEMMA StepQuiet ==
  ASSUME NEW r \in Runs, run[r].pc \notin {"await", "done"}, run'[r].pc # "await",
         \A d \in Runs \ {r} : run'[d] = run[d], UNCHANGED <<proc, server>>
  PROVE  Quiet
BY DEF Quiet

LEMMA MovesQuiet ==
  ASSUME Typed, NEW r \in Runs, Moves(r), run'[r].pc # "await", UNCHANGED server
  PROVE  Quiet
BY StepQuiet DEF Moves

LEMMA BeginQuiet ==
  ASSUME IInv, NEW r \in Runs, Begin(r)
  PROVE  Quiet
<1>1. Moves(r) /\ UNCHANGED server
  BY BeginMoves DEF Begin, external
<1>2. run'[r].pc # "await"
  BY DEF Begin, IInv, Typed
<1> QED
  BY <1>1, <1>2, MovesQuiet DEF IInv

LEMMA GotoQuiet ==
  ASSUME IInv, NEW r \in Runs, Initialized(r) \/ Route(r)
  PROVE  Quiet
<1>1. PICK pc \in {"route", "cold", "wait", "hot"} : Goto(r, pc)
  BY DEF Initialized, Route
<1>2. run[r].pc \in {"initialize", "route"} /\ UNCHANGED <<proc, server>>
  BY DEF Initialized, Route, external
<1>3. DOMAIN run = Runs /\ {"pc", "sid", "proc", "method", "reply"} \subseteq DOMAIN run[r]
  BY DEF IInv, Typed
<1>4. run'[r].pc = pc /\ \A d \in Runs \ {r} : run'[d] = run[d]
  BY <1>1, <1>3 DEF Goto
<1> QED
  BY <1>2, <1>4, StepQuiet

LEMMA InitializeFailsQuiet ==
  ASSUME IInv, NEW r \in Runs, InitializeFails(r)
  PROVE  Quiet
<1> DEFINE n == run[r].proc
           x == [proc[n] EXCEPT !.up = FALSE]
<1>1. n \in Procs /\ DOMAIN run = Runs
      /\ {"pc", "sid", "proc", "method", "reply"} \subseteq DOMAIN run[r]
  BY DEF InitializeFails, IInv, Typed, Placed
<1>2. proc[n] \in Proc
  BY <1>1, ProcType DEF IInv, Typed
<1>3. x \in Proc /\ x.known = proc[n].known
  BY <1>2 DEF Proc
<1>4. proc' = [proc EXCEPT ![n] = x]
  BY DEF InitializeFails
<1> HIDE DEF x
<1>5. Len(proc') = Len(proc) /\ proc'[n] = x /\ \A p \in Procs \ {n} : proc'[p] = proc[p]
  BY <1>1, <1>3, <1>4, SetProc DEF IInv, Typed
<1>6. run'[r].pc = "done" /\ (\A d \in Runs \ {r} : run'[d] = run[d]) /\ UNCHANGED server
  BY <1>1 DEF InitializeFails, external
<1> QED
  BY <1>3, <1>5, <1>6 DEF Quiet

LEMMA WaitIdleQuiet ==
  ASSUME IInv, NEW r \in Runs, WaitIdle(r)
  PROVE  Quiet
<1>1. run[r].pc = "wait" /\ UNCHANGED server
  BY DEF WaitIdle, external
<1>2. CASE Goto(r, "hot") /\ UNCHANGED <<proc, entry>>
  <2>1. DOMAIN run = Runs /\ {"pc", "sid", "proc", "method", "reply"} \subseteq DOMAIN run[r]
    BY DEF IInv, Typed
  <2>2. run'[r].pc = "hot" /\ \A d \in Runs \ {r} : run'[d] = run[d]
    BY <1>2, <2>1 DEF Goto
  <2> QED
    BY <1>1, <1>2, <2>2, StepQuiet
<1>3. CASE Finish(r, "error", FALSE)
  BY <1>1, <1>3, FinishQuiet DEF IInv, Placed
<1> QED
  BY <1>2, <1>3 DEF WaitIdle

LEMMA CollectQuiet ==
  ASSUME IInv, NEW r \in Runs, Collect(r)
  PROVE  Quiet
<1>1. run[r].pc = "collect" /\ UNCHANGED server
  BY DEF Collect, external
<1>2. CASE Finish(r, "ok", TRUE)
  BY <1>1, <1>2, FinishQuiet DEF IInv, Placed
<1>3. CASE ~TurnIsOver(r, Head(run[r].queue))
  <2>1. DOMAIN run = Runs /\ {"pc", "sid", "proc", "method", "reply"} \subseteq DOMAIN run[r]
    BY DEF IInv, Typed
  <2>2. run'[r].pc = "collect" /\ (\A d \in Runs \ {r} : run'[d] = run[d]) /\ UNCHANGED proc
    BY <1>1, <1>3, <2>1 DEF Collect
  <2> QED
    BY <1>1, <2>2, StepQuiet
<1> QED
  BY <1>2, <1>3 DEF Collect

LEMMA GivesUpQuiet ==
  ASSUME IInv, NEW r \in Runs,
         \/ WaitTimesOut(r) \/ CallDead(r) \/ CallTimesOut(r)
         \/ CollectDead(r) \/ CollectStopped(r)
  PROVE  Quiet
<1>1. \E collected \in BOOLEAN : \/ Finish(r, "stopped", collected)
                                  \/ Finish(r, "error", collected)
  BY DEF WaitTimesOut, CallDead, CallTimesOut, CollectDead, CollectStopped
<1>2. run[r].pc \in Placed /\ UNCHANGED server
  BY DEF WaitTimesOut, CallDead, CallTimesOut, CollectDead, CollectStopped, Placed, external
<1> QED
  BY <1>1, <1>2, FinishQuiet DEF IInv

\* The runs stay as they are.
LEMMA StayQuiet ==
  ASSUME UNCHANGED <<run, server>>, Len(proc') = Len(proc),
         \A p \in Procs : proc'[p].known \subseteq proc[p].known
  PROVE  Quiet
BY DEF Quiet

LEMMA SetQuiet ==
  ASSUME Typed, UNCHANGED <<run, server>>, NEW n \in Procs, NEW x \in Proc,
         proc' = [proc EXCEPT ![n] = x], x.known \subseteq proc[n].known
  PROVE  Quiet
<1>1. Len(proc') = Len(proc) /\ proc'[n] = x /\ \A p \in Procs \ {n} : proc'[p] = proc[p]
  BY SetProc DEF Typed
<1> QED
  BY <1>1, StayQuiet

LEMMA StopQuiet ==
  ASSUME IInv, NEW p \in Procs, Stop(p) \/ Exit(p)
  PROVE  Quiet
<1>1. proc[p] \in Proc
  BY ProcType DEF IInv, Typed
<1>2. CASE Stop(p)
  <2> DEFINE x == [proc[p] EXCEPT !.stopping = FALSE, !.up = FALSE]
  <2>1. x \in Proc /\ x.known = proc[p].known
    BY <1>1 DEF Proc
  <2>2. proc' = [proc EXCEPT ![p] = x] /\ UNCHANGED <<run, server>>
    BY <1>2 DEF Stop, external
  <2> HIDE DEF x
  <2> QED
    BY <2>1, <2>2, SetQuiet DEF IInv
<1>3. CASE Exit(p)
  <2> DEFINE x == [proc[p] EXCEPT !.up = FALSE]
  <2>1. x \in Proc /\ x.known = proc[p].known
    BY <1>1 DEF Proc
  <2>2. proc' = [proc EXCEPT ![p] = x] /\ UNCHANGED <<run, server>>
    BY <1>3 DEF Exit
  <2> HIDE DEF x
  <2> QED
    BY <2>1, <2>2, SetQuiet DEF IInv
<1> QED
  BY <1>2, <1>3

LEMMA ClearQuiet ==
  ASSUME IInv, NEW c \in Chats, Clear(c)
  PROVE  Quiet
<1> DEFINE n == pool[KeyOf[c]]
           x == EvictSession(proc[n], entry[c])
<1>1. Typed /\ UNCHANGED <<run, server>> /\ KeyOf[c] \in Keys
  BY Facts DEF IInv, Clear, external
<1>2. CASE ~Pooled(KeyOf[c])
  <2>1. UNCHANGED proc
    BY <1>2 DEF Clear
  <2> QED
    BY <1>1, <2>1, StayQuiet
<1>3. CASE Pooled(KeyOf[c])
  <2>1. n \in Procs
    BY <1>1, <1>3 DEF Pooled, Typed, Procs
  <2>2. proc[n] \in Proc
    BY <1>1, <2>1, ProcType DEF Typed
  <2>3. x \in Proc /\ x.known \subseteq proc[n].known
    BY <2>2 DEF Proc, EvictSession
  <2>4. proc' = [proc EXCEPT ![n] = x]
    BY <1>3 DEF Clear
  <2> HIDE DEF n, x
  <2> QED
    BY <1>1, <2>1, <2>3, <2>4, SetQuiet
<1> QED
  BY <1>2, <1>3

LEMMA ReapQuiet ==
  ASSUME IInv, Reap
  PROVE  Quiet
<1> DEFINE stop(p) == [proc[p] EXCEPT !.stopping = TRUE]
<1>1. PICK picked :
        /\ proc' = [p \in Procs |-> IF p \in picked THEN stop(p) ELSE proc[p]]
        /\ UNCHANGED <<run, server>>
  BY DEF Reap
<1>2. ASSUME NEW p \in Procs
      PROVE  stop(p).known = proc[p].known
  <2>1. proc[p] \in Proc
    BY ProcType DEF IInv, Typed
  <2> QED
    BY <2>1 DEF Proc
<1> HIDE DEF stop
<1>3. \A p \in Procs : proc'[p].known = proc[p].known
  BY <1>1, <1>2
<1>4. Len(proc') = Len(proc)
  BY ReapTends DEF Tends
<1> QED
  BY <1>1, <1>3, <1>4, StayQuiet

LEMMA ReaderEndsQuiet ==
  ASSUME IInv, NEW p \in Procs, ReaderEnds(p)
  PROVE  Quiet
<1> DEFINE x == MarkDead(proc[p])
<1>1. proc[p] \in Proc /\ Typed /\ DOMAIN run = Runs
  BY ProcType DEF IInv, Typed
<1>2. x \in Proc /\ x.known = {} /\ proc' = [proc EXCEPT ![p] = x]
  BY <1>1, MarkDeadFields DEF ReaderEnds
<1> HIDE DEF x
<1>3. Len(proc') = Len(proc) /\ proc'[p] = x /\ \A q \in Procs \ {p} : proc'[q] = proc[q]
  BY <1>1, <1>2, SetProc DEF Typed
<1>4. \A r \in Runs :
         /\ run'[r].pc = run[r].pc /\ run'[r].proc = run[r].proc /\ run'[r].sid = run[r].sid
         /\ run'[r].method = run[r].method /\ run'[r].reply \in {run[r].reply, "dead"}
  BY <1>1 DEF Typed, ReaderEnds
<1>5. UNCHANGED server
  BY DEF ReaderEnds, external
<1> QED
  BY <1>2, <1>3, <1>4, <1>5 DEF Quiet

\* A change of what one process does inside.
LEMMA SetServer ==
  ASSUME Typed, Served, NEW n \in Procs, NEW x \in Server, server' = [server EXCEPT ![n] = x]
  PROVE  /\ server' \in Seq(Server) /\ Len(server') = Len(server)
         /\ server'[n] = x /\ \A p \in Procs \ {n} : server'[p] = server[p]
<1>1. server \in Seq(Server) /\ n \in 1 .. Len(server) /\ Procs = 1 .. Len(server)
  BY DEF Served, Procs
<1> QED
  BY <1>1, ExceptSeq

\* A run that calls waits for no other answer.
LEMMA NoCall ==
  ASSUME Held, NEW r \in Runs, run[r].pc # "done",
         run[r].pc = "await" => run[r].reply \in {"ok", "missing"},
         NEW p \in Procs, NEW call \in server[p].calls
  PROVE  call.run # r
BY DEF Held, Outstanding

LEMMA CallKeepsHeld ==
  ASSUME IInv, Held, NEW r \in Runs, run[r].pc \in {"hot", "cold", "await"},
         run[r].pc = "await" => run[r].reply \in {"ok", "missing"},
         NEW y \in Proc, y.known \subseteq server[run[r].proc].live,
         NEW method \in Methods,
         method = "session/prompt" => run[r].sid \in server[run[r].proc].live,
         Call(y, r, method)
  PROVE  Held'
<1> DEFINE n == run[r].proc
<1>1. n \in Procs /\ DOMAIN run = Runs /\ Typed /\ Served /\ proc \in Seq(Proc)
      /\ {"pc", "sid", "proc", "method", "reply"} \subseteq DOMAIN run[r]
  BY DEF IInv, Typed, Placed, Held
<1>2. /\ server[n] \in Server /\ n \in DOMAIN server
      /\ server[n].calls \in SUBSET [run : Runs, method : Methods]
  BY <1>1, ServerType
<1>3. CASE ~y.dead /\ y.up
  <2> DEFINE c == [run |-> r, method |-> method]
             v == [server[n] EXCEPT !.calls = @ \cup {c}]
             x == [y EXCEPT !.pending = @ \cup {r}]
  <2>1. server' = [server EXCEPT ![n] = v] /\ proc' = [proc EXCEPT ![n] = x]
    BY <1>2, <1>3 DEF Call
  <2>2. c \in [run : Runs, method : Methods] /\ c.run = r /\ c.method = method
    OBVIOUS
  <2>3. x \in Proc /\ x.known = y.known
    BY PendingFields
  <2> HIDE DEF c, x
  <2>4. v \in Server /\ v.calls = server[n].calls \cup {c} /\ v.live = server[n].live
    BY <1>2, <2>2 DEF Server
  <2> HIDE DEF v
  <2>5. /\ proc' \in Seq(Proc) /\ Len(proc') = Len(proc) /\ Procs' = Procs
        /\ proc'[n] = x /\ \A p \in Procs \ {n} : proc'[p] = proc[p]
    BY <1>1, <2>1, <2>3, SetProc
  <2>6. /\ server' \in Seq(Server) /\ Len(server') = Len(server)
        /\ server'[n] = v /\ \A p \in Procs \ {n} : server'[p] = server[p]
    BY <1>1, <2>1, <2>4, SetServer
  <2>7. /\ \A d \in Runs \ {r} : run'[d] = run[d]
        /\ run'[r].sid = run[r].sid /\ run'[r].proc = n /\ run'[r].pc = "await"
        /\ run'[r].method = method /\ run'[r].reply = "none"
    BY <1>1, <1>3 DEF Call
  <2>8. \A p \in Procs : server'[p].live = server[p].live
    BY <2>4, <2>6
  <2>9. Served'
    BY <1>1, <2>5, <2>6 DEF Served
  <2>10. Outstanding'
    <3> SUFFICES ASSUME NEW p \in Procs, NEW call \in server'[p].calls,
                        run'[call.run].pc # "done"
                 PROVE  /\ run'[call.run].pc = "await" /\ run'[call.run].proc = p
                        /\ run'[call.run].method = call.method
                        /\ run'[call.run].reply \in {"none", "dead"}
      BY <2>5 DEF Outstanding
    <3>1. CASE call \in server[p].calls
      <4>1. call.run \in Runs /\ call.run # r
        BY <1>1, <3>1, ServerType, NoCall
      <4> QED
        BY <2>7, <3>1, <4>1 DEF Held, Outstanding
    <3>2. CASE call \notin server[p].calls
      <4>1. p = n /\ call = c
        BY <2>4, <2>6, <3>2
      <4> QED
        BY <2>2, <2>7, <4>1
    <3> QED
      BY <3>1, <3>2
  <2>11. Answered'
    <3> SUFFICES ASSUME NEW q \in Runs, run'[q].pc = "await",
                        run'[q].reply = "ok" \/ run'[q].method = "session/prompt"
                 PROVE  run'[q].sid \in server'[run'[q].proc].live
      BY DEF Answered
    <3>1. CASE q = r
      BY <1>1, <2>7, <2>8, <3>1
    <3>2. CASE q # r
      <4>1. run'[q] = run[q] /\ run[q].proc \in Procs
        BY <2>7, <3>2, <1>1 DEF Typed, Placed
      <4> QED
        BY <2>8, <4>1 DEF Held, Answered
    <3> QED
      BY <3>1, <3>2
  <2>12. KnownIsLive'
    BY <2>3, <2>5, <2>8 DEF Held, KnownIsLive
  <2> QED
    BY <2>9, <2>10, <2>11, <2>12 DEF Held
<1>4. CASE ~(~y.dead /\ y.up)
  <2> DEFINE z == MarkDead(y)
             x == Leave(z, r)
  <2>1. z \in Proc /\ z.known = {}
    BY MarkDeadFields
  <2> HIDE DEF z
  <2>2. x \in Proc /\ x.known = {}
    BY <2>1, LeaveFields
  <2>3. proc' = [proc EXCEPT ![n] = x] /\ UNCHANGED server
    BY <1>4 DEF Call, z
  <2> HIDE DEF x
  <2>4. Len(proc') = Len(proc) /\ proc'[n] = x /\ \A p \in Procs \ {n} : proc'[p] = proc[p]
    BY <1>1, <2>2, <2>3, SetProc
  <2>5. run'[r].pc = "done" /\ \A d \in Runs \ {r} : run'[d] = run[d]
    BY <1>1, <1>4 DEF Call
  <2>6. Quiet
    BY <2>2, <2>3, <2>4, <2>5 DEF Quiet
  <2> QED
    BY <1>1, <2>6, QuietKeepsHeld
<1> QED
  BY <1>3, <1>4

LEMMA SubscribeKeepsHeld ==
  ASSUME IInv, Held, NEW r \in Runs, Subscribe(r)
  PROVE  Held'
<1> DEFINE p == proc[run[r].proc]
           y == IF p.dead THEN p ELSE [p EXCEPT !.subs = @ \cup {r}]
<1>1. run[r].pc \in {"hot", "cold"} /\ run[r].proc \in Procs
  BY DEF Subscribe, Placed, IInv, Typed
<1>2. p \in Proc
  BY <1>1, ProcType DEF IInv, Typed
<1>3. y \in Proc /\ y.known = p.known
  BY <1>2, SubsFields
<1>4. PICK method \in {"session/working-directory/set", "session/resume"} : Call(y, r, method)
  BY DEF Subscribe
<1>5. p.known \subseteq server[run[r].proc].live
  BY <1>1 DEF Held, KnownIsLive
<1> HIDE DEF y
<1> QED
  BY <1>1, <1>3, <1>4, <1>5, CallKeepsHeld DEF Methods

LEMMA PromptedKeepsHeld ==
  ASSUME IInv, Held, NEW r \in Runs, run[r].pc = "await", Prompted(r)
  PROVE  Held'
<1> DEFINE n == run[r].proc
           x == MarkKnown(proc[n], run[r].sid)
<1>1. n \in Procs /\ DOMAIN run = Runs /\ Typed /\ run[r].sid \in Runs /\ proc[n] \in Proc
      /\ {"pc", "sid", "proc", "method", "reply"} \subseteq DOMAIN run[r]
  BY ProcType DEF IInv, Typed, Placed
<1>2. x \in Proc /\ x.known = proc[n].known \cup {run[r].sid}
  BY <1>1, MarkKnownFields
<1>3. proc' = [proc EXCEPT ![n] = x] /\ UNCHANGED server /\ Goto(r, "collect")
      /\ run[r].reply = "ok"
  BY DEF Prompted
<1> HIDE DEF x
<1>4. Len(proc') = Len(proc) /\ Procs' = Procs
      /\ proc'[n] = x /\ \A p \in Procs \ {n} : proc'[p] = proc[p]
  BY <1>1, <1>2, <1>3, SetProc DEF Typed
<1>5. run'[r].pc = "collect" /\ \A d \in Runs \ {r} : run'[d] = run[d]
  BY <1>1, <1>3 DEF Goto
<1>6. Outstanding'
  <2> SUFFICES ASSUME NEW p \in Procs, NEW call \in server[p].calls, run'[call.run].pc # "done"
               PROVE  /\ run'[call.run].pc = "await" /\ run'[call.run].proc = p
                      /\ run'[call.run].method = call.method
                      /\ run'[call.run].reply \in {"none", "dead"}
    BY <1>3, <1>4 DEF Outstanding
  <2>1. call.run \in Runs /\ call.run # r
    BY <1>1, <1>3, ServerType, NoCall DEF Held
  <2> QED
    BY <1>5, <2>1 DEF Held, Outstanding
<1>7. Answered'
  BY <1>3, <1>5 DEF Held, Answered
<1>8. KnownIsLive'
  <2>1. run[r].sid \in server[n].live
    BY <1>3 DEF Held, Answered
  <2> QED
    BY <1>1, <1>2, <1>3, <1>4, <2>1 DEF Held, KnownIsLive
<1> QED
  BY <1>3, <1>4, <1>6, <1>7, <1>8 DEF Held, Served

LEMMA ReceiveKeepsHeld ==
  ASSUME IInv, Held, NEW r \in Runs, Receive(r)
  PROVE  Held'
<1> DEFINE p == proc[run[r].proc]
           known == MarkKnown(p, run[r].sid)
<1>1. run[r].pc = "await" /\ run[r].proc \in Procs /\ run[r].sid \in Runs /\ Typed
  BY DEF Receive, Placed, IInv, Typed
<1>2. p \in Proc /\ p.known \subseteq server[run[r].proc].live
  BY <1>1, ProcType DEF Typed, Held, KnownIsLive
<1>3. known \in Proc /\ known.known = p.known \cup {run[r].sid}
  BY <1>1, <1>2, MarkKnownFields
<1> HIDE DEF known
<1>4. CASE Resumed(r)
  <2>1. CASE run[r].reply = "ok"
    <3>1. Call(known, r, "session/working-directory/set")
      BY <1>4, <2>1 DEF Resumed, known
    <3>2. known.known \subseteq server[run[r].proc].live
      BY <1>1, <1>2, <1>3, <2>1 DEF Held, Answered
    <3> QED
      BY <1>1, <1>3, <2>1, <3>1, <3>2, CallKeepsHeld DEF Methods
  <2>2. CASE run[r].reply = "missing"
    <3>1. Call(p, r, "session/working-directory/set")
      BY <1>4, <2>2 DEF Resumed
    <3> QED
      BY <1>1, <1>2, <2>2, <3>1, CallKeepsHeld DEF Methods
  <2> QED
    BY <1>4, <2>1, <2>2 DEF Resumed
<1>5. CASE DirectorySet(r)
  <2>1. Call(p, r, "session/prompt") /\ run[r].reply = "ok"
    BY <1>5 DEF DirectorySet
  <2>2. run[r].sid \in server[run[r].proc].live
    BY <1>1, <2>1 DEF Held, Answered
  <2> QED
    BY <1>1, <1>2, <2>1, <2>2, CallKeepsHeld DEF Methods
<1>6. CASE Prompted(r)
  BY <1>1, <1>6, PromptedKeepsHeld
<1>7. CASE Refused(r)
  <2>1. Quiet
    BY <1>1, <1>7, FinishQuiet DEF Refused, Placed
  <2> QED
    BY <1>1, <2>1, QuietKeepsHeld
<1> QED
  BY <1>4, <1>5, <1>6, <1>7 DEF Receive

LEMMA SpawnKeepsHeld ==
  ASSUME IInv, Held, NEW r \in Runs, Spawn(r)
  PROVE  Held'
<1> DEFINE k == KeyOf[ChatOf[r]]
<1>1. /\ k \in Keys /\ run[r].pc = "spawn" /\ DOMAIN run = Runs /\ Typed
      /\ {"pc", "sid", "proc", "method", "reply"} \subseteq DOMAIN run[r]
  BY KeyOfRun DEF Spawn, IInv, Typed
<1>2. CASE SecondLook(r, k) \/ NoAgent(r)
  <2>1. run'[r].pc # "await" /\ (\A d \in Runs \ {r} : run'[d] = run[d])
        /\ UNCHANGED <<proc, server>>
    BY <1>1, <1>2 DEF SecondLook, NoAgent
  <2>2. Quiet
    BY <1>1, <2>1, StepQuiet
  <2> QED
    BY <1>1, <2>2, QuietKeepsHeld
<1>3. CASE Start(r, k)
  <2> DEFINE n == Len(proc) + 1
             v == [calls |-> {}, live |-> {}, turns |-> [s \in Runs |-> <<>>]]
  <2>1. /\ Len(proc) \in Nat /\ proc \in Seq(Proc) /\ n \notin Procs
        /\ server \in Seq(Server) /\ Len(server) = Len(proc)
    BY DEF IInv, Typed, Procs, Held, Served
  <2>2. v \in Server /\ v.calls = {} /\ v.live = {}
    BY DEF Server
  <2>3. proc' = Append(proc, NewProc(k)) /\ server' = Append(server, v)
    BY <1>3 DEF Start
  <2> HIDE DEF v
  <2>4. /\ Len(proc') = n /\ proc'[n] = NewProc(k) /\ \A p \in Procs : proc'[p] = proc[p]
        /\ Procs' = Procs \cup {n}
    BY <2>1, <2>3 DEF Procs
  <2>5. /\ server' \in Seq(Server) /\ Len(server') = n /\ server'[n] = v
        /\ \A p \in Procs : server'[p] = server[p]
    BY <2>1, <2>2, <2>3 DEF Procs
  <2>6. run'[r].pc = "initialize" /\ \A d \in Runs \ {r} : run'[d] = run[d]
    BY <1>1, <1>3 DEF Start
  <2>7. Outstanding'
    <3> SUFFICES ASSUME NEW p \in Procs, NEW call \in server[p].calls,
                        run'[call.run].pc # "done"
                 PROVE  /\ run'[call.run].pc = "await" /\ run'[call.run].proc = p
                        /\ run'[call.run].method = call.method
                        /\ run'[call.run].reply \in {"none", "dead"}
      BY <2>2, <2>4, <2>5 DEF Outstanding
    <3>1. call.run \in Runs /\ call.run # r
      BY <1>1, ServerType, NoCall DEF Held
    <3> QED
      BY <2>6, <3>1 DEF Held, Outstanding
  <2>8. Answered'
    <3> SUFFICES ASSUME NEW q \in Runs, run'[q].pc = "await",
                        run'[q].reply = "ok" \/ run'[q].method = "session/prompt"
                 PROVE  run'[q].sid \in server'[run'[q].proc].live
      BY DEF Answered
    <3>1. q # r /\ run'[q] = run[q] /\ run[q].proc \in Procs
      BY <1>1, <2>6 DEF Typed, Placed
    <3> QED
      BY <2>5, <3>1 DEF Held, Answered
  <2>9. KnownIsLive'
    BY <1>1, <2>4, <2>5, NewProcType DEF Held, KnownIsLive
  <2> QED
    BY <2>4, <2>5, <2>7, <2>8, <2>9 DEF Held, Served
<1> QED
  BY <1>2, <1>3 DEF Spawn

LEMMA ResponseKeepsHeld ==
  ASSUME IInv, Held, NEW p \in Procs, NEW call \in server[p].calls, Response(p, call)
  PROVE  Held'
<1> DEFINE r == call.run
           calls == [run : Runs, method : Methods]
           y == [proc[p] EXCEPT !.pending = @ \ {r}]
<1>1. /\ DOMAIN run = Runs /\ Typed /\ Served /\ proc[p] \in Proc /\ proc \in Seq(Proc)
      /\ p \in DOMAIN server /\ server[p] \in Server /\ call \in calls
      /\ server[p].calls \in SUBSET calls
  BY ProcType, ServerType DEF IInv, Typed, Held
<1>2. r \in Runs /\ run[r].sid \in Runs
  BY <1>1 DEF Typed
<1>3. PICK v \in Server, kind \in {"ok", "missing", "failed"} :
        /\ server' = [server EXCEPT ![p] = v]
        /\ v.calls = server[p].calls \ {call} /\ server[p].live \subseteq v.live
        /\ kind = "ok" /\ call.method # "session/prompt" => run[r].sid \in v.live
        /\ run' = IF r \in proc[p].pending THEN [run EXCEPT ![r].reply = kind] ELSE run
  <2> DEFINE t == Take(p, call)
             s == run[r].sid
             u == [t EXCEPT !.live = @ \cup {s}]
             w == [t EXCEPT !.turns[s] = @ \o TurnEvents(r)]
  <2>1. t \in Server /\ t.calls = server[p].calls \ {call} /\ t.live = server[p].live
        /\ t.turns[s] \in Seq(Frame)
    BY <1>1, <1>2 DEF Take, Server
  <2>2. u \in Server /\ u.calls = t.calls /\ u.live = t.live \cup {s}
    BY <1>2, <2>1 DEF Server
  <2>3. TurnEvents(r) \in Seq(Frame)
    <3> DEFINE f(k) == [kind |-> k, run |-> r]
    <3>1. f("start") \in Frame /\ f("text") \in Frame /\ f("end") \in Frame
      BY <1>2 DEF Frame
    <3>2. TurnEvents(r) = IF r \in Nesting
                           THEN <<f("start"), f("start"), f("end"), f("text"), f("end")>>
                           ELSE <<f("start"), f("text"), f("end")>>
      BY DEF TurnEvents
    <3> HIDE DEF f
    <3> QED
      BY <3>1, <3>2
  <2>4. w \in Server /\ w.calls = t.calls /\ w.live = t.live
    <3>1. t.turns[s] \o TurnEvents(r) \in Seq(Frame)
      BY <2>1, <2>3, ConcatProperties
    <3> QED
      BY <1>2, <2>1, <3>1 DEF Server
  <2> QED
    BY <2>1, <2>2, <2>4 DEF Response
<1>4. y \in Proc /\ y.known = proc[p].known
  BY <1>1 DEF Proc
<1>5. proc' = [proc EXCEPT ![p] = y]
  BY DEF Response
<1> HIDE DEF y
<1>6. Len(proc') = Len(proc) /\ Procs' = Procs
      /\ \A q \in Procs : proc'[q].known = proc[q].known
  BY <1>1, <1>4, <1>5, SetProc
<1>7. /\ server' \in Seq(Server) /\ Len(server') = Len(server)
      /\ server'[p] = v /\ \A q \in Procs \ {p} : server'[q] = server[q]
  BY <1>1, <1>3, SetServer
<1>8. \A q \in Procs : /\ server[q].live \subseteq server'[q].live
                       /\ server'[q].calls \subseteq server[q].calls
  BY <1>3, <1>7
<1>9. /\ \A d \in Runs : d # r \/ r \notin proc[p].pending => run'[d] = run[d]
      /\ r \in proc[p].pending =>
           /\ run'[r].pc = run[r].pc /\ run'[r].proc = run[r].proc /\ run'[r].sid = run[r].sid
           /\ run'[r].method = run[r].method /\ run'[r].reply = kind
  BY <1>1, <1>2, <1>3 DEF Typed
<1>10. ASSUME r \in proc[p].pending
       PROVE  /\ run[r].proc = p /\ run[r].pc = "await" /\ run[r].method = call.method
              /\ \A q \in Procs : \A c \in server'[q].calls : c.run # r
  <2>1. run[r].proc = p /\ run[r].pc # "done"
    BY <1>10 DEF IInv, NothingLeftBehind
  <2>2. run[r].pc = "await" /\ run[r].method = call.method
    BY <2>1 DEF Held, Outstanding
  <2>3. ASSUME NEW q \in Procs, NEW c \in server'[q].calls, c.run = r
        PROVE  FALSE
    <3>1. c \in server[q].calls
      BY <1>8, <2>3
    <3>2. q = p /\ c.method = call.method
      BY <2>1, <2>2, <2>3, <3>1 DEF Held, Outstanding
    <3>3. c = call
      BY <1>1, <2>3, <3>1, <3>2
    <3> QED
      BY <1>3, <1>7, <2>3, <3>2, <3>3
  <2> QED
    BY <2>1, <2>2, <2>3
<1>11. Outstanding'
  <2> SUFFICES ASSUME NEW q \in Procs, NEW c \in server'[q].calls, run'[c.run].pc # "done"
               PROVE  /\ run'[c.run].pc = "await" /\ run'[c.run].proc = q
                      /\ run'[c.run].method = c.method
                      /\ run'[c.run].reply \in {"none", "dead"}
    BY <1>6 DEF Outstanding
  <2>1. c \in server[q].calls /\ c.run \in Runs
    BY <1>1, <1>8, ServerType
  <2>2. run'[c.run] = run[c.run]
    BY <1>9, <1>10, <2>1
  <2> QED
    BY <2>1, <2>2 DEF Held, Outstanding
<1>12. Answered'
  <2> SUFFICES ASSUME NEW d \in Runs, run'[d].pc = "await",
                      run'[d].reply = "ok" \/ run'[d].method = "session/prompt"
               PROVE  run'[d].sid \in server'[run'[d].proc].live
    BY DEF Answered
  <2>1. CASE d # r \/ r \notin proc[p].pending
    <3>1. run'[d] = run[d] /\ run[d].proc \in Procs
      BY <1>1, <1>9, <2>1 DEF Typed, Placed
    <3>2. run[d].sid \in server[run[d].proc].live
      BY <3>1 DEF Held, Answered
    <3> QED
      BY <1>8, <3>1, <3>2
  <2>2. CASE d = r /\ r \in proc[p].pending
    <3>1. CASE call.method = "session/prompt"
      <4>1. run[r].sid \in server[p].live
        BY <1>10, <2>2, <3>1 DEF Held, Answered
      <4> QED
        BY <1>8, <1>9, <1>10, <2>2, <4>1
    <3>2. CASE call.method # "session/prompt"
      <4>1. run[r].sid \in v.live
        BY <1>3, <1>9, <1>10, <2>2, <3>2
      <4> QED
        BY <1>7, <1>9, <1>10, <2>2, <4>1
    <3> QED
      BY <3>1, <3>2
  <2> QED
    BY <2>1, <2>2
<1>13. KnownIsLive'
  BY <1>6, <1>8 DEF Held, KnownIsLive
<1> QED
  BY <1>1, <1>6, <1>7, <1>11, <1>12, <1>13 DEF Held, Served

LEMMA EventKeepsHeld ==
  ASSUME IInv, Held, NEW p \in Procs, NEW s \in Runs, Event(p, s)
  PROVE  Held'
<1> DEFINE v == [server[p] EXCEPT !.turns[s] = Tail(@)]
<1>1. /\ DOMAIN run = Runs /\ Typed /\ Served /\ proc[p] \in Proc /\ proc \in Seq(Proc)
      /\ p \in DOMAIN server /\ server[p] \in Server
      /\ server[p].turns \in [Runs -> Seq(Frame)]
  BY ProcType, ServerType DEF IInv, Typed, Held, Server
<1>2. server' = [server EXCEPT ![p] = v] /\ server[p].turns[s] # <<>>
  BY <1>1 DEF Event
<1>3. Tail(server[p].turns[s]) \in Seq(Frame)
  BY <1>1, <1>2
<1>4. v \in Server /\ v.calls = server[p].calls /\ v.live = server[p].live
  BY <1>1, <1>3 DEF Server
<1> HIDE DEF v
<1>5. /\ server' \in Seq(Server) /\ Len(server') = Len(server)
      /\ server'[p] = v /\ \A q \in Procs \ {p} : server'[q] = server[q]
  BY <1>1, <1>2, <1>4, SetServer
<1>6. \A q \in Procs : server'[q].calls = server[q].calls /\ server'[q].live = server[q].live
  BY <1>4, <1>5
<1>7. PICK f : /\ proc' = [proc EXCEPT ![p].inflight = Inflight(p, s, f.kind)]
               /\ run' = [r \in Runs |->
                    IF r \in Subscribers(p, s) /\ Len(run[r].queue) < Cap
                      THEN [run[r] EXCEPT !.queue = Append(@, f)] ELSE run[r]]
  BY DEF Event
<1>8. Len(proc') = Len(proc) /\ Procs' = Procs
      /\ \A q \in Procs : proc'[q].known = proc[q].known
  BY <1>1, <1>7 DEF Proc, Procs
<1>9. \A r \in Runs :
         /\ run'[r].pc = run[r].pc /\ run'[r].proc = run[r].proc /\ run'[r].sid = run[r].sid
         /\ run'[r].method = run[r].method /\ run'[r].reply = run[r].reply
  BY <1>1, <1>7 DEF Typed
<1>10. Outstanding'
  <2> SUFFICES ASSUME NEW q \in Procs, NEW c \in server[q].calls, run'[c.run].pc # "done"
               PROVE  /\ run'[c.run].pc = "await" /\ run'[c.run].proc = q
                      /\ run'[c.run].method = c.method
                      /\ run'[c.run].reply \in {"none", "dead"}
    BY <1>6, <1>8 DEF Outstanding
  <2>1. c.run \in Runs
    BY <1>1, ServerType
  <2> QED
    BY <1>9, <2>1 DEF Held, Outstanding
<1>11. Answered'
  <2> SUFFICES ASSUME NEW d \in Runs, run[d].pc = "await",
                      run[d].reply = "ok" \/ run[d].method = "session/prompt"
               PROVE  run[d].sid \in server'[run[d].proc].live
    BY <1>9 DEF Answered
  <2>1. run[d].proc \in Procs
    BY <1>1 DEF Typed, Placed
  <2> QED
    BY <1>6, <2>1 DEF Held, Answered
<1>12. KnownIsLive'
  BY <1>6, <1>8 DEF Held, KnownIsLive
<1> QED
  BY <1>1, <1>5, <1>8, <1>10, <1>11, <1>12 DEF Held, Served

LEMMA InitHeld ==
  ASSUME Init
  PROVE  Held
<1>1. Procs = {} /\ server = <<>> /\ proc = <<>>
  BY DEF Init, Procs
<1>2. \A r \in Runs : run[r].pc = "idle"
  BY DEF Init
<1> QED
  BY <1>1, <1>2 DEF Held, Served, Outstanding, Answered, KnownIsLive

LEMMA RunKeepsHeld ==
  ASSUME IInv, Held, NEW r \in Runs, Begin(r) \/ RunStep(r) \/ Timer(r)
  PROVE  Held'
<1>1. CASE Begin(r)
  BY <1>1, BeginQuiet, QuietKeepsHeld DEF IInv
<1>2. CASE Spawn(r)
  BY <1>2, SpawnKeepsHeld
<1>3. CASE Initialized(r) \/ Route(r)
  BY <1>3, GotoQuiet, QuietKeepsHeld DEF IInv
<1>4. CASE InitializeFails(r)
  BY <1>4, InitializeFailsQuiet, QuietKeepsHeld DEF IInv
<1>5. CASE Subscribe(r)
  BY <1>5, SubscribeKeepsHeld
<1>6. CASE Receive(r)
  BY <1>6, ReceiveKeepsHeld
<1>7. CASE WaitIdle(r) \/ Collect(r)
  BY <1>7, WaitIdleQuiet, CollectQuiet, QuietKeepsHeld DEF IInv
<1>8. CASE \/ WaitTimesOut(r) \/ CallDead(r) \/ CallTimesOut(r)
           \/ CollectDead(r) \/ CollectStopped(r)
  BY <1>8, GivesUpQuiet, QuietKeepsHeld DEF IInv
<1> QED
  BY <1>1, <1>2, <1>3, <1>4, <1>5, <1>6, <1>7, <1>8 DEF RunStep, Timer

LEMMA NextHeld ==
  ASSUME IInv, Held, [Next]_vars
  PROVE  Held'
<1>1. CASE \E r \in Runs : Begin(r) \/ RunStep(r) \/ Timer(r)
  BY <1>1, RunKeepsHeld
<1>2. ASSUME NEW p \in Procs, HandleFrame(p)
      PROVE  Held'
  BY <1>2, ResponseKeepsHeld, EventKeepsHeld DEF HandleFrame
<1>3. ASSUME NEW p \in Procs, ReaderEnds(p) \/ Stop(p) \/ Exit(p)
      PROVE  Held'
  BY <1>3, ReaderEndsQuiet, StopQuiet, QuietKeepsHeld DEF IInv
<1>4. CASE \E c \in Chats : Clear(c)
  BY <1>4, ClearQuiet, QuietKeepsHeld DEF IInv
<1>5. CASE Reap
  BY <1>5, ReapQuiet, QuietKeepsHeld DEF IInv
<1>6. CASE UNCHANGED vars
  BY <1>6 DEF vars, external, Held, Served, Outstanding, Answered, KnownIsLive, Procs
<1> QED
  BY <1>1, <1>2, <1>3, <1>4, <1>5, <1>6 DEF Next
-----------------------------------------------------------------------------
\* Whatever ends a run, an answer, a timeout, the death of its process or the end of
\* its turn, its call is unregistered and its subscription cancelled (unregisterPending
\* and the cancel of subscribe in DSH.Run), however many runs share however many
\* processes.
THEOREM LeftBehind == Spec => []NothingLeftBehind
<1>1. IInv => NothingLeftBehind
  BY DEF IInv
<1> QED
  BY <1>1, AlwaysIInv, PTL

\* dshPoolGetOrCreate, spawnDshProc, dshReap and stop never lose a process that the
\* operating system still has, in whatever order runs start processes and the reaper
\* takes them out.
THEOREM NoneLost == Spec => []NoOrphan
<1>1. IInv => NoOrphan
  BY DEF IInv
<1> QED
  BY <1>1, AlwaysIInv, PTL

\* A session is marked known only when its process holds it and is evicted when it may
\* not, so a run that takes the hot path prompts a session that is there (markKnown,
\* evictSession, markDead): the answer that a run gets is the answer to its own call.
THEOREM KnownLive == Spec => []KnownIsLive
<1>1. Init => IInv /\ Held
  BY InitIInv, InitHeld
<1>2. IInv /\ Held /\ [Next]_vars => (IInv /\ Held)'
  BY NextIInv, NextHeld
<1>3. Held => KnownIsLive
  BY DEF Held
<1> QED
  BY <1>1, <1>2, <1>3, PTL DEF Spec

-----------------------------------------------------------------------------
(* The answer of a run is its own *)

RunFields == {"pc", "sid", "proc", "method", "reply", "queue", "depth", "saw", "from", "status"}

Active(r) == run[r].pc \notin {"idle", "done"}

\* A session is of one chat, the runs of a chat come one after the other, and a run that
\* has not begun has its session for itself.
Homes ==
  /\ \A r \in Runs : DOMAIN run[r] = RunFields /\ ChatOf[run[r].sid] = ChatOf[r]
  /\ \A c \in Chats : entry[c] # NoRun => ChatOf[entry[c]] = c
  /\ \A r \in Runs : run[r].pc = "idle" =>
       /\ run[r].sid = r
       /\ \A q \in Runs \ {r} : run[q].sid # r
       /\ \A c \in Chats : entry[c] # r
  /\ \A q, r \in Runs : Active(q) /\ Active(r) /\ ChatOf[q] = ChatOf[r] => q = r
  /\ \A q \in unseen : q \in Runs /\ run[q].pc = "done"

\* What a run has to show for the place where it is.
Stands(r) ==
  LET x == run[r]
      p == proc[x.proc] IN
  /\ x.queue \in Seq(Frame) /\ x.saw \in BOOLEAN
  /\ x.pc \notin {"await", "collect"} => x.queue = <<>>
  /\ x.pc \notin {"collect", "done"} => ~x.saw /\ x.from = {}
  /\ x.pc # "done" => x.status = "none"
  /\ x.pc \in {"await", "collect"} => r \in p.subs
  /\ x.pc = "collect" => p.dead \/ x.sid \in p.known
  /\ x.pc = "await" /\ x.reply = "dead" => p.dead
  /\ x.pc = "await" /\ x.reply = "none" => p.dead \/ r \in p.pending

\* No run has left a turn in the session that the pool did not know of.
Clean(s) == \A q \in unseen : run[q].sid # s

\* The sessions that a run has, will have or may find in the store.
InUse(s) ==
  \/ run[s].pc = "idle" \/ entry[ChatOf[s]] = s
  \/ \E r \in Runs : Active(r) /\ run[r].sid = s

\* The process has taken the run's prompt.
Accepted(r) ==
  \/ run[r].pc = "collect"
  \/ run[r].pc = "await" /\ run[r].method = "session/prompt" /\ run[r].reply = "ok"

\* The events of a turn, counted from its end: there are Length of them, with k after
\* it an event is a KindAt, and with k to come the session is Marked as in flight.
Length(q) == IF q \in Nesting THEN 5 ELSE 3

KindAt(q, k) ==
  IF k = 0 THEN "end" ELSE IF k = 1 THEN "text"
  ELSE IF q \in Nesting /\ k = 2 THEN "end" ELSE "start"

Marked(q, k) == IF q \in Nesting THEN k \in {3, 4} ELSE k \in {1, 2}

\* An event with k after it is of the turn of q, or of what is left of one before it.
Fits(q, k, f) ==
  IF k < Length(q) THEN f.run = q /\ f.kind = KindAt(q, k) ELSE f.kind # "start"

NoStart(t) == \A i \in 1 .. Len(t) : t[i].kind # "start"

\* A session in which no turn has been asked for since: what is in flight is the rest of
\* an abandoned turn, and what is not has no turn to start.
Resting(p, s) ==
  LET t == server[p].turns[s] IN
  /\ s \in proc[p].inflight =>
       \E q \in Runs : Marked(q, Len(t)) /\ \A i \in 1 .. Len(t) : Fits(q, Len(t) - i, t[i])
  /\ s \notin proc[p].inflight => Len(t) <= 2 /\ NoStart(t)
  /\ s \notin proc[p].known => t = <<>> /\ s \notin proc[p].inflight

Alone(p, s) == \A r \in Runs : Accepted(r) /\ run[r].sid = s => run[r].proc # p

Rests ==
  \A p \in Procs, s \in Runs :
    ~proc[p].dead /\ InUse(s) /\ Clean(s) /\ Alone(p, s) => Resting(p, s)

\* Before the prompt is taken, nothing that is to come can start a turn.
ReadyRun(r) ==
  LET p == run[r].proc
      s == run[r].sid IN
  run[r].pc \in {"hot", "cold", "await"} /\ ~Accepted(r) /\ ~proc[p].dead /\ Clean(s) =>
    /\ s \notin proc[p].inflight
    /\ Len(run[r].queue) + Len(server[p].turns[s]) <= 2 /\ NoStart(run[r].queue)

\* Afterwards what is in the subscription and what is to come is such a rest and the turn
\* of the run, and what the run has collected tells how much of it is left.
OwnTurn(r) ==
  LET x == run[r]
      t == server[x.proc].turns[x.sid]
      n == Len(x.queue) + Len(t) IN
  /\ n \in 1 .. Length(r) + 2
  /\ \A i \in 1 .. Len(t) : Fits(r, Len(t) - i, t[i])
  /\ \A i \in 1 .. Len(x.queue) : Fits(r, n - i, x.queue[i])
  /\ n >= Length(r) => ~x.saw /\ x.from = {}
  /\ n < Length(r) => /\ x.saw /\ x.from = IF n = 1 THEN {r} ELSE {}
                      /\ x.depth = IF r \in Nesting /\ n = 3 THEN 2 ELSE 1
  /\ ~proc[x.proc].dead => (x.sid \in proc[x.proc].inflight <=> Marked(r, Len(t)))

OwnRun(r) == Accepted(r) /\ Clean(run[r].sid) => OwnTurn(r)

\* A prompt that is taken after its run has gone is of an unseen turn.
Unheard(call) ==
  call.method = "session/prompt" /\ run[call.run].pc = "done" => ~Clean(run[call.run].sid)

Stale == \A p \in Procs : \A call \in server[p].calls : ~proc[p].dead => Unheard(call)

OwnRunAnswer(r) == run[r].status = "ok" => run[r].from = {r} \/ ~Clean(run[r].sid)

TurnInv ==
  /\ Homes /\ Rests /\ Stale
  /\ \A r \in Runs : Stands(r) /\ ReadyRun(r) /\ OwnRun(r) /\ OwnRunAnswer(r)

Base == IInv /\ Held

LEMMA BaseFacts ==
  ASSUME Base
  PROVE  /\ DOMAIN run = Runs /\ \A r \in Runs : run[r].sid \in Runs
         /\ \A r \in Runs : run[r].pc \in Placed => run[r].proc \in Procs
         /\ proc \in Seq(Proc) /\ \A p \in Procs : proc[p] \in Proc
         /\ \A p \in Procs : server[p] \in Server
         /\ entry \in [Chats -> Runs \cup {NoRun}]
<1>1. Typed /\ Served
  BY DEF Base, IInv, Held
<1>2. \A p \in Procs : proc[p] \in Proc /\ server[p] \in Server
  BY <1>1, ProcType, ServerType DEF Typed
<1> QED
  BY <1>1, <1>2 DEF Typed

\* Processes that a step of r leaves as they are, up to its own call and subscription, or
\* ends, or starts.
Calm(r) ==
  /\ Procs \subseteq Procs'
  /\ \A p \in Procs :
       /\ server'[p].turns = server[p].turns
       /\ \A call \in server'[p].calls \ server[p].calls : call.run = r /\ run'[r].pc # "done"
       /\ proc[p].dead => proc'[p].dead
       /\ ~proc'[p].dead => /\ proc'[p].inflight = proc[p].inflight
                            /\ proc[p].known \subseteq proc'[p].known
       /\ \A d \in Runs \ {r} : /\ d \in proc[p].subs => d \in proc'[p].subs
                                /\ d \in proc[p].pending => d \in proc'[p].pending \/ proc'[p].dead
  /\ \A p \in Procs' \ Procs :
       /\ proc'[p].inflight = {} /\ server'[p].calls = {}
       /\ \A s \in Runs : server'[p].turns[s] = <<>>

\* A step of a run under way: the other runs stay, and sessions in process stay
\* as they are.
Acts(r) ==
  /\ Active(r) /\ DOMAIN run' = Runs /\ \A d \in Runs \ {r} : run'[d] = run[d]
  /\ DOMAIN run'[r] = RunFields /\ run'[r].sid = run[r].sid /\ run'[r].pc # "idle"
  /\ Calm(r)
  /\ entry' = entry \/ entry' = [entry EXCEPT ![ChatOf[r]] = run[r].sid]
  /\ unseen \subseteq unseen' /\ unseen' \subseteq unseen \cup {r}
  /\ r \in unseen' => run'[r].pc = "done"

LEMMA ActsUse ==
  ASSUME Base, Homes, NEW r \in Runs, Acts(r)
  PROVE  /\ \A s \in Runs : /\ InUse(s)' => InUse(s)
                            /\ Clean(s)' => Clean(s)
         /\ \A d \in Runs : run'[d].sid = run[d].sid
         /\ Homes'
<1>1. \A d \in Runs : run'[d].sid = run[d].sid
  BY DEF Acts, Calm
<1>2. \A s \in Runs : Clean(s)' => Clean(s)
  <2> SUFFICES ASSUME NEW s \in Runs, Clean(s)', NEW q \in unseen PROVE run[q].sid # s
    BY DEF Clean
  <2>1. q \in Runs /\ q \in unseen'
    BY DEF Homes, Acts, Calm
  <2> QED
    BY <1>1, <2>1 DEF Clean
<1>3. \A d \in Runs : /\ Active(d)' => Active(d)
                      /\ run'[d].pc = "idle" => run[d].pc = "idle"
                      /\ run[d].pc = "done" => run'[d].pc = "done"
  BY DEF Acts, Calm, Active
<1>4. \A c \in Chats : entry'[c] = entry[c] \/ (c = ChatOf[r] /\ entry'[c] = run[r].sid)
  BY BaseFacts DEF Acts, Calm
<1>5. \A s \in Runs : InUse(s)' => InUse(s)
  <2> SUFFICES ASSUME NEW s \in Runs, InUse(s)' PROVE InUse(s)
    OBVIOUS
  <2>1. CASE run'[s].pc = "idle"
    BY <1>3, <2>1 DEF InUse
  <2>2. CASE entry'[ChatOf[s]] = s
    <3>1. ChatOf[s] \in Chats
      BY Facts
    <3> QED
      BY <1>4, <2>2, <3>1 DEF InUse, Acts, Calm
  <2>3. ASSUME NEW d \in Runs, Active(d)', run'[d].sid = s PROVE InUse(s)
    BY <1>1, <1>3, <2>3 DEF InUse
  <2> QED
    BY <2>1, <2>2, <2>3 DEF InUse
<1>6. Homes'
  <2>1. \A d \in Runs : DOMAIN run'[d] = RunFields /\ ChatOf[run'[d].sid] = ChatOf[d]
    BY <1>1 DEF Homes, Acts, Calm
  <2>2. \A c \in Chats : entry'[c] # NoRun => ChatOf[entry'[c]] = c
    BY <1>4 DEF Homes
  <2>3. ASSUME NEW d \in Runs, run'[d].pc = "idle"
        PROVE  /\ run'[d].sid = d
               /\ \A q \in Runs \ {d} : run'[q].sid # d
               /\ \A c \in Chats : entry'[c] # d
    <3>1. run[d].pc = "idle" /\ d # r
      BY <1>3, <2>3 DEF Acts, Calm
    <3> QED
      BY <1>1, <1>4, <3>1 DEF Homes
  <2>4. \A q, d \in Runs : Active(q)' /\ Active(d)' /\ ChatOf[q] = ChatOf[d] => q = d
    BY <1>3 DEF Homes
  <2>5. \A q \in unseen' : q \in Runs /\ run'[q].pc = "done"
    BY <1>3 DEF Homes, Acts, Calm
  <2> QED
    BY <2>1, <2>2, <2>3, <2>4, <2>5 DEF Homes
<1> QED
  BY <1>1, <1>2, <1>5, <1>6

\* Such a step keeps everything, when the run keeps what is its own and leaves a session
\* at rest.
LEMMA ActsKeeps ==
  ASSUME Base, TurnInv, NEW r \in Runs, Acts(r),
         Stands(r)', ReadyRun(r)', OwnRun(r)', OwnRunAnswer(r)',
         NEW n, run[r].proc = n, NEW x, run[r].sid = x,
         Accepted(r) => \/ Accepted(r)' /\ run'[r].proc = n
                        \/ proc'[n].dead
                        \/ Clean(x)' => Resting(n, x)',
         run'[r].pc = "done" =>
           \A p \in Procs : \A call \in server[p].calls :
             call.run = r /\ ~proc'[p].dead => Unheard(call)'
  PROVE  TurnInv'
<1>1. /\ Homes' /\ \A d \in Runs : run'[d].sid = run[d].sid
      /\ \A s \in Runs : /\ InUse(s)' => InUse(s)
                         /\ Clean(s)' => Clean(s)
  BY ActsUse DEF TurnInv
<1>2. \A d \in Runs \ {r} : run'[d] = run[d] /\ (Accepted(d)' <=> Accepted(d))
  BY DEF Acts, Calm, Accepted
<1>3. \A d \in Runs : run[d].sid \in Runs
  BY BaseFacts
<1>4. \A d \in Runs : run[d].pc \in Placed => run[d].proc \in Procs
  BY BaseFacts
<1>5. Rests'
  <2> SUFFICES ASSUME NEW p \in Procs', NEW s \in Runs, ~proc'[p].dead, InUse(s)', Clean(s)',
                      Alone(p, s)'
               PROVE  Resting(p, s)'
    BY DEF Rests
  <2>1. CASE p \notin Procs
    <3>1. proc'[p].inflight = {} /\ server'[p].turns[s] = <<>>
      BY <2>1 DEF Acts, Calm
    <3> QED
      BY <3>1 DEF Resting, NoStart
  <2>2. CASE p \in Procs
    <3>1. CASE Alone(p, s)
      <4>1. Resting(p, s)
        BY <1>1, <2>2, <3>1 DEF TurnInv, Rests, Acts, Calm
      <4> QED
        BY <2>2, <4>1 DEF Acts, Calm, Resting
    <3>2. CASE ~Alone(p, s)
      <4>1. PICK d \in Runs : Accepted(d) /\ run[d].sid = s /\ run[d].proc = p
        BY <3>2 DEF Alone
      <4>2. d = r
        BY <1>2, <4>1 DEF Alone
      <4> QED
        BY <1>1, <4>1, <4>2 DEF Alone
    <3> QED
      BY <3>1, <3>2
  <2> QED
    BY <2>1, <2>2
<1>6. Stale'
  <2> SUFFICES ASSUME NEW p \in Procs', NEW call \in server'[p].calls, ~proc'[p].dead
               PROVE  Unheard(call)'
    BY DEF Stale
  <2>1. p \in Procs
    BY DEF Acts, Calm
  <2>2. CASE call \notin server[p].calls
    BY <2>1, <2>2 DEF Acts, Calm, Unheard
  <2>3. CASE call \in server[p].calls
    <3>1. CASE call.run = r
      BY <2>1, <2>3, <3>1 DEF Unheard
    <3>2. CASE call.run # r
      <4>1. call.run \in Runs
        BY <2>1, <2>3, ServerType DEF Base, IInv, Held
      <4>2. Unheard(call)
        BY <2>1, <2>3 DEF TurnInv, Stale, Acts, Calm
      <4> QED
        BY <1>1, <1>2, <1>3, <3>2, <4>1, <4>2 DEF Unheard
    <3> QED
      BY <3>1, <3>2
  <2> QED
    BY <2>2, <2>3
<1>7. ASSUME NEW d \in Runs \ {r}
      PROVE  Stands(d)' /\ ReadyRun(d)' /\ OwnRun(d)' /\ OwnRunAnswer(d)'
  <2>1. PICK p, s : p = run[d].proc /\ s = run[d].sid
    OBVIOUS
  <2>2. run'[d] = run[d] /\ (Accepted(d)' <=> Accepted(d))
    BY <1>2
  <2>3. Stands(d) /\ ReadyRun(d) /\ OwnRun(d) /\ OwnRunAnswer(d)
    BY DEF TurnInv
  <2>4. Clean(s)' => Clean(s)
    BY <1>1, <1>3, <2>1
  <2>5. run[d].pc \in {"hot", "cold", "await", "collect"} => run[d].proc \in Procs
    BY <1>4 DEF Placed
  <2>6. p \in Procs => /\ server'[p].turns = server[p].turns
                       /\ proc[p].dead => proc'[p].dead
                       /\ ~proc'[p].dead => proc'[p].inflight = proc[p].inflight
    BY DEF Acts, Calm
  <2>7. run'[d].proc = p /\ run'[d].sid = s
    BY <2>2, <2>1
  <2>8. Stands(d)'
    BY <2>2, <2>3, <2>5 DEF Stands, Acts, Calm
  <2>9. ReadyRun(d)'
    <3> SUFFICES ASSUME run[d].pc \in {"hot", "cold", "await"}, ~Accepted(d), ~proc'[p].dead,
                        Clean(s)'
                 PROVE  /\ s \notin proc'[p].inflight
                        /\ Len(run[d].queue) + Len(server'[p].turns[s]) <= 2
                        /\ NoStart(run[d].queue)
      BY <2>2, <2>7 DEF ReadyRun, NoStart
    <3>1. p \in Procs /\ ~proc[p].dead /\ Clean(s)
      BY <2>4, <2>5, <2>6, <2>1
    <3>2. /\ s \notin proc[p].inflight
          /\ Len(run[d].queue) + Len(server[p].turns[s]) <= 2 /\ NoStart(run[d].queue)
      BY <2>3, <2>1, <3>1 DEF ReadyRun
    <3> QED
      BY <2>6, <3>1, <3>2
  <2>10. OwnRun(d)'
    <3> SUFFICES ASSUME Accepted(d)', Clean(s)' PROVE OwnTurn(d)'
      BY <2>2, <2>1 DEF OwnRun
    <3>1. OwnTurn(d)
      BY <2>2, <2>3, <2>4, <2>1 DEF OwnRun
    <3>2. p \in Procs
      BY <2>2, <2>5, <2>1 DEF Accepted
    <3>3. /\ server'[p].turns = server[p].turns
          /\ ~proc'[p].dead => ~proc[p].dead /\ proc'[p].inflight = proc[p].inflight
      BY <2>6, <3>2
    <3> QED
      BY <2>2, <2>1, <3>1, <3>3 DEF OwnTurn
  <2>11. OwnRunAnswer(d)'
    BY <2>2, <2>3, <2>4, <2>1 DEF OwnRunAnswer
  <2> QED
    BY <2>8, <2>9, <2>10, <2>11
<1> QED
  BY <1>1, <1>5, <1>6, <1>7 DEF TurnInv

\* A run on its way to its subscription, and one that ends on it.
LEMMA HopKeeps ==
  ASSUME Base, TurnInv, NEW r \in Runs, run[r].pc \in {"spawn", "initialize", "route", "wait"},
         DOMAIN run' = Runs, \A d \in Runs \ {r} : run'[d] = run[d],
         DOMAIN run'[r] = RunFields, run'[r].sid = run[r].sid,
         run'[r].pc \in {"initialize", "route", "wait", "hot", "cold", "done"},
         run'[r].queue = run[r].queue \/ run'[r].queue = <<>>,
         run'[r].saw = run[r].saw, run'[r].from = run[r].from,
         run'[r].status # "ok", run'[r].pc # "done" => run'[r].status = run[r].status,
         Calm(r), entry' = entry, unseen' = unseen,
         NEW n, run'[r].proc = n, NEW s, run[r].sid = s,
         run'[r].pc \in {"hot", "cold"} /\ ~proc'[n].dead /\ Clean(s) =>
           s \notin proc'[n].inflight /\ Len(server'[n].turns[s]) <= 2
  PROVE  TurnInv'
<1>1. Stands(r) /\ Homes /\ r \notin unseen
  BY DEF TurnInv, Homes
<1>2. Acts(r)
  BY <1>1 DEF Acts, Active
<1>3. ~Accepted(r) /\ ~Accepted(r)'
  BY DEF Accepted
<1>4. run[r].queue = <<>> /\ run'[r].queue = <<>> /\ ~run[r].saw /\ run[r].from = {}
      /\ run[r].status = "none" /\ run[r].saw \in BOOLEAN
  BY <1>1 DEF Stands
<1>5. Stands(r)'
  BY <1>4 DEF Stands
<1>6. Clean(s)' => Clean(s)
  BY <1>1, <1>2, ActsUse, BaseFacts
<1>7. ReadyRun(r)'
  BY <1>4, <1>6 DEF ReadyRun, NoStart
<1>8. OwnRun(r)' /\ OwnRunAnswer(r)'
  BY <1>3 DEF OwnRun, OwnRunAnswer
<1>9. \A p \in Procs : \A call \in server[p].calls : call.run # r
  BY NoCall DEF Base
<1> QED
  BY <1>2, <1>3, <1>5, <1>7, <1>8, <1>9, ActsKeeps

\* Processes of which only key, up or stopping change.
LEMMA CalmBy ==
  ASSUME Procs' = Procs, UNCHANGED server, NEW r,
         \A p \in Procs : /\ proc'[p].dead = proc[p].dead /\ proc'[p].inflight = proc[p].inflight
                          /\ proc'[p].known = proc[p].known /\ proc'[p].subs = proc[p].subs
                          /\ proc'[p].pending = proc[p].pending
  PROVE  Calm(r)
BY DEF Calm

LEMMA CalmSame ==
  ASSUME UNCHANGED <<proc, server>>, NEW r
  PROVE  Calm(r)
BY DEF Calm, Procs

LEMMA SpawnKeepsTurns ==
  ASSUME Base, TurnInv, NEW r \in Runs, Spawn(r)
  PROVE  TurnInv'
<1> DEFINE k == KeyOf[ChatOf[r]]
<1>1. /\ run[r].pc = "spawn" /\ DOMAIN run = Runs /\ DOMAIN run[r] = RunFields
      /\ Stands(r) /\ UNCHANGED <<entry, unseen>>
  BY BaseFacts DEF Spawn, TurnInv, Homes
<1>2. run[r].status = "none"
  BY <1>1 DEF Stands
<1>3. CASE SecondLook(r, k) \/ NoAgent(r)
  <2>1. Calm(r)
    BY <1>3, CalmSame DEF SecondLook, NoAgent
  <2>2. /\ \A d \in Runs \ {r} : run'[d] = run[d]
        /\ DOMAIN run' = Runs /\ DOMAIN run'[r] = RunFields
        /\ run'[r].sid = run[r].sid /\ run'[r].pc \in {"route", "done"}
        /\ run'[r].queue = run[r].queue /\ run'[r].saw = run[r].saw /\ run'[r].from = run[r].from
        /\ run'[r].status # "ok" /\ (run'[r].pc # "done" => run'[r].status = run[r].status)
    BY <1>1, <1>2, <1>3 DEF SecondLook, NoAgent, RunFields
  <2> QED
    BY <1>1, <2>1, <2>2, HopKeeps
<1>4. CASE Start(r, k)
  <2> DEFINE n == Len(proc) + 1
             v == [calls |-> {}, live |-> {}, turns |-> [s \in Runs |-> <<>>]]
  <2>1. /\ Len(proc) \in Nat /\ proc \in Seq(Proc) /\ n \notin Procs
        /\ server \in Seq(Server) /\ Len(server) = Len(proc)
    BY BaseFacts DEF Procs, Base, Held, Served
  <2>2. proc' = Append(proc, NewProc(k)) /\ server' = Append(server, v)
    BY <1>4 DEF Start
  <2>3. v.calls = {} /\ \A s \in Runs : v.turns[s] = <<>>
    OBVIOUS
  <2> HIDE DEF v
  <2>4. /\ proc'[n] = NewProc(k) /\ \A p \in Procs : proc'[p] = proc[p]
        /\ Procs' = Procs \cup {n}
    BY <2>1, <2>2 DEF Procs
  <2>5. server'[n] = v /\ \A p \in Procs : server'[p] = server[p]
    BY <2>1, <2>2 DEF Procs
  <2>6. NewProc(k).inflight = {}
    BY DEF NewProc
  <2>7. Calm(r)
    BY <2>3, <2>4, <2>5, <2>6 DEF Calm
  <2>8. /\ \A d \in Runs \ {r} : run'[d] = run[d]
        /\ DOMAIN run' = Runs /\ DOMAIN run'[r] = RunFields
        /\ run'[r].sid = run[r].sid /\ run'[r].pc = "initialize"
        /\ run'[r].queue = run[r].queue /\ run'[r].saw = run[r].saw /\ run'[r].from = run[r].from
        /\ run'[r].status = run[r].status
    BY <1>1, <1>4 DEF Start, RunFields
  <2> QED
    BY <1>1, <1>2, <2>7, <2>8, HopKeeps
<1> QED
  BY <1>3, <1>4 DEF Spawn

LEMMA InitializeKeepsTurns ==
  ASSUME Base, TurnInv, NEW r \in Runs, Initialized(r) \/ InitializeFails(r)
  PROVE  TurnInv'
<1>1. /\ run[r].pc = "initialize" /\ DOMAIN run = Runs /\ DOMAIN run[r] = RunFields
      /\ Stands(r) /\ UNCHANGED <<entry, unseen, server>> /\ run[r].proc \in Procs
  BY BaseFacts DEF Initialized, InitializeFails, TurnInv, Homes, external, Placed
<1>2. run[r].status = "none"
  BY <1>1 DEF Stands
<1>3. Calm(r)
  <2>1. CASE Initialized(r)
    BY <2>1, CalmSame DEF Initialized, external
  <2>2. CASE InitializeFails(r)
    <3> DEFINE x == [proc[run[r].proc] EXCEPT !.up = FALSE]
    <3>1. /\ x \in Proc /\ x.dead = proc[run[r].proc].dead
          /\ x.inflight = proc[run[r].proc].inflight
          /\ x.known = proc[run[r].proc].known /\ x.subs = proc[run[r].proc].subs
          /\ x.pending = proc[run[r].proc].pending
      BY <1>1, BaseFacts, ZenonT(30) DEF Proc
    <3>2. proc' = [proc EXCEPT ![run[r].proc] = x]
      BY <2>2 DEF InitializeFails
    <3> HIDE DEF x
    <3>3. /\ Procs' = Procs /\ proc'[run[r].proc] = x
          /\ \A p \in Procs \ {run[r].proc} : proc'[p] = proc[p]
      BY <1>1, <3>1, <3>2, SetProc, BaseFacts
    <3> QED
      BY <1>1, <3>1, <3>3, CalmBy
  <2> QED
    BY <2>1, <2>2
<1>4. /\ \A d \in Runs \ {r} : run'[d] = run[d]
      /\ DOMAIN run' = Runs /\ DOMAIN run'[r] = RunFields
      /\ run'[r].sid = run[r].sid /\ run'[r].pc \in {"route", "done"}
      /\ run'[r].queue = run[r].queue /\ run'[r].saw = run[r].saw /\ run'[r].from = run[r].from
      /\ run'[r].status # "ok" /\ (run'[r].pc # "done" => run'[r].status = run[r].status)
  BY <1>1, <1>2 DEF Initialized, InitializeFails, Goto, RunFields
<1> QED
  BY <1>1, <1>3, <1>4, HopKeeps

\* A run under way has its session for itself.
LEMMA AloneInSession ==
  ASSUME Base, Homes, NEW r \in Runs, Active(r), ~Accepted(r), NEW s, s = run[r].sid, NEW p
  PROVE  Alone(p, s) /\ InUse(s)
<1>1. s \in Runs
  BY BaseFacts
<1>2. ASSUME NEW d \in Runs, Accepted(d), run[d].sid = s PROVE FALSE
  <2>1. Active(d)
    BY <1>2 DEF Accepted, Active
  <2>2. ChatOf[d] = ChatOf[r]
    BY <1>2 DEF Homes
  <2> QED
    BY <1>2, <2>1, <2>2 DEF Homes
<1> QED
  BY <1>2 DEF Alone, InUse

LEMMA RouteKeepsTurns ==
  ASSUME Base, TurnInv, NEW r \in Runs, Route(r) \/ (run[r].pc = "wait" /\ Goto(r, "hot")
           /\ ~proc[run[r].proc].dead /\ run[r].sid \notin proc[run[r].proc].inflight
           /\ UNCHANGED <<proc, entry, server, unseen>>)
  PROVE  TurnInv'
<1>1. /\ run[r].pc \in {"route", "wait"} /\ DOMAIN run = Runs /\ DOMAIN run[r] = RunFields
      /\ Stands(r) /\ UNCHANGED <<entry, unseen, server, proc>> /\ run[r].proc \in Procs
  BY BaseFacts DEF Route, TurnInv, Homes, external, Placed
<1>2. run[r].status = "none"
  BY <1>1 DEF Stands
<1>3. Calm(r)
  BY <1>1, CalmSame
<1>4. PICK n, s : n = run[r].proc /\ s = run[r].sid
  OBVIOUS
<1>5. PICK pc \in {"hot", "cold", "wait"} :
        Goto(r, pc) /\ (pc = "hot" => s \notin proc[n].inflight)
                    /\ (pc = "cold" => s \notin proc[n].known)
  <2>1. CASE Route(r)
    <3>1. CASE s \notin proc[n].known
      <4>1. Goto(r, "cold")
        BY <1>4, <2>1, <3>1 DEF Route
      <4> QED
        BY <3>1, <4>1
    <3>2. CASE s \in proc[n].known /\ s \in proc[n].inflight
      <4>1. Goto(r, "wait")
        BY <1>4, <2>1, <3>2 DEF Route
      <4> QED
        BY <4>1
    <3>3. CASE s \in proc[n].known /\ s \notin proc[n].inflight
      <4>1. Goto(r, "hot")
        BY <1>4, <2>1, <3>3 DEF Route
      <4> QED
        BY <3>3, <4>1
    <3> QED
      BY <3>1, <3>2, <3>3
  <2>2. CASE ~Route(r)
    BY <1>4, <2>2
  <2> QED
    BY <2>1, <2>2
<1>6. /\ \A d \in Runs \ {r} : run'[d] = run[d]
      /\ DOMAIN run' = Runs /\ DOMAIN run'[r] = RunFields
      /\ run'[r].sid = run[r].sid /\ run'[r].pc = pc /\ run'[r].proc = run[r].proc
      /\ run'[r].queue = run[r].queue /\ run'[r].saw = run[r].saw /\ run'[r].from = run[r].from
      /\ run'[r].status = run[r].status
  BY <1>1, <1>5 DEF Goto, RunFields
<1>7. ASSUME run'[r].pc \in {"hot", "cold"}, ~proc[n].dead, Clean(s)
      PROVE  s \notin proc[n].inflight /\ Len(server[n].turns[s]) <= 2
  <2>1. Active(r) /\ ~Accepted(r) /\ s \in Runs /\ n \in Procs
    BY <1>1, <1>4, BaseFacts DEF Active, Accepted
  <2>2. Alone(n, s) /\ InUse(s)
    BY <1>4, <2>1, AloneInSession DEF TurnInv
  <2>3. Resting(n, s)
    BY <1>7, <2>1, <2>2 DEF TurnInv, Rests
  <2>4. s \notin proc[n].inflight
    BY <1>5, <1>6, <1>7, <2>3 DEF Resting
  <2> QED
    BY <2>3, <2>4 DEF Resting
<1> QED
  BY <1>1, <1>2, <1>3, <1>6, <1>4, <1>7, HopKeeps

\* A step of r in which only its process changes.
LEMMA CalmOne ==
  ASSUME proc \in Seq(Proc), NEW n \in Procs, NEW x \in Proc, proc' = [proc EXCEPT ![n] = x],
         NEW r,
         \A p \in Procs : server'[p].turns = server[p].turns,
         \A p \in Procs : \A call \in server'[p].calls \ server[p].calls :
           call.run = r /\ run'[r].pc # "done",
         proc[n].dead => x.dead,
         ~x.dead => x.inflight = proc[n].inflight /\ proc[n].known \subseteq x.known,
         \A d \in Runs \ {r} : /\ d \in proc[n].subs => d \in x.subs
                               /\ d \in proc[n].pending => d \in x.pending \/ x.dead
  PROVE  Calm(r) /\ Procs' = Procs /\ proc'[n] = x
<1>1. Procs' = Procs /\ proc'[n] = x /\ \A p \in Procs \ {n} : proc'[p] = proc[p]
  BY SetProc
<1>2. \A p \in Procs :
        /\ proc[p].dead => proc'[p].dead
        /\ ~proc'[p].dead => /\ proc'[p].inflight = proc[p].inflight
                             /\ proc[p].known \subseteq proc'[p].known
        /\ \A d \in Runs \ {r} : /\ d \in proc[p].subs => d \in proc'[p].subs
                                 /\ d \in proc[p].pending => d \in proc'[p].pending \/ proc'[p].dead
  BY <1>1
<1> QED
  BY <1>1, <1>2 DEF Calm

\* A run that ends.
LEMMA DoneKeeps ==
  ASSUME Base, TurnInv, NEW r \in Runs, run[r].pc \in Placed,
         DOMAIN run' = Runs, \A d \in Runs \ {r} : run'[d] = run[d],
         DOMAIN run'[r] = RunFields, run'[r].sid = run[r].sid, run'[r].pc = "done",
         run'[r].queue = <<>>, run'[r].saw = run[r].saw, run'[r].from = run[r].from,
         Calm(r), entry' = entry \/ entry' = [entry EXCEPT ![ChatOf[r]] = run[r].sid],
         unseen' = unseen \/ unseen' = unseen \cup {r},
         NEW n, run[r].proc = n, NEW x, run[r].sid = x,
         run'[r].status = "ok" => run[r].from = {r} \/ ~Clean(x)',
         Accepted(r) => proc'[n].dead \/ (Clean(x)' => Resting(n, x)'),
         \A p \in Procs : \A call \in server[p].calls :
           call.run = r /\ ~proc'[p].dead => Unheard(call)'
  PROVE  TurnInv'
<1>1. Stands(r) /\ Homes
  BY DEF TurnInv
<1>2. Acts(r)
  BY DEF Acts, Active, Placed
<1>3. Stands(r)'
  BY <1>1 DEF Stands
<1>4. ReadyRun(r)' /\ OwnRun(r)'
  BY DEF ReadyRun, OwnRun, Accepted
<1>5. OwnRunAnswer(r)'
  BY DEF OwnRunAnswer
<1> QED
  BY <1>2, <1>3, <1>4, <1>5, ActsKeeps

LEMMA FinishFields ==
  ASSUME Base, TurnInv, NEW r \in Runs, run[r].pc \in Placed, NEW status, NEW collected,
         Finish(r, status, collected), UNCHANGED server, NEW n, n = run[r].proc
  PROVE  /\ DOMAIN run' = Runs /\ \A d \in Runs \ {r} : run'[d] = run[d]
         /\ DOMAIN run'[r] = RunFields /\ run'[r].sid = run[r].sid /\ run'[r].pc = "done"
         /\ run'[r].queue = <<>> /\ run'[r].saw = run[r].saw /\ run'[r].from = run[r].from
         /\ run'[r].status = status
         /\ entry' = entry \/ entry' = [entry EXCEPT ![ChatOf[r]] = run[r].sid]
         /\ Calm(r) /\ n \in Procs /\ Procs' = Procs
         /\ proc'[n].dead = proc[n].dead /\ proc'[n].inflight = proc[n].inflight
         /\ proc'[n].known = proc[n].known
<1>1. /\ n \in Procs /\ proc[n] \in Proc /\ proc \in Seq(Proc)
      /\ DOMAIN run = Runs /\ DOMAIN run[r] = RunFields
  BY BaseFacts DEF TurnInv, Homes
<1>2. /\ DOMAIN run' = Runs /\ \A d \in Runs \ {r} : run'[d] = run[d]
      /\ DOMAIN run'[r] = RunFields /\ run'[r].sid = run[r].sid /\ run'[r].pc = "done"
      /\ run'[r].queue = <<>> /\ run'[r].saw = run[r].saw /\ run'[r].from = run[r].from
      /\ run'[r].status = status
  BY <1>1 DEF Finish, RunFields
<1>3. entry' = entry \/ entry' = [entry EXCEPT ![ChatOf[r]] = run[r].sid]
  BY DEF Finish
<1> DEFINE x == Leave(proc[n], r)
<1>4. proc' = [proc EXCEPT ![n] = x]
  BY DEF Finish
<1>5. /\ x \in Proc /\ x.dead = proc[n].dead /\ x.known = proc[n].known
      /\ x.pending = proc[n].pending \ {r} /\ x.subs = proc[n].subs \ {r}
  BY <1>1, LeaveFields
<1>6. x.inflight = proc[n].inflight
  BY <1>1 DEF Leave, Proc
<1> HIDE DEF x
<1>7. Calm(r) /\ Procs' = Procs /\ proc'[n] = x
  <2>1. /\ \A p \in Procs : server'[p].turns = server[p].turns
        /\ \A p \in Procs : \A call \in server'[p].calls \ server[p].calls :
             call.run = r /\ run'[r].pc # "done"
    OBVIOUS
  <2>2. \A d \in Runs \ {r} : /\ d \in proc[n].subs => d \in x.subs
                              /\ d \in proc[n].pending => d \in x.pending \/ x.dead
    BY <1>5
  <2>3. /\ proc[n].dead => x.dead
        /\ ~x.dead => x.inflight = proc[n].inflight /\ proc[n].known \subseteq x.known
    BY <1>5, <1>6
  <2>4. n \in Procs /\ proc \in Seq(Proc) /\ x \in Proc
    BY <1>1, <1>5
  <2> QED
    BY <1>4, <2>1, <2>2, <2>3, <2>4, CalmOne, ZenonT(30)
<1> QED
  BY <1>1, <1>2, <1>3, <1>5, <1>6, <1>7

\* A run that ends before its prompt is taken.
LEMMA EarlyEndKeeps ==
  ASSUME Base, TurnInv, NEW r \in Runs, run[r].pc \in Placed, ~Accepted(r),
         Finish(r, "error", FALSE) \/ Finish(r, "stopped", FALSE), UNCHANGED server,
         unseen' = unseen \/ unseen' = unseen \cup {r},
         \A p \in Procs : \A call \in server[p].calls :
           call.run = r /\ ~proc[p].dead => Unheard(call)'
  PROVE  TurnInv'
<1>1. PICK status \in {"error", "stopped"} : Finish(r, status, FALSE)
  OBVIOUS
<1>2. PICK n, s : n = run[r].proc /\ s = run[r].sid
  OBVIOUS
<1>3. /\ DOMAIN run' = Runs /\ \A d \in Runs \ {r} : run'[d] = run[d]
      /\ DOMAIN run'[r] = RunFields /\ run'[r].sid = run[r].sid /\ run'[r].pc = "done"
      /\ run'[r].queue = <<>> /\ run'[r].saw = run[r].saw /\ run'[r].from = run[r].from
      /\ run'[r].status = status
      /\ entry' = entry \/ entry' = [entry EXCEPT ![ChatOf[r]] = run[r].sid]
      /\ Calm(r)
  BY <1>1, <1>2, FinishFields
<1>4. \A p \in Procs : ~proc'[p].dead => ~proc[p].dead
  BY <1>3 DEF Calm
<1> QED
  BY <1>2, <1>3, <1>4, DoneKeeps

LEMMA WaitKeepsTurns ==
  ASSUME Base, TurnInv, NEW r \in Runs, WaitIdle(r) \/ WaitTimesOut(r)
  PROVE  TurnInv'
<1>1. run[r].pc = "wait" /\ UNCHANGED <<server, unseen>>
  BY DEF WaitIdle, WaitTimesOut, external
<1>2. CASE Finish(r, "error", FALSE) \/ Finish(r, "stopped", FALSE)
  <2>1. \A p \in Procs : \A call \in server[p].calls : call.run # r
    BY <1>1, NoCall DEF Base
  <2>2. run[r].pc \in Placed /\ ~Accepted(r)
    BY <1>1 DEF Placed, Accepted
  <2> QED
    BY <1>1, <1>2, <2>1, <2>2, EarlyEndKeeps
<1>3. CASE /\ Goto(r, "hot") /\ ~proc[run[r].proc].dead
           /\ run[r].sid \notin proc[run[r].proc].inflight /\ UNCHANGED <<proc, entry>>
  BY <1>1, <1>3, RouteKeepsTurns
<1> QED
  BY <1>2, <1>3 DEF WaitIdle, WaitTimesOut

LEMMA RefusedKeepsTurns ==
  ASSUME Base, TurnInv, NEW r \in Runs, run[r].pc = "await", Refused(r), UNCHANGED unseen
  PROVE  TurnInv'
<1>1. run[r].pc \in Placed /\ ~Accepted(r) /\ UNCHANGED server /\ Finish(r, "error", FALSE)
  BY DEF Placed, Accepted, Refused
<1>2. ASSUME NEW p \in Procs, NEW call \in server[p].calls, call.run = r, ~proc[p].dead
      PROVE  Unheard(call)'
  <2>1. run[r].reply = "dead" /\ run[r].proc = p
    BY <1>2 DEF Base, Held, Outstanding, Refused
  <2> QED
    BY <1>2, <2>1 DEF TurnInv, Stands
<1> QED
  BY <1>1, <1>2, EarlyEndKeeps

LEMMA CallDeadKeepsTurns ==
  ASSUME Base, TurnInv, NEW r \in Runs, CallDead(r)
  PROVE  TurnInv'
<1>1. PICK n, s : n = run[r].proc /\ s = run[r].sid
  OBVIOUS
<1>2. /\ run[r].pc = "await" /\ run[r].pc \in Placed /\ Finish(r, "error", FALSE)
      /\ UNCHANGED <<server, unseen>> /\ proc[n].dead
  BY <1>1 DEF CallDead, external, Placed
<1>3. /\ DOMAIN run' = Runs /\ \A d \in Runs \ {r} : run'[d] = run[d]
      /\ DOMAIN run'[r] = RunFields /\ run'[r].sid = run[r].sid /\ run'[r].pc = "done"
      /\ run'[r].queue = <<>> /\ run'[r].saw = run[r].saw /\ run'[r].from = run[r].from
      /\ run'[r].status = "error"
      /\ entry' = entry \/ entry' = [entry EXCEPT ![ChatOf[r]] = run[r].sid]
      /\ Calm(r) /\ proc'[n].dead
  BY <1>1, <1>2, FinishFields
<1>4. ASSUME NEW p \in Procs, NEW call \in server[p].calls, call.run = r, ~proc'[p].dead
      PROVE  FALSE
  BY <1>1, <1>2, <1>3, <1>4 DEF Base, Held, Outstanding
<1> QED
  BY <1>1, <1>2, <1>3, <1>4, DoneKeeps

\* What a run that gives up leaves in its session is known to be under way, or nothing,
\* or makes the session unclean.
LEMMA LeavesUnseen ==
  ASSUME NEW r \in Runs, unseen' = Leaves(r), Clean(run[r].sid)', run'[r].sid = run[r].sid
  PROVE  \/ run[r].sid \in proc[run[r].proc].inflight
         \/ /\ [run |-> r, method |-> "session/prompt"] \notin server[run[r].proc].calls
            /\ \A i \in DOMAIN Owed(r) : Owed(r)[i].run # r
<1>1. CASE r \in unseen'
  BY <1>1 DEF Clean
<1>2. CASE r \notin unseen'
  BY <1>2 DEF Leaves
<1> QED
  BY <1>1, <1>2

LEMMA LeavesGrow == \A r \in Runs : Leaves(r) = unseen \/ Leaves(r) = unseen \cup {r}
BY DEF Leaves

LEMMA CallTimesOutKeepsTurns ==
  ASSUME Base, TurnInv, NEW r \in Runs, CallTimesOut(r)
  PROVE  TurnInv'
<1>1. PICK n, s : n = run[r].proc /\ s = run[r].sid
  OBVIOUS
<1>2. /\ run[r].pc = "await" /\ run[r].pc \in Placed /\ ~Accepted(r)
      /\ Finish(r, "error", FALSE) /\ UNCHANGED server /\ unseen' = Leaves(r)
      /\ n \in Procs /\ s \in Runs
  BY <1>1, BaseFacts DEF CallTimesOut, external, Placed, Accepted
<1>3. /\ DOMAIN run' = Runs /\ \A d \in Runs \ {r} : run'[d] = run[d]
      /\ run'[r].sid = s /\ run'[r].pc = "done"
  BY <1>1, <1>2, FinishFields
<1>4. Clean(s)' => Clean(s)
  <2>1. \A q \in unseen : run'[q] = run[q] /\ q \in unseen'
    BY <1>2, <1>3, LeavesGrow DEF TurnInv, Homes
  <2> QED
    BY <2>1 DEF Clean
<1>5. ASSUME NEW p \in Procs, NEW call \in server[p].calls, call.run = r, ~proc[p].dead
      PROVE  Unheard(call)'
  <2> SUFFICES ASSUME call.method = "session/prompt", Clean(s)' PROVE FALSE
    BY <1>3, <1>5 DEF Unheard
  <2>1. p = n /\ call = [run |-> r, method |-> "session/prompt"]
    <3>1. call \in [run : Runs, method : Methods]
      BY ServerType DEF Base, IInv, Held
    <3>2. p = n
      BY <1>1, <1>2, <1>5 DEF Base, Held, Outstanding
    <3> QED
      BY <1>5, <3>1, <3>2
  <2>2. s \in proc[n].inflight
    BY <1>1, <1>2, <1>3, <2>1, LeavesUnseen
  <2>3. s \notin proc[n].inflight
    BY <1>1, <1>2, <1>4, <1>5, <2>1 DEF TurnInv, ReadyRun
  <2> QED
    BY <2>2, <2>3
<1> QED
  BY <1>2, <1>5, LeavesGrow, EarlyEndKeeps

LEMMA LengthIs == \A q : Length(q) \in {3, 5} /\ (q \in Nesting <=> Length(q) = 5)
BY DEF Length

LEMMA TailIs ==
  ASSUME NEW q \in Seq(Frame), q # <<>>
  PROVE  /\ Len(q) \in Nat \ {0} /\ Head(q) = q[1] /\ Tail(q) \in Seq(Frame)
         /\ Len(Tail(q)) = Len(q) - 1
         /\ \A i \in 1 .. Len(Tail(q)) : Tail(q)[i] = q[i + 1]
BY HeadTailProperties, EmptySeq

\* The parts of the turn of a run.
LEMMA OwnTurnFacts ==
  ASSUME Base, TurnInv, NEW r \in Runs, Accepted(r),
         NEW p, p = run[r].proc, NEW s, s = run[r].sid, Clean(s)
  PROVE  /\ p \in Procs /\ s \in Runs /\ OwnTurn(r)
         /\ run[r].queue \in Seq(Frame) /\ server[p].turns[s] \in Seq(Frame)
         /\ Len(run[r].queue) \in Nat /\ Len(server[p].turns[s]) \in Nat
<1>1. p \in Procs /\ s \in Runs /\ run[r].queue \in Seq(Frame)
  BY BaseFacts DEF Accepted, Placed, TurnInv, Stands
<1>2. server[p].turns[s] \in Seq(Frame)
  BY <1>1, BaseFacts DEF Server
<1>3. OwnTurn(r)
  BY DEF TurnInv, OwnRun
<1>4. \A u \in Seq(Frame) : Len(u) \in Nat
  BY LenProperties
<1> QED
  BY <1>1, <1>2, <1>3, <1>4

LEMMA CollectDeadKeepsTurns ==
  ASSUME Base, TurnInv, NEW r \in Runs, CollectDead(r)
  PROVE  TurnInv'
<1>1. PICK n, s : n = run[r].proc /\ s = run[r].sid
  OBVIOUS
<1>2. /\ run[r].pc = "collect" /\ run[r].pc \in Placed /\ Finish(r, "error", TRUE)
      /\ UNCHANGED <<server, unseen>> /\ proc[n].dead
  BY <1>1 DEF CollectDead, external, Placed
<1>3. /\ DOMAIN run' = Runs /\ \A d \in Runs \ {r} : run'[d] = run[d]
      /\ DOMAIN run'[r] = RunFields /\ run'[r].sid = run[r].sid /\ run'[r].pc = "done"
      /\ run'[r].queue = <<>> /\ run'[r].saw = run[r].saw /\ run'[r].from = run[r].from
      /\ run'[r].status = "error"
      /\ entry' = entry \/ entry' = [entry EXCEPT ![ChatOf[r]] = run[r].sid]
      /\ Calm(r) /\ proc'[n].dead
  BY <1>1, <1>2, FinishFields
<1>4. \A p \in Procs : \A call \in server[p].calls : call.run # r
  BY <1>2, NoCall DEF Base
<1> QED
  BY <1>1, <1>2, <1>3, <1>4, DoneKeeps

LEMMA CollectStoppedKeepsTurns ==
  ASSUME Base, TurnInv, NEW r \in Runs, CollectStopped(r)
  PROVE  TurnInv'
<1>1. PICK n, s, t : n = run[r].proc /\ s = run[r].sid /\ t = server[n].turns[s]
  OBVIOUS
<1>2. /\ run[r].pc = "collect" /\ run[r].pc \in Placed /\ Finish(r, "stopped", TRUE)
      /\ UNCHANGED server /\ unseen' = Leaves(r) /\ Accepted(r)
  BY <1>1 DEF CollectStopped, external, Placed, Accepted
<1>3. /\ DOMAIN run' = Runs /\ \A d \in Runs \ {r} : run'[d] = run[d]
      /\ DOMAIN run'[r] = RunFields /\ run'[r].sid = run[r].sid /\ run'[r].pc = "done"
      /\ run'[r].queue = <<>> /\ run'[r].saw = run[r].saw /\ run'[r].from = run[r].from
      /\ run'[r].status = "stopped"
      /\ entry' = entry \/ entry' = [entry EXCEPT ![ChatOf[r]] = run[r].sid]
      /\ Calm(r) /\ proc'[n].dead = proc[n].dead /\ proc'[n].inflight = proc[n].inflight
      /\ proc'[n].known = proc[n].known
  BY <1>1, <1>2, FinishFields
<1>4. \A p \in Procs : \A call \in server[p].calls : call.run # r
  BY <1>2, NoCall DEF Base
<1>5. Clean(s)' => Clean(s)
  <2>1. \A q \in unseen : run'[q] = run[q] /\ q \in unseen'
    BY <1>2, <1>3, LeavesGrow DEF TurnInv, Homes
  <2> QED
    BY <2>1 DEF Clean
<1>6. ASSUME ~proc[n].dead, Clean(s)' PROVE Resting(n, s)'
  <2>1. /\ OwnTurn(r) /\ t \in Seq(Frame) /\ Len(t) \in Nat
    BY <1>1, <1>2, <1>5, <1>6, OwnTurnFacts
  <2>2. /\ \A i \in 1 .. Len(t) : Fits(r, Len(t) - i, t[i])
        /\ s \in proc[n].inflight <=> Marked(r, Len(t))
    BY <1>1, <1>6, <2>1 DEF OwnTurn
  <2>3. s \in proc[n].known
    BY <1>1, <1>2, <1>6 DEF TurnInv, Stands
  <2>4. CASE s \in proc[n].inflight
    BY <1>1, <1>3, <1>2, <2>2, <2>3, <2>4 DEF Resting
  <2>5. CASE s \notin proc[n].inflight
    <3>1. \A i \in DOMAIN t : t[i].run # r
      BY <1>1, <1>2, <1>3, <1>6, <2>5, LeavesUnseen DEF Owed
    <3>2. Len(t) = 0
      <4> SUFFICES ASSUME Len(t) # 0 PROVE FALSE
        OBVIOUS
      <4>1. Fits(r, 0, t[Len(t)]) /\ Len(t) \in DOMAIN t
        BY <2>1, <2>2
      <4>2. t[Len(t)].run = r
        BY <4>1, LengthIs DEF Fits
      <4> QED
        BY <3>1, <4>1, <4>2
    <3>3. t = <<>>
      BY <2>1, <3>2, EmptySeq
    <3> QED
      BY <1>1, <1>2, <1>3, <2>3, <2>5, <3>3 DEF Resting, NoStart
  <2> QED
    BY <2>4, <2>5
<1> QED
  BY <1>1, <1>2, <1>3, <1>4, <1>6, LeavesGrow, DoneKeeps

\* The end of the turn.
LEMMA CollectEndKeepsTurns ==
  ASSUME Base, TurnInv, NEW r \in Runs, Collect(r), TurnIsOver(r, Head(run[r].queue))
  PROVE  TurnInv'
<1>1. PICK n, s, t, q : /\ n = run[r].proc /\ s = run[r].sid /\ t = server[n].turns[s]
                        /\ q = run[r].queue
  OBVIOUS
<1>2. /\ run[r].pc = "collect" /\ run[r].pc \in Placed /\ Finish(r, "ok", TRUE)
      /\ UNCHANGED <<server, unseen>> /\ Accepted(r) /\ q # <<>>
  BY <1>1 DEF Collect, external, Placed, Accepted
<1>3. /\ DOMAIN run' = Runs /\ \A d \in Runs \ {r} : run'[d] = run[d]
      /\ DOMAIN run'[r] = RunFields /\ run'[r].sid = run[r].sid /\ run'[r].pc = "done"
      /\ run'[r].queue = <<>> /\ run'[r].saw = run[r].saw /\ run'[r].from = run[r].from
      /\ run'[r].status = "ok"
      /\ entry' = entry \/ entry' = [entry EXCEPT ![ChatOf[r]] = run[r].sid]
      /\ Calm(r) /\ proc'[n].dead = proc[n].dead /\ proc'[n].inflight = proc[n].inflight
      /\ proc'[n].known = proc[n].known
  BY <1>1, <1>2, FinishFields
<1>4. \A p \in Procs : \A call \in server[p].calls : call.run # r
  BY <1>2, NoCall DEF Base
<1>5. Clean(s)' => Clean(s)
  <2>1. \A d \in unseen : run'[d] = run[d]
    BY <1>2, <1>3 DEF TurnInv, Homes
  <2> QED
    BY <1>2, <2>1 DEF Clean
<1>6. ASSUME Clean(s)'
      PROVE  run[r].from = {r} /\ (~proc[n].dead => Resting(n, s)')
  <2>1. /\ OwnTurn(r) /\ t \in Seq(Frame) /\ Len(t) \in Nat /\ q \in Seq(Frame) /\ Len(q) \in Nat
    BY <1>1, <1>2, <1>5, <1>6, OwnTurnFacts
  <2> DEFINE k == Len(q) + Len(t)
  <2>2. /\ \A i \in 1 .. Len(q) : Fits(r, k - i, q[i])
        /\ k \in 1 .. Length(r) + 2
        /\ k >= Length(r) => ~run[r].saw
        /\ k < Length(r) => /\ run[r].from = IF k = 1 THEN {r} ELSE {}
                            /\ run[r].depth = IF r \in Nesting /\ k = 3 THEN 2 ELSE 1
        /\ ~proc[n].dead => (s \in proc[n].inflight <=> Marked(r, Len(t)))
    BY <1>1, <2>1 DEF OwnTurn
  <2>3. Len(q) >= 1 /\ Head(q) = q[1]
    BY <1>2, <2>1, TailIs
  <2>4. /\ Head(q).kind = "end" /\ run[r].saw /\ run[r].depth - 1 = 0
    BY <1>1 DEF TurnIsOver, Depth
  <2>5. Fits(r, k - 1, Head(q)) /\ k < Length(r)
    BY <2>1, <2>2, <2>3, <2>4, LengthIs
  <2>6. KindAt(r, k - 1) = "end"
    BY <2>2, <2>4, <2>5, LengthIs DEF Fits
  <2>7. k = 1 \/ (r \in Nesting /\ k = 3)
    BY <2>1, <2>2, <2>6, LengthIs DEF KindAt
  <2>8. k = 1
    BY <2>2, <2>4, <2>5, <2>7
  <2>9. Len(t) = 0 /\ t = <<>>
    BY <2>1, <2>3, <2>8, EmptySeq
  <2>10. ASSUME ~proc[n].dead PROVE Resting(n, s)'
    <3>1. s \notin proc[n].inflight /\ s \in proc[n].known
      BY <1>1, <1>2, <2>2, <2>9, <2>10 DEF Marked, TurnInv, Stands
    <3> QED
      BY <1>1, <1>2, <1>3, <2>9, <3>1 DEF Resting, NoStart
  <2> QED
    BY <2>2, <2>5, <2>8, <2>10
<1> QED
  BY <1>1, <1>2, <1>3, <1>4, <1>6, DoneKeeps

\* An event of the turn, or of the rest before it.
LEMMA CollectOneKeepsTurns ==
  ASSUME Base, TurnInv, NEW r \in Runs, Collect(r), ~TurnIsOver(r, Head(run[r].queue))
  PROVE  TurnInv'
<1>1. PICK n, s, t, q : /\ n = run[r].proc /\ s = run[r].sid /\ t = server[n].turns[s]
                        /\ q = run[r].queue
  OBVIOUS
<1>2. /\ run[r].pc = "collect" /\ run[r].proc \in Procs /\ Accepted(r) /\ Active(r)
      /\ UNCHANGED <<server, unseen, proc, entry>> /\ q # <<>>
      /\ DOMAIN run = Runs /\ DOMAIN run[r] = RunFields /\ Stands(r) /\ r \notin unseen
  BY <1>1, BaseFacts DEF Collect, external, Placed, Accepted, TurnInv, Homes, Active
<1>3. PICK f : f = Head(q)
  OBVIOUS
<1>4. PICK depth, saw, from :
        /\ run' = [run EXCEPT ![r].queue = Tail(@), ![r].depth = depth, ![r].saw = saw,
                              ![r].from = from]
        /\ depth = Depth(r, f) /\ saw = (run[r].saw \/ f.kind = "start")
        /\ from = IF f.kind = "text" /\ run[r].saw THEN run[r].from \cup {f.run}
                                                   ELSE run[r].from
  <2> DEFINE saw == run[r].saw \/ f.kind = "start"
             from == IF f.kind = "text" /\ run[r].saw THEN run[r].from \cup {f.run}
                                                      ELSE run[r].from
             depth == Depth(r, f)
  <2>1. run' = [run EXCEPT ![r].queue = Tail(@), ![r].depth = Depth(r, f),
                           ![r].saw = @ \/ f.kind = "start",
                           ![r].from = IF f.kind = "text" /\ run[r].saw
                                         THEN @ \cup {f.run} ELSE @]
    BY <1>1, <1>3 DEF Collect
  <2>2. run' = [run EXCEPT ![r].queue = Tail(@), ![r].depth = depth, ![r].saw = saw,
                           ![r].from = from]
    BY <1>2, <2>1, Zenon DEF RunFields
  <2> HIDE DEF saw, from, depth
  <2>3. depth = Depth(r, f) /\ saw = (run[r].saw \/ f.kind = "start")
        /\ from = IF f.kind = "text" /\ run[r].saw THEN run[r].from \cup {f.run}
                                                   ELSE run[r].from
    BY DEF saw, from, depth
  <2> QED
    BY <2>2, <2>3
<1>5. run[r].saw \in BOOLEAN /\ saw \in BOOLEAN
  BY <1>2, <1>4 DEF Stands
<1>6. /\ DOMAIN run' = Runs /\ \A d \in Runs \ {r} : run'[d] = run[d]
      /\ DOMAIN run'[r] = RunFields /\ run'[r].sid = s /\ run'[r].pc = "collect"
      /\ run'[r].proc = n /\ run'[r].queue = Tail(q) /\ run'[r].depth = depth
      /\ run'[r].saw = saw /\ run'[r].status = run[r].status
      /\ run'[r].from = from
  BY <1>1, <1>2, <1>4 DEF RunFields
<1>7. Acts(r)
  BY <1>1, <1>2, <1>6, CalmSame DEF Acts
<1>8. q \in Seq(Frame) /\ Tail(q) \in Seq(Frame)
  BY <1>1, <1>2, TailIs DEF Stands
<1>9. Stands(r)'
  BY <1>1, <1>2, <1>6, <1>8, <1>5 DEF Stands
<1>10. Accepted(r)' /\ ReadyRun(r)' /\ OwnRunAnswer(r)'
  BY <1>2, <1>6 DEF Accepted, ReadyRun, OwnRunAnswer, Stands
<1>11. ASSUME Clean(s)' PROVE OwnTurn(r)'
  <2>1. Clean(s)
    BY <1>1, <1>2, <1>7, <1>11, ActsUse, BaseFacts DEF TurnInv
  <2>2. /\ OwnTurn(r) /\ t \in Seq(Frame) /\ Len(t) \in Nat /\ Len(q) \in Nat
    BY <1>1, <1>2, <2>1, OwnTurnFacts
  <2> DEFINE k == Len(q) + Len(t)
             l == Length(r)
  <2>3. /\ \A i \in 1 .. Len(q) : Fits(r, k - i, q[i])
        /\ \A i \in 1 .. Len(t) : Fits(r, Len(t) - i, t[i])
        /\ k \in 1 .. l + 2
        /\ k >= l => ~run[r].saw /\ run[r].from = {}
        /\ k < l => /\ run[r].saw /\ run[r].from = IF k = 1 THEN {r} ELSE {}
                    /\ run[r].depth = IF r \in Nesting /\ k = 3 THEN 2 ELSE 1
        /\ ~proc[n].dead => (s \in proc[n].inflight <=> Marked(r, Len(t)))
    BY <1>1, <2>2 DEF OwnTurn
  <2>4. /\ Len(q) \in Nat \ {0} /\ f = q[1] /\ Len(Tail(q)) = Len(q) - 1
        /\ \A i \in 1 .. Len(Tail(q)) : Tail(q)[i] = q[i + 1]
    BY <1>2, <1>3, <1>8, TailIs
  <2>5. Fits(r, k - 1, f)
    BY <2>2, <2>3, <2>4
  <2>6. \A i \in 1 .. Len(Tail(q)) : Fits(r, (k - 1) - i, Tail(q)[i])
    <3> SUFFICES ASSUME NEW i \in 1 .. Len(Tail(q)) PROVE Fits(r, (k - 1) - i, Tail(q)[i])
      OBVIOUS
    <3>1. i + 1 \in 1 .. Len(q) /\ (k - 1) - i = k - (i + 1)
      BY <2>2, <2>4
    <3> QED
      BY <2>3, <2>4, <3>1
  <2>7. l \in {3, 5} /\ (r \in Nesting <=> l = 5) /\ k \in Nat /\ k - 1 \in 0 .. l + 1
    BY <2>2, <2>3, LengthIs
  <2> HIDE DEF k, l
  <2>8. CASE k - 1 >= l
    <3>1. f.kind # "start"
      BY <2>5, <2>7, <2>8 DEF Fits, l
    <3>2. ~run'[r].saw /\ run'[r].from = {}
      <4>1. ~run[r].saw /\ run[r].from = {}
        BY <2>3, <2>7, <2>8
      <4> QED
        BY <1>6, <1>4, <3>1, <4>1
    <3>3. k - 1 \in 1 .. l + 2 /\ ~(k - 1 < l)
      BY <2>7, <2>8
    <3>4. Len(Tail(q)) + Len(t) = k - 1
      BY <2>2, <2>4 DEF k
    <3> QED
      BY <1>1, <1>2, <1>6, <2>3, <2>6, <3>2, <3>3, <3>4 DEF OwnTurn, l
  <2>9. CASE k = l
    <3>1. f.kind = "start" /\ ~run[r].saw /\ run[r].from = {}
      BY <2>3, <2>5, <2>7, <2>9 DEF Fits, l, KindAt
    <3>2. run'[r].saw /\ run'[r].from = {} /\ run'[r].depth = 1
      BY <1>6, <1>4, <3>1 DEF Depth
    <3>3. k - 1 \in 1 .. l + 2 /\ ~(k - 1 >= l) /\ k - 1 # 1 /\ k - 1 # 3
      BY <2>7, <2>9
    <3>4. Len(Tail(q)) + Len(t) = k - 1
      BY <2>2, <2>4 DEF k
    <3> QED
      BY <1>1, <1>2, <1>6, <2>3, <2>6, <3>2, <3>3, <3>4 DEF OwnTurn, l
  <2>10. CASE k < l
    <3>1. f.run = r /\ f.kind = KindAt(r, k - 1) /\ run[r].saw
          /\ run[r].from = (IF k = 1 THEN {r} ELSE {})
          /\ run[r].depth = IF r \in Nesting /\ k = 3 THEN 2 ELSE 1
      BY <2>3, <2>5, <2>7, <2>10 DEF Fits, l
    <3>2. k # 1
      <4> SUFFICES ASSUME k = 1 PROVE FALSE
        OBVIOUS
      <4>1. f.kind = "end" /\ run[r].depth = 1
        BY <3>1 DEF KindAt
      <4> QED
        BY <1>1, <1>3, <3>1, <4>1 DEF TurnIsOver, Depth
    <3>3. /\ run'[r].saw /\ run'[r].from = (IF k - 1 = 1 THEN {r} ELSE {})
          /\ run'[r].depth = IF r \in Nesting /\ k - 1 = 3 THEN 2 ELSE 1
      <4>1. CASE k = 2
        <5>1. f.kind = "text"
          BY <3>1, <4>1 DEF KindAt
        <5> QED
          <6>1. run'[r].saw /\ run'[r].from = {r}
            BY <1>6, <1>4, <1>5, <3>1, <4>1, <5>1, ZenonT(30)
          <6>2. run'[r].depth = run[r].depth /\ run[r].depth = 1
            BY <1>6, <1>4, <3>1, <4>1, <5>1 DEF Depth
          <6> QED
            BY <4>1, <6>1, <6>2
      <4>2. CASE k = 3 /\ r \in Nesting
        <5>1. f.kind = "end"
          BY <3>1, <4>2 DEF KindAt
        <5> QED
          <6>1. run'[r].saw /\ run'[r].from = {}
            <7>1. run[r].from = {} /\ run[r].saw
              BY <3>1, <4>2
            <7>2. f.kind # "text"
              BY <5>1
            <7> QED
              BY <1>6, <1>4, <1>5, <7>1, <7>2
          <6>2. run'[r].depth = run[r].depth - 1 /\ run[r].depth = 2
            BY <1>6, <1>4, <3>1, <4>2, <5>1 DEF Depth
          <6> QED
            BY <4>2, <6>1, <6>2
      <4>3. CASE k = 4 /\ r \in Nesting
        <5>1. f.kind = "start"
          BY <3>1, <4>3 DEF KindAt
        <5> QED
          <6>1. run'[r].saw /\ run'[r].from = {}
            <7>1. run[r].from = {} /\ run[r].saw
              BY <3>1, <4>3
            <7>2. f.kind # "text"
              BY <5>1
            <7> QED
              BY <1>6, <1>4, <1>5, <7>1, <7>2
          <6>2. run'[r].depth = run[r].depth + 1 /\ run[r].depth = 1
            BY <1>6, <1>4, <3>1, <4>3, <5>1 DEF Depth
          <6> QED
            BY <4>3, <6>1, <6>2
      <4> QED
        BY <2>7, <2>10, <3>2, <4>1, <4>2, <4>3
    <3>4. Len(Tail(q)) + Len(t) = k - 1 /\ k - 1 \in 1 .. l + 2 /\ ~(k - 1 >= l)
      BY <2>2, <2>4, <2>7, <2>10, <3>2 DEF k
    <3> QED
      BY <1>1, <1>2, <1>6, <2>3, <2>6, <3>3, <3>4 DEF OwnTurn, l
  <2> QED
    BY <2>7, <2>8, <2>9, <2>10
<1>12. OwnRun(r)'
  BY <1>6, <1>11 DEF OwnRun
<1> QED
  BY <1>1, <1>6, <1>7, <1>9, <1>10, <1>12, ActsKeeps

LEMMA CollectKeepsTurns ==
  ASSUME Base, TurnInv, NEW r \in Runs, Collect(r)
  PROVE  TurnInv'
BY CollectEndKeepsTurns, CollectOneKeepsTurns

\* y is what the run has made of its process before the call.
LEMMA CallKeepsTurns ==
  ASSUME Base, TurnInv, NEW r \in Runs, run[r].pc \in {"hot", "cold", "await"}, ~Accepted(r),
         run[r].pc = "await" => run[r].reply \in {"ok", "missing"},
         NEW n, n = run[r].proc, NEW y \in Proc, NEW method \in Methods,
         y.dead = proc[n].dead, y.inflight = proc[n].inflight,
         proc[n].known \subseteq y.known, ~y.dead => r \in y.subs,
         proc[n].subs \subseteq y.subs, y.pending = proc[n].pending,
         Call(y, r, method), UNCHANGED unseen
  PROVE  TurnInv'
<1>1. /\ n \in Procs /\ DOMAIN run = Runs /\ DOMAIN run[r] = RunFields /\ Typed /\ Served
      /\ proc \in Seq(Proc) /\ run[r].pc \in Placed /\ Stands(r) /\ r \notin unseen
  BY BaseFacts DEF Base, IInv, Held, Placed, TurnInv, Homes
<1>2. /\ server[n] \in Server /\ n \in DOMAIN server
  BY <1>1, ServerType
<1>3. \A p \in Procs : \A call \in server[p].calls : call.run # r
  BY <1>1, NoCall DEF Base
<1>4. PICK s : s = run[r].sid
  OBVIOUS
<1>5. CASE ~y.dead /\ y.up
  <2> DEFINE c == [run |-> r, method |-> method]
             v == [server[n] EXCEPT !.calls = @ \cup {c}]
             x == [y EXCEPT !.pending = @ \cup {r}]
  <2>1. server' = [server EXCEPT ![n] = v] /\ proc' = [proc EXCEPT ![n] = x]
    BY <1>2, <1>5 DEF Call
  <2>2. c \in [run : Runs, method : Methods] /\ c.run = r
    OBVIOUS
  <2>3. /\ x \in Proc /\ x.dead = y.dead /\ x.known = y.known
        /\ x.pending = y.pending \cup {r} /\ x.subs = y.subs
    BY PendingFields
  <2>4. x.inflight = y.inflight
    BY DEF Proc
  <2> HIDE DEF c, x
  <2>5. v \in Server /\ v.calls = server[n].calls \cup {c} /\ v.turns = server[n].turns
    BY <1>2, <2>2 DEF Server
  <2> HIDE DEF v
  <2>6. server'[n] = v /\ \A p \in Procs \ {n} : server'[p] = server[p]
    BY <1>1, <2>1, <2>5, SetServer DEF Served
  <2>7. /\ DOMAIN run' = Runs /\ \A d \in Runs \ {r} : run'[d] = run[d]
        /\ DOMAIN run'[r] = RunFields /\ run'[r].sid = s /\ run'[r].pc = "await"
        /\ run'[r].proc = n /\ run'[r].reply = "none" /\ run'[r].queue = run[r].queue
        /\ run'[r].saw = run[r].saw /\ run'[r].from = run[r].from
        /\ run'[r].status = run[r].status
    <3>1. run' = [run EXCEPT ![r].pc = "await", ![r].method = method, ![r].reply = "none"]
      BY <1>5 DEF Call
    <3> QED
      BY <1>1, <1>4, <3>1 DEF RunFields
  <2>8. /\ \A p \in Procs : server'[p].turns = server[p].turns
        /\ \A p \in Procs : \A call \in server'[p].calls \ server[p].calls :
             call.run = r /\ run'[r].pc # "done"
    BY <2>2, <2>5, <2>6, <2>7
  <2>9. /\ proc[n].dead => x.dead
        /\ ~x.dead => x.inflight = proc[n].inflight /\ proc[n].known \subseteq x.known
        /\ \A d \in Runs \ {r} : /\ d \in proc[n].subs => d \in x.subs
                                 /\ d \in proc[n].pending => d \in x.pending \/ x.dead
    BY <2>3, <2>4
  <2>10. Calm(r) /\ Procs' = Procs /\ proc'[n] = x
    <3>1. n \in Procs /\ proc \in Seq(Proc) /\ x \in Proc /\ proc' = [proc EXCEPT ![n] = x]
      BY <1>1, <2>1, <2>3
    <3>2. Procs' = Procs /\ proc'[n] = x /\ \A p \in Procs \ {n} : proc'[p] = proc[p]
      BY <3>1, SetProc
    <3>3. \A p \in Procs :
            /\ proc[p].dead => proc'[p].dead
            /\ ~proc'[p].dead => /\ proc'[p].inflight = proc[p].inflight
                                 /\ proc[p].known \subseteq proc'[p].known
            /\ \A d \in Runs \ {r} :
                 /\ d \in proc[p].subs => d \in proc'[p].subs
                 /\ d \in proc[p].pending => d \in proc'[p].pending \/ proc'[p].dead
      BY <2>9, <3>2
    <3> QED
      BY <2>8, <3>2, <3>3 DEF Calm
  <2>11. Acts(r)
    BY <1>1, <1>4, <2>7, <2>10 DEF Acts, Active, Call, Placed
  <2>12. Stands(r)'
    BY <1>1, <1>5, <2>3, <2>7, <2>10 DEF Stands
  <2>13. ~Accepted(r)' /\ OwnRun(r)' /\ OwnRunAnswer(r)'
    BY <1>1, <2>7 DEF Accepted, OwnRun, OwnRunAnswer, Stands
  <2>14. Clean(s)' => Clean(s)
    BY <1>4, <2>11, ActsUse, BaseFacts DEF TurnInv
  <2>15. ReadyRun(r)'
    <3> SUFFICES ASSUME ~proc'[n].dead, Clean(s)'
                 PROVE  /\ s \notin proc'[n].inflight
                        /\ Len(run[r].queue) + Len(server'[n].turns[s]) <= 2
                        /\ NoStart(run[r].queue)
      BY <2>7 DEF ReadyRun, NoStart
    <3>1. ~proc[n].dead /\ Clean(s) /\ proc'[n].inflight = proc[n].inflight
      BY <1>5, <2>3, <2>4, <2>10, <2>14
    <3>2. ReadyRun(r)
      BY DEF TurnInv
    <3>3. /\ s \notin proc[n].inflight
          /\ Len(run[r].queue) + Len(server[n].turns[s]) <= 2 /\ NoStart(run[r].queue)
      BY <1>4, <3>1, <3>2 DEF ReadyRun
    <3> QED
      BY <1>1, <2>8, <3>1, <3>3
  <2> QED
    BY <1>4, <2>7, <2>11, <2>12, <2>13, <2>15, ActsKeeps
<1>6. CASE ~(~y.dead /\ y.up)
  <2> DEFINE z == MarkDead(y)
             x == Leave(z, r)
  <2>1. z \in Proc /\ z.dead /\ z.subs = y.subs
    BY MarkDeadFields
  <2> HIDE DEF z
  <2>2. x \in Proc /\ x.dead /\ x.subs = y.subs \ {r}
    BY <2>1, LeaveFields
  <2>3. proc' = [proc EXCEPT ![n] = x] /\ UNCHANGED <<server, entry>>
    BY <1>6 DEF Call, z
  <2> HIDE DEF x
  <2>4. /\ \A p \in Procs : server'[p].turns = server[p].turns
        /\ \A p \in Procs : \A call \in server'[p].calls \ server[p].calls :
             call.run = r /\ run'[r].pc # "done"
    BY <2>3
  <2>5. /\ proc[n].dead => x.dead
        /\ ~x.dead => x.inflight = proc[n].inflight /\ proc[n].known \subseteq x.known
        /\ \A d \in Runs \ {r} : /\ d \in proc[n].subs => d \in x.subs
                                 /\ d \in proc[n].pending => d \in x.pending \/ x.dead
    BY <2>2
  <2>6. Calm(r) /\ proc'[n] = x
    <3>1. n \in Procs /\ proc \in Seq(Proc) /\ x \in Proc /\ proc' = [proc EXCEPT ![n] = x]
      BY <1>1, <2>2, <2>3
    <3>2. Procs' = Procs /\ proc'[n] = x /\ \A p \in Procs \ {n} : proc'[p] = proc[p]
      BY <3>1, SetProc
    <3>3. \A p \in Procs :
            /\ proc[p].dead => proc'[p].dead
            /\ ~proc'[p].dead => /\ proc'[p].inflight = proc[p].inflight
                                 /\ proc[p].known \subseteq proc'[p].known
            /\ \A d \in Runs \ {r} :
                 /\ d \in proc[p].subs => d \in proc'[p].subs
                 /\ d \in proc[p].pending => d \in proc'[p].pending \/ proc'[p].dead
      BY <2>5, <3>2
    <3> QED
      BY <2>4, <3>2, <3>3 DEF Calm
  <2>7. /\ DOMAIN run' = Runs /\ \A d \in Runs \ {r} : run'[d] = run[d]
        /\ DOMAIN run'[r] = RunFields /\ run'[r].sid = run[r].sid /\ run'[r].pc = "done"
        /\ run'[r].queue = <<>> /\ run'[r].saw = run[r].saw /\ run'[r].from = run[r].from
        /\ run'[r].status = "error"
    <3>1. run' = [run EXCEPT ![r].pc = "done", ![r].status = "error", ![r].queue = <<>>]
      BY <1>6 DEF Call
    <3> QED
      BY <1>1, <3>1 DEF RunFields
  <2> QED
    BY <1>1, <1>3, <1>4, <2>2, <2>3, <2>6, <2>7, DoneKeeps
<1> QED
  BY <1>5, <1>6

LEMMA SubscribeKeepsTurns ==
  ASSUME Base, TurnInv, NEW r \in Runs, Subscribe(r)
  PROVE  TurnInv'
<1>1. PICK n : n = run[r].proc
  OBVIOUS
<1> DEFINE p == proc[n]
           y == IF p.dead THEN p ELSE [p EXCEPT !.subs = @ \cup {r}]
<1>2. run[r].pc \in {"hot", "cold"} /\ n \in Procs /\ ~Accepted(r) /\ UNCHANGED unseen
  BY <1>1, BaseFacts DEF Subscribe, Placed, Accepted
<1>3. p \in Proc
  BY <1>2, BaseFacts
<1>4. /\ y \in Proc /\ y.dead = p.dead /\ y.known = p.known /\ y.pending = p.pending
      /\ ~y.dead => r \in y.subs
      /\ p.subs \subseteq y.subs
  BY <1>3, SubsFields
<1>5. y.inflight = p.inflight
  BY <1>3 DEF Proc
<1>6. PICK method \in {"session/working-directory/set", "session/resume"} : Call(y, r, method)
  BY <1>1 DEF Subscribe
<1> HIDE DEF y
<1>7. method \in Methods /\ p.known \subseteq y.known
  BY <1>4 DEF Methods
<1> QED
  BY <1>1, <1>2, <1>4, <1>5, <1>6, <1>7, CallKeepsTurns

LEMMA PromptedKeepsTurns ==
  ASSUME Base, TurnInv, NEW r \in Runs, run[r].pc = "await", Prompted(r), UNCHANGED unseen
  PROVE  TurnInv'
<1>1. PICK n, s : n = run[r].proc /\ s = run[r].sid
  OBVIOUS
<1>2. /\ n \in Procs /\ s \in Runs /\ DOMAIN run = Runs /\ DOMAIN run[r] = RunFields
      /\ proc \in Seq(Proc) /\ proc[n] \in Proc /\ run[r].pc \in Placed /\ Stands(r)
      /\ r \notin unseen /\ Accepted(r) /\ UNCHANGED <<server, entry>>
      /\ run[r].reply \in {"ok", "missing"}
  BY <1>1, BaseFacts DEF Placed, TurnInv, Homes, Prompted, Accepted
<1> DEFINE x == MarkKnown(proc[n], s)
<1>3. proc' = [proc EXCEPT ![n] = x]
  BY <1>1 DEF Prompted
<1>4. /\ x \in Proc /\ x.dead = proc[n].dead /\ x.known = proc[n].known \cup {s}
      /\ x.pending = proc[n].pending /\ x.subs = proc[n].subs
  BY <1>2, MarkKnownFields
<1>5. x.inflight = proc[n].inflight
  BY <1>2 DEF MarkKnown, Proc
<1> HIDE DEF x
<1>6. /\ DOMAIN run' = Runs /\ \A d \in Runs \ {r} : run'[d] = run[d]
      /\ DOMAIN run'[r] = RunFields /\ run'[r].sid = s /\ run'[r].pc = "collect"
      /\ run'[r].proc = n /\ run'[r].queue = run[r].queue /\ run'[r].depth = run[r].depth
      /\ run'[r].saw = run[r].saw /\ run'[r].from = run[r].from
      /\ run'[r].status = run[r].status
  BY <1>1, <1>2 DEF Prompted, Goto, RunFields
<1>7. /\ \A p \in Procs : server'[p].turns = server[p].turns
      /\ \A p \in Procs : \A call \in server'[p].calls \ server[p].calls :
           call.run = r /\ run'[r].pc # "done"
  BY <1>2
<1>8. /\ proc[n].dead => x.dead
      /\ ~x.dead => x.inflight = proc[n].inflight /\ proc[n].known \subseteq x.known
      /\ \A d \in Runs \ {r} : /\ d \in proc[n].subs => d \in x.subs
                               /\ d \in proc[n].pending => d \in x.pending \/ x.dead
  BY <1>4, <1>5
<1>9. Calm(r) /\ Procs' = Procs /\ proc'[n] = x
  BY <1>2, <1>3, <1>4, <1>7, <1>8, CalmOne, ZenonT(30)
<1>10. Acts(r)
  BY <1>1, <1>2, <1>6, <1>9 DEF Acts, Active
<1>11. Stands(r)'
  BY <1>1, <1>2, <1>4, <1>6, <1>9 DEF Stands
<1>12. Accepted(r)' /\ ReadyRun(r)' /\ OwnRunAnswer(r)'
  BY <1>2, <1>6 DEF Accepted, ReadyRun, OwnRunAnswer, Stands
<1>13. Clean(s)' => Clean(s)
  BY <1>1, <1>2, <1>10, ActsUse DEF TurnInv
<1>14. OwnRun(r)'
  <2> SUFFICES ASSUME Clean(s)' PROVE OwnTurn(r)'
    BY <1>6 DEF OwnRun
  <2>1. OwnTurn(r)
    BY <1>1, <1>2, <1>13, OwnTurnFacts
  <2> QED
    BY <1>1, <1>2, <1>4, <1>5, <1>6, <1>9, <2>1, ZenonT(30) DEF OwnTurn
<1> QED
  BY <1>1, <1>6, <1>10, <1>11, <1>12, <1>14, ActsKeeps

LEMMA ReceiveKeepsTurns ==
  ASSUME Base, TurnInv, NEW r \in Runs, Receive(r)
  PROVE  TurnInv'
<1>1. PICK n, s : n = run[r].proc /\ s = run[r].sid
  OBVIOUS
<1> DEFINE p == proc[n]
           known == MarkKnown(p, s)
<1>2. run[r].pc = "await" /\ n \in Procs /\ s \in Runs /\ UNCHANGED unseen /\ Stands(r)
  BY <1>1, BaseFacts DEF Receive, Placed, TurnInv
<1>3. p \in Proc /\ r \in p.subs
  BY <1>1, <1>2, BaseFacts DEF Stands
<1>4. /\ known \in Proc /\ known.dead = p.dead /\ known.known = p.known \cup {s}
      /\ known.pending = p.pending /\ known.subs = p.subs
  BY <1>2, <1>3, MarkKnownFields
<1>5. known.inflight = p.inflight
  BY <1>3 DEF MarkKnown, Proc
<1> HIDE DEF known
<1>6. CASE Resumed(r)
  <2>1. ~Accepted(r) /\ "session/working-directory/set" \in Methods
        /\ run[r].reply \in {"ok", "missing"}
    BY <1>2, <1>6 DEF Accepted, Resumed, Methods
  <2>2. CASE run[r].reply = "ok"
    <3>1. Call(known, r, "session/working-directory/set")
      BY <1>1, <1>6, <2>2 DEF Resumed, known
    <3> QED
      BY <1>1, <1>2, <1>3, <1>4, <1>5, <2>1, <3>1, CallKeepsTurns
  <2>3. CASE run[r].reply = "missing"
    <3>1. Call(p, r, "session/working-directory/set")
      BY <1>1, <1>6, <2>3 DEF Resumed
    <3> QED
      BY <1>1, <1>2, <1>3, <2>1, <3>1, CallKeepsTurns
  <2> QED
    BY <2>1, <2>2, <2>3
<1>7. CASE DirectorySet(r)
  <2>1. ~Accepted(r) /\ "session/prompt" \in Methods /\ run[r].reply \in {"ok", "missing"}
        /\ Call(p, r, "session/prompt")
    BY <1>1, <1>2, <1>7 DEF Accepted, DirectorySet, Methods
  <2> QED
    BY <1>1, <1>2, <1>3, <2>1, CallKeepsTurns
<1>8. CASE Prompted(r)
  BY <1>2, <1>8, PromptedKeepsTurns
<1>9. CASE Refused(r)
  BY <1>2, <1>9, RefusedKeepsTurns
<1> QED
  BY <1>6, <1>7, <1>8, <1>9 DEF Receive

\* A step in which the runs stay where they are, up to an answer that is not the one to
\* a prompt, and the sessions in use as they are, except in a process that ends.
Shifts ==
  /\ Procs' = Procs /\ unseen' = unseen
  /\ \A r \in Runs :
       /\ DOMAIN run'[r] = DOMAIN run[r] /\ run'[r].pc = run[r].pc /\ run'[r].sid = run[r].sid
       /\ run'[r].proc = run[r].proc /\ run'[r].method = run[r].method
       /\ run'[r].queue = run[r].queue /\ run'[r].depth = run[r].depth
       /\ run'[r].saw = run[r].saw /\ run'[r].from = run[r].from
       /\ run'[r].status = run[r].status
       /\ \/ run'[r].reply = run[r].reply
          \/ run'[r].reply = "dead" /\ run[r].proc \in Procs /\ proc'[run[r].proc].dead
          \/ run[r].pc = "await" /\ run'[r].reply \notin {"none", "dead"}
             /\ ~Accepted(r) /\ ~Accepted(r)'
  /\ \A p \in Procs :
       /\ server'[p].turns = server[p].turns /\ server'[p].calls \subseteq server[p].calls
       /\ proc[p].dead => proc'[p].dead
       /\ \A r \in Runs : Active(r) =>
            /\ r \in proc[p].subs => r \in proc'[p].subs
            /\ r \in proc[p].pending =>
                 r \in proc'[p].pending \/ proc'[p].dead \/ run'[r].reply # "none"
  /\ \A c \in Chats : entry'[c] \in {entry[c], NoRun}
  /\ \A p \in Procs, s \in Runs : ~proc'[p].dead /\ InUse(s)' =>
       /\ s \in proc'[p].inflight <=> s \in proc[p].inflight
       /\ s \in proc'[p].known <=> s \in proc[p].known

LEMMA ShiftsKeep ==
  ASSUME Base, TurnInv, Shifts
  PROVE  TurnInv'
<1>1. \A s \in Runs : Clean(s)' <=> Clean(s)
  <2>1. \A q \in unseen : q \in Runs /\ run'[q].sid = run[q].sid
    BY DEF TurnInv, Homes, Shifts
  <2> QED
    BY <2>1 DEF Clean, Shifts
<1>2. \A r \in Runs : Active(r)' <=> Active(r)
  BY DEF Active, Shifts
<1>3. \A s \in Runs : InUse(s)' => InUse(s)
  BY <1>2, Facts DEF InUse, Shifts
<1>4. \A r \in Runs : run[r].sid \in Runs /\ (run[r].pc \in Placed => run[r].proc \in Procs)
  BY BaseFacts
<1>5. \A r \in Runs : \/ Accepted(r)' <=> Accepted(r)
                      \/ run[r].proc \in Procs /\ proc'[run[r].proc].dead /\ ~Accepted(r)'
  BY DEF Accepted, Shifts
<1>6. Homes'
  BY <1>2, Facts DEF TurnInv, Homes, Shifts
<1>7. Rests'
  <2> SUFFICES ASSUME NEW p \in Procs, NEW s \in Runs, ~proc'[p].dead, InUse(s)', Clean(s)',
                      Alone(p, s)'
               PROVE  Resting(p, s)'
    BY DEF Rests, Shifts
  <2>1. Alone(p, s)
    BY <1>5 DEF Alone, Shifts
  <2>2. Resting(p, s)
    BY <1>1, <1>3, <2>1 DEF TurnInv, Rests, Shifts
  <2> QED
    BY <2>2 DEF Resting, Shifts
<1>8. Stale'
  <2> SUFFICES ASSUME NEW p \in Procs, NEW call \in server'[p].calls, ~proc'[p].dead
               PROVE  Unheard(call)'
    BY DEF Stale, Shifts
  <2>1. call \in server[p].calls
    BY DEF Shifts
  <2>2. Unheard(call) /\ call.run \in Runs
    BY <2>1, ServerType DEF TurnInv, Stale, Shifts, Base, IInv, Held
  <2> QED
    BY <1>1, <1>4, <2>2 DEF Unheard, Shifts
<1>9. ASSUME NEW d \in Runs
      PROVE  Stands(d)' /\ ReadyRun(d)' /\ OwnRun(d)' /\ OwnRunAnswer(d)'
  <2>1. PICK p, s : p = run[d].proc /\ s = run[d].sid
    OBVIOUS
  <2>2. Stands(d) /\ ReadyRun(d) /\ OwnRun(d) /\ OwnRunAnswer(d) /\ s \in Runs
    BY <1>4, <2>1 DEF TurnInv
  <2>3. /\ run'[d].proc = p /\ run'[d].sid = s /\ run'[d].pc = run[d].pc
        /\ run'[d].queue = run[d].queue /\ run'[d].depth = run[d].depth
        /\ run'[d].saw = run[d].saw /\ run'[d].from = run[d].from
        /\ run'[d].status = run[d].status
    BY <2>1 DEF Shifts
  <2>4. run[d].pc \in {"hot", "cold", "await", "collect"} =>
          /\ p \in Procs /\ Active(d) /\ InUse(s)'
          /\ server'[p].turns = server[p].turns
          /\ ~proc'[p].dead => ~proc[p].dead
          /\ ~proc'[p].dead => /\ s \in proc'[p].inflight <=> s \in proc[p].inflight
                               /\ s \in proc'[p].known <=> s \in proc[p].known
    <3> SUFFICES ASSUME run[d].pc \in {"hot", "cold", "await", "collect"}
                 PROVE  /\ p \in Procs /\ Active(d) /\ InUse(s)'
                        /\ server'[p].turns = server[p].turns
                        /\ ~proc'[p].dead => ~proc[p].dead
                        /\ ~proc'[p].dead => /\ s \in proc'[p].inflight <=> s \in proc[p].inflight
                                             /\ s \in proc'[p].known <=> s \in proc[p].known
      OBVIOUS
    <3>1. p \in Procs /\ Active(d) /\ Active(d)'
      BY <1>2, <1>4, <2>1 DEF Placed, Active
    <3>2. InUse(s)'
      BY <2>3, <3>1 DEF InUse
    <3> QED
      BY <2>2, <3>1, <3>2 DEF Shifts
  <2>5. Stands(d)'
    <3>1. CASE run[d].pc \in {"await", "collect"}
      <4>1. d \in proc[p].subs => d \in proc'[p].subs
        BY <2>4, <3>1 DEF Shifts
      <4>2. d \in proc[p].pending =>
              d \in proc'[p].pending \/ proc'[p].dead \/ run'[d].reply # "none"
        BY <2>4, <3>1 DEF Shifts
      <4>3. \/ run'[d].reply = run[d].reply
            \/ (run'[d].reply = "dead" /\ proc'[p].dead)
            \/ run'[d].reply \notin {"none", "dead"}
        BY <2>1 DEF Shifts
      <4>4. proc[p].dead => proc'[p].dead
        BY <2>4, <3>1 DEF Shifts
      <4> QED
        BY <2>1, <2>2, <2>3, <2>4, <3>1, <4>1, <4>2, <4>3, <4>4 DEF Stands
    <3>2. CASE run[d].pc \notin {"await", "collect"}
      BY <2>1, <2>2, <2>3, <3>2 DEF Stands
    <3> QED
      BY <3>1, <3>2
  <2>6. ReadyRun(d)'
    <3> SUFFICES ASSUME run[d].pc \in {"hot", "cold", "await"}, ~Accepted(d)', ~proc'[p].dead,
                        Clean(s)'
                 PROVE  /\ s \notin proc'[p].inflight
                        /\ Len(run[d].queue) + Len(server'[p].turns[s]) <= 2
                        /\ NoStart(run[d].queue)
      BY <2>3 DEF ReadyRun, NoStart
    <3>1. ~Accepted(d) /\ ~proc[p].dead /\ Clean(s)
      BY <1>1, <1>5, <2>1, <2>2, <2>4
    <3>2. /\ s \notin proc[p].inflight
          /\ Len(run[d].queue) + Len(server[p].turns[s]) <= 2 /\ NoStart(run[d].queue)
      BY <2>1, <2>2, <3>1 DEF ReadyRun
    <3> QED
      BY <2>4, <3>2
  <2>7. OwnRun(d)'
    <3> SUFFICES ASSUME Accepted(d)', Clean(s)' PROVE OwnTurn(d)'
      BY <2>3 DEF OwnRun
    <3>1. OwnTurn(d)
      BY <1>1, <1>5, <2>1, <2>2 DEF OwnRun
    <3>2. run[d].pc \in {"await", "collect"}
      BY <2>3 DEF Accepted
    <3> QED
      BY <2>1, <2>3, <2>4, <3>1, <3>2 DEF OwnTurn
  <2>8. OwnRunAnswer(d)'
    BY <1>1, <2>1, <2>2, <2>3 DEF OwnRunAnswer
  <2> QED
    BY <2>5, <2>6, <2>7, <2>8
<1> QED
  BY <1>6, <1>7, <1>8, <1>9 DEF TurnInv

\* Steps that leave what matters of every process.
LEMMA ShiftsSame ==
  ASSUME Base, TurnInv, Procs' = Procs, UNCHANGED <<run, entry, unseen, server>>,
         \A p \in Procs : /\ proc'[p].dead = proc[p].dead /\ proc'[p].inflight = proc[p].inflight
                          /\ proc'[p].known = proc[p].known /\ proc'[p].subs = proc[p].subs
                          /\ proc'[p].pending = proc[p].pending
  PROVE  TurnInv'
<1>1. Shifts
  BY DEF Shifts
<1> QED
  BY <1>1, ShiftsKeep

LEMMA ReapKeepsTurns ==
  ASSUME Base, TurnInv, Reap
  PROVE  TurnInv'
<1> DEFINE stop(p) == [proc[p] EXCEPT !.stopping = TRUE]
<1>1. PICK picked :
        /\ proc' = [p \in Procs |-> IF p \in picked THEN stop(p) ELSE proc[p]]
        /\ UNCHANGED <<run, server, entry, unseen>>
  BY DEF Reap
<1>2. ASSUME NEW p \in Procs
      PROVE  /\ stop(p).known = proc[p].known /\ stop(p).dead = proc[p].dead
             /\ stop(p).inflight = proc[p].inflight /\ stop(p).subs = proc[p].subs
             /\ stop(p).pending = proc[p].pending
  <2>1. proc[p] \in Proc
    BY BaseFacts
  <2> QED
    BY <2>1 DEF Proc
<1> HIDE DEF stop
<1>3. \A p \in Procs : /\ proc'[p].dead = proc[p].dead /\ proc'[p].inflight = proc[p].inflight
                       /\ proc'[p].known = proc[p].known /\ proc'[p].subs = proc[p].subs
                       /\ proc'[p].pending = proc[p].pending
  BY <1>1, <1>2
<1>4. Procs' = Procs
  BY ReapTends DEF Tends, Base
<1> QED
  BY <1>1, <1>3, <1>4, ShiftsSame

LEMMA StopKeepsTurns ==
  ASSUME Base, TurnInv, NEW n \in Procs, Stop(n) \/ Exit(n)
  PROVE  TurnInv'
<1>1. proc[n] \in Proc /\ proc \in Seq(Proc)
  BY BaseFacts
<1>2. PICK stopping \in BOOLEAN :
        proc' = [proc EXCEPT ![n] = [@ EXCEPT !.stopping = stopping, !.up = FALSE]]
  <2>1. CASE Stop(n)
    BY <1>1, <2>1 DEF Stop
  <2>2. CASE Exit(n)
    <3>1. [proc[n] EXCEPT !.up = FALSE] =
            [proc[n] EXCEPT !.stopping = proc[n].stopping, !.up = FALSE]
      BY <1>1 DEF Proc
    <3>2. proc' = [proc EXCEPT ![n] = [proc[n] EXCEPT !.up = FALSE]]
      BY <2>2 DEF Exit
    <3>3. proc[n].stopping \in BOOLEAN
      BY <1>1 DEF Proc
    <3> QED
      BY <3>1, <3>2, <3>3
  <2> QED
    BY <2>1, <2>2
<1> DEFINE x == [proc[n] EXCEPT !.stopping = stopping, !.up = FALSE]
<1>3. /\ x \in Proc /\ x.known = proc[n].known /\ x.dead = proc[n].dead
      /\ x.inflight = proc[n].inflight /\ x.subs = proc[n].subs /\ x.pending = proc[n].pending
  BY <1>1 DEF Proc
<1>4. proc' = [proc EXCEPT ![n] = x]
  BY <1>2
<1> HIDE DEF x
<1>5. Procs' = Procs /\ proc'[n] = x /\ \A p \in Procs \ {n} : proc'[p] = proc[p]
  BY <1>1, <1>3, <1>4, SetProc
<1>6. UNCHANGED <<run, entry, unseen, server>>
  BY DEF Stop, Exit, external
<1>7. \A p \in Procs : /\ proc'[p].dead = proc[p].dead /\ proc'[p].inflight = proc[p].inflight
                       /\ proc'[p].known = proc[p].known /\ proc'[p].subs = proc[p].subs
                       /\ proc'[p].pending = proc[p].pending
  BY <1>3, <1>5
<1> QED
  BY <1>5, <1>6, <1>7, ShiftsSame

LEMMA ReaderEndsKeepsTurns ==
  ASSUME Base, TurnInv, NEW n \in Procs, ReaderEnds(n)
  PROVE  TurnInv'
<1> DEFINE x == MarkDead(proc[n])
<1>1. proc[n] \in Proc /\ proc \in Seq(Proc) /\ DOMAIN run = Runs
      /\ \A r \in Runs : DOMAIN run[r] = RunFields
  BY BaseFacts DEF TurnInv, Homes
<1>2. x \in Proc /\ x.dead = TRUE /\ x.subs = proc[n].subs /\ proc' = [proc EXCEPT ![n] = x]
  BY <1>1, MarkDeadFields DEF ReaderEnds
<1> HIDE DEF x
<1>3. Procs' = Procs /\ proc'[n] = x /\ \A p \in Procs \ {n} : proc'[p] = proc[p]
  BY <1>1, <1>2, SetProc
<1>4. UNCHANGED <<entry, unseen, server>>
  BY DEF ReaderEnds, external
<1>5. \A r \in proc[n].pending : run[r].proc = n
  BY DEF Base, IInv, NothingLeftBehind
<1>6. run' = [r \in Runs |-> IF r \in proc[n].pending
                               THEN [run[r] EXCEPT !.reply = "dead"] ELSE run[r]]
  BY DEF ReaderEnds
<1>7. \A r \in Runs :
       /\ DOMAIN run'[r] = DOMAIN run[r] /\ run'[r].pc = run[r].pc /\ run'[r].sid = run[r].sid
       /\ run'[r].proc = run[r].proc /\ run'[r].method = run[r].method
       /\ run'[r].queue = run[r].queue /\ run'[r].depth = run[r].depth
       /\ run'[r].saw = run[r].saw /\ run'[r].from = run[r].from
       /\ run'[r].status = run[r].status
       /\ \/ run'[r].reply = run[r].reply
          \/ run'[r].reply = "dead" /\ run[r].proc = n
  BY <1>1, <1>5, <1>6 DEF RunFields
<1>8. Shifts
  BY <1>2, <1>3, <1>4, <1>7 DEF Shifts
<1> QED
  BY <1>8, ShiftsKeep

LEMMA ClearKeepsTurns ==
  ASSUME Base, TurnInv, NEW c \in Chats, Clear(c)
  PROVE  TurnInv'
<1>1. PICK s, n : s = entry[c] /\ n = pool[KeyOf[c]]
  OBVIOUS
<1> DEFINE x == EvictSession(proc[n], s)
<1>2. /\ UNCHANGED <<run, server, unseen>> /\ KeyOf[c] \in Keys /\ s # NoRun /\ s \in Runs
      /\ entry' = [entry EXCEPT ![c] = NoRun] /\ Typed /\ entry \in [Chats -> Runs \cup {NoRun}]
      /\ proc \in Seq(Proc)
  BY <1>1, BaseFacts, Facts DEF Clear, external, Base, IInv
<1>3. \A r \in Runs : ChatOf[r] = c => ~Active(r)
  BY DEF Clear, Active
<1>4. ChatOf[s] = c
  BY <1>1, <1>2 DEF TurnInv, Homes
<1>5. \A r \in Runs : Active(r) => run[r].sid # s
  BY <1>3, <1>4 DEF TurnInv, Homes
<1>6. ~InUse(s)'
  <2>1. run'[s].pc # "idle"
    BY <1>1, <1>2 DEF TurnInv, Homes
  <2>2. entry'[ChatOf[s]] # s
    BY <1>2, <1>4, Facts
  <2>3. \A r \in Runs : Active(r)' => run'[r].sid # s
    BY <1>2, <1>5 DEF Active
  <2> QED
    BY <2>1, <2>2, <2>3 DEF InUse
<1>7. \A d \in Chats : entry'[d] \in {entry[d], NoRun}
  BY <1>2
<1>8. CASE ~Pooled(KeyOf[c])
  <2>1. UNCHANGED proc
    BY <1>8 DEF Clear
  <2>2. Shifts
    BY <1>2, <1>7, <2>1 DEF Shifts, Procs
  <2> QED
    BY <2>2, ShiftsKeep
<1>9. CASE Pooled(KeyOf[c])
  <2>1. n \in Procs
    BY <1>1, <1>2, <1>9 DEF Pooled, Typed, Procs
  <2>2. proc[n] \in Proc
    BY <2>1, BaseFacts
  <2>3. /\ x \in Proc /\ x.dead = proc[n].dead /\ x.pending = proc[n].pending
        /\ x.known = proc[n].known \ {s} /\ x.inflight = proc[n].inflight \ {s}
        /\ x.subs = {r \in proc[n].subs : run[r].sid # s}
    BY <2>2 DEF Proc, EvictSession
  <2>4. proc' = [proc EXCEPT ![n] = x]
    BY <1>1, <1>9 DEF Clear
  <2> HIDE DEF x
  <2>5. Procs' = Procs /\ proc'[n] = x /\ \A p \in Procs \ {n} : proc'[p] = proc[p]
    BY <1>2, <2>1, <2>3, <2>4, SetProc
  <2>6. \A p \in Procs : \A r \in Runs : Active(r) =>
            /\ r \in proc[p].subs => r \in proc'[p].subs
            /\ r \in proc[p].pending => r \in proc'[p].pending
    BY <1>5, <2>3, <2>5
  <2>7. \A p \in Procs, u \in Runs : InUse(u)' =>
       /\ u \in proc'[p].inflight <=> u \in proc[p].inflight
       /\ u \in proc'[p].known <=> u \in proc[p].known
    BY <1>6, <2>3, <2>5
  <2>8. Shifts
    BY <1>2, <1>7, <2>3, <2>5, <2>6, <2>7 DEF Shifts
  <2> QED
    BY <2>8, ShiftsKeep
<1> QED
  BY <1>8, <1>9

LEMMA BeginKeepsTurns ==
  ASSUME Base, TurnInv, NEW r \in Runs, Begin(r)
  PROVE  TurnInv'
<1>1. PICK old, c : old = entry[ChatOf[r]] /\ c = ChatOf[r]
  OBVIOUS
<1>2. /\ UNCHANGED <<proc, server, entry, unseen>> /\ run[r].pc = "idle" /\ c \in Chats
      /\ DOMAIN run = Runs /\ DOMAIN run[r] = RunFields /\ Stands(r) /\ r \notin unseen
      /\ \A q \in Runs \ {r} : ChatOf[q] = ChatOf[r] => run[q].pc \in {"idle", "done"}
      /\ run[r].sid = r
  BY <1>1, BaseFacts, Facts DEF Begin, external, TurnInv, Homes
<1>3. PICK sid, pc, n :
        /\ run' = [run EXCEPT ![r].sid = sid, ![r].pc = pc, ![r].proc = n]
        /\ pc \in {"route", "spawn"}
        /\ sid = r \/ (old # NoRun /\ sid = old)
  <2> DEFINE k == KeyOf[ChatOf[r]]
             sid(fresh) == IF fresh \/ old = NoRun THEN r ELSE old
             pc == IF Pooled(k) THEN "route" ELSE "spawn"
             n == IF Pooled(k) THEN pool[k] ELSE 0
  <2>1. PICK fresh : run' = [run EXCEPT ![r].sid = sid(fresh), ![r].pc = pc, ![r].proc = n]
    BY <1>1 DEF Begin
  <2>2. pc \in {"route", "spawn"}
    OBVIOUS
  <2>3. sid(fresh) = r \/ (old # NoRun /\ sid(fresh) = old)
    OBVIOUS
  <2> HIDE DEF sid, pc, n
  <2> QED
    BY <2>1, <2>2, <2>3
<1>4. /\ DOMAIN run' = Runs /\ \A d \in Runs \ {r} : run'[d] = run[d]
      /\ DOMAIN run'[r] = RunFields /\ run'[r].sid = sid /\ run'[r].pc = pc
      /\ run'[r].queue = run[r].queue /\ run'[r].saw = run[r].saw /\ run'[r].from = run[r].from
      /\ run'[r].status = run[r].status
  BY <1>2, <1>3 DEF RunFields
<1>5. ChatOf[sid] = c /\ (sid = r \/ entry[ChatOf[sid]] = sid)
  BY <1>1, <1>2, <1>3 DEF TurnInv, Homes
<1>6. \A s \in Runs : Clean(s)' <=> Clean(s)
  <2>1. \A q \in unseen : q \in Runs \ {r}
    BY <1>2 DEF TurnInv, Homes
  <2> QED
    BY <1>2, <1>4, <2>1 DEF Clean
<1>7. \A s \in Runs : InUse(s)' => InUse(s)
  <2> SUFFICES ASSUME NEW s \in Runs, InUse(s)' PROVE InUse(s)
    OBVIOUS
  <2>1. CASE run'[s].pc = "idle"
    BY <1>2, <1>4, <2>1 DEF InUse
  <2>2. CASE entry'[ChatOf[s]] = s
    BY <1>2, <2>2 DEF InUse
  <2>3. ASSUME NEW d \in Runs, Active(d)', run'[d].sid = s PROVE InUse(s)
    <3>1. CASE d = r
      BY <1>2, <1>4, <1>5, <2>3, <3>1 DEF InUse
    <3>2. CASE d # r
      BY <1>4, <2>3, <3>2 DEF InUse, Active
    <3> QED
      BY <3>1, <3>2
  <2> QED
    BY <2>1, <2>2, <2>3 DEF InUse
<1>8. Homes'
  <2>1. \A d \in Runs : DOMAIN run'[d] = RunFields /\ ChatOf[run'[d].sid] = ChatOf[d]
    BY <1>1, <1>4, <1>5 DEF TurnInv, Homes
  <2>2. \A d \in Chats : entry'[d] # NoRun => ChatOf[entry'[d]] = d
    BY <1>2 DEF TurnInv, Homes
  <2>3. ASSUME NEW d \in Runs, run'[d].pc = "idle"
        PROVE  /\ run'[d].sid = d
               /\ \A q \in Runs \ {d} : run'[q].sid # d
               /\ \A e \in Chats : entry'[e] # d
    <3>1. run[d].pc = "idle" /\ d # r
      BY <1>3, <1>4, <2>3
    <3>2. sid # d
      <4>1. \A e \in Chats : entry[e] # d
        BY <3>1 DEF TurnInv, Homes
      <4> QED
        BY <1>1, <1>2, <1>3, <3>1, <4>1
    <3> QED
      BY <1>2, <1>4, <3>1, <3>2 DEF TurnInv, Homes
  <2>4. \A q, d \in Runs : Active(q)' /\ Active(d)' /\ ChatOf[q] = ChatOf[d] => q = d
    BY <1>2, <1>4 DEF TurnInv, Homes, Active
  <2>5. \A q \in unseen' : q \in Runs /\ run'[q].pc = "done"
    BY <1>2, <1>4 DEF TurnInv, Homes
  <2> QED
    BY <2>1, <2>2, <2>3, <2>4, <2>5 DEF Homes
<1>9. \A d \in Runs : Accepted(d)' <=> Accepted(d)
  <2>1. ~Accepted(r) /\ ~Accepted(r)'
    BY <1>2, <1>3, <1>4 DEF Accepted
  <2>2. \A d \in Runs \ {r} : Accepted(d)' <=> Accepted(d)
    BY <1>4 DEF Accepted
  <2> QED
    BY <2>1, <2>2
<1>10. ~Accepted(r)
  BY <1>2 DEF Accepted
<1>11. Rests'
  <2> SUFFICES ASSUME NEW p \in Procs, NEW s \in Runs, ~proc[p].dead, InUse(s)', Clean(s)',
                      Alone(p, s)'
               PROVE  Resting(p, s)'
    BY <1>2 DEF Rests, Procs
  <2>1. Alone(p, s)
    BY <1>4, <1>9, <1>10 DEF Alone
  <2>2. Resting(p, s)
    BY <1>6, <1>7, <2>1 DEF TurnInv, Rests
  <2> QED
    BY <1>2, <2>2 DEF Resting
<1>12. Stale'
  <2> SUFFICES ASSUME NEW p \in Procs, NEW call \in server[p].calls, ~proc[p].dead
               PROVE  Unheard(call)'
    BY <1>2 DEF Stale, Procs
  <2>1. Unheard(call) /\ call.run \in Runs /\ run[call.run].sid \in Runs
    BY ServerType, BaseFacts DEF TurnInv, Stale, Base, IInv, Held
  <2> QED
    BY <1>3, <1>4, <1>6, <2>1 DEF Unheard
<1>13. Stands(r)' /\ ReadyRun(r)' /\ OwnRun(r)' /\ OwnRunAnswer(r)'
  <2>1. Stands(r)'
    BY <1>2, <1>3, <1>4 DEF Stands
  <2>2. ReadyRun(r)' /\ OwnRun(r)'
    BY <1>3, <1>4, <1>9, <1>10 DEF ReadyRun, OwnRun
  <2>3. run[r].status = "none"
    BY <1>2 DEF Stands
  <2>4. OwnRunAnswer(r)'
    BY <1>4, <2>3 DEF OwnRunAnswer
  <2> QED
    BY <2>1, <2>2, <2>4
<1>14. ASSUME NEW d \in Runs \ {r}
       PROVE  Stands(d)' /\ ReadyRun(d)' /\ OwnRun(d)' /\ OwnRunAnswer(d)'
  <2>1. run'[d] = run[d] /\ (Accepted(d)' <=> Accepted(d)) /\ run[d].sid \in Runs
    BY <1>4, <1>9, BaseFacts
  <2>2. Stands(d) /\ ReadyRun(d) /\ OwnRun(d) /\ OwnRunAnswer(d)
    BY DEF TurnInv
  <2>3. PICK s : s = run[d].sid
    OBVIOUS
  <2>4. Clean(s)' <=> Clean(s)
    BY <1>6, <2>1, <2>3
  <2>5. Stands(d)'
    BY <1>2, <2>1, <2>2 DEF Stands
  <2>6. ReadyRun(d)'
    BY <1>2, <2>1, <2>2, <2>3, <2>4 DEF ReadyRun, NoStart
  <2>7. OwnRun(d)'
    BY <1>2, <2>1, <2>2, <2>3, <2>4 DEF OwnRun, OwnTurn
  <2>8. OwnRunAnswer(d)'
    BY <2>1, <2>2, <2>3, <2>4 DEF OwnRunAnswer
  <2> QED
    BY <2>5, <2>6, <2>7, <2>8
<1> QED
  BY <1>8, <1>11, <1>12, <1>13, <1>14 DEF TurnInv

LEMMA TurnEventsType ==
  ASSUME NEW r \in Runs
  PROVE  /\ TurnEvents(r) \in Seq(Frame) /\ Len(TurnEvents(r)) = Length(r)
         /\ \A j \in 1 .. Length(r) : Fits(r, Length(r) - j, TurnEvents(r)[j])
<1> DEFINE f(k) == [kind |-> k, run |-> r]
<1>1. f("start") \in Frame /\ f("text") \in Frame /\ f("end") \in Frame
      /\ \A k \in {"start", "text", "end"} : f(k).kind = k /\ f(k).run = r
  BY DEF Frame
<1>2. TurnEvents(r) = IF r \in Nesting
                        THEN <<f("start"), f("start"), f("end"), f("text"), f("end")>>
                        ELSE <<f("start"), f("text"), f("end")>>
  BY DEF TurnEvents
<1> HIDE DEF f
<1>3. CASE r \in Nesting
  <2>1. /\ TurnEvents(r) \in Seq(Frame) /\ Len(TurnEvents(r)) = 5 /\ Length(r) = 5
        /\ TurnEvents(r)[1] = f("start") /\ TurnEvents(r)[2] = f("start")
        /\ TurnEvents(r)[3] = f("end") /\ TurnEvents(r)[4] = f("text")
        /\ TurnEvents(r)[5] = f("end")
    BY <1>1, <1>2, <1>3 DEF Length
  <2>2. KindAt(r, 4) = "start" /\ KindAt(r, 3) = "start" /\ KindAt(r, 2) = "end"
        /\ KindAt(r, 1) = "text" /\ KindAt(r, 0) = "end"
    BY <1>3 DEF KindAt
  <2>3. \A j \in 1 .. 5 : Fits(r, 5 - j, TurnEvents(r)[j])
    <3> SUFFICES ASSUME NEW j \in 1 .. 5 PROVE Fits(r, 5 - j, TurnEvents(r)[j])
      OBVIOUS
    <3>1. 5 - j < Length(r)
      BY <2>1
    <3>2. TurnEvents(r)[j].run = r /\ TurnEvents(r)[j].kind = KindAt(r, 5 - j)
      <4>1. CASE j = 1
        BY <1>1, <2>1, <2>2, <4>1
      <4>2. CASE j = 2
        BY <1>1, <2>1, <2>2, <4>2
      <4>3. CASE j = 3
        BY <1>1, <2>1, <2>2, <4>3
      <4>4. CASE j = 4
        BY <1>1, <2>1, <2>2, <4>4
      <4>5. CASE j = 5
        BY <1>1, <2>1, <2>2, <4>5
      <4> QED
        BY <4>1, <4>2, <4>3, <4>4, <4>5
    <3> QED
      BY <3>1, <3>2 DEF Fits
  <2> QED
    BY <2>1, <2>3
<1>4. CASE r \notin Nesting
  <2>1. /\ TurnEvents(r) \in Seq(Frame) /\ Len(TurnEvents(r)) = 3 /\ Length(r) = 3
        /\ TurnEvents(r)[1] = f("start") /\ TurnEvents(r)[2] = f("text")
        /\ TurnEvents(r)[3] = f("end")
    BY <1>1, <1>2, <1>4 DEF Length
  <2>2. KindAt(r, 2) = "start" /\ KindAt(r, 1) = "text" /\ KindAt(r, 0) = "end"
    BY <1>4 DEF KindAt
  <2>3. \A j \in 1 .. 3 : Fits(r, 3 - j, TurnEvents(r)[j])
    <3> SUFFICES ASSUME NEW j \in 1 .. 3 PROVE Fits(r, 3 - j, TurnEvents(r)[j])
      OBVIOUS
    <3>1. 3 - j < Length(r)
      BY <2>1
    <3>2. TurnEvents(r)[j].run = r /\ TurnEvents(r)[j].kind = KindAt(r, 3 - j)
      <4>1. CASE j = 1
        BY <1>1, <2>1, <2>2, <4>1
      <4>2. CASE j = 2
        BY <1>1, <2>1, <2>2, <4>2
      <4>3. CASE j = 3
        BY <1>1, <2>1, <2>2, <4>3
      <4> QED
        BY <4>1, <4>2, <4>3
    <3> QED
      BY <3>1, <3>2 DEF Fits
  <2> QED
    BY <2>1, <2>3
<1> QED
  BY <1>3, <1>4

\* A response: what it leaves of the process, and the answer that it is.
Answers(p, call, v, kind) ==
  LET r == call.run IN
  /\ v \in Server /\ kind \in {"ok", "missing", "failed"}
  /\ server' = [server EXCEPT ![p] = v] /\ v.calls = server[p].calls \ {call}
  /\ run' = IF r \in proc[p].pending THEN [run EXCEPT ![r].reply = kind] ELSE run
  /\ v.turns = IF call.method = "session/prompt" /\ kind = "ok"
                 THEN [server[p].turns EXCEPT ![run[r].sid] = @ \o TurnEvents(r)]
                 ELSE server[p].turns

LEMMA ResponseShape ==
  ASSUME Base, NEW p \in Procs, NEW call \in server[p].calls, Response(p, call)
  PROVE  \E v, kind : Answers(p, call, v, kind)
<1>1. PICK r, s : r = call.run /\ s = run[r].sid
  OBVIOUS
<1> DEFINE t == Take(p, call)
           u == [t EXCEPT !.live = @ \cup {s}]
           w == [t EXCEPT !.turns[s] = @ \o TurnEvents(r)]
<1>2. /\ server[p] \in Server /\ p \in DOMAIN server /\ r \in Runs /\ s \in Runs
  BY <1>1, ServerType, BaseFacts DEF Base, IInv, Held
<1>3. /\ t \in Server /\ t.calls = server[p].calls \ {call} /\ t.turns = server[p].turns
      /\ t.turns[s] \in Seq(Frame)
  BY <1>2 DEF Take, Server
<1>4. u \in Server /\ u.calls = t.calls /\ u.turns = t.turns
  BY <1>2, <1>3 DEF Server
<1>5. w \in Server /\ w.calls = t.calls /\ w.turns = [t.turns EXCEPT ![s] = @ \o TurnEvents(r)]
  <2>1. t.turns[s] \o TurnEvents(r) \in Seq(Frame)
    BY <1>2, <1>3, TurnEventsType, ConcatProperties
  <2> QED
    BY <1>2, <1>3, <2>1 DEF Server
<1> HIDE DEF t, u, w
<1>6. CASE call.method = "session/prompt" /\ server' = [server EXCEPT ![p] = w]
           /\ run' = IF r \in proc[p].pending THEN [run EXCEPT ![r].reply = "ok"] ELSE run
  <2>1. Answers(p, call, w, "ok")
    BY <1>1, <1>3, <1>5, <1>6 DEF Answers
  <2> QED
    BY <2>1
<1>7. CASE server' = [server EXCEPT ![p] = t]
           /\ run' = IF r \in proc[p].pending THEN [run EXCEPT ![r].reply = "failed"] ELSE run
  <2>1. Answers(p, call, t, "failed")
    BY <1>1, <1>3, <1>7 DEF Answers
  <2> QED
    BY <2>1
<1>8. CASE call.method # "session/prompt" /\ server' = [server EXCEPT ![p] = u]
           /\ run' = IF r \in proc[p].pending THEN [run EXCEPT ![r].reply = "ok"] ELSE run
  <2>1. Answers(p, call, u, "ok")
    BY <1>1, <1>3, <1>4, <1>8 DEF Answers
  <2> QED
    BY <2>1
<1>9. CASE call.method # "session/prompt" /\ server' = [server EXCEPT ![p] = t]
           /\ run' = IF r \in proc[p].pending THEN [run EXCEPT ![r].reply = "missing"] ELSE run
  <2>1. Answers(p, call, t, "missing")
    BY <1>1, <1>3, <1>9 DEF Answers
  <2> QED
    BY <2>1
<1> QED
  BY <1>1, <1>6, <1>7, <1>8, <1>9 DEF Response, t, u, w

\* What is known of a call when its response is read.
LEMMA ResponseFields ==
  ASSUME Base, TurnInv, NEW p \in Procs, ~proc[p].dead, NEW call \in server[p].calls,
         Response(p, call), NEW r, r = call.run, NEW s, s = run[r].sid
  PROVE  /\ r \in Runs /\ s \in Runs /\ Procs' = Procs
         /\ \A q \in Procs : /\ proc'[q].dead = proc[q].dead /\ proc'[q].inflight = proc[q].inflight
                             /\ proc'[q].known = proc[q].known /\ proc'[q].subs = proc[q].subs
                             /\ \A d \in Runs \ {r} :
                                  d \in proc[q].pending => d \in proc'[q].pending
                             /\ q # p => proc'[q].pending = proc[q].pending
         /\ \A q \in Procs \ {p} : server'[q] = server[q]
         /\ r \in proc[p].pending => /\ run[r].pc = "await" /\ run[r].proc = p
                                     /\ run[r].method = call.method /\ run[r].reply = "none"
         /\ r \notin proc[p].pending => run[r].pc = "done"
         /\ call.method = "session/prompt" /\ r \notin proc[p].pending => ~Clean(s)
<1> DEFINE x == [proc[p] EXCEPT !.pending = @ \ {r}]
<1>1. /\ server[p] \in Server /\ p \in DOMAIN server /\ r \in Runs /\ s \in Runs
      /\ proc[p] \in Proc /\ proc \in Seq(Proc) /\ Stands(r) /\ Typed /\ Served
  BY ServerType, BaseFacts DEF Base, IInv, Held, TurnInv
<1>2. /\ x \in Proc /\ x.dead = proc[p].dead /\ x.known = proc[p].known
      /\ x.inflight = proc[p].inflight /\ x.subs = proc[p].subs
      /\ x.pending = proc[p].pending \ {r}
  BY <1>1 DEF Proc
<1>3. proc' = [proc EXCEPT ![p] = x]
  BY DEF Response
<1> HIDE DEF x
<1>4. Procs' = Procs /\ proc'[p] = x /\ \A q \in Procs \ {p} : proc'[q] = proc[q]
  BY <1>1, <1>2, <1>3, SetProc
<1>5. \A q \in Procs \ {p} : server'[q] = server[q]
  <2>1. PICK v \in Server : server' = [server EXCEPT ![p] = v]
    BY ResponseShape DEF Answers
  <2> QED
    BY <1>1, <2>1, SetServer
<1>6. run[r].pc # "done" => /\ run[r].pc = "await" /\ run[r].proc = p
                            /\ run[r].method = call.method /\ run[r].reply \in {"none", "dead"}
  BY DEF Base, Held, Outstanding
<1>7. ASSUME run[r].pc # "done"
      PROVE  run[r].reply = "none" /\ r \in proc[p].pending
  BY <1>1, <1>6, <1>7 DEF Stands
<1>8. r \in proc[p].pending => run[r].pc # "done"
  BY DEF Base, IInv, NothingLeftBehind
<1>9. call.method = "session/prompt" /\ run[r].pc = "done" => ~Clean(s)
  BY DEF TurnInv, Stale, Unheard
<1>10. \A q \in Procs : /\ proc'[q].dead = proc[q].dead /\ proc'[q].inflight = proc[q].inflight
                        /\ proc'[q].known = proc[q].known /\ proc'[q].subs = proc[q].subs
                        /\ \A d \in Runs \ {r} :
                             d \in proc[q].pending => d \in proc'[q].pending
                        /\ q # p => proc'[q].pending = proc[q].pending
  BY <1>2, <1>4
<1> QED
  BY <1>1, <1>4, <1>5, <1>6, <1>7, <1>8, <1>9, <1>10

\* Any response but the one to a prompt that was taken.
LEMMA AnswerKeepsTurns ==
  ASSUME Base, TurnInv, NEW p \in Procs, ~proc[p].dead, NEW call \in server[p].calls,
         Response(p, call), UNCHANGED <<entry, unseen>>,
         NEW v, NEW kind, Answers(p, call, v, kind),
         ~(call.method = "session/prompt" /\ kind = "ok")
  PROVE  TurnInv'
<1>1. PICK r, s : r = call.run /\ s = run[r].sid
  OBVIOUS
<1>2. /\ v \in Server /\ kind \in {"ok", "missing", "failed"} /\ v.turns = server[p].turns
      /\ server' = [server EXCEPT ![p] = v] /\ v.calls = server[p].calls \ {call}
      /\ run' = IF r \in proc[p].pending THEN [run EXCEPT ![r].reply = kind] ELSE run
  BY <1>1 DEF Answers
<1> USE <1>2
<1>3. /\ r \in Runs /\ s \in Runs /\ Procs' = Procs
      /\ \A q \in Procs : /\ proc'[q].dead = proc[q].dead /\ proc'[q].inflight = proc[q].inflight
                          /\ proc'[q].known = proc[q].known /\ proc'[q].subs = proc[q].subs
                          /\ \A d \in Runs \ {r} :
                               d \in proc[q].pending => d \in proc'[q].pending
                          /\ q # p => proc'[q].pending = proc[q].pending
      /\ \A q \in Procs \ {p} : server'[q] = server[q]
      /\ r \in proc[p].pending => /\ run[r].pc = "await" /\ run[r].proc = p
                                  /\ run[r].method = call.method /\ run[r].reply = "none"
      /\ r \notin proc[p].pending => run[r].pc = "done"
  BY <1>1, ResponseFields
<1>4. server'[p] = v /\ DOMAIN run = Runs /\ \A d \in Runs : DOMAIN run[d] = RunFields
  BY SetServer, BaseFacts DEF Base, IInv, Held, TurnInv, Homes
<1>5. \A q \in Procs : server'[q].turns = server[q].turns
                       /\ server'[q].calls \subseteq server[q].calls
  BY <1>3, <1>4
<1>6. \A d \in Runs :
       /\ DOMAIN run'[d] = DOMAIN run[d] /\ run'[d].pc = run[d].pc /\ run'[d].sid = run[d].sid
       /\ run'[d].proc = run[d].proc /\ run'[d].method = run[d].method
       /\ run'[d].queue = run[d].queue /\ run'[d].depth = run[d].depth
       /\ run'[d].saw = run[d].saw /\ run'[d].from = run[d].from
       /\ run'[d].status = run[d].status
       /\ run'[d].reply = IF d = r /\ r \in proc[p].pending THEN kind ELSE run[d].reply
  BY <1>3, <1>4 DEF RunFields
<1>7. r \in proc[p].pending =>
        /\ run[r].pc = "await" /\ run'[r].reply \notin {"none", "dead"}
        /\ ~Accepted(r) /\ ~Accepted(r)'
  BY <1>3, <1>6 DEF Accepted
<1>8. \A q \in Procs : \A d \in Runs : Active(d) =>
            /\ d \in proc[q].subs => d \in proc'[q].subs
            /\ d \in proc[q].pending =>
                 d \in proc'[q].pending \/ proc'[q].dead \/ run'[d].reply # "none"
  <2> SUFFICES ASSUME NEW q \in Procs, NEW d \in Runs, d \in proc[q].pending
               PROVE  d \in proc'[q].pending \/ run'[d].reply # "none"
    BY <1>3
  <2>1. CASE d = r /\ q = p
    BY <1>7, <2>1
  <2>2. CASE d # r \/ q # p
    BY <1>3, <2>2
  <2> QED
    BY <2>1, <2>2
<1>9. \A d \in Runs : \/ run'[d].reply = run[d].reply
                      \/ /\ run[d].pc = "await" /\ run'[d].reply \notin {"none", "dead"}
                         /\ ~Accepted(d) /\ ~Accepted(d)'
  BY <1>6, <1>7
<1>10. Shifts
  BY <1>3, <1>5, <1>6, <1>8, <1>9 DEF Shifts
<1> QED
  BY <1>10, ShiftsKeep

\* The turn of a run that waits for it, in a session at rest.
LEMMA TurnBegins ==
  ASSUME NEW r \in Runs, NEW q \in Seq(Frame), NEW t \in Seq(Frame),
         Len(q) + Len(t) <= 2, NoStart(q), NoStart(t), NEW u, u = t \o TurnEvents(r)
  PROVE  /\ u \in Seq(Frame) /\ Len(u) \in Length(r) .. Length(r) + 2
         /\ Len(q) + Len(u) \in Length(r) .. Length(r) + 2
         /\ \A i \in 1 .. Len(u) : Fits(r, Len(u) - i, u[i])
         /\ \A i \in 1 .. Len(q) : Fits(r, Len(q) + Len(u) - i, q[i])
         /\ ~Marked(r, Len(u))
<1> DEFINE e == TurnEvents(r)
           l == Length(r)
<1>1. /\ e \in Seq(Frame) /\ Len(e) = l /\ l \in {3, 5} /\ (r \in Nesting <=> l = 5)
      /\ \A j \in 1 .. l : Fits(r, l - j, e[j])
      /\ Len(q) \in Nat /\ Len(t) \in Nat
  BY TurnEventsType, LengthIs, LenProperties
<1> HIDE DEF e
<1>2. /\ u \in Seq(Frame) /\ Len(u) = Len(t) + l
      /\ \A i \in 1 .. Len(u) : u[i] = IF i <= Len(t) THEN t[i] ELSE e[i - Len(t)]
  BY <1>1, ConcatProperties DEF e
<1>3. \A k \in Nat : \A f : k >= l /\ f.kind # "start" => Fits(r, k, f)
  BY <1>1 DEF Fits
<1> HIDE DEF l
<1>4. ASSUME NEW i \in 1 .. Len(u) PROVE Fits(r, Len(u) - i, u[i])
  <2>1. CASE i <= Len(t)
    <3>1. Len(u) - i \in Nat /\ Len(u) - i >= l /\ u[i] = t[i] /\ i \in 1 .. Len(t)
      BY <1>1, <1>2, <2>1
    <3> QED
      BY <1>3, <3>1 DEF NoStart
  <2>2. CASE i > Len(t)
    <3>1. i - Len(t) \in 1 .. l /\ Len(u) - i = l - (i - Len(t)) /\ u[i] = e[i - Len(t)]
      BY <1>1, <1>2, <2>2
    <3> QED
      BY <1>1, <3>1
  <2> QED
    BY <1>1, <2>1, <2>2
<1>5. ASSUME NEW i \in 1 .. Len(q) PROVE Fits(r, Len(q) + Len(u) - i, q[i])
  <2>1. Len(q) + Len(u) - i \in Nat /\ Len(q) + Len(u) - i >= l
    BY <1>1, <1>2
  <2> QED
    BY <1>3, <2>1 DEF NoStart
<1>6. Len(u) \in l .. l + 2 /\ Len(q) + Len(u) \in l .. l + 2
  BY <1>1, <1>2
<1>7. ~Marked(r, Len(u))
  BY <1>1, <1>6 DEF Marked
<1> QED
  BY <1>2, <1>4, <1>5, <1>6, <1>7 DEF l

\* The response to a prompt that was taken.
LEMMA AcceptKeepsTurns ==
  ASSUME Base, TurnInv, NEW p \in Procs, ~proc[p].dead, NEW call \in server[p].calls,
         Response(p, call), UNCHANGED <<entry, unseen>>,
         NEW v, Answers(p, call, v, "ok"), call.method = "session/prompt"
  PROVE  TurnInv'
<1>1. PICK r, s : r = call.run /\ s = run[r].sid
  OBVIOUS
<1>2. /\ v \in Server
      /\ server' = [server EXCEPT ![p] = v] /\ v.calls = server[p].calls \ {call}
      /\ run' = IF r \in proc[p].pending THEN [run EXCEPT ![r].reply = "ok"] ELSE run
      /\ v.turns = [server[p].turns EXCEPT ![s] = @ \o TurnEvents(r)]
  BY <1>1 DEF Answers
<1>3. /\ r \in Runs /\ s \in Runs /\ Procs' = Procs
      /\ \A q \in Procs : /\ proc'[q].dead = proc[q].dead /\ proc'[q].inflight = proc[q].inflight
                          /\ proc'[q].known = proc[q].known /\ proc'[q].subs = proc[q].subs
                          /\ \A d \in Runs \ {r} :
                               d \in proc[q].pending => d \in proc'[q].pending
                          /\ q # p => proc'[q].pending = proc[q].pending
      /\ \A q \in Procs \ {p} : server'[q] = server[q]
      /\ r \in proc[p].pending => /\ run[r].pc = "await" /\ run[r].proc = p
                                  /\ run[r].method = "session/prompt" /\ run[r].reply = "none"
      /\ r \notin proc[p].pending => run[r].pc = "done"
      /\ r \notin proc[p].pending => ~Clean(s)
  <2>1. /\ r \in Runs /\ s \in Runs /\ Procs' = Procs
        /\ \A q \in Procs : /\ proc'[q].dead = proc[q].dead
                            /\ proc'[q].inflight = proc[q].inflight
                            /\ proc'[q].known = proc[q].known /\ proc'[q].subs = proc[q].subs
                            /\ \A d \in Runs \ {r} :
                                 d \in proc[q].pending => d \in proc'[q].pending
                            /\ q # p => proc'[q].pending = proc[q].pending
        /\ \A q \in Procs \ {p} : server'[q] = server[q]
    BY <1>1, ResponseFields
  <2>2. /\ r \in proc[p].pending => /\ run[r].pc = "await" /\ run[r].proc = p
                                    /\ run[r].method = call.method /\ run[r].reply = "none"
        /\ r \notin proc[p].pending => run[r].pc = "done"
        /\ call.method = "session/prompt" /\ r \notin proc[p].pending => ~Clean(s)
    BY <1>1, ResponseFields
  <2> QED
    BY <2>1, <2>2
<1> USE <1>2
<1>4. /\ server'[p] = v /\ DOMAIN run = Runs /\ \A d \in Runs : DOMAIN run[d] = RunFields
      /\ server[p] \in Server
      /\ \A d \in Runs : run[d].sid \in Runs /\ (run[d].pc \in Placed => run[d].proc \in Procs)
  BY SetServer, BaseFacts DEF Base, IInv, Held, TurnInv, Homes
<1>5. PICK t : t = server[p].turns[s]
  OBVIOUS
<1>6. /\ t \in Seq(Frame) /\ v.turns[s] = t \o TurnEvents(r)
      /\ \A u \in Runs \ {s} : v.turns[u] = server[p].turns[u]
  BY <1>3, <1>4, <1>5 DEF Server
<1>7. \A q \in Procs, u \in Runs : q # p \/ u # s => server'[q].turns[u] = server[q].turns[u]
  <2> SUFFICES ASSUME NEW q \in Procs, NEW u \in Runs, q # p \/ u # s
               PROVE  server'[q].turns[u] = server[q].turns[u]
    OBVIOUS
  <2>1. CASE q # p
    BY <1>3, <2>1
  <2>2. CASE q = p
    BY <1>4, <1>6, <2>2
  <2> QED
    BY <2>1, <2>2
<1>8. \A d \in Runs :
       /\ DOMAIN run'[d] = DOMAIN run[d] /\ run'[d].pc = run[d].pc /\ run'[d].sid = run[d].sid
       /\ run'[d].proc = run[d].proc /\ run'[d].method = run[d].method
       /\ run'[d].queue = run[d].queue /\ run'[d].depth = run[d].depth
       /\ run'[d].saw = run[d].saw /\ run'[d].from = run[d].from
       /\ run'[d].status = run[d].status
       /\ run'[d].reply = IF d = r /\ r \in proc[p].pending THEN "ok" ELSE run[d].reply
  <2>1. CASE r \in proc[p].pending
    <3>1. run' = [run EXCEPT ![r].reply = "ok"]
      BY <2>1
    <3> QED
      BY <1>3, <1>4, <2>1, <3>1 DEF RunFields
  <2>2. CASE r \notin proc[p].pending
    BY <2>2
  <2> QED
    BY <2>1, <2>2
<1>9. /\ \A d \in Runs \ {r} : Accepted(d)' <=> Accepted(d)
      /\ r \in proc[p].pending => ~Accepted(r) /\ Accepted(r)'
      /\ r \notin proc[p].pending => ~Accepted(r) /\ ~Accepted(r)'
  BY <1>3, <1>8 DEF Accepted
<1>10. \A u \in Runs : Clean(u)' <=> Clean(u)
  <2>1. \A q \in unseen : q \in Runs
    BY DEF TurnInv, Homes
  <2> QED
    BY <1>8, <2>1 DEF Clean
<1>11. \A u \in Runs : InUse(u)' <=> InUse(u)
  BY <1>8 DEF InUse, Active
<1>12. Homes'
  BY <1>8 DEF TurnInv, Homes, Active
<1>13. Rests'
  <2> SUFFICES ASSUME NEW q \in Procs, NEW u \in Runs, ~proc'[q].dead, InUse(u)', Clean(u)',
                      Alone(q, u)'
               PROVE  Resting(q, u)'
    BY <1>3 DEF Rests
  <2>1. ASSUME q = p, u = s PROVE FALSE
    <3>1. r \in proc[p].pending
      BY <1>3, <1>10, <2>1
    <3>2. Accepted(r)' /\ run'[r].sid = s /\ run'[r].proc = p
      BY <1>1, <1>3, <1>8, <1>9, <3>1
    <3> QED
      BY <1>3, <2>1, <3>2 DEF Alone
  <2>2. Alone(q, u)
    BY <1>8, <1>9 DEF Alone
  <2>3. Resting(q, u)
    BY <1>3, <1>10, <1>11, <2>2 DEF TurnInv, Rests
  <2> QED
    BY <1>3, <1>7, <2>1, <2>3 DEF Resting
<1>14. Stale'
  <2> SUFFICES ASSUME NEW q \in Procs, NEW c \in server'[q].calls, ~proc'[q].dead
               PROVE  Unheard(c)'
    BY <1>3 DEF Stale
  <2>1. c \in server[q].calls
    BY <1>3, <1>4
  <2>2. Unheard(c) /\ c.run \in Runs
    BY <1>3, <2>1, ServerType DEF TurnInv, Stale, Base, IInv, Held
  <2> QED
    BY <1>4, <1>8, <1>10, <2>2 DEF Unheard
<1>15. ASSUME NEW d \in Runs, d # r
       PROVE  Stands(d)' /\ ReadyRun(d)' /\ OwnRun(d)' /\ OwnRunAnswer(d)'
  <2>1. PICK q, u : q = run[d].proc /\ u = run[d].sid
    OBVIOUS
  <2>2. Stands(d) /\ ReadyRun(d) /\ OwnRun(d) /\ OwnRunAnswer(d) /\ u \in Runs
    BY <1>4, <2>1 DEF TurnInv
  <2>3. /\ run'[d].proc = q /\ run'[d].sid = u /\ run'[d].pc = run[d].pc
        /\ run'[d].queue = run[d].queue /\ run'[d].depth = run[d].depth
        /\ run'[d].saw = run[d].saw /\ run'[d].from = run[d].from
        /\ run'[d].status = run[d].status /\ run'[d].reply = run[d].reply
    BY <1>8, <2>1, <1>15
  <2>4. run[d].pc \in {"hot", "cold", "await", "collect"} =>
          /\ q \in Procs
          /\ Clean(u)' => Clean(u) /\ server'[q].turns[u] = server[q].turns[u]
    <3> SUFFICES ASSUME run[d].pc \in {"hot", "cold", "await", "collect"}
                 PROVE  /\ q \in Procs
                        /\ Clean(u)' => Clean(u) /\ server'[q].turns[u] = server[q].turns[u]
      OBVIOUS
    <3>1. q \in Procs /\ Active(d)
      BY <1>4, <2>1 DEF Placed, Active
    <3>2. ASSUME r \in proc[p].pending PROVE u # s
      <4>1. Active(r)
        BY <1>3, <3>2 DEF Active
      <4>2. ChatOf[d] = ChatOf[u] /\ ChatOf[r] = ChatOf[s]
        BY <1>1, <1>3, <2>1 DEF TurnInv, Homes
      <4> QED
        BY <1>3, <1>15, <3>1, <4>1, <4>2 DEF TurnInv, Homes
    <3>3. Clean(u) => server'[q].turns[u] = server[q].turns[u]
      BY <1>3, <1>7, <2>2, <3>1, <3>2
    <3> QED
      BY <1>10, <2>2, <3>1, <3>3
  <2>5. Stands(d)'
    <3>1. CASE run[d].pc \in {"await", "collect"}
      <4>1. /\ proc'[q].dead = proc[q].dead /\ proc'[q].known = proc[q].known
            /\ proc'[q].subs = proc[q].subs /\ (d \in proc[q].pending => d \in proc'[q].pending)
        BY <1>3, <1>15, <2>4, <3>1
      <4> QED
        BY <2>1, <2>2, <2>3, <3>1, <4>1 DEF Stands
    <3>2. CASE run[d].pc \notin {"await", "collect"}
      BY <2>1, <2>2, <2>3, <3>2 DEF Stands
    <3> QED
      BY <3>1, <3>2
  <2>6. ReadyRun(d)'
    <3> SUFFICES ASSUME run[d].pc \in {"hot", "cold", "await"}, ~Accepted(d)', ~proc'[q].dead,
                        Clean(u)'
                 PROVE  /\ u \notin proc'[q].inflight
                        /\ Len(run[d].queue) + Len(server'[q].turns[u]) <= 2
                        /\ NoStart(run[d].queue)
      BY <2>3 DEF ReadyRun, NoStart
    <3>1. ~Accepted(d) /\ ~proc[q].dead /\ Clean(u) /\ q \in Procs
      BY <1>3, <1>9, <1>15, <2>4
    <3>2. /\ u \notin proc[q].inflight
          /\ Len(run[d].queue) + Len(server[q].turns[u]) <= 2 /\ NoStart(run[d].queue)
      BY <2>1, <2>2, <3>1 DEF ReadyRun
    <3> QED
      BY <1>3, <2>4, <3>1, <3>2
  <2>7. OwnRun(d)'
    <3> SUFFICES ASSUME Accepted(d)', Clean(u)' PROVE OwnTurn(d)'
      BY <2>3 DEF OwnRun
    <3>1. run[d].pc \in {"await", "collect"}
      BY <2>3 DEF Accepted
    <3>2. OwnTurn(d)
      BY <1>9, <1>15, <2>1, <2>2, <2>4, <3>1 DEF OwnRun
    <3>3. /\ server'[q].turns[u] = server[q].turns[u]
          /\ proc'[q].dead = proc[q].dead /\ proc'[q].inflight = proc[q].inflight
      BY <1>3, <2>4, <3>1
    <3> QED
      BY <2>1, <2>3, <3>2, <3>3, ZenonT(30) DEF OwnTurn
  <2>8. OwnRunAnswer(d)'
    BY <1>10, <2>1, <2>2, <2>3 DEF OwnRunAnswer
  <2> QED
    BY <2>5, <2>6, <2>7, <2>8
<1>16. Stands(r)' /\ ReadyRun(r)' /\ OwnRun(r)' /\ OwnRunAnswer(r)'
  <2>1. Stands(r) /\ ReadyRun(r) /\ OwnRunAnswer(r)
    BY <1>3 DEF TurnInv
  <2>2. OwnRunAnswer(r)'
    BY <1>1, <1>3, <1>8, <1>10, <2>1 DEF OwnRunAnswer
  <2>3. CASE r \notin proc[p].pending
    <3>1. Stands(r)'
      BY <1>3, <1>8, <2>1, <2>3 DEF Stands
    <3>2. ReadyRun(r)' /\ OwnRun(r)'
      BY <1>3, <1>8, <1>9, <2>3 DEF ReadyRun, OwnRun
    <3> QED
      BY <2>2, <3>1, <3>2
  <2>4. CASE r \in proc[p].pending
    <3>1. /\ run[r].pc = "await" /\ run[r].proc = p /\ ~Accepted(r) /\ Active(r) /\ run[r].sid = s
      BY <1>1, <1>3, <1>9, <2>4 DEF Active
    <3>2. PICK q : q = run[r].queue
      OBVIOUS
    <3>3. /\ q \in Seq(Frame) /\ ~run[r].saw /\ run[r].from = {}
      BY <2>1, <3>1, <3>2 DEF Stands
    <3>4. Stands(r)'
      BY <1>3, <1>8, <2>1, <2>4, <3>1 DEF Stands
    <3>5. ReadyRun(r)'
      BY <1>9, <2>4 DEF ReadyRun
    <3>6. OwnRun(r)'
      <4> SUFFICES ASSUME Clean(s)' PROVE OwnTurn(r)'
        BY <1>8, <3>1 DEF OwnRun
      <4>1. Clean(s)
        BY <1>3, <1>10
      <4>2. s \notin proc[p].inflight /\ Len(q) + Len(t) <= 2 /\ NoStart(q)
        BY <1>5, <2>1, <3>1, <3>2, <4>1 DEF ReadyRun
      <4>3. Alone(p, s) /\ InUse(s)
        BY <3>1, <1>3, AloneInSession DEF TurnInv
      <4>4. Resting(p, s)
        BY <1>3, <4>1, <4>3 DEF TurnInv, Rests
      <4>5. NoStart(t)
        BY <1>5, <4>2, <4>4 DEF Resting
      <4>6. PICK u : u = t \o TurnEvents(r)
        OBVIOUS
      <4>7. /\ u \in Seq(Frame) /\ Len(u) \in Length(r) .. Length(r) + 2
            /\ Len(q) + Len(u) \in Length(r) .. Length(r) + 2
            /\ \A i \in 1 .. Len(u) : Fits(r, Len(u) - i, u[i])
            /\ \A i \in 1 .. Len(q) : Fits(r, Len(q) + Len(u) - i, q[i])
            /\ ~Marked(r, Len(u))
        BY <1>3, <1>6, <3>3, <4>2, <4>5, <4>6, TurnBegins
      <4>8. /\ run'[r].proc = p /\ run'[r].sid = s /\ run'[r].queue = q
            /\ server'[p].turns[s] = u /\ ~run'[r].saw /\ run'[r].from = {}
            /\ s \notin proc'[p].inflight
        BY <1>3, <1>4, <1>6, <1>8, <3>1, <3>2, <3>3, <4>2, <4>6
      <4>9. /\ Len(q) + Len(u) \in 1 .. Length(r) + 2
            /\ ~(Len(q) + Len(u) < Length(r))
        BY <4>7, LengthIs
      <4>10. Len(q) + Len(u) >= Length(r)
        BY <4>7, LengthIs
      <4>11. OwnTurn(r)' <=>
               LET n == Len(q) + Len(u) IN
               /\ n \in 1 .. Length(r) + 2
               /\ \A i \in 1 .. Len(u) : Fits(r, Len(u) - i, u[i])
               /\ \A i \in 1 .. Len(q) : Fits(r, n - i, q[i])
               /\ n >= Length(r) => ~run'[r].saw /\ run'[r].from = {}
               /\ n < Length(r) => /\ run'[r].saw /\ run'[r].from = IF n = 1 THEN {r} ELSE {}
                                   /\ run'[r].depth = IF r \in Nesting /\ n = 3 THEN 2 ELSE 1
               /\ ~proc'[p].dead => (s \in proc'[p].inflight <=> Marked(r, Len(u)))
        BY <4>8 DEF OwnTurn
      <4> QED
        BY <4>7, <4>8, <4>9, <4>10, <4>11
    <3> QED
      BY <2>2, <3>4, <3>5, <3>6
  <2> QED
    BY <2>3, <2>4
<1> QED
  BY <1>12, <1>13, <1>14, <1>15, <1>16 DEF TurnInv

LEMMA ResponseKeepsTurns ==
  ASSUME Base, TurnInv, NEW p \in Procs, ~proc[p].dead, NEW call \in server[p].calls,
         Response(p, call), UNCHANGED <<entry, unseen>>
  PROVE  TurnInv'
<1>1. PICK v, kind : Answers(p, call, v, kind)
  BY ResponseShape
<1>2. CASE call.method = "session/prompt" /\ kind = "ok"
  BY <1>1, <1>2, AcceptKeepsTurns
<1>3. CASE ~(call.method = "session/prompt" /\ kind = "ok")
  BY <1>1, <1>3, AnswerKeepsTurns
<1> QED
  BY <1>2, <1>3

\* The mark follows the events.
LEMMA MarkStep ==
  ASSUME NEW q, NEW k \in Nat, NEW f, f.kind \in {"start", "text", "end"}, Fits(q, k, f)
  PROVE  /\ f.kind = "start" => Marked(q, k)
         /\ f.kind = "end" => ~Marked(q, k)
         /\ f.kind = "text" => (Marked(q, k) <=> Marked(q, k + 1))
<1>1. CASE k >= Length(q)
  <2>1. f.kind # "start" /\ ~Marked(q, k) /\ ~Marked(q, k + 1)
    BY <1>1, LengthIs DEF Fits, Marked
  <2> QED
    BY <2>1
<1>2. CASE k < Length(q)
  <2>1. f.kind = KindAt(q, k)
    BY <1>2 DEF Fits
  <2>2. CASE q \in Nesting
    <3>1. k \in 0 .. 4
      BY <1>2, <2>2, LengthIs
    <3> QED
      BY <2>1, <2>2, <3>1 DEF KindAt, Marked
  <2>3. CASE q \notin Nesting
    <3>1. k \in 0 .. 2
      BY <1>2, <2>3, LengthIs
    <3> QED
      BY <2>1, <2>3, <3>1 DEF KindAt, Marked
  <2> QED
    BY <2>2, <2>3
<1> QED
  BY <1>1, <1>2, LengthIs

LEMMA MarkedIs ==
  ASSUME NEW q, NEW k
  PROVE  /\ q \in Nesting => (Marked(q, k) <=> k \in {3, 4})
         /\ q \notin Nesting => (Marked(q, k) <=> k \in {1, 2})
<1>1. CASE q \in Nesting
  BY <1>1, Zenon DEF Marked
<1>2. CASE q \notin Nesting
  BY <1>2, Zenon DEF Marked
<1> QED
  BY <1>1, <1>2

\* When the mark goes, little is left.
LEMMA MarkEnds ==
  ASSUME NEW q, NEW t \in Seq(Frame), Marked(q, Len(t) + 1), ~Marked(q, Len(t)),
         \A i \in 1 .. Len(t) : Fits(q, Len(t) - i, t[i])
  PROVE  Len(t) <= 2 /\ NoStart(t)
<1>1. Len(t) \in Nat
  BY LenProperties
<1>2. \/ q \in Nesting /\ Len(t) = 2
      \/ q \notin Nesting /\ Len(t) = 0
  <2>1. PICK m : m = Len(t) /\ m \in Nat
    BY <1>1
  <2>2. PICK n : n = m + 1
    OBVIOUS
  <2>3. Marked(q, n) /\ ~Marked(q, m)
    BY <2>1, <2>2
  <2>4. CASE q \in Nesting
    <3>1. n \in {3, 4} /\ m \notin {3, 4}
      BY <2>4, <2>3, MarkedIs, Zenon
    <3> QED
      BY <2>1, <2>4, <2>2, <3>1
  <2>5. CASE q \notin Nesting
    <3>1. n \in {1, 2} /\ m \notin {1, 2}
      BY <2>5, <2>3, MarkedIs, Zenon
    <3> QED
      BY <2>1, <2>5, <2>2, <3>1
  <2> QED
    BY <2>4, <2>5
<1>3. ASSUME NEW i \in 1 .. Len(t) PROVE t[i].kind # "start"
  <2>1. q \in Nesting /\ Len(t) = 2 /\ Len(t) - i \in {0, 1}
    BY <1>1, <1>2
  <2>2. t[i].kind = KindAt(q, Len(t) - i)
    BY <2>1, LengthIs DEF Fits
  <2> QED
    BY <2>1, <2>2 DEF KindAt
<1> QED
  BY <1>2, <1>3 DEF NoStart

\* One event of a session, and what is left of it.
LEMMA TurnStep ==
  ASSUME NEW t \in Seq(Frame), t # <<>>, NEW f, f = Head(t), NEW u, u = Tail(t)
  PROVE  /\ u \in Seq(Frame) /\ Len(t) = Len(u) + 1 /\ Len(u) \in Nat /\ f \in Frame
         /\ f.kind \in {"start", "text", "end"}
         /\ NoStart(t) => f.kind # "start" /\ NoStart(u)
         /\ \A q : (\A i \in 1 .. Len(t) : Fits(q, Len(t) - i, t[i])) =>
              /\ Fits(q, Len(u), f)
              /\ \A i \in 1 .. Len(u) : Fits(q, Len(u) - i, u[i])
<1>1. /\ Len(t) \in Nat \ {0} /\ f = t[1] /\ u \in Seq(Frame) /\ Len(u) = Len(t) - 1
      /\ \A i \in 1 .. Len(u) : u[i] = t[i + 1]
  BY TailIs
<1>2. f \in Frame
  BY <1>1
<1>3. f.kind \in {"start", "text", "end"}
  BY <1>2 DEF Frame
<1>4. \A i \in 1 .. Len(u) : i + 1 \in 1 .. Len(t) /\ Len(t) - (i + 1) = Len(u) - i
  BY <1>1
<1>5. 1 \in 1 .. Len(t) /\ Len(t) - 1 = Len(u) /\ Len(t) = Len(u) + 1 /\ Len(u) \in Nat
  BY <1>1
<1>6. NoStart(t) => f.kind # "start" /\ NoStart(u)
  BY <1>1, <1>4, <1>5 DEF NoStart
<1>7. ASSUME NEW q, \A i \in 1 .. Len(t) : Fits(q, Len(t) - i, t[i])
      PROVE  /\ Fits(q, Len(u), f)
             /\ \A i \in 1 .. Len(u) : Fits(q, Len(u) - i, u[i])
  <2>1. Fits(q, Len(u), f)
    BY <1>1, <1>5, <1>7
  <2>2. ASSUME NEW i \in 1 .. Len(u) PROVE Fits(q, Len(u) - i, u[i])
    BY <1>1, <1>4, <1>7
  <2> QED
    BY <2>1, <2>2
<1> QED
  BY <1>1, <1>2, <1>3, <1>5, <1>6, <1>7

\* What a session owes, the next event and the rest.
Owes(p, s, t, f, u) == t = server[p].turns[s] /\ f = Head(t) /\ u = Tail(t)

\* What an event changes.
LEMMA EventFields ==
  ASSUME Base, TurnInv, NEW p \in Procs, NEW s \in Runs, Event(p, s),
         NEW t, NEW f, NEW u, Owes(p, s, t, f, u)
  PROVE  /\ t \in Seq(Frame) /\ t # <<>> /\ f.kind \in {"start", "text", "end"} /\ Procs' = Procs
         /\ \A q \in Procs : /\ proc'[q].dead = proc[q].dead /\ proc'[q].known = proc[q].known
                             /\ proc'[q].subs = proc[q].subs /\ proc'[q].pending = proc[q].pending
                             /\ q # p => proc'[q].inflight = proc[q].inflight
                             /\ server'[q].calls = server[q].calls
                             /\ \A y \in Runs : q # p \/ y # s =>
                                  /\ server'[q].turns[y] = server[q].turns[y]
                                  /\ y \in proc'[q].inflight <=> y \in proc[q].inflight
         /\ f.kind = "start" => s \in proc'[p].inflight
         /\ f.kind = "end" => s \notin proc'[p].inflight
         /\ f.kind = "text" => (s \in proc'[p].inflight <=> s \in proc[p].inflight)
         /\ server'[p].turns[s] = u
         /\ \A d \in Runs :
              /\ DOMAIN run'[d] = DOMAIN run[d] /\ run'[d].pc = run[d].pc
              /\ run'[d].sid = run[d].sid /\ run'[d].proc = run[d].proc
              /\ run'[d].method = run[d].method /\ run'[d].reply = run[d].reply
              /\ run'[d].depth = run[d].depth /\ run'[d].saw = run[d].saw
              /\ run'[d].from = run[d].from /\ run'[d].status = run[d].status
              /\ run'[d].queue = IF d \in Subscribers(p, s) /\ Len(run[d].queue) < Cap
                                   THEN Append(run[d].queue, f) ELSE run[d].queue
<1> DEFINE v == [server[p] EXCEPT !.turns[s] = u]
           x == [proc[p] EXCEPT !.inflight = Inflight(p, s, f.kind)]
<1>1. t = server[p].turns[s] /\ f = Head(t) /\ u = Tail(t)
  BY DEF Owes
<1> USE <1>1
<1>2. /\ DOMAIN run = Runs /\ \A d \in Runs : DOMAIN run[d] = RunFields
      /\ proc[p] \in Proc /\ proc \in Seq(Proc) /\ Typed /\ Served
      /\ server[p] \in Server /\ p \in DOMAIN server
  BY BaseFacts, ServerType DEF Base, IInv, Held, TurnInv, Homes
<1>3. t \in Seq(Frame) /\ t # <<>> /\ server[p].turns \in [Runs -> Seq(Frame)]
  BY <1>2 DEF Server, Event
<1>4. u \in Seq(Frame) /\ f.kind \in {"start", "text", "end"}
  BY <1>3, TurnStep
<1>5. server' = [server EXCEPT ![p] = v]
  BY <1>2 DEF Event
<1>6. /\ v \in Server /\ v.calls = server[p].calls /\ v.turns[s] = u
      /\ \A y \in Runs \ {s} : v.turns[y] = server[p].turns[y]
  BY <1>2, <1>3, <1>4 DEF Server
<1> HIDE DEF v
<1>7. server'[p] = v /\ \A q \in Procs \ {p} : server'[q] = server[q]
  BY <1>2, <1>5, <1>6, SetServer
<1>8. proc' = [proc EXCEPT ![p] = x]
  BY DEF Event
<1>9. /\ x \in Proc /\ x.dead = proc[p].dead /\ x.known = proc[p].known
      /\ x.subs = proc[p].subs /\ x.pending = proc[p].pending
      /\ x.inflight = Inflight(p, s, f.kind)
  <2>1. Inflight(p, s, f.kind) \in SUBSET Runs
    BY <1>2, <1>4 DEF Inflight, Proc
  <2> QED
    BY <1>2, <2>1 DEF Proc
<1> HIDE DEF x
<1>10. Procs' = Procs /\ proc'[p] = x /\ \A q \in Procs \ {p} : proc'[q] = proc[q]
  BY <1>2, <1>8, <1>9, SetProc
<1>11. run' = [d \in Runs |-> IF d \in Subscribers(p, s) /\ Len(run[d].queue) < Cap
                                THEN [run[d] EXCEPT !.queue = Append(@, f)] ELSE run[d]]
  BY DEF Event
<1>12. ASSUME NEW d \in Runs
       PROVE  /\ DOMAIN run'[d] = DOMAIN run[d] /\ run'[d].pc = run[d].pc
              /\ run'[d].sid = run[d].sid /\ run'[d].proc = run[d].proc
              /\ run'[d].method = run[d].method /\ run'[d].reply = run[d].reply
              /\ run'[d].depth = run[d].depth /\ run'[d].saw = run[d].saw
              /\ run'[d].from = run[d].from /\ run'[d].status = run[d].status
              /\ run'[d].queue = IF d \in Subscribers(p, s) /\ Len(run[d].queue) < Cap
                                   THEN Append(run[d].queue, f) ELSE run[d].queue
  <2>1. CASE d \in Subscribers(p, s) /\ Len(run[d].queue) < Cap
    <3>1. run'[d] = [run[d] EXCEPT !.queue = Append(@, f)]
      BY <1>11, <2>1
    <3>2. DOMAIN run[d] = RunFields
      BY <1>2
    <3> QED
      BY <2>1, <3>1, <3>2 DEF RunFields
  <2>2. CASE ~(d \in Subscribers(p, s) /\ Len(run[d].queue) < Cap)
    <3>1. run'[d] = run[d]
      BY <1>11, <2>2
    <3> QED
      BY <2>2, <3>1
  <2> QED
    BY <2>1, <2>2
<1>13. \A y \in Runs : y # s => (y \in proc'[p].inflight <=> y \in proc[p].inflight)
  <2>1. proc'[p].inflight = Inflight(p, s, f.kind)
    BY <1>9, <1>10
  <2> QED
    BY <1>4, <2>1 DEF Inflight
<1>14. /\ f.kind = "start" => s \in proc'[p].inflight
       /\ f.kind = "end" => s \notin proc'[p].inflight
       /\ f.kind = "text" => (s \in proc'[p].inflight <=> s \in proc[p].inflight)
  <2>1. proc'[p].inflight = Inflight(p, s, f.kind)
    BY <1>9, <1>10
  <2> QED
    BY <2>1 DEF Inflight
<1>15. ASSUME NEW q \in Procs
       PROVE  /\ proc'[q].dead = proc[q].dead /\ proc'[q].known = proc[q].known
              /\ proc'[q].subs = proc[q].subs /\ proc'[q].pending = proc[q].pending
              /\ q # p => proc'[q].inflight = proc[q].inflight
              /\ server'[q].calls = server[q].calls
              /\ \A y \in Runs : q # p \/ y # s =>
                   /\ server'[q].turns[y] = server[q].turns[y]
                   /\ y \in proc'[q].inflight <=> y \in proc[q].inflight
  <2>1. CASE q = p
    BY <1>6, <1>7, <1>9, <1>10, <1>13, <2>1
  <2>2. CASE q # p
    BY <1>7, <1>10, <2>2
  <2> QED
    BY <2>1, <2>2
<1> QED
  BY <1>3, <1>4, <1>6, <1>7, <1>10, <1>12, <1>14, <1>15

\* An event of a session at rest.
LEMMA RestMoves ==
  ASSUME Base, TurnInv, NEW p \in Procs, NEW s \in Runs, ~proc[p].dead, Event(p, s), Resting(p, s)
  PROVE  Resting(p, s)'
<1>1. PICK t, f, u : Owes(p, s, t, f, u) /\ t = server[p].turns[s] /\ f = Head(t) /\ u = Tail(t)
  BY DEF Owes
<1>2. /\ t \in Seq(Frame) /\ t # <<>> /\ proc'[p].known = proc[p].known
      /\ server'[p].turns[s] = u
      /\ f.kind = "start" => s \in proc'[p].inflight
      /\ f.kind = "end" => s \notin proc'[p].inflight
      /\ f.kind = "text" => (s \in proc'[p].inflight <=> s \in proc[p].inflight)
  BY <1>1, EventFields
<1>3. /\ Len(t) = Len(u) + 1 /\ Len(u) \in Nat /\ u \in Seq(Frame)
      /\ f.kind \in {"start", "text", "end"}
      /\ NoStart(t) => f.kind # "start" /\ NoStart(u)
      /\ \A q : (\A i \in 1 .. Len(t) : Fits(q, Len(t) - i, t[i])) =>
           /\ Fits(q, Len(u), f)
           /\ \A i \in 1 .. Len(u) : Fits(q, Len(u) - i, u[i])
  BY <1>1, <1>2, TurnStep
<1>4. s \in proc[p].known
  BY <1>1, <1>2 DEF Resting
<1>5. SUFFICES
        /\ s \in proc'[p].inflight =>
             \E q \in Runs : Marked(q, Len(u)) /\ \A i \in 1 .. Len(u) : Fits(q, Len(u) - i, u[i])
        /\ s \notin proc'[p].inflight => Len(u) <= 2 /\ NoStart(u)
  BY <1>2, <1>4 DEF Resting
<1>6. CASE s \in proc[p].inflight
  <2>1. PICK q \in Runs : Marked(q, Len(t)) /\ \A i \in 1 .. Len(t) : Fits(q, Len(t) - i, t[i])
    BY <1>1, <1>6 DEF Resting
  <2>2. Fits(q, Len(u), f) /\ \A i \in 1 .. Len(u) : Fits(q, Len(u) - i, u[i])
    BY <1>3, <2>1
  <2>3. /\ f.kind = "start" => Marked(q, Len(u))
        /\ f.kind = "end" => ~Marked(q, Len(u))
        /\ f.kind = "text" => (Marked(q, Len(u)) <=> Marked(q, Len(u) + 1))
    BY <1>3, <2>2, MarkStep
  <2>4. Marked(q, Len(u) + 1)
    BY <1>3, <2>1
  <2>5. CASE Marked(q, Len(u))
    <3>1. s \in proc'[p].inflight
      BY <1>3, <1>2, <1>6, <2>3, <2>5
    <3> QED
      BY <2>2, <2>5, <3>1
  <2>6. CASE ~Marked(q, Len(u))
    <3>1. s \notin proc'[p].inflight
      BY <1>3, <1>2, <2>3, <2>4, <2>6
    <3>2. Len(u) <= 2 /\ NoStart(u)
      BY <1>3, <2>2, <2>4, <2>6, MarkEnds
    <3> QED
      BY <3>1, <3>2
  <2> QED
    BY <2>5, <2>6
<1>7. CASE s \notin proc[p].inflight
  <2>1. Len(t) <= 2 /\ NoStart(t)
    BY <1>1, <1>7 DEF Resting
  <2>2. f.kind # "start" /\ NoStart(u) /\ Len(u) <= 2
    BY <1>3, <2>1
  <2>3. s \notin proc'[p].inflight
    BY <1>3, <1>2, <1>7, <2>2
  <2> QED
    BY <2>2, <2>3
<1> QED
  BY <1>6, <1>7

\* An event of the session of a run that waits to have its prompt taken.
LEMMA ReadyMoves ==
  ASSUME Base, TurnInv, NEW p \in Procs, NEW s \in Runs, ~proc[p].dead, Event(p, s),
         NEW d \in Runs, run[d].proc = p, run[d].sid = s, Clean(s),
         run[d].pc \in {"hot", "cold", "await"}, ~Accepted(d)
  PROVE  /\ s \notin proc'[p].inflight
         /\ Len(run'[d].queue) + Len(server'[p].turns[s]) <= 2 /\ NoStart(run'[d].queue)
<1>1. PICK t, f, u, w : /\ t = server[p].turns[s] /\ f = Head(t) /\ u = Tail(t)
                        /\ Owes(p, s, t, f, u) /\ w = run[d].queue
  BY DEF Owes
<1>2. /\ t \in Seq(Frame) /\ t # <<>> /\ server'[p].turns[s] = u
      /\ f.kind = "start" => s \in proc'[p].inflight
      /\ f.kind = "end" => s \notin proc'[p].inflight
      /\ f.kind = "text" => (s \in proc'[p].inflight <=> s \in proc[p].inflight)
      /\ run'[d].queue = IF d \in Subscribers(p, s) /\ Len(w) < Cap THEN Append(w, f) ELSE w
  BY <1>1, EventFields
<1>3. /\ Len(t) = Len(u) + 1 /\ Len(u) \in Nat /\ f \in Frame
      /\ f.kind \in {"start", "text", "end"}
      /\ NoStart(t) => f.kind # "start" /\ NoStart(u)
  BY <1>1, <1>2, TurnStep
<1>4. /\ w \in Seq(Frame) /\ s \notin proc[p].inflight
      /\ Len(w) + Len(t) <= 2 /\ NoStart(w)
  BY <1>1 DEF TurnInv, Stands, ReadyRun
<1>5. Active(d) /\ Homes
  BY DEF Active, TurnInv
<1>6. Alone(p, s) /\ InUse(s)
  BY <1>5, AloneInSession
<1>7. NoStart(t)
  BY <1>1, <1>4, <1>6 DEF TurnInv, Rests, Resting
<1>8. f.kind # "start"
  BY <1>3, <1>7
<1>9. s \notin proc'[p].inflight
  BY <1>2, <1>3, <1>4, <1>8
<1>10. CASE run'[d].queue = w
  BY <1>2, <1>3, <1>4, <1>9, <1>10, LenProperties
<1>11. CASE run'[d].queue = Append(w, f)
  <2>1. PICK y : y = Append(w, f)
    OBVIOUS
  <2>2. /\ Len(y) = Len(w) + 1 /\ Len(w) \in Nat /\ y[Len(w) + 1] = f
        /\ \A i \in 1 .. Len(w) : y[i] = w[i]
    BY <1>3, <1>4, <2>1, AppendProperties, LenProperties
  <2>3. NoStart(y)
    BY <1>4, <1>8, <2>2 DEF NoStart
  <2>4. Len(y) + Len(u) <= 2
    BY <1>3, <1>4, <2>2
  <2> QED
    BY <1>2, <1>9, <1>11, <2>1, <2>3, <2>4
<1> QED
  BY <1>2, <1>10, <1>11

\* An event of the session of a run whose turn it is.
LEMMA OwnTurnMoves ==
  ASSUME Cap >= 7, Base, TurnInv, NEW p \in Procs, NEW s \in Runs, ~proc[p].dead, Event(p, s),
         NEW d \in Runs, run[d].proc = p, run[d].sid = s, Accepted(d), OwnTurn(d)
  PROVE  OwnTurn(d)'
<1>1. PICK t, f, u, w, y : /\ t = server[p].turns[s] /\ f = Head(t) /\ u = Tail(t)
                           /\ Owes(p, s, t, f, u) /\ w = run[d].queue /\ y = Append(w, f)
  BY DEF Owes
<1>2. /\ t \in Seq(Frame) /\ t # <<>> /\ server'[p].turns[s] = u
      /\ proc'[p].dead = proc[p].dead
      /\ f.kind = "start" => s \in proc'[p].inflight
      /\ f.kind = "end" => s \notin proc'[p].inflight
      /\ f.kind = "text" => (s \in proc'[p].inflight <=> s \in proc[p].inflight)
      /\ run'[d].sid = s /\ run'[d].proc = p
      /\ run'[d].depth = run[d].depth /\ run'[d].saw = run[d].saw /\ run'[d].from = run[d].from
      /\ run'[d].queue = IF d \in Subscribers(p, s) /\ Len(w) < Cap THEN y ELSE w
  BY <1>1, EventFields
<1>3. /\ Len(t) = Len(u) + 1 /\ Len(u) \in Nat /\ f.kind \in {"start", "text", "end"}
      /\ f \in Frame
      /\ \A q : (\A i \in 1 .. Len(t) : Fits(q, Len(t) - i, t[i])) =>
           /\ Fits(q, Len(u), f)
           /\ \A i \in 1 .. Len(u) : Fits(q, Len(u) - i, u[i])
  BY <1>1, <1>2, TurnStep
<1>4. /\ w \in Seq(Frame) /\ Len(w) \in Nat /\ d \in Subscribers(p, s)
  BY <1>1, LenProperties DEF TurnInv, Stands, Accepted, Subscribers
<1>5. PICK n : n = Len(w) + Len(t)
  OBVIOUS
<1>6. /\ n \in 1 .. Length(d) + 2
      /\ \A i \in 1 .. Len(t) : Fits(d, Len(t) - i, t[i])
      /\ \A i \in 1 .. Len(w) : Fits(d, n - i, w[i])
      /\ n >= Length(d) => ~run[d].saw /\ run[d].from = {}
      /\ n < Length(d) => /\ run[d].saw /\ run[d].from = IF n = 1 THEN {d} ELSE {}
                          /\ run[d].depth = IF d \in Nesting /\ n = 3 THEN 2 ELSE 1
      /\ s \in proc[p].inflight <=> Marked(d, Len(t))
  BY <1>1, <1>5 DEF OwnTurn
<1>7. Len(w) < Cap
  BY <1>3, <1>4, <1>5, <1>6, LengthIs, DshPoolAssumption
<1>8. run'[d].queue = y
  BY <1>2, <1>4, <1>7
<1>9. /\ Len(y) + Len(u) = n
      /\ \A i \in 1 .. Len(u) : Fits(d, Len(u) - i, u[i])
      /\ \A i \in 1 .. Len(y) : Fits(d, n - i, y[i])
  <2>1. /\ Len(y) = Len(w) + 1 /\ y[Len(w) + 1] = f
        /\ \A i \in 1 .. Len(w) : y[i] = w[i]
    BY <1>1, <1>3, <1>4, AppendProperties
  <2>2. ASSUME NEW i \in 1 .. Len(y) PROVE Fits(d, n - i, y[i])
    <3>1. CASE i = Len(w) + 1
      <4>1. n - i = Len(u)
        BY <1>3, <1>4, <1>5, <3>1
      <4> QED
        BY <1>3, <1>6, <2>1, <3>1, <4>1
    <3>2. CASE i \in 1 .. Len(w)
      BY <1>6, <2>1, <3>2
    <3> QED
      BY <1>4, <2>1, <3>1, <3>2
  <2>3. \A i \in 1 .. Len(u) : Fits(d, Len(u) - i, u[i])
    BY <1>3, <1>6
  <2>4. Len(y) + Len(u) = n
    BY <1>3, <1>4, <1>5, <2>1
  <2> QED
    BY <2>2, <2>3, <2>4
<1>10. s \in proc'[p].inflight <=> Marked(d, Len(u))
  <2>1. Fits(d, Len(u), f)
    BY <1>3, <1>6
  <2>2. /\ f.kind = "start" => Marked(d, Len(u))
        /\ f.kind = "end" => ~Marked(d, Len(u))
        /\ f.kind = "text" => (Marked(d, Len(u)) <=> Marked(d, Len(u) + 1))
    BY <1>3, <2>1, MarkStep
  <2>3. Marked(d, Len(t)) <=> Marked(d, Len(u) + 1)
    BY <1>3
  <2> QED
    BY <1>2, <1>3, <1>6, <2>2, <2>3
<1>11. OwnTurn(d)' <=>
         /\ n \in 1 .. Length(d) + 2
         /\ \A i \in 1 .. Len(u) : Fits(d, Len(u) - i, u[i])
         /\ \A i \in 1 .. Len(y) : Fits(d, n - i, y[i])
         /\ n >= Length(d) => ~run'[d].saw /\ run'[d].from = {}
         /\ n < Length(d) => /\ run'[d].saw /\ run'[d].from = IF n = 1 THEN {d} ELSE {}
                             /\ run'[d].depth = IF d \in Nesting /\ n = 3 THEN 2 ELSE 1
         /\ ~proc'[p].dead => (s \in proc'[p].inflight <=> Marked(d, Len(u)))
  BY <1>2, <1>8, <1>9 DEF OwnTurn
<1> QED
  BY <1>2, <1>6, <1>9, <1>10, <1>11

\* An event, of whatever session.
LEMMA EventKeepsTurns ==
  ASSUME Cap >= 7, Base, TurnInv, NEW p \in Procs, NEW s \in Runs, ~proc[p].dead, Event(p, s),
         UNCHANGED <<entry, unseen>>
  PROVE  TurnInv'
<1>1. PICK t, f, u : Owes(p, s, t, f, u) /\ t = server[p].turns[s] /\ f = Head(t) /\ u = Tail(t)
  BY DEF Owes
<1>2. /\ t \in Seq(Frame) /\ t # <<>> /\ Procs' = Procs
      /\ \A q \in Procs : /\ proc'[q].dead = proc[q].dead /\ proc'[q].known = proc[q].known
                          /\ proc'[q].subs = proc[q].subs /\ proc'[q].pending = proc[q].pending
                          /\ server'[q].calls = server[q].calls
                          /\ \A x \in Runs : q # p \/ x # s =>
                               /\ server'[q].turns[x] = server[q].turns[x]
                               /\ x \in proc'[q].inflight <=> x \in proc[q].inflight
  BY <1>1, EventFields
<1>3. \A d \in Runs :
        /\ DOMAIN run'[d] = DOMAIN run[d] /\ run'[d].pc = run[d].pc
        /\ run'[d].sid = run[d].sid /\ run'[d].proc = run[d].proc
        /\ run'[d].method = run[d].method /\ run'[d].reply = run[d].reply
        /\ run'[d].depth = run[d].depth /\ run'[d].saw = run[d].saw
        /\ run'[d].from = run[d].from /\ run'[d].status = run[d].status
        /\ run'[d].queue = IF d \in Subscribers(p, s) /\ Len(run[d].queue) < Cap
                             THEN Append(run[d].queue, f) ELSE run[d].queue
  BY <1>1, EventFields
<1>4. /\ \A d \in Runs : run[d].sid \in Runs /\ (run[d].pc \in Placed => run[d].proc \in Procs)
      /\ f \in Frame
  BY <1>1, <1>2, BaseFacts, TurnStep
<1>5. \A d \in Subscribers(p, s) : /\ d \in Runs /\ run[d].proc = p /\ run[d].sid = s
                                   /\ run[d].pc \in {"await", "collect"}
  <2>1. proc[p].subs \subseteq Runs
    BY BaseFacts DEF Proc
  <2> QED
    BY <2>1 DEF Subscribers, Base, IInv, NothingLeftBehind
<1>6. \A d \in Runs : (Active(d)' <=> Active(d)) /\ (Accepted(d)' <=> Accepted(d))
  BY <1>3 DEF Active, Accepted
<1>7. \A x \in Runs : (Clean(x)' <=> Clean(x)) /\ (InUse(x)' <=> InUse(x))
  <2>1. \A q \in unseen : q \in Runs
    BY DEF TurnInv, Homes
  <2> QED
    BY <1>3, <1>6, <2>1 DEF Clean, InUse
<1>8. Homes'
  BY <1>3, <1>6 DEF TurnInv, Homes
<1>9. Rests'
  <2> SUFFICES ASSUME NEW q \in Procs, NEW x \in Runs, ~proc'[q].dead, InUse(x)', Clean(x)',
                      Alone(q, x)'
               PROVE  Resting(q, x)'
    BY <1>2 DEF Rests
  <2>1. Alone(q, x)
    BY <1>3, <1>6 DEF Alone
  <2>2. Resting(q, x)
    BY <1>2, <1>7, <2>1 DEF TurnInv, Rests
  <2>3. CASE q = p /\ x = s
    BY <2>2, <2>3, RestMoves
  <2>4. CASE q # p \/ x # s
    BY <1>2, <2>2, <2>4 DEF Resting
  <2> QED
    BY <2>3, <2>4
<1>10. Stale'
  <2> SUFFICES ASSUME NEW q \in Procs, NEW c \in server'[q].calls, ~proc'[q].dead
               PROVE  Unheard(c)'
    BY <1>2 DEF Stale
  <2>1. c \in server[q].calls
    BY <1>2
  <2>2. Unheard(c) /\ c.run \in Runs
    BY <1>2, <2>1, ServerType DEF TurnInv, Stale, Base, IInv, Held
  <2> QED
    BY <1>3, <1>4, <1>7, <2>2 DEF Unheard
<1>11. ASSUME NEW d \in Runs
       PROVE  Stands(d)' /\ ReadyRun(d)' /\ OwnRun(d)' /\ OwnRunAnswer(d)'
  <2>1. PICK q, x, w : q = run[d].proc /\ x = run[d].sid /\ w = run[d].queue
    OBVIOUS
  <2>2. Stands(d) /\ ReadyRun(d) /\ OwnRun(d) /\ OwnRunAnswer(d) /\ x \in Runs
    BY <1>4, <2>1 DEF TurnInv
  <2>3. /\ run'[d].proc = q /\ run'[d].sid = x /\ run'[d].pc = run[d].pc
        /\ run'[d].depth = run[d].depth /\ run'[d].saw = run[d].saw
        /\ run'[d].from = run[d].from /\ run'[d].status = run[d].status
        /\ run'[d].reply = run[d].reply /\ run'[d].method = run[d].method
    BY <1>3, <2>1
  <2>4. run[d].pc \in {"hot", "cold", "await", "collect"} => q \in Procs
    BY <1>4, <2>1 DEF Placed
  <2>5. d \notin Subscribers(p, s) => run'[d].queue = w
    BY <1>3, <2>1
  <2>6. d \in Subscribers(p, s) => q = p /\ x = s /\ run[d].pc \in {"await", "collect"}
    BY <1>5, <2>1
  <2>7. Stands(d)'
    <3>1. w \in Seq(Frame) /\ run'[d].queue \in Seq(Frame)
      <4>1. w \in Seq(Frame) /\ Append(w, f) \in Seq(Frame)
        BY <1>4, <2>1, <2>2, AppendProperties DEF Stands
      <4>2. run'[d].queue = w \/ run'[d].queue = Append(w, f)
        BY <1>3, <2>1
      <4> QED
        BY <4>1, <4>2
    <3>2. CASE run[d].pc \in {"await", "collect"}
      <4>1. /\ proc'[q].dead = proc[q].dead /\ proc'[q].known = proc[q].known
            /\ proc'[q].subs = proc[q].subs /\ proc'[q].pending = proc[q].pending
        BY <1>2, <2>4, <3>2
      <4> QED
        BY <2>1, <2>2, <2>3, <3>1, <3>2, <4>1 DEF Stands
    <3>3. CASE run[d].pc \notin {"await", "collect"}
      BY <2>1, <2>2, <2>3, <2>5, <2>6, <3>1, <3>3 DEF Stands
    <3> QED
      BY <3>2, <3>3
  <2>8. ReadyRun(d)'
    <3> SUFFICES ASSUME run[d].pc \in {"hot", "cold", "await"}, ~Accepted(d), ~proc'[q].dead,
                        Clean(x)'
                 PROVE  /\ x \notin proc'[q].inflight
                        /\ Len(run'[d].queue) + Len(server'[q].turns[x]) <= 2
                        /\ NoStart(run'[d].queue)
      BY <1>6, <2>3 DEF ReadyRun, NoStart
    <3>1. q \in Procs /\ ~proc[q].dead /\ Clean(x)
      BY <1>2, <1>7, <2>2, <2>4
    <3>2. CASE q = p /\ x = s
      BY <2>1, <3>1, <3>2, ReadyMoves
    <3>3. CASE q # p \/ x # s
      <4>1. /\ x \notin proc[q].inflight /\ Len(w) + Len(server[q].turns[x]) <= 2
            /\ NoStart(w)
        BY <2>1, <2>2, <3>1 DEF ReadyRun
      <4> QED
        BY <1>2, <2>2, <2>5, <2>6, <3>1, <3>3, <4>1
    <3> QED
      BY <3>2, <3>3
  <2>9. OwnRun(d)'
    <3> SUFFICES ASSUME Accepted(d), Clean(x)' PROVE OwnTurn(d)'
      BY <1>6, <2>3 DEF OwnRun
    <3>1. q \in Procs /\ OwnTurn(d)
      BY <1>7, <2>1, <2>2, <2>4 DEF OwnRun, Accepted
    <3>2. CASE q = p /\ x = s
      BY <2>1, <3>1, <3>2, OwnTurnMoves
    <3>3. CASE q # p \/ x # s
      <4>1. /\ run'[d].queue = w /\ server'[q].turns[x] = server[q].turns[x]
            /\ proc'[q].dead = proc[q].dead
            /\ x \in proc'[q].inflight <=> x \in proc[q].inflight
        BY <1>2, <2>2, <2>5, <2>6, <3>1, <3>3
      <4> QED
        BY <2>1, <2>3, <3>1, <4>1 DEF OwnTurn
    <3> QED
      BY <3>2, <3>3
  <2>10. OwnRunAnswer(d)'
    BY <1>7, <2>1, <2>2, <2>3 DEF OwnRunAnswer
  <2> QED
    BY <2>7, <2>8, <2>9, <2>10
<1> QED
  BY <1>8, <1>9, <1>10, <1>11 DEF TurnInv

LEMMA HandleFrameKeepsTurns ==
  ASSUME Cap >= 7, Base, TurnInv, NEW p \in Procs, HandleFrame(p)
  PROVE  TurnInv'
<1>1. ~proc[p].dead /\ UNCHANGED <<entry, unseen>>
  BY DEF HandleFrame
<1>2. CASE \E call \in server[p].calls : Response(p, call)
  BY <1>1, <1>2, ResponseKeepsTurns
<1>3. CASE \E s \in Runs : Event(p, s)
  BY <1>1, <1>3, EventKeepsTurns
<1> QED
  BY <1>2, <1>3 DEF HandleFrame

LEMMA InitTurn == Init => TurnInv
<1> SUFFICES ASSUME Init PROVE TurnInv
  OBVIOUS
<1>1. Procs = {} /\ unseen = {}
  BY DEF Init, Procs
<1>2. \A r \in Runs :
        /\ DOMAIN run[r] = RunFields /\ run[r].pc = "idle" /\ run[r].sid = r
        /\ run[r].queue = <<>> /\ ~run[r].saw /\ run[r].saw \in BOOLEAN
        /\ run[r].from = {} /\ run[r].status = "none"
  BY DEF Init, RunFields
<1>3. \A c \in Chats : entry[c] = NoRun
  BY DEF Init
<1>4. Homes
  <2>1. \A r \in Runs : DOMAIN run[r] = RunFields /\ ChatOf[run[r].sid] = ChatOf[r]
    BY <1>2
  <2>2. \A r \in Runs : ~Active(r)
    BY <1>2 DEF Active
  <2>3. ASSUME NEW r \in Runs, NEW c \in Chats PROVE entry[c] # r
    BY <1>3, Facts
  <2>4. \A r \in Runs : \A q \in Runs \ {r} : run[q].sid # r
    BY <1>2
  <2> QED
    BY <1>1, <1>2, <1>3, <2>1, <2>2, <2>3, <2>4 DEF Homes
<1>5. Rests /\ Stale
  BY <1>1 DEF Rests, Stale
<1>6. ASSUME NEW r \in Runs PROVE Stands(r) /\ ReadyRun(r) /\ OwnRun(r) /\ OwnRunAnswer(r)
  <2>1. Stands(r)
    <3>1. run[r].queue \in Seq(Frame) /\ run[r].saw \in BOOLEAN
      BY <1>2, EmptySeq
    <3> QED
      BY <1>2, <3>1 DEF Stands
  <2>2. ~Accepted(r)
    BY <1>2 DEF Accepted
  <2> QED
    BY <1>2, <2>1, <2>2 DEF ReadyRun, OwnRun, OwnRunAnswer
<1> QED
  BY <1>4, <1>5, <1>6 DEF TurnInv

LEMMA NextTurn ==
  ASSUME Cap >= 7, Base, TurnInv, [Next]_vars
  PROVE  TurnInv'
<1>1. CASE UNCHANGED vars
  <2>1. Procs' = Procs /\ UNCHANGED <<run, entry, unseen, server, proc>>
    BY <1>1 DEF vars, external, Procs
  <2> QED
    BY <2>1, ShiftsSame
<1>2. ASSUME NEW r \in Runs, Begin(r) \/ RunStep(r) \/ Timer(r) PROVE TurnInv'
  <2>1. CASE Begin(r)
    BY <2>1, BeginKeepsTurns
  <2>2. CASE Spawn(r)
    BY <2>2, SpawnKeepsTurns
  <2>3. CASE Initialized(r) \/ InitializeFails(r)
    BY <2>3, InitializeKeepsTurns
  <2>4. CASE Route(r)
    BY <2>4, RouteKeepsTurns
  <2>5. CASE WaitIdle(r) \/ WaitTimesOut(r)
    BY <2>5, WaitKeepsTurns
  <2>6. CASE Subscribe(r)
    BY <2>6, SubscribeKeepsTurns
  <2>7. CASE Receive(r)
    BY <2>7, ReceiveKeepsTurns
  <2>8. CASE CallDead(r)
    BY <2>8, CallDeadKeepsTurns
  <2>9. CASE CallTimesOut(r)
    BY <2>9, CallTimesOutKeepsTurns
  <2>10. CASE Collect(r)
    BY <2>10, CollectKeepsTurns
  <2>11. CASE CollectDead(r)
    BY <2>11, CollectDeadKeepsTurns
  <2>12. CASE CollectStopped(r)
    BY <2>12, CollectStoppedKeepsTurns
  <2> QED
    BY <1>2, <2>1, <2>2, <2>3, <2>4, <2>5, <2>6, <2>7, <2>8, <2>9, <2>10, <2>11, <2>12
       DEF RunStep, Timer
<1>3. ASSUME NEW p \in Procs, HandleFrame(p) \/ ReaderEnds(p) \/ Stop(p) \/ Exit(p)
      PROVE  TurnInv'
  <2>1. CASE HandleFrame(p)
    BY <2>1, HandleFrameKeepsTurns
  <2>2. CASE ReaderEnds(p)
    BY <2>2, ReaderEndsKeepsTurns
  <2>3. CASE Stop(p) \/ Exit(p)
    BY <2>3, StopKeepsTurns
  <2> QED
    BY <1>3, <2>1, <2>2, <2>3
<1>4. ASSUME NEW c \in Chats, Clear(c) PROVE TurnInv'
  BY <1>4, ClearKeepsTurns
<1>5. CASE Reap
  BY <1>5, ReapKeepsTurns
<1> QED
  BY <1>1, <1>2, <1>3, <1>4, <1>5 DEF Next

\* A reply is made of the run's own turn and of nothing else, and is not called complete
\* without it, in a session in which no run has left a turn the pool did not know of
\* (handleFrame, waitIdle, collectReply), whatever the runs, chats, keys and bounds.  A
\* subscription holds what is left of an abandoned turn and a turn of its own, at most 7
\* events here: the code's 512 stand for `never full`.
THEOREM OwnReply == ASSUME Cap >= 7 PROVE Spec => []OwnAnswer
<1>1. Init => Base /\ TurnInv
  BY InitIInv, InitHeld, InitTurn DEF Base
<1>2. Base /\ TurnInv /\ [Next]_vars => (Base /\ TurnInv)'
  BY NextIInv, NextHeld, NextTurn DEF Base
<1>3. Base /\ TurnInv => OwnAnswer
  <2> SUFFICES ASSUME Base, TurnInv, NEW r \in Runs, run[r].status = "ok"
               PROVE  run[r].from = {r} \/ \E q \in unseen : run[q].sid = run[r].sid
    BY DEF OwnAnswer
  <2> QED
    BY DEF TurnInv, OwnRunAnswer, Clean
<1> QED
  BY <1>1, <1>2, <1>3, PTL DEF Spec

-----------------------------------------------------------------------------
(* Types *)

\* What the types need besides: the bounds, and that the depth of a turn that has started
\* is not zero, since collectReply returns when it is.
TypeInv ==
  /\ run \in [Runs -> Run] /\ Procs \subseteq 1 .. MaxProcs
  /\ toClear \subseteq Chats /\ disk \subseteq Runs
  /\ losses \in 0 .. MaxLosses /\ unseen \subseteq Runs
  /\ \A r \in Runs : run[r].pc = "collect" /\ run[r].saw => run[r].depth > 0
  /\ \A r \in Runs : run[r].pc # "collect" /\ run[r].pc # "done" => ~run[r].saw

\* A run takes its state with it.
Deep(x) ==
  /\ x.pc = "collect" /\ x.saw => x.depth > 0
  /\ x.pc # "collect" /\ x.pc # "done" => ~x.saw

LEMMA SetRun ==
  ASSUME TypeInv, NEW r \in Runs, NEW x \in Run, Deep(x), run' = [run EXCEPT ![r] = x],
         Procs' \subseteq 1 .. MaxProcs,
         UNCHANGED <<toClear, losses>>, disk' \subseteq disk \cup Runs,
         unseen' \subseteq unseen \cup {r}
  PROVE  TypeInv'
<1>1. run' \in [Runs -> Run]
  BY DEF TypeInv
<1>2. ASSUME NEW d \in Runs PROVE Deep(run'[d])
  BY <1>1 DEF TypeInv, Deep
<1> QED
  BY <1>1, <1>2 DEF TypeInv, Deep

\* Processes change, runs do not.
LEMMA SameRuns ==
  ASSUME TypeInv, UNCHANGED <<run, disk, unseen>>, Procs' \subseteq 1 .. MaxProcs,
         toClear' \subseteq toClear, losses' \in 0 .. MaxLosses
  PROVE  TypeInv'
BY DEF TypeInv

LEMMA KeepsProcs ==
  ASSUME TypeInv, proc \in Seq(Proc), proc' \in Seq(Proc), DOMAIN proc' = DOMAIN proc
  PROVE  Procs' \subseteq 1 .. MaxProcs
BY DEF TypeInv, Procs

LEMMA RunType ==
  ASSUME TypeInv, NEW r \in Runs
  PROVE  /\ run[r] \in Run /\ Deep(run[r]) /\ r \in DOMAIN run
BY DEF TypeInv, Deep

LEMMA FinishType ==
  ASSUME IInv, IInv', TypeInv, NEW r \in Runs,
         NEW status \in {"error", "ok", "stopped"}, NEW collected, Finish(r, status, collected),
         UNCHANGED <<toClear, disk, losses>>, unseen' \subseteq unseen \cup {r}
  PROVE  TypeInv'
<1> DEFINE x == [run[r] EXCEPT !.pc = "done", !.status = status, !.queue = <<>>]
<1>1. run[r] \in Run /\ r \in DOMAIN run
  BY RunType
<1>2. <<>> \in Seq(Frame)
  BY EmptySeq
<1>3. x \in Run /\ x.pc = "done"
  BY <1>1, <1>2 DEF Run
<1>4. Deep(x)
  BY <1>3 DEF Deep
<1>5. run' = [run EXCEPT ![r] = x]
  BY <1>1 DEF Finish
<1>6. Procs' \subseteq 1 .. MaxProcs
  BY KeepsProcs DEF Finish, IInv, Typed
<1> QED
  BY <1>3, <1>4, <1>5, <1>6, SetRun

LEMMA SpawnType ==
  ASSUME IInv, IInv', TypeInv, NEW r \in Runs, Spawn(r)
  PROVE  TypeInv'
<1> DEFINE k == KeyOf[ChatOf[r]]
<1>1. /\ run[r] \in Run /\ Deep(run[r]) /\ r \in DOMAIN run /\ run[r].pc = "spawn"
      /\ UNCHANGED <<toClear, disk, losses, unseen>>
  BY RunType DEF Spawn
<1>2. k \in Keys /\ pool \in [Keys -> 0 .. Len(proc)] /\ Len(proc) \in Nat
  BY KeyOfRun, LenProperties DEF IInv, Typed
<1>3. CASE SecondLook(r, k)
  <2> DEFINE x == [run[r] EXCEPT !.pc = "route", !.proc = pool[k]]
  <2>1. pool[k] \in Nat
    BY <1>2
  <2>2. x \in Run /\ x.pc = "route" /\ x.saw = run[r].saw
    BY <1>1, <2>1 DEF Run
  <2>3. Deep(x)
    BY <1>1, <2>2 DEF Deep
  <2>4. run' = [run EXCEPT ![r] = x]
    BY <1>1, <1>3 DEF SecondLook
  <2>5. Procs' \subseteq 1 .. MaxProcs
    BY <1>3 DEF SecondLook, Procs, TypeInv
  <2> QED
    BY <1>1, <2>2, <2>3, <2>4, <2>5, SetRun
<1>4. CASE Start(r, k)
  <2>1. PICK n : n = Len(proc')
    OBVIOUS
  <2> DEFINE x == [run[r] EXCEPT !.pc = "initialize", !.proc = n]
  <2>2. n = Len(proc) + 1 /\ Len(proc) < MaxProcs /\ n \in Nat
    BY <1>2, <1>4, <2>1, NewProcType, AppendProperties DEF Start, IInv, Typed
  <2>3. x \in Run /\ x.pc = "initialize" /\ x.saw = run[r].saw
    BY <1>1, <1>2, <2>2 DEF Run
  <2>4. Deep(x)
    BY <1>1, <2>3 DEF Deep
  <2>5. run' = [run EXCEPT ![r] = x]
    BY <1>1, <1>4, <2>1 DEF Start
  <2>6. Procs' \subseteq 1 .. MaxProcs
    BY <1>2, <2>2, <2>1, DshPoolAssumption DEF Procs
  <2> QED
    BY <1>1, <2>3, <2>4, <2>5, <2>6, SetRun
<1>5. CASE NoAgent(r)
  <2> DEFINE x == [run[r] EXCEPT !.pc = "done", !.status = "agent_missing"]
  <2>1. x \in Run /\ x.pc = "done"
    BY <1>1 DEF Run
  <2>2. Deep(x)
    BY <2>1 DEF Deep
  <2>3. run' = [run EXCEPT ![r] = x]
    BY <1>1, <1>5 DEF NoAgent
  <2>4. Procs' \subseteq 1 .. MaxProcs
    BY <1>5 DEF NoAgent, Procs, TypeInv
  <2> QED
    BY <1>1, <2>1, <2>2, <2>3, <2>4, SetRun
<1> QED
  BY <1>3, <1>4, <1>5 DEF Spawn

\* Begin, and the steps that only go somewhere else.
LEMMA GoType ==
  ASSUME IInv, IInv', TypeInv, NEW r \in Runs, run[r].pc \notin {"collect", "done"},
         NEW pc \in {"route", "wait", "hot", "cold", "collect"}, Goto(r, pc),
         DOMAIN proc' = DOMAIN proc, UNCHANGED <<toClear, disk, losses, unseen>>
  PROVE  TypeInv'
<1> DEFINE x == [run[r] EXCEPT !.pc = pc]
<1>1. run[r] \in Run /\ Deep(run[r]) /\ r \in DOMAIN run
  BY RunType
<1>2. x \in Run /\ x.pc = pc /\ x.saw = run[r].saw
  BY <1>1 DEF Run
<1>3. Deep(x)
  BY <1>1, <1>2 DEF Deep
<1>4. run' = [run EXCEPT ![r] = x]
  BY <1>1 DEF Goto
<1>5. Procs' \subseteq 1 .. MaxProcs
  BY KeepsProcs DEF IInv, Typed
<1> QED
  BY <1>2, <1>3, <1>4, <1>5, SetRun

LEMMA BeginType ==
  ASSUME IInv, IInv', TypeInv, NEW r \in Runs, Begin(r)
  PROVE  TypeInv'
<1>1. run[r] \in Run /\ Deep(run[r]) /\ r \in DOMAIN run /\ run[r].pc = "idle"
  BY RunType DEF Begin
<1>2. PICK fresh :
        run' = [run EXCEPT ![r].sid = IF fresh \/ entry[ChatOf[r]] = NoRun THEN r
                                        ELSE entry[ChatOf[r]],
                           ![r].pc = IF Pooled(KeyOf[ChatOf[r]]) THEN "route" ELSE "spawn",
                           ![r].proc = IF Pooled(KeyOf[ChatOf[r]])
                                         THEN pool[KeyOf[ChatOf[r]]] ELSE 0]
  BY Zenon DEF Begin
<1>3. PICK sid, pc, p :
        /\ sid = IF fresh \/ entry[ChatOf[r]] = NoRun THEN r ELSE entry[ChatOf[r]]
        /\ sid = r \/ (entry[ChatOf[r]] # NoRun /\ sid = entry[ChatOf[r]])
        /\ pc = IF Pooled(KeyOf[ChatOf[r]]) THEN "route" ELSE "spawn"
        /\ p = IF Pooled(KeyOf[ChatOf[r]]) THEN pool[KeyOf[ChatOf[r]]] ELSE 0
        /\ run' = [run EXCEPT ![r].sid = sid, ![r].pc = pc, ![r].proc = p]
  BY <1>2
<1>4. sid \in Runs /\ pc \in {"route", "spawn"} /\ p \in Nat
  <2>1. ChatOf[r] \in Chats /\ KeyOf[ChatOf[r]] \in Keys
    BY Facts, KeyOfRun
  <2>2. pool \in [Keys -> 0 .. Len(proc)] /\ entry \in [Chats -> Runs \cup {NoRun}]
    BY DEF IInv, Typed
  <2> QED
    BY <1>3, <2>1, <2>2
<1> DEFINE x == [run[r] EXCEPT !.sid = sid, !.pc = pc, !.proc = p]
<1>5. x \in Run /\ x.pc = pc /\ x.saw = run[r].saw
  BY <1>1, <1>4 DEF Run
<1>6. Deep(x)
  BY <1>1, <1>4, <1>5 DEF Deep
<1>7. run' = [run EXCEPT ![r] = x]
  BY <1>1, <1>3
<1>8. Procs' \subseteq 1 .. MaxProcs /\ UNCHANGED <<toClear, disk, losses, unseen>>
  BY DEF Begin, Procs, TypeInv, external
<1> QED
  BY <1>5, <1>6, <1>7, <1>8, SetRun

LEMMA CallType ==
  ASSUME IInv, IInv', TypeInv, NEW r \in Runs, run[r].pc \in {"hot", "cold", "await"},
         NEW p, NEW method \in Methods, Call(p, r, method),
         UNCHANGED <<toClear, disk, losses, unseen>>
  PROVE  TypeInv'
<1>1. run[r] \in Run /\ Deep(run[r]) /\ r \in DOMAIN run
  BY RunType
<1>2. <<>> \in Seq(Frame)
  BY EmptySeq
<1>3. Procs' \subseteq 1 .. MaxProcs
  <2>1. DOMAIN proc' = DOMAIN proc
    BY DEF Call
  <2> QED
    BY <2>1, KeepsProcs DEF IInv, Typed
<1>4. CASE run' = [run EXCEPT ![r].pc = "await", ![r].method = method, ![r].reply = "none"]
  <2> DEFINE x == [run[r] EXCEPT !.pc = "await", !.method = method, !.reply = "none"]
  <2>1. x \in Run /\ x.pc = "await" /\ x.saw = run[r].saw
    BY <1>1 DEF Run
  <2>2. Deep(x)
    BY <1>1, <2>1 DEF Deep
  <2>3. run' = [run EXCEPT ![r] = x]
    BY <1>1, <1>4
  <2> QED
    BY <1>3, <2>1, <2>2, <2>3, SetRun
<1>5. CASE run' = [run EXCEPT ![r].pc = "done", ![r].status = "error", ![r].queue = <<>>]
  <2> DEFINE x == [run[r] EXCEPT !.pc = "done", !.status = "error", !.queue = <<>>]
  <2>1. x \in Run /\ x.pc = "done"
    BY <1>1, <1>2 DEF Run
  <2>2. Deep(x)
    BY <2>1 DEF Deep
  <2>3. run' = [run EXCEPT ![r] = x]
    BY <1>1, <1>5
  <2> QED
    BY <1>3, <2>1, <2>2, <2>3, SetRun
<1> QED
  BY <1>4, <1>5 DEF Call

\* A turn under way: the depth goes down only when it was more than one.
LEMMA CollectType ==
  ASSUME IInv, IInv', TypeInv, NEW r \in Runs, Collect(r)
  PROVE  TypeInv'
<1>1. PICK f, q : q = run[r].queue /\ f = Head(q)
  OBVIOUS
<1>2. /\ run[r] \in Run /\ Deep(run[r]) /\ r \in DOMAIN run /\ run[r].pc = "collect"
      /\ q \in Seq(Frame) /\ q # <<>> /\ UNCHANGED <<toClear, disk, losses, unseen>>
  BY <1>1, RunType DEF Collect, external, Run
<1>3. CASE TurnIsOver(r, f)
  <2>1. Finish(r, "ok", TRUE)
    BY <1>1, <1>3 DEF Collect
  <2> QED
    BY <1>2, <2>1, FinishType
<1>4. CASE ~TurnIsOver(r, f)
  <2>1. f \in Frame /\ Tail(q) \in Seq(Frame) /\ f.kind \in {"start", "text", "end"}
    BY <1>1, <1>2, TurnStep
  <2>2. PICK depth, saw, from, u :
          /\ depth = Depth(r, f) /\ saw = (run[r].saw \/ f.kind = "start") /\ u = Tail(q)
          /\ from = IF f.kind = "text" /\ run[r].saw
                      THEN run[r].from \cup {f.run} ELSE run[r].from
    OBVIOUS
  <2>3. run[r].depth \in Nat /\ run[r].saw \in BOOLEAN /\ run[r].from \in SUBSET Runs
    BY <1>2 DEF Run
  <2>4. saw \in BOOLEAN /\ from \in SUBSET Runs /\ u \in Seq(Frame)
    BY <2>1, <2>2, <2>3 DEF Frame
  <2>5. depth \in Nat /\ (saw => depth > 0)
    <3>1. CASE f.kind = "start"
      BY <2>2, <2>3, <3>1, <1>2 DEF Depth, Deep
    <3>2. CASE f.kind = "text"
      BY <2>2, <2>3, <3>2, <1>2 DEF Depth, Deep
    <3>3. CASE f.kind = "end"
      BY <1>2, <1>4, <2>2, <2>3, <3>3 DEF Depth, Deep, TurnIsOver
    <3> QED
      BY <2>1, <3>1, <3>2, <3>3
  <2> DEFINE x == [run[r] EXCEPT !.queue = u, !.depth = depth, !.saw = saw, !.from = from]
  <2>6. x \in Run /\ x.pc = "collect" /\ x.saw = saw /\ x.depth = depth
    BY <1>2, <2>4, <2>5 DEF Run
  <2>7. Deep(x)
    BY <2>5, <2>6 DEF Deep
  <2>8. run' = [run EXCEPT ![r].queue = Tail(@), ![r].depth = Depth(r, f),
                           ![r].saw = @ \/ f.kind = "start",
                           ![r].from = IF f.kind = "text" /\ run[r].saw
                                         THEN @ \cup {f.run} ELSE @]
        /\ UNCHANGED proc
    BY <1>1, <1>4 DEF Collect
  <2>9. run' = [run EXCEPT ![r] = x]
    BY <1>1, <1>2, <2>2, <2>8
  <2>10. Procs' \subseteq 1 .. MaxProcs
    BY <2>8 DEF Procs, TypeInv
  <2> QED
    BY <1>2, <2>6, <2>7, <2>9, <2>10, SetRun
<1> QED
  BY <1>3, <1>4

LEMMA InitializeFailsType ==
  ASSUME IInv, IInv', TypeInv, NEW r \in Runs, InitializeFails(r)
  PROVE  TypeInv'
<1> DEFINE x == [run[r] EXCEPT !.pc = "done", !.status = "agent_missing"]
<1>1. run[r] \in Run /\ r \in DOMAIN run
  BY RunType
<1>2. x \in Run /\ x.pc = "done"
  BY <1>1 DEF Run
<1>3. Deep(x)
  BY <1>2 DEF Deep
<1>4. run' = [run EXCEPT ![r] = x]
  BY <1>1 DEF InitializeFails
<1>5. DOMAIN proc' = DOMAIN proc /\ UNCHANGED <<toClear, disk, losses, unseen>>
  BY DEF InitializeFails, external
<1>6. Procs' \subseteq 1 .. MaxProcs
  BY <1>5, KeepsProcs DEF IInv, Typed
<1> QED
  BY <1>2, <1>3, <1>4, <1>5, <1>6, SetRun

LEMMA ReceiveType ==
  ASSUME IInv, IInv', TypeInv, NEW r \in Runs, Receive(r)
  PROVE  TypeInv'
<1>1. run[r].pc = "await" /\ UNCHANGED <<toClear, disk, losses, unseen>>
  BY DEF Receive
<1>2. ASSUME NEW p, NEW method \in Methods, Call(p, r, method) PROVE TypeInv'
  BY <1>1, <1>2, CallType
<1>3. CASE Resumed(r)
  BY <1>2, <1>3 DEF Resumed, Methods
<1>4. CASE DirectorySet(r)
  BY <1>2, <1>4 DEF DirectorySet, Methods
<1>5. CASE Prompted(r)
  <2>1. Goto(r, "collect") /\ DOMAIN proc' = DOMAIN proc
    BY <1>5 DEF Prompted
  <2> QED
    BY <1>1, <2>1, GoType
<1>6. CASE Refused(r)
  <2>1. Finish(r, "error", FALSE)
    BY <1>6 DEF Refused
  <2> QED
    BY <1>1, <2>1, FinishType
<1> QED
  BY <1>3, <1>4, <1>5, <1>6 DEF Receive

LEMMA LeavesType ==
  ASSUME TypeInv, NEW r \in Runs
  PROVE  Leaves(r) \subseteq unseen \cup {r}
BY DEF Leaves

LEMMA RunStepType ==
  ASSUME IInv, IInv', TypeInv, NEW r \in Runs, Begin(r) \/ RunStep(r) \/ Timer(r)
  PROVE  TypeInv'
<1>1. CASE Begin(r)
  BY <1>1, BeginType
<1>2. CASE Spawn(r)
  BY <1>2, SpawnType
<1>3. CASE Initialized(r)
  <2>1. /\ run[r].pc = "initialize" /\ Goto(r, "route") /\ proc' = proc
        /\ UNCHANGED <<toClear, disk, losses, unseen>>
    BY <1>3 DEF Initialized, external
  <2> QED
    BY <2>1, GoType
<1>4. CASE Route(r)
  <2>1. /\ run[r].pc = "route" /\ proc' = proc /\ UNCHANGED <<toClear, disk, losses, unseen>>
    BY <1>4 DEF Route, external
  <2>2. Goto(r, "cold") \/ Goto(r, "wait") \/ Goto(r, "hot")
    BY <1>4 DEF Route
  <2> QED
    BY <2>1, <2>2, GoType
<1>5. CASE WaitIdle(r)
  <2>1. run[r].pc = "wait" /\ UNCHANGED <<toClear, disk, losses, unseen>>
    BY <1>5 DEF WaitIdle, external
  <2>2. CASE Goto(r, "hot") /\ UNCHANGED proc
    BY <2>1, <2>2, GoType
  <2>3. CASE Finish(r, "error", FALSE)
    BY <2>1, <2>3, FinishType
  <2> QED
    BY <1>5, <2>2, <2>3 DEF WaitIdle
<1>6. CASE Subscribe(r)
  <2>1. run[r].pc \in {"hot", "cold"} /\ UNCHANGED <<toClear, disk, losses, unseen>>
    BY <1>6 DEF Subscribe
  <2>2. PICK p, method : Call(p, r, method) /\ method \in Methods
    BY <1>6 DEF Subscribe, Methods
  <2> QED
    BY <2>1, <2>2, CallType
<1>7. CASE Receive(r)
  BY <1>7, ReceiveType
<1>8. CASE Collect(r)
  BY <1>8, CollectType
<1>9. CASE InitializeFails(r)
  BY <1>9, InitializeFailsType
<1>10. ASSUME NEW status \in {"error", "stopped"}, NEW collected, Finish(r, status, collected),
              UNCHANGED <<toClear, disk, losses>>, unseen' = unseen \/ unseen' = Leaves(r)
       PROVE  TypeInv'
  BY <1>10, LeavesType, FinishType
<1>11. CASE CallDead(r) \/ CollectDead(r)
  BY <1>10, <1>11 DEF CallDead, CollectDead, external
<1>12. CASE WaitTimesOut(r) \/ CallTimesOut(r) \/ CollectStopped(r)
  BY <1>10, <1>12 DEF WaitTimesOut, CallTimesOut, CollectStopped, external
<1> QED
  BY <1>1, <1>2, <1>3, <1>4, <1>5, <1>6, <1>7, <1>8, <1>9, <1>11, <1>12 DEF RunStep, Timer

LEMMA HandleFrameType ==
  ASSUME Base, IInv', TypeInv, NEW p \in Procs, HandleFrame(p)
  PROVE  TypeInv'
<1>1. UNCHANGED <<toClear, losses, unseen>>
  BY DEF HandleFrame
<1>2. ASSUME NEW call \in server[p].calls, Response(p, call) PROVE TypeInv'
  <2>1. PICK r, v, kind : r = call.run /\ Answers(p, call, v, kind)
    BY <1>2, ResponseShape
  <2>2. r \in Runs
    BY <2>1, ServerType DEF Base, IInv, Held
  <2>3. run[r] \in Run /\ Deep(run[r]) /\ r \in DOMAIN run /\ run[r].sid \in Runs
    BY <2>2, RunType, BaseFacts
  <2>4. DOMAIN proc' = DOMAIN proc /\ disk' \subseteq disk \cup Runs
    BY <1>2, <2>1, <2>3 DEF Response
  <2>5. Procs' \subseteq 1 .. MaxProcs
    BY <2>4, KeepsProcs DEF Base, IInv, Typed
  <2>6. CASE r \in proc[p].pending
    <3> DEFINE x == [run[r] EXCEPT !.reply = kind]
    <3>1. kind \in {"ok", "missing", "failed"} /\ run' = [run EXCEPT ![r].reply = kind]
      BY <2>1, <2>6 DEF Answers
    <3>2. /\ x \in Run /\ x.pc = run[r].pc /\ x.saw = run[r].saw /\ x.depth = run[r].depth
      BY <2>3, <3>1 DEF Run
    <3>3. Deep(x)
      BY <2>3, <3>2 DEF Deep
    <3>4. run' = [run EXCEPT ![r] = x]
      BY <2>3, <3>1
    <3> QED
      BY <1>1, <2>2, <2>4, <2>5, <3>2, <3>3, <3>4, SetRun
  <2>7. CASE r \notin proc[p].pending
    <3>1. run' = run
      BY <2>1, <2>7 DEF Answers
    <3> QED
      BY <1>1, <2>4, <2>5, <3>1 DEF TypeInv
  <2> QED
    BY <2>6, <2>7
<1>3. ASSUME NEW s \in Runs, Event(p, s) PROVE TypeInv'
  <2>1. PICK f : f = Head(server[p].turns[s])
    OBVIOUS
  <2>2. f \in Frame
    <3>1. server[p] \in Server
      BY ServerType DEF Base, IInv, Held
    <3>2. server[p].turns[s] \in Seq(Frame) /\ server[p].turns[s] # <<>>
      BY <1>3, <3>1 DEF Server, Event
    <3> QED
      BY <2>1, <3>2, HeadTailProperties
  <2>3. run' = [d \in Runs |-> IF d \in Subscribers(p, s) /\ Len(run[d].queue) < Cap
                                 THEN [run[d] EXCEPT !.queue = Append(@, f)] ELSE run[d]]
    BY <1>3, <2>1 DEF Event
  <2>4. ASSUME NEW d \in Runs PROVE run'[d] \in Run /\ Deep(run'[d])
    <3>1. run[d] \in Run /\ Deep(run[d])
      BY RunType
    <3>2. PICK q : q = Append(run[d].queue, f)
      OBVIOUS
    <3>3. q \in Seq(Frame)
      BY <2>2, <3>1, <3>2, AppendProperties DEF Run
    <3> DEFINE x == [run[d] EXCEPT !.queue = q]
    <3>4. /\ x \in Run /\ x.pc = run[d].pc /\ x.saw = run[d].saw /\ x.depth = run[d].depth
      BY <3>1, <3>3 DEF Run
    <3>5. Deep(x)
      BY <3>1, <3>4 DEF Deep
    <3>6. run'[d] = x \/ run'[d] = run[d]
      BY <2>3, <3>2
    <3> QED
      BY <3>1, <3>4, <3>5, <3>6
  <2>5. DOMAIN proc' = DOMAIN proc /\ disk' = disk
    BY <1>3 DEF Event
  <2>6. Procs' \subseteq 1 .. MaxProcs
    BY <2>5, KeepsProcs DEF Base, IInv, Typed
  <2>7. run' \in [Runs -> Run]
    BY <2>3, <2>4
  <2> QED
    BY <1>1, <2>4, <2>5, <2>6, <2>7 DEF TypeInv, Deep
<1> QED
  BY <1>2, <1>3 DEF HandleFrame

LEMMA ReaderEndsType ==
  ASSUME IInv, IInv', TypeInv, NEW p \in Procs, ReaderEnds(p)
  PROVE  TypeInv'
<1>1. run' = [d \in Runs |-> IF d \in proc[p].pending
                               THEN [run[d] EXCEPT !.reply = "dead"] ELSE run[d]]
  BY DEF ReaderEnds
<1>2. ASSUME NEW d \in Runs PROVE run'[d] \in Run /\ Deep(run'[d])
  <2>1. run[d] \in Run /\ Deep(run[d])
    BY RunType
  <2> DEFINE x == [run[d] EXCEPT !.reply = "dead"]
  <2>2. /\ x \in Run /\ x.pc = run[d].pc /\ x.saw = run[d].saw /\ x.depth = run[d].depth
    BY <2>1 DEF Run
  <2>3. Deep(x)
    BY <2>1, <2>2 DEF Deep
  <2>4. run'[d] = x \/ run'[d] = run[d]
    BY <1>1
  <2> QED
    BY <2>1, <2>2, <2>3, <2>4
<1>3. DOMAIN proc' = DOMAIN proc /\ UNCHANGED <<toClear, disk, losses, unseen>>
  BY DEF ReaderEnds, external
<1>4. Procs' \subseteq 1 .. MaxProcs
  BY <1>3, KeepsProcs DEF IInv, Typed
<1>5. run' \in [Runs -> Run]
  BY <1>1, <1>2
<1> QED
  BY <1>2, <1>3, <1>4, <1>5 DEF TypeInv, Deep

\* What happens to processes, and a clear.
LEMMA OtherType ==
  ASSUME IInv, IInv', TypeInv,
         Reap \/ (\E p \in Procs : Stop(p) \/ Exit(p)) \/ \E c \in Chats : Clear(c)
  PROVE  TypeInv'
<1>1. losses \in 0 .. MaxLosses /\ proc \in Seq(Proc) /\ MaxLosses \in Nat
  BY DshPoolAssumption DEF TypeInv, IInv, Typed
<1>2. CASE Reap
  <2>1. PICK picked \in SUBSET Procs :
          losses' = losses + Cardinality(picked) /\ losses' <= MaxLosses
    BY <1>2 DEF Reap
  <2>2. IsFiniteSet(Procs)
    BY <1>1, FS_Interval, LenProperties DEF Procs
  <2>3. Cardinality(picked) \in Nat
    BY <2>2, FS_Subset, FS_CardinalityType
  <2>4. losses' \in 0 .. MaxLosses
    BY <1>1, <2>1, <2>3
  <2>5. DOMAIN proc' = DOMAIN proc /\ UNCHANGED <<run, toClear, disk, unseen>>
    BY <1>1, <1>2 DEF Reap, Procs
  <2> QED
    BY <2>4, <2>5, KeepsProcs, SameRuns DEF IInv, Typed
<1>3. ASSUME NEW p \in Procs, Stop(p) \/ Exit(p) PROVE TypeInv'
  <2>1. DOMAIN proc' = DOMAIN proc /\ UNCHANGED <<run, toClear, disk, unseen>>
    BY <1>3 DEF Stop, Exit, external
  <2>2. losses' \in 0 .. MaxLosses
    BY <1>1, <1>3 DEF Stop, Exit, external
  <2> QED
    BY <2>1, <2>2, KeepsProcs, SameRuns DEF IInv, Typed
<1>4. ASSUME NEW c \in Chats, Clear(c) PROVE TypeInv'
  <2>1. /\ DOMAIN proc' = DOMAIN proc /\ UNCHANGED <<run, disk, unseen, losses>>
        /\ toClear' \subseteq toClear
    BY <1>4 DEF Clear, external
  <2> QED
    BY <1>1, <2>1, KeepsProcs, SameRuns DEF IInv, Typed
<1> QED
  BY <1>2, <1>3, <1>4

LEMMA NextType ==
  ASSUME Base, Base', TypeInv, [Next]_vars
  PROVE  TypeInv'
<1>1. CASE UNCHANGED vars
  BY <1>1 DEF vars, external, TypeInv, Procs
<1>2. ASSUME NEW r \in Runs, Begin(r) \/ RunStep(r) \/ Timer(r) PROVE TypeInv'
  BY <1>2, RunStepType DEF Base
<1>3. ASSUME NEW p \in Procs, HandleFrame(p) PROVE TypeInv'
  BY <1>3, HandleFrameType DEF Base
<1>4. ASSUME NEW p \in Procs, ReaderEnds(p) PROVE TypeInv'
  BY <1>4, ReaderEndsType DEF Base
<1>5. CASE Reap \/ (\E p \in Procs : Stop(p) \/ Exit(p)) \/ \E c \in Chats : Clear(c)
  BY <1>5, OtherType DEF Base
<1> QED
  BY <1>1, <1>2, <1>3, <1>4, <1>5 DEF Next

LEMMA InitType == Init => TypeInv
<1> SUFFICES ASSUME Init PROVE TypeInv
  OBVIOUS
<1>1. <<>> \in Seq(Frame)
  BY EmptySeq
<1>2. run \in [Runs -> Run] /\ \A r \in Runs : run[r].pc = "idle" /\ ~run[r].saw
  BY <1>1 DEF Init, Run, Methods
<1>3. Procs = {}
  BY DEF Init, Procs
<1> QED
  BY <1>2, <1>3, DshPoolAssumption DEF Init, TypeInv

\* Every variable keeps its type, and with it its bounds: the pool holds processes there
\* are, and the depth of nested turns that collectReply counts never goes below zero.
THEOREM TypeCorrect == Spec => []TypeOK
<1>1. Init => Base /\ TypeInv
  BY InitIInv, InitHeld, InitType DEF Base
<1>2. Base /\ TypeInv /\ [Next]_vars => (Base /\ TypeInv)'
  BY NextIInv, NextHeld, NextType DEF Base
<1>3. Base /\ TypeInv => TypeOK
  <2> SUFFICES ASSUME Base, TypeInv PROVE TypeOK
    OBVIOUS
  <2>1. /\ pool \in [Keys -> 0 .. Len(proc)] /\ spawner \in Runs \cup {NoRun}
        /\ proc \in Seq(Proc) /\ entry \in [Chats -> Runs \cup {NoRun}]
        /\ server \in Seq(Server)
    BY DEF Base, IInv, Typed, Held, Served
  <2>2. Len(proc) \in Nat /\ (Len(proc) = 0 \/ Len(proc) \in Procs)
    BY <2>1, LenProperties DEF Procs
  <2>3. Len(proc) <= MaxProcs
    BY <2>2, DshPoolAssumption DEF TypeInv
  <2>4. 0 .. Len(proc) \subseteq 0 .. MaxProcs
    BY <2>2, <2>3, DshPoolAssumption
  <2>5. pool \in [Keys -> 0 .. MaxProcs]
    BY <2>1, <2>4
  <2> QED
    BY <2>1, <2>5 DEF TypeOK, TypeInv
<1> QED
  BY <1>1, <1>2, <1>3, PTL DEF Spec
=============================================================================
