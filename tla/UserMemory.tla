------------------------------ MODULE UserMemory ------------------------------
(***************************************************************************)
(* User memory: the profiles and turns on disk, the turn that each answer  *)
(* adds (AfterDispatch), the profiler and the scheduler that runs it, the   *)
(* idle scan, the commands of a user and of the control API, and the       *)
(* reload that replaces the scheduler.                                     *)
(*                                                                         *)
(* A profile is read and written whole.  Between the two, AfterDispatch    *)
(* appends to the turns and the profiler asks a model for minutes, with a  *)
(* copy in hand; the commands are short and are one step here.  Memory is  *)
(* enabled, files can be written, and the idle time may pass at any moment. *)
(***************************************************************************)
EXTENDS Naturals, Sequences, FiniteSets

CONSTANTS
  Users,
  Dispatches,  \* the answers recorded
  UserOf,      \* the user of each answer
  Pumps,       \* goroutines of pump, reused when they end
  AfterTurns,  \* turns that make the profiler run
  MaxReloads,  \* bound: reloads
  MaxCommands  \* bound: commands of users and of the control API

ASSUME UserMemoryAssumption ==
  /\ Users # {} /\ UserOf \in [Dispatches -> Users]
  /\ AfterTurns \in Nat /\ MaxReloads \in Nat /\ MaxCommands \in Nat

VARIABLES
  profile,   \* profiles/<user>.json
  turns,     \* the number of lines of turns/<user>.jsonl
  gen,       \* the newest scheduler; the older ones are stopped
  queue,     \* Scheduler.queue of each scheduler
  inflight,  \* Scheduler.inflight of each scheduler
  pump,      \* the goroutines of pump
  dispatch,  \* the goroutines of AfterDispatch
  commands,  \* commands so far
  asked,     \* what the commands have made of opted_out and the locks
  torn       \* users with a command while somebody held a copy of the profile

vars == <<profile, turns, gen, queue, inflight, pump, dispatch, commands, asked, torn>>
files == <<profile, turns>>
ghosts == <<commands, asked, torn>>

Gens == 0 .. MaxReloads

Profile == [exists : BOOLEAN,
            opted : BOOLEAN,
            locked : BOOLEAN,    \* a lock on its fields
            inferred : BOOLEAN,  \* whether the profiler has filled a field
            pending : BOOLEAN,   \* ForgetPendingUntil
            seen : BOOLEAN,      \* LastSeen
            count : Nat]         \* ProfiledCount

NoProfile == [exists |-> FALSE, opted |-> FALSE, locked |-> FALSE, inferred |-> FALSE,
              pending |-> FALSE, seen |-> FALSE, count |-> 0]

Pump == [pc : {"off", "sem", "read", "ask"}, gen : Gens, user : Users,
         copy : Profile, fresh : Nat]

NoPump == [pc |-> "off", gen |-> 0, user |-> CHOOSE u \in Users : TRUE,
           copy |-> NoProfile, fresh |-> 0]

Dispatch == [pc : {"idle", "append", "save", "done"}, copy : Profile]

Init ==
  /\ profile = [u \in Users |-> NoProfile] /\ turns = [u \in Users |-> 0]
  /\ gen = 0 /\ queue = [g \in Gens |-> <<>>] /\ inflight = [g \in Gens |-> {}]
  /\ pump = [p \in Pumps |-> NoPump]
  /\ dispatch = [d \in Dispatches |-> [pc |-> "idle", copy |-> NoProfile]]
  /\ commands = 0 /\ asked = [u \in Users |-> [opted |-> FALSE, locked |-> FALSE]]
  /\ torn = {}

Save(u, p) == profile' = [profile EXCEPT ![u] = [p EXCEPT !.exists = TRUE]]

\* UnprofiledTurns.
Unprofiled(u, count) == IF count >= turns[u] THEN 0 ELSE turns[u] - count
-----------------------------------------------------------------------------
(* Scheduler *)

Queued(g) == {queue[g][i] : i \in DOMAIN queue[g]}

\* Faulty: a user in flight may be queued again.
EnqueueAgain(q, g, u) == IF u \in Queued(g) THEN q ELSE [q EXCEPT ![g] = Append(@, u)]

Enqueue(q, g, u) ==
  IF u \in Queued(g) \cup inflight[g] THEN q ELSE [q EXCEPT ![g] = Append(@, u)]

\* Every Enqueue starts a pump, so one is there to take the head of the queue until
\* the scheduler is stopped.
Pop(g, p) ==
  /\ g = gen /\ queue[g] # <<>> /\ pump[p].pc = "off"
  /\ LET u == Head(queue[g]) IN
     IF u \in inflight[g]
       THEN UNCHANGED <<inflight, pump>>
       ELSE /\ inflight' = [inflight EXCEPT ![g] = @ \cup {u}]
            /\ pump' = [pump EXCEPT ![p].pc = "sem", ![p].gen = g, ![p].user = u]
  /\ queue' = [queue EXCEPT ![g] = Tail(@)]
  /\ UNCHANGED <<files, gen, dispatch, ghosts>>

Holds(p) == pump[p].pc \in {"read", "ask"}

\* Faulty: the semaphore of the scheduler is not taken.
StartAtOnce(p) ==
  /\ pump[p].pc = "sem"
  /\ pump' = [pump EXCEPT ![p].pc = "read"]
  /\ UNCHANGED <<files, gen, queue, inflight, dispatch, ghosts>>

Start(p) ==
  /\ pump[p].pc = "sem"
  /\ \A q \in Pumps : Holds(q) => pump[q].gen # pump[p].gen
  /\ pump' = [pump EXCEPT ![p].pc = "read"]
  /\ UNCHANGED <<files, gen, queue, inflight, dispatch, ghosts>>

End(p) ==
  /\ pump' = [pump EXCEPT ![p] = NoPump]
  /\ inflight' = [inflight EXCEPT ![pump[p].gen] = @ \ {pump[p].user}]

\* Faulty: the scan looks for users with AfterTurns turns.
ScanDue(u) ==
  /\ profile[u].exists /\ profile[u].seen /\ ~profile[u].opted
  /\ Unprofiled(u, profile[u].count) >= AfterTurns
  /\ queue' = Enqueue(queue, gen, u)
  /\ queue' # queue
  /\ UNCHANGED <<files, gen, inflight, pump, dispatch, ghosts>>

\* scanIdle finds a user whose last turn is long ago.
Scan(u) ==
  /\ profile[u].exists /\ profile[u].seen /\ ~profile[u].opted
  /\ Unprofiled(u, profile[u].count) > 0
  /\ queue' = Enqueue(queue, gen, u)
  /\ queue' # queue
  /\ UNCHANGED <<files, gen, inflight, pump, dispatch, ghosts>>

\* Runtime.Load: what is queued is lost, what is in flight goes on.
Reload ==
  /\ gen < MaxReloads
  /\ gen' = gen + 1
  /\ UNCHANGED <<files, queue, inflight, pump, dispatch, ghosts>>
-----------------------------------------------------------------------------
(* RunProfiler *)

Read(p) ==
  LET u == pump[p].user
      n == Unprofiled(u, profile[u].count) IN
  /\ pump[p].pc = "read"
  /\ IF profile[u].opted \/ n = 0
       THEN End(p)
       ELSE /\ pump' = [pump EXCEPT ![p].pc = "ask", ![p].copy = profile[u], ![p].fresh = n]
            /\ UNCHANGED inflight
  /\ UNCHANGED <<files, gen, queue, dispatch, ghosts>>

\* The turns considered are done with, the ones beyond the window too.
Learned(copy, fresh) ==
  [copy EXCEPT !.count = @ + fresh, !.inferred = @ \/ ~copy.locked]

Profiled(p) ==
  /\ pump[p].pc = "ask"
  /\ Save(pump[p].user, Learned(pump[p].copy, pump[p].fresh))
  /\ End(p)
  /\ UNCHANGED <<turns, gen, queue, dispatch, ghosts>>

\* Neither engine answers, or with something that cannot be used: LastError.
ProfileFails(p) ==
  /\ pump[p].pc = "ask"
  /\ Save(pump[p].user, pump[p].copy)
  /\ End(p)
  /\ UNCHANGED <<turns, gen, queue, dispatch, ghosts>>
-----------------------------------------------------------------------------
(* AfterDispatch *)

\* An answer that is complete, of a user with an openID and a bot with memory, is
\* recorded; here the others are not dispatched.
ShouldRecord(p) == ~p.opted

AfterDispatch(d) ==
  LET p == profile[UserOf[d]] IN
  /\ dispatch[d].pc = "idle"
  /\ dispatch' = [dispatch EXCEPT ![d] = IF ShouldRecord(p)
       THEN [pc |-> "append", copy |-> p] ELSE [pc |-> "done", copy |-> NoProfile]]
  /\ UNCHANGED <<files, gen, queue, inflight, pump, ghosts>>

AppendTurn(d) ==
  /\ dispatch[d].pc = "append"
  /\ turns' = [turns EXCEPT ![UserOf[d]] = @ + 1]
  /\ dispatch' = [dispatch EXCEPT ![d].pc = "save"]
  /\ UNCHANGED <<profile, gen, queue, inflight, pump, ghosts>>

\* Faulty: the profile is made anew.
TouchFreshProfile(d) ==
  LET u == UserOf[d] IN
  /\ dispatch[d].pc = "save"
  /\ Save(u, [NoProfile EXCEPT !.seen = TRUE, !.count = dispatch[d].copy.count])
  /\ queue' = IF Unprofiled(u, dispatch[d].copy.count) >= AfterTurns
                THEN Enqueue(queue, gen, u) ELSE queue
  /\ dispatch' = [dispatch EXCEPT ![d] = [pc |-> "done", copy |-> NoProfile]]
  /\ UNCHANGED <<turns, gen, inflight, pump, ghosts>>

TouchProfile(d) ==
  LET u == UserOf[d] IN
  /\ dispatch[d].pc = "save"
  /\ Save(u, [dispatch[d].copy EXCEPT !.seen = TRUE])
  /\ queue' = IF Unprofiled(u, dispatch[d].copy.count) >= AfterTurns
                THEN Enqueue(queue, gen, u) ELSE queue
  /\ dispatch' = [dispatch EXCEPT ![d] = [pc |-> "done", copy |-> NoProfile]]
  /\ UNCHANGED <<turns, gen, inflight, pump, ghosts>>
-----------------------------------------------------------------------------
(* Commands *)

\* Somebody holds a copy of the profile of u and will write it back.
Copied(u) ==
  \/ \E p \in Pumps : pump[p].pc = "ask" /\ pump[p].user = u
  \/ \E d \in Dispatches : dispatch[d].pc \in {"append", "save"} /\ UserOf[d] = u

Command(u) ==
  /\ commands < MaxCommands /\ commands' = commands + 1
  /\ torn' = IF Copied(u) THEN torn \cup {u} ELSE torn
  /\ asked' = [asked EXCEPT ![u] = [opted |-> profile'[u].opted, locked |-> profile'[u].locked]]
  /\ UNCHANGED <<gen, inflight, pump, dispatch>>

\* /memory off and on, and PATCH of opted_out.
SetOptOut(u, out) ==
  /\ Save(u, [profile[u] EXCEPT !.opted = out])
  /\ Command(u) /\ UNCHANGED <<turns, queue>>

\* The first /forget, or one after the window has passed: with the second, one command.
AskToForget(u) ==
  /\ ~profile[u].pending /\ commands < MaxCommands
  /\ Save(u, [profile[u] EXCEPT !.pending = TRUE])
  /\ UNCHANGED <<turns, gen, queue, inflight, pump, dispatch, ghosts>>

\* Faulty: the cursor survives the turns it points into.
ForgetAllButCursor(u) ==
  /\ profile[u].pending
  /\ Save(u, [profile[u] EXCEPT !.locked = FALSE, !.inferred = FALSE, !.pending = FALSE])
  /\ turns' = [turns EXCEPT ![u] = 0]
  /\ Command(u) /\ UNCHANGED queue

\* The second /forget in time: Forget, ClearTurns and the cursor.
Forget(u) ==
  /\ profile[u].pending
  /\ Save(u, [profile[u] EXCEPT !.locked = FALSE, !.inferred = FALSE, !.pending = FALSE,
                                !.count = 0])
  /\ turns' = [turns EXCEPT ![u] = 0]
  /\ Command(u) /\ UNCHANGED queue

\* POST lock.
SetLock(u, locked) ==
  /\ Save(u, [profile[u] EXCEPT !.locked = locked])
  /\ Command(u) /\ UNCHANGED <<turns, queue>>

\* POST reset-inferred.
ResetInferred(u) ==
  /\ Save(u, [profile[u] EXCEPT !.inferred = @ /\ profile[u].locked])
  /\ Command(u) /\ UNCHANGED <<turns, queue>>

\* DELETE confirm=1.
Delete(u) ==
  /\ profile' = [profile EXCEPT ![u] = NoProfile]
  /\ turns' = [turns EXCEPT ![u] = 0]
  /\ Command(u) /\ UNCHANGED queue

\* POST run.
RunNow(u) ==
  /\ queue' = Enqueue(queue, gen, u)
  /\ UNCHANGED files /\ Command(u)
-----------------------------------------------------------------------------
Job(p) == Start(p) \/ Read(p) \/ Profiled(p) \/ ProfileFails(p)

Answer(d) == AfterDispatch(d) \/ AppendTurn(d) \/ TouchProfile(d)

CommandOf(u) ==
  \/ \E out \in BOOLEAN : SetOptOut(u, out) \/ SetLock(u, out)
  \/ AskToForget(u) \/ Forget(u) \/ ResetInferred(u) \/ Delete(u) \/ RunNow(u)

Next ==
  \/ \E p \in Pumps : Pop(gen, p) \/ Job(p)
  \/ \E d \in Dispatches : Answer(d)
  \/ \E u \in Users : Scan(u) \/ CommandOf(u)
  \/ Reload

\* Goroutines go on, the ticker scans, and the model that is asked again and again
\* answers at last.
Fairness ==
  /\ WF_vars(\E p \in Pumps : Pop(gen, p))
  /\ \A p \in Pumps : WF_vars(Job(p)) /\ SF_vars(Profiled(p))
  /\ \A d \in Dispatches : WF_vars(AppendTurn(d) \/ TouchProfile(d))
  /\ \A u \in Users : WF_vars(Scan(u))

Spec == Init /\ [][Next]_vars /\ Fairness
-----------------------------------------------------------------------------
TypeOK ==
  /\ profile \in [Users -> Profile] /\ turns \in [Users -> Nat]
  /\ gen \in Gens /\ queue \in [Gens -> Seq(Users)] /\ inflight \in [Gens -> SUBSET Users]
  /\ pump \in [Pumps -> Pump] /\ dispatch \in [Dispatches -> Dispatch]
  /\ commands \in 0 .. MaxCommands /\ torn \subseteq Users
  /\ asked \in [Users -> [opted : BOOLEAN, locked : BOOLEAN]]

\* A scheduler runs one profiler at a time, and has one job per user among those queued,
\* waiting for the semaphore and running (Enqueue, pump).
OneJobPerUser ==
  /\ \A g \in Gens : \A i, j \in DOMAIN queue[g] : queue[g][i] = queue[g][j] => i = j
  /\ \A p \in Pumps : pump[p].pc # "off" => pump[p].user \notin Queued(pump[p].gen)
  /\ \A p, q \in Pumps : p # q /\ pump[p].pc # "off" /\ pump[q].pc # "off"
                         /\ pump[p].gen = pump[q].gen =>
       pump[p].user # pump[q].user /\ ~(Holds(p) /\ Holds(q))

\* The cursor stays within the turns, or the next turns would never be profiled, for
\* users nobody held a copy of during a command (RunProfiler, HandleForget, DELETE).
CountWithinTurns == \A u \in Users \ torn : profile[u].count <= turns[u]

\* What a command has made of opted_out and the locks stays, whatever answers are
\* recorded, profilers run and schedulers replaced, for users nobody held a copy of
\* during a command.
CommandsHold ==
  \A u \in Users \ torn :
    profile[u].opted = asked[u].opted /\ profile[u].locked = asked[u].locked

\* After /memory off the profile stays off until the next command: the reply says that
\* the memory is neither used nor updated any more (handleMemoryCmd).
OptOutHolds == \A u \in Users : profile[u].opted = asked[u].opted

\* Every turn is profiled in the end, although jobs are refused while one is in flight,
\* lost with a replaced scheduler, and may fail, unless the user opts out or the idle
\* scan does not see him: a profiler that has read the profile before its first answer
\* writes LastSeen away.
EveryTurnProfiled ==
  \A u \in Users :
    Unprofiled(u, profile[u].count) > 0 ~>
      \/ Unprofiled(u, profile[u].count) = 0
      \/ profile[u].opted \/ ~profile[u].seen \/ u \in torn
=============================================================================
