-------------------------- MODULE UserMemoryProofs ---------------------------
(***************************************************************************)
(* Machine-checked proofs about UserMemory: type correctness, one job per  *)
(* user, and what survives of a profile that is read, held and written     *)
(* back by several goroutines.                                             *)
(***************************************************************************)
EXTENDS UserMemory, SequenceTheorems, TLAPS

(* Types *)

LEMMA ProfileFacts ==
  /\ NoProfile \in Profile
  /\ \A p \in Profile, b \in BOOLEAN :
       /\ [p EXCEPT !.exists = b] \in Profile /\ [p EXCEPT !.opted = b] \in Profile
       /\ [p EXCEPT !.locked = b] \in Profile /\ [p EXCEPT !.inferred = b] \in Profile
       /\ [p EXCEPT !.pending = b] \in Profile /\ [p EXCEPT !.seen = b] \in Profile
  /\ \A p \in Profile, n \in Nat : [p EXCEPT !.count = n] \in Profile
BY DEF Profile, NoProfile

LEMMA NoPumpType == NoPump \in Pump
<1>1. (CHOOSE u \in Users : TRUE) \in Users
  BY UserMemoryAssumption
<1>2. 0 \in Gens
  BY UserMemoryAssumption DEF Gens
<1> QED
  BY <1>1, <1>2, ProfileFacts DEF NoPump, Pump

LEMMA SaveType ==
  ASSUME TypeOK, NEW u \in Users, NEW p \in Profile, Save(u, p)
  PROVE  /\ profile' \in [Users -> Profile]
         /\ \A v \in Users \ {u} : profile'[v] = profile[v]
         /\ profile'[u] = [p EXCEPT !.exists = TRUE]
<1>1. [p EXCEPT !.exists = TRUE] \in Profile
  BY ProfileFacts
<1> QED
  BY <1>1 DEF Save, TypeOK

LEMMA SaveFields ==
  ASSUME TypeOK, NEW u \in Users, NEW p \in Profile, Save(u, p)
  PROVE  /\ \A v \in Users \ {u} : profile'[v] = profile[v]
         /\ profile'[u].opted = p.opted /\ profile'[u].locked = p.locked
         /\ profile'[u].count = p.count
<1>1. profile'[u] = [p EXCEPT !.exists = TRUE] /\ \A v \in Users \ {u} : profile'[v] = profile[v]
  BY SaveType
<1> QED
  BY <1>1 DEF Profile

LEMMA UnprofiledType ==
  ASSUME TypeOK, NEW u \in Users, NEW n \in Nat
  PROVE  /\ Unprofiled(u, n) \in Nat
         /\ n <= turns[u] => n + Unprofiled(u, n) <= turns[u]
BY DEF TypeOK, Unprofiled

LEMMA LearnedType ==
  ASSUME NEW p \in Profile, NEW n \in Nat
  PROVE  /\ Learned(p, n) \in Profile /\ Learned(p, n).count = p.count + n
         /\ Learned(p, n).opted = p.opted /\ Learned(p, n).locked = p.locked
<1> DEFINE q == [p EXCEPT !.count = @ + n]
<1>1. q \in Profile /\ q.count = p.count + n /\ q.opted = p.opted /\ q.locked = p.locked
  BY DEF Profile
<1> DEFINE i == p.inferred \/ ~p.locked
<1>2. i \in BOOLEAN
  OBVIOUS
<1>3. Learned(p, n) = [q EXCEPT !.inferred = i]
  BY DEF Learned, Profile
<1> HIDE DEF q, i
<1> QED
  BY <1>1, <1>2, <1>3 DEF Profile

LEMMA EnqueueType ==
  ASSUME TypeOK, NEW u \in Users
  PROVE  Enqueue(queue, gen, u) \in [Gens -> Seq(Users)]
<1>1. queue[gen] \in Seq(Users) /\ gen \in Gens
  BY DEF TypeOK
<1>2. Append(queue[gen], u) \in Seq(Users)
  BY <1>1
<1> QED
  BY <1>1, <1>2 DEF Enqueue, TypeOK

LEMMA InitTypeOK == Init => TypeOK
<1> SUFFICES ASSUME Init PROVE TypeOK
  OBVIOUS
<1>1. 0 \in Gens /\ commands \in 0 .. MaxCommands
  BY UserMemoryAssumption DEF Init, Gens
<1>2. [pc |-> "idle", copy |-> NoProfile] \in Dispatch
  BY ProfileFacts DEF Dispatch
<1>3. queue \in [Gens -> Seq(Users)]
  BY DEF Init
<1> QED
  BY <1>1, <1>2, <1>3, ProfileFacts, NoPumpType DEF Init, TypeOK

LEMMA EndType ==
  ASSUME TypeOK, NEW p \in Pumps, End(p)
  PROVE  pump' \in [Pumps -> Pump] /\ inflight' \in [Gens -> SUBSET Users]
<1>1. pump' \in [Pumps -> Pump]
  BY NoPumpType DEF End, TypeOK
<1> QED
  BY <1>1 DEF End, TypeOK

LEMMA PopType ==
  ASSUME TypeOK, NEW p \in Pumps, Pop(gen, p)
  PROVE  TypeOK'
<1>1. queue[gen] \in Seq(Users) /\ queue[gen] # <<>> /\ gen \in Gens
  BY DEF TypeOK, Pop
<1>2. Head(queue[gen]) \in Users /\ Tail(queue[gen]) \in Seq(Users)
  BY <1>1
<1>3. queue' \in [Gens -> Seq(Users)]
  BY <1>2 DEF Pop, TypeOK
<1> DEFINE u == Head(queue[gen])
<1>4. CASE UNCHANGED <<inflight, pump>>
  BY <1>3, <1>4 DEF Pop, TypeOK, files, ghosts
<1>5. CASE /\ inflight' = [inflight EXCEPT ![gen] = @ \cup {u}]
           /\ pump' = [pump EXCEPT ![p].pc = "sem", ![p].gen = gen, ![p].user = u]
  <2> HIDE DEF u
  <2>1. u \in Users
    BY <1>2 DEF u
  <2>2. inflight' \in [Gens -> SUBSET Users]
    BY <1>1, <1>5, <2>1 DEF TypeOK
  <2> DEFINE y == [pump[p] EXCEPT !.pc = "sem", !.gen = gen, !.user = u]
  <2>4. y \in Pump
    BY <1>1, <2>1 DEF TypeOK, Pump
  <2>5. pump' = [pump EXCEPT ![p] = y]
    BY <1>5 DEF TypeOK
  <2> HIDE DEF y
  <2>3. pump' \in [Pumps -> Pump]
    BY <2>4, <2>5 DEF TypeOK
  <2> QED
    BY <1>3, <2>2, <2>3 DEF Pop, TypeOK, files, ghosts
<1> QED
  BY <1>4, <1>5 DEF Pop

LEMMA JobType ==
  ASSUME TypeOK, NEW p \in Pumps, Job(p)
  PROVE  TypeOK'
<1>1. pump[p] \in Pump /\ pump[p].user \in Users /\ pump[p].copy \in Profile
      /\ pump[p].fresh \in Nat
  BY DEF TypeOK, Pump
<1>2. CASE Start(p)
  <2>1. pump' \in [Pumps -> Pump]
    BY <1>1, <1>2 DEF Start, TypeOK, Pump
  <2> QED
    BY <1>2, <2>1 DEF Start, TypeOK, files, ghosts
<1>3. CASE Read(p)
  <2> DEFINE u == pump[p].user
             n == Unprofiled(u, profile[u].count)
  <2>1. profile[u] \in Profile /\ n \in Nat
    <3>1. profile[u] \in Profile /\ profile[u].count \in Nat
      BY <1>1 DEF TypeOK, Profile
    <3> QED
      BY <3>1, <1>1, UnprofiledType
  <2>2. pump' \in [Pumps -> Pump] /\ inflight' \in [Gens -> SUBSET Users]
    <3>1. CASE End(p)
      BY <3>1, EndType
    <3> HIDE DEF n
    <3>2. CASE /\ pump' = [pump EXCEPT ![p].pc = "ask", ![p].copy = profile[u], ![p].fresh = n]
               /\ UNCHANGED inflight
      BY <3>2, <1>1, <2>1 DEF TypeOK, Pump
    <3> QED
      BY <3>1, <3>2, <1>3 DEF Read, n
  <2> QED
    BY <1>3, <2>2 DEF Read, TypeOK, files, ghosts
<1>4. CASE Profiled(p) \/ ProfileFails(p)
  <2>1. profile' \in [Users -> Profile]
    BY <1>1, <1>4, SaveType, LearnedType DEF Profiled, ProfileFails
  <2>2. pump' \in [Pumps -> Pump] /\ inflight' \in [Gens -> SUBSET Users]
    BY <1>4, EndType DEF Profiled, ProfileFails
  <2> QED
    BY <1>4, <2>1, <2>2 DEF Profiled, ProfileFails, TypeOK, ghosts
<1> QED
  BY <1>2, <1>3, <1>4 DEF Job

LEMMA AnswerType ==
  ASSUME TypeOK, NEW d \in Dispatches, Answer(d)
  PROVE  TypeOK'
<1> DEFINE u == UserOf[d]
<1>1. u \in Users /\ dispatch[d] \in Dispatch /\ dispatch[d].copy \in Profile
      /\ profile[u] \in Profile
  BY UserMemoryAssumption DEF TypeOK, Dispatch
<1>2. CASE AfterDispatch(d)
  <2>1. dispatch' \in [Dispatches -> Dispatch]
    BY <1>1, <1>2, ProfileFacts DEF AfterDispatch, TypeOK, Dispatch
  <2> QED
    BY <1>2, <2>1 DEF AfterDispatch, TypeOK, files, ghosts
<1>3. CASE AppendTurn(d)
  <2>1. turns' \in [Users -> Nat]
    BY <1>1, <1>3 DEF AppendTurn, TypeOK
  <2>2. dispatch' \in [Dispatches -> Dispatch]
    BY <1>1, <1>3 DEF AppendTurn, TypeOK, Dispatch
  <2> QED
    BY <1>3, <2>1, <2>2 DEF AppendTurn, TypeOK, ghosts
<1>4. CASE TouchProfile(d)
  <2>1. profile' \in [Users -> Profile]
    BY <1>1, <1>4, SaveType, ProfileFacts DEF TouchProfile
  <2>2. queue' \in [Gens -> Seq(Users)]
    BY <1>1, <1>4, EnqueueType DEF TouchProfile, TypeOK
  <2>3. dispatch' \in [Dispatches -> Dispatch]
    BY <1>1, <1>4, ProfileFacts DEF TouchProfile, TypeOK, Dispatch
  <2> QED
    BY <1>4, <2>1, <2>2, <2>3 DEF TouchProfile, TypeOK, ghosts
<1> QED
  BY <1>2, <1>3, <1>4 DEF Answer

LEMMA CommandType ==
  ASSUME TypeOK, NEW u \in Users, Command(u), profile' \in [Users -> Profile],
         turns' \in [Users -> Nat], queue' \in [Gens -> Seq(Users)]
  PROVE  TypeOK'
<1>1. commands' \in 0 .. MaxCommands
  BY UserMemoryAssumption DEF Command, TypeOK
<1>2. torn' \subseteq Users
  BY DEF Command, TypeOK
<1>3. profile'[u].opted \in BOOLEAN /\ profile'[u].locked \in BOOLEAN
  BY DEF Profile
<1>4. asked' \in [Users -> [opted : BOOLEAN, locked : BOOLEAN]]
  BY <1>3 DEF Command, TypeOK
<1> QED
  BY <1>1, <1>2, <1>4 DEF Command, TypeOK

\* What each command saves, and leaves of the turns.
LEMMA CommandSaves ==
  ASSUME TypeOK, NEW u \in Users, CommandOf(u), ~AskToForget(u)
  PROVE  /\ Command(u)
         /\ \E x \in Profile, n \in Nat :
              /\ profile' = [profile EXCEPT ![u] = x] /\ turns' = [turns EXCEPT ![u] = n]
              /\ profile[u].count <= turns[u] => x.count <= n
         /\ queue' = queue \/ queue' = Enqueue(queue, gen, u)
<1> DEFINE p == profile[u]
           same == \E x \in Profile :
             x.count = p.count /\ profile' = [profile EXCEPT ![u] = x] /\ UNCHANGED turns
           zero == \E x \in Profile :
             x.count = 0 /\ profile' = [profile EXCEPT ![u] = x] /\ turns' = [turns EXCEPT ![u] = 0]
<1>1. p \in Profile /\ p.count \in Nat /\ turns[u] \in Nat
      /\ turns = [turns EXCEPT ![u] = turns[u]] /\ profile = [profile EXCEPT ![u] = p]
  BY DEF TypeOK, Profile
<1>2. ASSUME NEW x \in Profile, Save(u, x), x.count = p.count, UNCHANGED turns PROVE same
  <2>1. [x EXCEPT !.exists = TRUE] \in Profile /\ [x EXCEPT !.exists = TRUE].count = p.count
    BY <1>2 DEF Profile
  <2> QED
    BY <2>1, <1>2 DEF Save
<1>3. same =>
        \E x \in Profile, n \in Nat :
          /\ profile' = [profile EXCEPT ![u] = x] /\ turns' = [turns EXCEPT ![u] = n]
          /\ p.count <= turns[u] => x.count <= n
  BY <1>1
<1>4. zero =>
        \E x \in Profile, n \in Nat :
          /\ profile' = [profile EXCEPT ![u] = x] /\ turns' = [turns EXCEPT ![u] = n]
          /\ p.count <= turns[u] => x.count <= n
  <2> SUFFICES ASSUME NEW x \in Profile, x.count = 0, profile' = [profile EXCEPT ![u] = x],
                      turns' = [turns EXCEPT ![u] = 0]
               PROVE  \E y \in Profile, n \in Nat :
                        /\ profile' = [profile EXCEPT ![u] = y] /\ turns' = [turns EXCEPT ![u] = n]
                        /\ p.count <= turns[u] => y.count <= n
    OBVIOUS
  <2>1. x.count <= 0 /\ 0 \in Nat
    OBVIOUS
  <2> HIDE DEF p
  <2> QED
    BY <2>1
<1>5. ASSUME NEW out \in BOOLEAN, SetOptOut(u, out) PROVE same
  <2>1. [p EXCEPT !.opted = out] \in Profile /\ [p EXCEPT !.opted = out].count = p.count
    BY <1>1 DEF Profile
  <2> HIDE DEF same
  <2> QED
    BY <2>1, <1>2, <1>5 DEF SetOptOut
<1>6. ASSUME NEW out \in BOOLEAN, SetLock(u, out) PROVE same
  <2>1. [p EXCEPT !.locked = out] \in Profile /\ [p EXCEPT !.locked = out].count = p.count
    BY <1>1 DEF Profile
  <2> HIDE DEF same
  <2> QED
    BY <2>1, <1>2, <1>6 DEF SetLock
<1>7. CASE Forget(u)
  <2> DEFINE x == [p EXCEPT !.locked = FALSE, !.inferred = FALSE, !.pending = FALSE, !.count = 0]
  <2>1. x \in Profile /\ [x EXCEPT !.exists = TRUE] \in Profile
        /\ [x EXCEPT !.exists = TRUE].count = 0
    BY <1>1 DEF Profile
  <2>2. Save(u, x) /\ turns' = [turns EXCEPT ![u] = 0]
    BY <1>7 DEF Forget
  <2>3. zero
    BY <2>1, <2>2 DEF Save
  <2> QED
    BY <2>3, <1>4, <1>7 DEF Forget
<1>8. CASE ResetInferred(u)
  <2>1. (p.inferred /\ p.locked) \in BOOLEAN
    BY <1>1 DEF Profile
  <2> DEFINE i == p.inferred /\ p.locked
             x == [p EXCEPT !.inferred = i]
  <2>2. Save(u, x) /\ UNCHANGED turns
    BY <1>8 DEF ResetInferred
  <2> HIDE DEF i
  <2>3. x \in Profile /\ x.count = p.count
    BY <1>1, <2>1 DEF i, Profile
  <2> HIDE DEF x
  <2>4. same
    BY <2>2, <2>3, <1>2
  <2> QED
    BY <2>4, <1>3, <1>8 DEF ResetInferred
<1>9. CASE Delete(u)
  <2>1. zero
    BY <1>9, ProfileFacts DEF Delete, NoProfile
  <2> QED
    BY <2>1, <1>4, <1>9 DEF Delete
<1>10. CASE RunNow(u)
  <2>1. same
    BY <1>10, <1>1 DEF RunNow, files
  <2> QED
    BY <2>1, <1>3, <1>10 DEF RunNow
<1>11. CASE \E out \in BOOLEAN : SetOptOut(u, out) \/ SetLock(u, out)
  <2>1. same
    BY <1>5, <1>6, <1>11
  <2> QED
    BY <2>1, <1>3, <1>11 DEF SetOptOut, SetLock
<1> QED
  BY <1>7, <1>8, <1>9, <1>10, <1>11 DEF CommandOf

LEMMA CommandOfType ==
  ASSUME TypeOK, NEW u \in Users, CommandOf(u)
  PROVE  TypeOK'
<1>1. CASE AskToForget(u)
  <2>1. profile[u] \in Profile
    BY DEF TypeOK
  <2>2. profile' \in [Users -> Profile]
    BY <1>1, <2>1, SaveType, ProfileFacts DEF AskToForget
  <2> QED
    BY <1>1, <2>2 DEF AskToForget, TypeOK, ghosts
<1>2. CASE ~AskToForget(u)
  <2>1. profile' \in [Users -> Profile] /\ turns' \in [Users -> Nat] /\ Command(u)
    BY <1>2, CommandSaves DEF TypeOK
  <2>2. queue' \in [Gens -> Seq(Users)]
    BY <1>2, CommandSaves, EnqueueType DEF TypeOK
  <2> QED
    BY <2>1, <2>2, CommandType
<1> QED
  BY <1>1, <1>2

LEMMA NextTypeOK == TypeOK /\ [Next]_vars => TypeOK'
<1> SUFFICES ASSUME TypeOK, [Next]_vars PROVE TypeOK'
  OBVIOUS
<1>1. ASSUME NEW u \in Users, Scan(u) PROVE TypeOK'
  BY <1>1, EnqueueType DEF Scan, TypeOK, files, ghosts
<1>2. CASE Reload
  <2>1. gen' \in Gens
    BY <1>2, UserMemoryAssumption DEF Reload, TypeOK, Gens
  <2> QED
    BY <1>2, <2>1 DEF Reload, TypeOK, files, ghosts
<1>3. CASE UNCHANGED vars
  BY <1>3 DEF vars, TypeOK
<1> QED
  BY <1>1, <1>2, <1>3, PopType, JobType, AnswerType, CommandOfType DEF Next

\* Profiles, cursors, turns, queues and copies keep their types, for every number of
\* users, answers, pumps, reloads and commands.
THEOREM TypeCorrect == Spec => []TypeOK
BY InitTypeOK, NextTypeOK, PTL DEF Spec
-----------------------------------------------------------------------------
(* One job per user *)

Busy(p) == pump[p].pc # "off"

\* The user of a job is in flight, so no Enqueue queues it beside the job.
Jobs ==
  /\ OneJobPerUser
  /\ \A p \in Pumps : Busy(p) => pump[p].user \in inflight[pump[p].gen]

\* The parts of Jobs, without the operators they are made of.
Apart == \A g \in Gens : \A i, j \in DOMAIN queue[g] : queue[g][i] = queue[g][j] => i = j
NotQueued ==
  \A p \in Pumps : pump[p].pc # "off" =>
    \A i \in DOMAIN queue[pump[p].gen] : queue[pump[p].gen][i] # pump[p].user
Alone ==
  \A p, q \in Pumps :
    p # q /\ pump[p].pc # "off" /\ pump[q].pc # "off" /\ pump[p].gen = pump[q].gen =>
      /\ pump[p].user # pump[q].user
      /\ ~(pump[p].pc \in {"read", "ask"} /\ pump[q].pc \in {"read", "ask"})
InFlight == \A p \in Pumps : pump[p].pc # "off" => pump[p].user \in inflight[pump[p].gen]

LEMMA JobsParts ==
  /\ Jobs <=> Apart /\ NotQueued /\ Alone /\ InFlight
  /\ Jobs' <=> Apart' /\ NotQueued' /\ Alone' /\ InFlight'
<1>1. /\ (\A p \in Pumps : pump[p].pc # "off" => pump[p].user \notin Queued(pump[p].gen))
          <=> NotQueued
      /\ (\A p \in Pumps : pump[p].pc # "off" => pump[p].user \notin Queued(pump[p].gen))'
          <=> NotQueued'
  BY DEF NotQueued, Queued
<1>2. \A p \in Pumps : /\ Holds(p) <=> pump[p].pc \in {"read", "ask"}
                       /\ Holds(p)' <=> pump'[p].pc \in {"read", "ask"}
  BY DEF Holds
<1>3. Jobs <=> Apart /\ NotQueued /\ Alone /\ InFlight
  BY <1>1, <1>2 DEF Jobs, OneJobPerUser, Apart, Alone, InFlight, Busy
<1>4. Jobs' <=> Apart' /\ NotQueued' /\ Alone' /\ InFlight'
  BY <1>1, <1>2 DEF Jobs, OneJobPerUser, Apart, Alone, InFlight, Busy
<1> QED
  BY <1>3, <1>4

LEMMA EnqueueKeepsJobs ==
  ASSUME TypeOK, Jobs, NEW u \in Users, UNCHANGED <<inflight, pump>>,
         queue' = queue \/ queue' = Enqueue(queue, gen, u)
  PROVE  Jobs'
<1>1. CASE queue' = queue
  BY <1>1 DEF Jobs, OneJobPerUser, Busy, Queued, Holds
<1>2. CASE u \notin Queued(gen) \cup inflight[gen] /\ queue' = [queue EXCEPT ![gen] = Append(@, u)]
  <2> DEFINE q == queue[gen]
  <2>1. gen \in Gens /\ q \in Seq(Users) /\ Len(q) \in Nat
    BY DEF TypeOK
  <2>2. queue'[gen] = Append(q, u) /\ \A g \in Gens : g # gen => queue'[g] = queue[g]
    BY <1>2, <2>1 DEF TypeOK
  <2>3. /\ DOMAIN q = 1 .. Len(q) /\ DOMAIN Append(q, u) = 1 .. Len(q) + 1
        /\ Append(q, u)[Len(q) + 1] = u /\ \A i \in 1 .. Len(q) : Append(q, u)[i] = q[i]
    BY <2>1
  <2> HIDE DEF q
  <2>4. \A i \in 1 .. Len(q) : q[i] # u
    BY <1>2, <2>3 DEF Queued, q
  <2>5. \A g \in Gens : \A i, j \in DOMAIN queue'[g] : queue'[g][i] = queue'[g][j] => i = j
    <3> SUFFICES ASSUME NEW g \in Gens, NEW i \in DOMAIN queue'[g], NEW j \in DOMAIN queue'[g],
                        queue'[g][i] = queue'[g][j]
                 PROVE  i = j
      OBVIOUS
    <3>1. CASE g # gen
      BY <3>1, <2>2 DEF Jobs, OneJobPerUser
    <3>2. CASE g = gen
      <4>1. \A a, b \in 1 .. Len(q) : q[a] = q[b] => a = b
        BY <2>1, <2>3 DEF Jobs, OneJobPerUser, q
      <4> QED
        BY <3>2, <4>1, <2>1, <2>2, <2>3, <2>4
    <3> QED
      BY <3>1, <3>2
  <2>6. \A g \in Gens, v \in Users :
          v \in Queued(g)' => v \in Queued(g) \/ (g = gen /\ v = u)
    <3> SUFFICES ASSUME NEW g \in Gens, NEW v \in Users, NEW i \in DOMAIN queue'[g],
                        v = queue'[g][i]
                 PROVE  v \in Queued(g) \/ (g = gen /\ v = u)
      BY DEF Queued
    <3>1. CASE g # gen
      BY <3>1, <2>2 DEF Queued
    <3>2. CASE g = gen
      <4>1. i \in 1 .. Len(q) \/ i = Len(q) + 1
        BY <3>2, <2>1, <2>2, <2>3
      <4> QED
        BY <3>2, <4>1, <2>2, <2>3 DEF Queued, q
    <3> QED
      BY <3>1, <3>2
  <2>7. \A p \in Pumps : Busy(p) => pump[p].user \notin Queued(pump[p].gen)'
    <3> SUFFICES ASSUME NEW p \in Pumps, Busy(p) PROVE pump[p].user \notin Queued(pump[p].gen)'
      OBVIOUS
    <3>1. /\ pump[p].gen \in Gens /\ pump[p].user \in Users
          /\ pump[p].user \in inflight[pump[p].gen] /\ pump[p].user \notin Queued(pump[p].gen)
      BY DEF TypeOK, Pump, Jobs, OneJobPerUser, Busy
    <3>2. pump[p].gen = gen => pump[p].user # u
      BY <3>1, <1>2
    <3>3. \A g \in Gens : g = pump[p].gen => pump[p].user \notin Queued(g)'
      BY <3>1, <3>2, <2>6
    <3> QED
      BY <3>1, <3>3 DEF Queued
  <2> QED
    BY <2>5, <2>7 DEF Jobs, OneJobPerUser, Busy, Holds, Queued
<1> QED
  BY <1>1, <1>2 DEF Enqueue

\* The head of a queue without doubles is not in its tail.
LEMMA PopKeepsJobs ==
  ASSUME TypeOK, Jobs, NEW p \in Pumps, Pop(gen, p)
  PROVE  Jobs'
<1> DEFINE q == queue[gen]
           u == Head(q)
<1>1. gen \in Gens /\ q \in Seq(Users) /\ q # <<>> /\ Len(q) \in Nat /\ pump[p].pc = "off"
  BY DEF TypeOK, Pop
<1>2. /\ u \in Users /\ Tail(q) \in Seq(Users) /\ u = q[1] /\ Len(q) >= 1
      /\ DOMAIN q = 1 .. Len(q) /\ DOMAIN Tail(q) = 1 .. Len(q) - 1
      /\ \A i \in 1 .. Len(q) - 1 : Tail(q)[i] = q[i + 1]
  BY <1>1
<1>3. queue'[gen] = Tail(q) /\ \A g \in Gens : g # gen => queue'[g] = queue[g]
  BY <1>1 DEF Pop, TypeOK
<1> HIDE DEF q
<1>4. \A a, b \in 1 .. Len(q) : q[a] = q[b] => a = b
  BY <1>1, <1>2 DEF Jobs, OneJobPerUser, q
<1>5. \A g \in Gens : \A i, j \in DOMAIN queue'[g] : queue'[g][i] = queue'[g][j] => i = j
  <2>1. \A i, j \in DOMAIN queue'[gen] : queue'[gen][i] = queue'[gen][j] => i = j
    <3> SUFFICES ASSUME NEW i \in 1 .. Len(q) - 1, NEW j \in 1 .. Len(q) - 1,
                        q[i + 1] = q[j + 1]
                 PROVE  i = j
      BY SMTT(20), <1>2, <1>3
    <3>1. i + 1 \in 1 .. Len(q) /\ j + 1 \in 1 .. Len(q)
      BY <1>1
    <3>2. i + 1 = j + 1
      BY <3>1, <1>4
    <3> QED
      BY <3>2
  <2>2. \A g \in Gens : g # gen =>
          \A i, j \in DOMAIN queue'[g] : queue'[g][i] = queue'[g][j] => i = j
    BY <1>3 DEF Jobs, OneJobPerUser
  <2> QED
    BY <2>1, <2>2
<1>6. \A g \in Gens : \A v : v \in Queued(g)' => v \in Queued(g) /\ (g = gen => v # u)
  <2> SUFFICES ASSUME NEW g \in Gens, NEW v, NEW i \in DOMAIN queue'[g], v = queue'[g][i]
               PROVE  v \in Queued(g) /\ (g = gen => v # u)
    BY DEF Queued
  <2>1. CASE g # gen
    BY <2>1, <1>3 DEF Queued
  <2>2. CASE g = gen
    <3>1. i \in 1 .. Len(q) - 1 /\ v = q[i + 1]
      BY <2>2, <1>2, <1>3
    <3>2. i + 1 \in 1 .. Len(q) /\ 1 \in 1 .. Len(q) /\ i + 1 # 1
      BY <3>1, <1>1, <1>2
    <3>3. v # u
      BY <3>1, <3>2, <1>2, <1>4
    <3>4. v \in Queued(g)
      BY <2>2, <3>1, <3>2, <1>2 DEF Queued, q
    <3> QED
      BY <3>3, <3>4
  <2> QED
    BY <2>1, <2>2
<1>7. \A r \in Pumps : Busy(r) => /\ pump[r].gen \in Gens /\ pump[r].user \in Users
                                  /\ pump[r].user \in inflight[pump[r].gen]
                                  /\ pump[r].user \notin Queued(pump[r].gen)
  BY DEF TypeOK, Pump, Jobs, OneJobPerUser, Busy
<1>8. CASE UNCHANGED <<inflight, pump>>
  <2>1. \A r \in Pumps, g \in Gens : Busy(r) /\ g = pump[r].gen => pump[r].user \notin Queued(g)'
    BY <1>6, <1>7
  <2>2. NotQueued'
    BY <1>7, <1>8, <2>1 DEF NotQueued, Queued, Busy
  <2>3. Alone' /\ InFlight'
    BY <1>8, JobsParts DEF Alone, InFlight
  <2> QED
    BY <1>5, <2>2, <2>3, JobsParts DEF Apart
<1>9. CASE /\ u \notin inflight[gen]
           /\ inflight' = [inflight EXCEPT ![gen] = @ \cup {u}]
           /\ pump' = [pump EXCEPT ![p].pc = "sem", ![p].gen = gen, ![p].user = u]
  <2> HIDE DEF u
  <2>1. /\ pump'[p].pc = "sem" /\ pump'[p].gen = gen /\ pump'[p].user = u
        /\ \A r \in Pumps : r # p => pump'[r] = pump[r]
    BY <1>1, <1>9 DEF TypeOK, Pump
  <2>2. \A g \in Gens : inflight[g] \subseteq inflight'[g]
    BY <1>9 DEF TypeOK
  <2>3. u \in inflight'[gen]
    BY <1>1, <1>9 DEF TypeOK
  <2>4. \A r \in Pumps : Busy(r)' => pump'[r].user \in inflight'[pump'[r].gen]
    BY <1>7, <2>1, <2>2, <2>3 DEF Busy
  <2>5. \A r \in Pumps, g \in Gens : Busy(r)' /\ g = pump'[r].gen => pump'[r].user \notin Queued(g)'
    BY <1>1, <1>2, <1>6, <1>7, <2>1 DEF Busy
  <2>6. \A r \in Pumps : Busy(r)' => pump'[r].user \notin Queued(pump[r].gen)'
    <3> SUFFICES ASSUME NEW r \in Pumps, Busy(r)' PROVE pump'[r].user \notin Queued(pump[r].gen)'
      OBVIOUS
    <3>1. pump'[r].gen \in Gens
      BY <1>1, <1>7, <2>1 DEF Busy
    <3> QED
      BY <3>1, <2>5 DEF Queued
  <2>7. \A r, s \in Pumps : r # s /\ Busy(r)' /\ Busy(s)' /\ pump'[r].gen = pump'[s].gen =>
          pump'[r].user # pump'[s].user /\ ~(Holds(r)' /\ Holds(s)')
    <3> SUFFICES ASSUME NEW r \in Pumps, NEW s \in Pumps, r # s, Busy(r)', Busy(s)',
                        pump'[r].gen = pump'[s].gen
                 PROVE  pump'[r].user # pump'[s].user /\ ~(Holds(r)' /\ Holds(s)')
      OBVIOUS
    <3>1. CASE r # p /\ s # p
      BY <3>1, <2>1 DEF Jobs, OneJobPerUser, Busy, Holds
    <3>2. \A t \in Pumps : t # p /\ Busy(t) /\ pump[t].gen = gen => pump[t].user # u
      BY <1>7, <1>9
    <3>3. CASE r = p
      <4>1. Busy(s) /\ pump[s].gen = gen /\ pump'[s].user = pump[s].user /\ s # p
        BY <3>3, <2>1 DEF Busy
      <4>2. ~Holds(r)'
        BY <3>3, <2>1 DEF Holds
      <4> QED
        BY <3>2, <3>3, <4>1, <4>2, <2>1
    <3>4. CASE s = p
      <4>1. Busy(r) /\ pump[r].gen = gen /\ pump'[r].user = pump[r].user /\ r # p
        BY <3>4, <2>1 DEF Busy
      <4>2. ~Holds(s)'
        BY <3>4, <2>1 DEF Holds
      <4> QED
        BY <3>2, <3>4, <4>1, <4>2, <2>1
    <3> QED
      BY <3>1, <3>3, <3>4
  <2> QED
    BY <1>5, <2>4, <2>6, <2>7 DEF Jobs, OneJobPerUser, Busy
<1> QED
  BY <1>8, <1>9 DEF Pop, q

\* A job that ends takes its user, and only its user, out of flight.
LEMMA EndKeepsJobs ==
  ASSUME TypeOK, Jobs, NEW p \in Pumps, Busy(p), End(p), UNCHANGED queue
  PROVE  Jobs'
<1>1. ~Busy(p)' /\ \A r \in Pumps : r # p => pump'[r] = pump[r]
  BY DEF End, TypeOK, NoPump, Busy
<1>2. \A r \in Pumps : Busy(r)' => pump'[r].user \in inflight'[pump'[r].gen]
  <2> SUFFICES ASSUME NEW r \in Pumps, Busy(r)' PROVE pump'[r].user \in inflight'[pump'[r].gen]
    OBVIOUS
  <2>1. r # p /\ pump'[r] = pump[r] /\ Busy(r)
    BY <1>1 DEF Busy
  <2>2. pump[r].user \in inflight[pump[r].gen] /\ pump[r].gen \in Gens /\ pump[p].gen \in Gens
    BY <2>1 DEF Jobs, TypeOK, Pump
  <2>3. pump[r].gen = pump[p].gen => pump[r].user # pump[p].user
    BY <2>1 DEF Jobs, OneJobPerUser, Busy
  <2> QED
    BY <2>1, <2>2, <2>3 DEF End, TypeOK
<1>3. Apart' /\ NotQueued' /\ Alone'
  BY <1>1, JobsParts DEF Apart, NotQueued, Alone, Busy
<1>4. InFlight'
  BY <1>2 DEF InFlight, Busy
<1> QED
  BY <1>3, <1>4, JobsParts

\* Steps of a job that stays in flight and takes no semaphore.
LEMMA StayKeepsJobs ==
  ASSUME TypeOK, Jobs, UNCHANGED <<queue, inflight>>, NEW p \in Pumps,
         pump'[p].user = pump[p].user, pump'[p].gen = pump[p].gen,
         Busy(p)' => Busy(p), Holds(p)' => Holds(p),
         \A r \in Pumps \ {p} : pump'[r] = pump[r]
  PROVE  Jobs'
<1>1. \A r \in Pumps : /\ pump'[r].user = pump[r].user /\ pump'[r].gen = pump[r].gen
                       /\ pump'[r].pc # "off" => pump[r].pc # "off"
                       /\ pump'[r].pc \in {"read", "ask"} => pump[r].pc \in {"read", "ask"}
  BY DEF Busy, Holds
<1>2. Apart' /\ NotQueued'
  BY <1>1, JobsParts DEF Apart, NotQueued
<1>3. Alone' /\ InFlight'
  BY <1>1, JobsParts DEF Alone, InFlight
<1> QED
  BY <1>2, <1>3, JobsParts

LEMMA JobKeepsJobs ==
  ASSUME TypeOK, Jobs, NEW p \in Pumps, Job(p)
  PROVE  Jobs'
<1>1. pump[p] \in Pump
  BY DEF TypeOK
<1>2. CASE Start(p)
  <2>1. /\ pump'[p].pc = "read" /\ pump'[p].user = pump[p].user /\ pump'[p].gen = pump[p].gen
        /\ \A r \in Pumps : r # p => pump'[r] = pump[r]
    BY <1>1, <1>2 DEF Start, TypeOK, Pump
  <2>2. \A r \in Pumps : Holds(r) => pump[r].gen # pump[p].gen
    BY <1>2 DEF Start
  <2>3. Alone'
    <3>1. pump[p].pc # "off"
      BY <1>2 DEF Start
    <3> QED
      BY <2>1, <2>2, <3>1, JobsParts DEF Alone, Holds
  <2>4. Apart' /\ NotQueued' /\ InFlight'
    <3>1. pump[p].pc # "off" /\ UNCHANGED <<queue, inflight>>
      BY <1>2 DEF Start
    <3> QED
      BY <2>1, <3>1, JobsParts DEF Apart, NotQueued, InFlight
  <2> QED
    BY <2>3, <2>4, JobsParts
<1>3. CASE Read(p)
  <2>1. CASE End(p)
    BY <2>1, <1>3, EndKeepsJobs DEF Read, Busy
  <2>2. CASE ~End(p)
    <3> DEFINE u == pump[p].user
               n == Unprofiled(u, profile[u].count)
    <3>1. /\ pump' = [pump EXCEPT ![p].pc = "ask", ![p].copy = profile[u], ![p].fresh = n]
          /\ UNCHANGED inflight
      BY <2>2, <1>3 DEF Read
    <3> HIDE DEF n
    <3>2. /\ pump'[p].pc = "ask" /\ pump'[p].user = u /\ pump'[p].gen = pump[p].gen
          /\ \A r \in Pumps \ {p} : pump'[r] = pump[r]
      BY <3>1, <1>1 DEF TypeOK, Pump
    <3> QED
      BY <3>1, <3>2, <1>3, StayKeepsJobs DEF Read, Busy, Holds
  <2> QED
    BY <2>1, <2>2
<1>4. CASE Profiled(p) \/ ProfileFails(p)
  BY <1>4, EndKeepsJobs DEF Profiled, ProfileFails, Busy
<1> QED
  BY <1>2, <1>3, <1>4 DEF Job

LEMMA InitJobs == Init => Jobs
<1> SUFFICES ASSUME Init PROVE Jobs
  OBVIOUS
<1>1. \A p \in Pumps : ~Busy(p)
  BY DEF Init, Busy, NoPump
<1>2. \A g \in Gens : DOMAIN queue[g] = {}
  BY DEF Init
<1> QED
  BY <1>1, <1>2 DEF Jobs, OneJobPerUser, Busy

LEMMA NextJobs == TypeOK /\ Jobs /\ [Next]_vars => Jobs'
<1> SUFFICES ASSUME TypeOK, Jobs, [Next]_vars PROVE Jobs'
  OBVIOUS
<1>1. ASSUME NEW d \in Dispatches, Answer(d) PROVE Jobs'
  <2>1. UserOf[d] \in Users
    BY UserMemoryAssumption
  <2> QED
    BY <1>1, <2>1, EnqueueKeepsJobs DEF Answer, AfterDispatch, AppendTurn, TouchProfile
<1>2. ASSUME NEW u \in Users, Scan(u) PROVE Jobs'
  BY <1>2, EnqueueKeepsJobs DEF Scan
<1>3. ASSUME NEW u \in Users, CommandOf(u) PROVE Jobs'
  <2>1. CASE AskToForget(u)
    BY <2>1, EnqueueKeepsJobs DEF AskToForget
  <2>2. CASE ~AskToForget(u)
    BY <1>3, <2>2, CommandSaves, EnqueueKeepsJobs DEF Command
  <2> QED
    BY <2>1, <2>2
<1>4. CASE Reload \/ UNCHANGED vars
  BY <1>4 DEF Reload, vars, Jobs, OneJobPerUser, Busy, Holds, Queued
<1> QED
  BY <1>1, <1>2, <1>3, <1>4, PopKeepsJobs, JobKeepsJobs DEF Next

\* A scheduler has one job per user and runs one profiler at a time, for every number of
\* users, pumps and schedulers (Enqueue, pump).
THEOREM OneJob == Spec => []OneJobPerUser
<1>1. TypeOK /\ Jobs => OneJobPerUser
  BY DEF Jobs
<1> QED
  BY <1>1, InitJobs, NextJobs, TypeCorrect, PTL DEF Spec
-----------------------------------------------------------------------------
(* Copies of a profile *)

Agrees(copy, u) == copy.opted = asked[u].opted /\ copy.locked = asked[u].locked

\* Who holds a copy of the profile of a user whose copies no command has crossed holds
\* what the last command made of it, and a cursor that its turns reach.
Copies ==
  \A u \in Users \ torn :
    /\ Agrees(profile[u], u) /\ profile[u].count <= turns[u]
    /\ \A p \in Pumps : pump[p].pc = "ask" /\ pump[p].user = u =>
         Agrees(pump[p].copy, u) /\ pump[p].copy.count + pump[p].fresh <= turns[u]
    /\ \A d \in Dispatches : dispatch[d].pc \in {"append", "save"} /\ UserOf[d] = u =>
         Agrees(dispatch[d].copy, u) /\ dispatch[d].copy.count <= turns[u]

\* A write of a copy that agrees, or none, beside a change of who holds copies.
LEMMA WriteKeepsCopies ==
  ASSUME TypeOK, Copies, UNCHANGED <<asked, torn>>,
         \A u \in Users : turns[u] <= turns'[u] /\ turns'[u] \in Nat,
         \A u \in Users \ torn :
           Agrees(profile'[u], u) /\ profile'[u].count \in Nat /\ profile'[u].count <= turns[u],
         \A p \in Pumps : pump'[p].pc = "ask" =>
           \/ pump'[p] = pump[p]
           \/ /\ pump'[p].copy = profile[pump'[p].user] /\ pump'[p].copy \in Profile
              /\ pump'[p].fresh = Unprofiled(pump'[p].user, pump'[p].copy.count),
         \A d \in Dispatches : dispatch'[d].pc \in {"append", "save"} =>
           dispatch'[d].copy = profile[UserOf[d]] \/
             (dispatch[d].pc \in {"append", "save"} /\ dispatch'[d].copy = dispatch[d].copy)
  PROVE  Copies'
<1> SUFFICES ASSUME NEW u \in Users \ torn
             PROVE  /\ Agrees(profile'[u], u) /\ profile'[u].count <= turns'[u]
                    /\ \A p \in Pumps : pump'[p].pc = "ask" /\ pump'[p].user = u =>
                         /\ Agrees(pump'[p].copy, u)
                         /\ pump'[p].copy.count + pump'[p].fresh <= turns'[u]
                    /\ \A d \in Dispatches :
                         dispatch'[d].pc \in {"append", "save"} /\ UserOf[d] = u =>
                           Agrees(dispatch'[d].copy, u) /\ dispatch'[d].copy.count <= turns'[u]
  BY DEF Copies, Agrees
<1>1. turns[u] \in Nat /\ turns'[u] \in Nat /\ turns[u] <= turns'[u] /\ profile[u] \in Profile
      /\ profile[u].count \in Nat
  BY DEF TypeOK, Profile
<1>2. Agrees(profile[u], u) /\ profile[u].count <= turns[u]
  BY DEF Copies
<1>3. ASSUME NEW p \in Pumps, pump'[p].pc = "ask", pump'[p].user = u
      PROVE  Agrees(pump'[p].copy, u) /\ pump'[p].copy.count + pump'[p].fresh <= turns'[u]
  <2>1. CASE pump'[p] = pump[p]
    <3>1. pump[p].copy.count \in Nat /\ pump[p].fresh \in Nat
      BY DEF TypeOK, Pump, Profile
    <3>2. Agrees(pump[p].copy, u) /\ pump[p].copy.count + pump[p].fresh <= turns[u]
      BY <2>1, <1>3 DEF Copies
    <3> QED
      BY <2>1, <3>1, <3>2, <1>1
  <2>2. CASE pump'[p].copy = profile[u] /\ pump'[p].fresh = Unprofiled(u, profile[u].count)
    <3>1. /\ Unprofiled(u, profile[u].count) \in Nat
          /\ profile[u].count + Unprofiled(u, profile[u].count) <= turns[u]
      BY <1>1, <1>2, UnprofiledType
    <3> QED
      BY <2>2, <3>1, <1>1, <1>2
  <2> QED
    BY <2>1, <2>2, <1>3
<1>4. ASSUME NEW d \in Dispatches, dispatch'[d].pc \in {"append", "save"}, UserOf[d] = u
      PROVE  Agrees(dispatch'[d].copy, u) /\ dispatch'[d].copy.count <= turns'[u]
  <2>1. CASE dispatch'[d].copy = profile[u]
    BY <2>1, <1>1, <1>2
  <2>2. CASE dispatch[d].pc \in {"append", "save"} /\ dispatch'[d].copy = dispatch[d].copy
    <3>1. dispatch[d].copy.count \in Nat
      BY DEF TypeOK, Dispatch, Profile
    <3>2. Agrees(dispatch[d].copy, u) /\ dispatch[d].copy.count <= turns[u]
      BY <2>2, <1>4 DEF Copies
    <3> QED
      BY <2>2, <3>1, <3>2, <1>1
  <2> QED
    BY <2>1, <2>2, <1>4
<1> QED
  BY <1>1, <1>3, <1>4

LEMMA CopiesOfTypes ==
  ASSUME TypeOK
  PROVE  /\ \A u \in Users : turns[u] \in Nat /\ turns[u] <= turns[u]
                             /\ profile[u] \in Profile /\ profile[u].count \in Nat
         /\ \A p \in Pumps : /\ pump[p] \in Pump /\ pump[p].user \in Users
                             /\ pump[p].copy \in Profile
                             /\ pump[p].copy.count \in Nat /\ pump[p].fresh \in Nat
         /\ \A d \in Dispatches : /\ UserOf[d] \in Users /\ dispatch[d] \in Dispatch
                                  /\ dispatch[d].copy \in Profile
                                  /\ dispatch[d].copy.count \in Nat
BY UserMemoryAssumption DEF TypeOK, Profile, Pump, Dispatch

LEMMA EndPumps ==
  ASSUME TypeOK, NEW p \in Pumps, End(p)
  PROVE  \A r \in Pumps : pump'[r].pc = "ask" => pump'[r] = pump[r]
BY DEF End, TypeOK, NoPump

LEMMA JobKeepsCopies ==
  ASSUME TypeOK, Copies, NEW p \in Pumps, Job(p)
  PROVE  Copies'
<1> DEFINE u == pump[p].user
<1>1. CASE Start(p)
  <2>1. \A r \in Pumps : pump'[r].pc = "ask" => pump'[r] = pump[r]
    BY <1>1, CopiesOfTypes DEF Start, TypeOK, Pump
  <2>2. UNCHANGED <<profile, turns, asked, torn, dispatch>>
    BY <1>1 DEF Start, files, ghosts
  <2> QED
    BY <2>1, <2>2, CopiesOfTypes, WriteKeepsCopies DEF Copies
<1>2. CASE Read(p)
  <2>1. UNCHANGED <<profile, turns, asked, torn, dispatch>>
    BY <1>2 DEF Read, files, ghosts
  <2>2. CASE End(p)
    BY <2>1, <2>2, EndPumps, CopiesOfTypes, WriteKeepsCopies DEF Copies
  <2>3. CASE ~End(p)
    <3> DEFINE n == Unprofiled(u, profile[u].count)
               y == [pump[p] EXCEPT !.pc = "ask", !.copy = profile[u], !.fresh = n]
    <3>1. pump' = [pump EXCEPT ![p].pc = "ask", ![p].copy = profile[u], ![p].fresh = n]
      BY <2>3, <1>2 DEF Read
    <3>2. pump' = [pump EXCEPT ![p] = y]
      BY <3>1 DEF TypeOK
    <3>3. y.copy = profile[u] /\ y.user = u /\ y.fresh = n
      BY CopiesOfTypes DEF Pump
    <3> HIDE DEF y, n
    <3>4. \A r \in Pumps : pump'[r] = pump[r] \/ pump'[r] = y
      BY <3>2 DEF TypeOK
    <3>5. \A r \in Pumps : pump'[r].pc = "ask" =>
            \/ pump'[r] = pump[r]
            \/ /\ pump'[r].copy = profile[pump'[r].user] /\ pump'[r].copy \in Profile
               /\ pump'[r].fresh = Unprofiled(pump'[r].user, pump'[r].copy.count)
      BY <3>3, <3>4, CopiesOfTypes DEF n
    <3> QED
      BY <2>1, <3>5, CopiesOfTypes, WriteKeepsCopies DEF Copies
  <2> QED
    BY <2>2, <2>3
<1>3. CASE Profiled(p) \/ ProfileFails(p)
  <2> DEFINE x == IF Profiled(p) THEN Learned(pump[p].copy, pump[p].fresh) ELSE pump[p].copy
  <2>1. /\ x \in Profile /\ x.opted = pump[p].copy.opted /\ x.locked = pump[p].copy.locked
        /\ x.count \in Nat /\ x.count <= pump[p].copy.count + pump[p].fresh
    <3>1. CASE Profiled(p)
      <4> DEFINE c == pump[p].copy
                 n == pump[p].fresh
      <4>1. c \in Profile /\ n \in Nat /\ c.count \in Nat
        BY CopiesOfTypes
      <4> HIDE DEF c, n
      <4>2. /\ Learned(c, n) \in Profile /\ Learned(c, n).count = c.count + n
            /\ Learned(c, n).opted = c.opted /\ Learned(c, n).locked = c.locked
        BY <4>1, LearnedType
      <4>3. c.count + n \in Nat
        BY <4>1
      <4>4. x = Learned(c, n)
        BY <3>1 DEF c, n
      <4> HIDE DEF x
      <4> QED
        BY <4>2, <4>3, <4>4 DEF c, n
    <3>2. CASE ~Profiled(p)
      BY <3>2, CopiesOfTypes
    <3> QED
      BY <3>1, <3>2
  <2>2. Save(u, x) /\ End(p) /\ UNCHANGED <<turns, asked, torn, dispatch>> /\ pump[p].pc = "ask"
    BY <1>3 DEF Profiled, ProfileFails, ghosts
  <2> HIDE DEF x
  <2>3. /\ \A v \in Users \ {u} : profile'[v] = profile[v]
        /\ profile'[u].opted = x.opted /\ profile'[u].locked = x.locked
        /\ profile'[u].count = x.count
    BY <2>1, <2>2, SaveFields, CopiesOfTypes
  <2>4. u \notin torn =>
          Agrees(pump[p].copy, u) /\ pump[p].copy.count + pump[p].fresh <= turns[u]
    BY <2>2, CopiesOfTypes DEF Copies
  <2>5. u \notin torn =>
          Agrees(profile'[u], u) /\ profile'[u].count \in Nat /\ profile'[u].count <= turns[u]
    BY <2>1, <2>3, <2>4, CopiesOfTypes DEF Agrees
  <2>6. \A v \in Users \ torn :
          Agrees(profile'[v], v) /\ profile'[v].count \in Nat /\ profile'[v].count <= turns[v]
    BY <2>3, <2>5, CopiesOfTypes DEF Copies
  <2> QED
    BY <2>2, <2>6, EndPumps, CopiesOfTypes, WriteKeepsCopies
<1> QED
  BY <1>1, <1>2, <1>3 DEF Job

LEMMA AnswerKeepsCopies ==
  ASSUME TypeOK, Copies, NEW d \in Dispatches, Answer(d)
  PROVE  Copies'
<1> DEFINE u == UserOf[d]
<1>1. u \in Users /\ dispatch \in [Dispatches -> Dispatch]
  BY CopiesOfTypes DEF TypeOK
<1>2. CASE AfterDispatch(d)
  <2>1. UNCHANGED <<profile, turns, asked, torn, pump>>
    BY <1>2 DEF AfterDispatch, files, ghosts
  <2>2. \A e \in Dispatches : dispatch'[e].pc \in {"append", "save"} =>
          dispatch'[e].copy = profile[UserOf[e]] \/
            (dispatch[e].pc \in {"append", "save"} /\ dispatch'[e].copy = dispatch[e].copy)
    BY <1>1, <1>2 DEF AfterDispatch
  <2> QED
    BY <2>1, <2>2, CopiesOfTypes, WriteKeepsCopies DEF Copies
<1>3. CASE AppendTurn(d)
  <2>1. UNCHANGED <<profile, asked, torn, pump>>
    BY <1>3 DEF AppendTurn, ghosts
  <2>2. \A v \in Users : turns[v] <= turns'[v] /\ turns'[v] \in Nat
    BY <1>1, <1>3, CopiesOfTypes DEF AppendTurn, TypeOK
  <2>3. \A e \in Dispatches : dispatch'[e].pc \in {"append", "save"} =>
          dispatch[e].pc \in {"append", "save"} /\ dispatch'[e].copy = dispatch[e].copy
    BY <1>1, <1>3 DEF AppendTurn, Dispatch
  <2> QED
    BY <2>1, <2>2, <2>3, CopiesOfTypes, WriteKeepsCopies DEF Copies
<1>4. CASE TouchProfile(d)
  <2> DEFINE x == [dispatch[d].copy EXCEPT !.seen = TRUE]
  <2>1. /\ x \in Profile /\ x.opted = dispatch[d].copy.opted
        /\ x.locked = dispatch[d].copy.locked /\ x.count = dispatch[d].copy.count
    BY CopiesOfTypes DEF Profile
  <2>2. /\ Save(u, x) /\ UNCHANGED <<turns, asked, torn, pump>> /\ dispatch[d].pc = "save"
        /\ dispatch' = [dispatch EXCEPT ![d] = [pc |-> "done", copy |-> NoProfile]]
    BY <1>4 DEF TouchProfile, ghosts
  <2> HIDE DEF x
  <2>3. /\ \A v \in Users \ {u} : profile'[v] = profile[v]
        /\ profile'[u].opted = x.opted /\ profile'[u].locked = x.locked
        /\ profile'[u].count = x.count
    BY <1>1, <2>1, <2>2, SaveFields
  <2>4. u \notin torn => Agrees(dispatch[d].copy, u) /\ dispatch[d].copy.count <= turns[u]
    BY <1>1, <2>2 DEF Copies
  <2>5. u \notin torn =>
          Agrees(profile'[u], u) /\ profile'[u].count \in Nat /\ profile'[u].count <= turns[u]
    BY <2>1, <2>3, <2>4, CopiesOfTypes DEF Agrees
  <2>6. \A v \in Users \ torn :
          Agrees(profile'[v], v) /\ profile'[v].count \in Nat /\ profile'[v].count <= turns[v]
    BY <2>3, <2>5, CopiesOfTypes DEF Copies
  <2>7. \A e \in Dispatches : dispatch'[e].pc \in {"append", "save"} => dispatch'[e] = dispatch[e]
    BY <1>1, <2>2
  <2> QED
    BY <2>2, <2>6, <2>7, CopiesOfTypes, WriteKeepsCopies
<1> QED
  BY <1>2, <1>3, <1>4 DEF Answer

\* A command that finds no copy of the profile has the last word on it; one that does
\* makes the user torn.
LEMMA CommandKeepsCopies ==
  ASSUME TypeOK, Copies, NEW u \in Users, CommandOf(u)
  PROVE  Copies'
<1>1. CASE AskToForget(u)
  <2> DEFINE x == [profile[u] EXCEPT !.pending = TRUE]
  <2>1. x \in Profile /\ x.opted = profile[u].opted /\ x.locked = profile[u].locked
        /\ x.count = profile[u].count
    BY CopiesOfTypes DEF Profile
  <2>2. Save(u, x) /\ UNCHANGED <<turns, asked, torn, pump, dispatch>>
    BY <1>1 DEF AskToForget, ghosts
  <2> HIDE DEF x
  <2>3. \A v \in Users : /\ profile'[v].opted = profile[v].opted
                         /\ profile'[v].locked = profile[v].locked
                         /\ profile'[v].count = profile[v].count
    BY <2>1, <2>2, SaveFields
  <2>4. \A v \in Users \ torn :
          Agrees(profile'[v], v) /\ profile'[v].count \in Nat /\ profile'[v].count <= turns[v]
    BY <2>3, CopiesOfTypes DEF Copies, Agrees
  <2> QED
    BY <2>2, <2>4, CopiesOfTypes, WriteKeepsCopies
<1>2. CASE ~AskToForget(u)
  <2>1. PICK x \in Profile, n \in Nat :
          /\ profile' = [profile EXCEPT ![u] = x] /\ turns' = [turns EXCEPT ![u] = n]
          /\ profile[u].count <= turns[u] => x.count <= n
    BY <1>2, CommandSaves
  <2>2. /\ torn' = IF Copied(u) THEN torn \cup {u} ELSE torn
        /\ asked' = [asked EXCEPT ![u] = [opted |-> profile'[u].opted, locked |-> profile'[u].locked]]
        /\ UNCHANGED <<pump, dispatch>>
    BY <1>2, CommandSaves DEF Command
  <2>3. /\ profile'[u] = x /\ turns'[u] = n
        /\ \A v \in Users \ {u} : profile'[v] = profile[v] /\ turns'[v] = turns[v]
                                  /\ asked'[v] = asked[v]
        /\ asked'[u] = [opted |-> x.opted, locked |-> x.locked]
    BY <2>1, <2>2 DEF TypeOK
  <2> SUFFICES ASSUME NEW v \in Users \ torn'
               PROVE  /\ Agrees(profile[v], v)' /\ profile'[v].count <= turns'[v]
                      /\ \A p \in Pumps : pump[p].pc = "ask" /\ pump[p].user = v =>
                           /\ Agrees(pump[p].copy, v)'
                           /\ pump[p].copy.count + pump[p].fresh <= turns'[v]
                      /\ \A d \in Dispatches :
                           dispatch[d].pc \in {"append", "save"} /\ UserOf[d] = v =>
                             Agrees(dispatch[d].copy, v)' /\ dispatch[d].copy.count <= turns'[v]
    BY <2>2 DEF Copies
  <2>4. v \notin torn
    BY <2>2
  <2>5. CASE v = u
    <3>1. ~Copied(u)
      BY <2>2, <2>5
    <3>2. profile[u].count <= turns[u]
      BY <2>4, <2>5 DEF Copies
    <3>3. Agrees(profile[v], v)' /\ profile'[v].count <= turns'[v]
      BY <2>1, <2>3, <2>5, <3>2 DEF Agrees
    <3> QED
      BY <2>5, <3>1, <3>3 DEF Copied
  <2>6. CASE v # u
    BY <2>2, <2>3, <2>4, <2>6 DEF Copies, Agrees
  <2> QED
    BY <2>5, <2>6
<1> QED
  BY <1>1, <1>2

LEMMA InitCopies == Init => Copies
<1> SUFFICES ASSUME Init PROVE Copies
  OBVIOUS
<1>1. \A u \in Users : Agrees(profile[u], u) /\ profile[u].count <= turns[u]
  <2> SUFFICES ASSUME NEW u \in Users
               PROVE  Agrees(profile[u], u) /\ profile[u].count <= turns[u]
    OBVIOUS
  <2>1. profile[u] = NoProfile /\ turns[u] = 0 /\ asked[u] = [opted |-> FALSE, locked |-> FALSE]
    BY DEF Init
  <2>2. NoProfile.count = 0 /\ NoProfile.opted = FALSE /\ NoProfile.locked = FALSE
    BY DEF NoProfile
  <2>3. profile[u].opted = asked[u].opted /\ profile[u].locked = asked[u].locked
    <3>1. asked[u].opted = FALSE /\ asked[u].locked = FALSE
      BY <2>1
    <3>2. profile[u].opted = FALSE /\ profile[u].locked = FALSE
      BY <2>1, <2>2, Zenon
    <3> QED
      BY <3>1, <3>2, Zenon
  <2>4. profile[u].count = 0 /\ turns[u] = 0
    BY <2>1, <2>2
  <2>5. profile[u].count <= turns[u]
    BY <2>4
  <2> QED
    BY <2>3, <2>5 DEF Agrees
<1>2. \A p \in Pumps : pump[p].pc # "ask"
  BY DEF Init, NoPump
<1>3. \A d \in Dispatches : dispatch[d].pc = "idle"
  BY DEF Init
<1> QED
  BY <1>1, <1>2, <1>3 DEF Copies

LEMMA NextCopies == TypeOK /\ Copies /\ [Next]_vars => Copies'
<1> SUFFICES ASSUME TypeOK, Copies, [Next]_vars PROVE Copies'
  OBVIOUS
<1>1. ASSUME NEW p \in Pumps, Pop(gen, p) PROVE Copies'
  <2>1. UNCHANGED <<profile, turns, asked, torn, dispatch>>
    BY <1>1 DEF Pop, files, ghosts
  <2>2. \A r \in Pumps : pump'[r].pc = "ask" => pump'[r] = pump[r]
    BY <1>1, CopiesOfTypes DEF Pop, TypeOK, Pump
  <2> QED
    BY <2>1, <2>2, CopiesOfTypes, WriteKeepsCopies DEF Copies
<1>2. ASSUME (\E u \in Users : Scan(u)) \/ Reload \/ UNCHANGED vars PROVE Copies'
  <2>1. UNCHANGED <<profile, turns, asked, torn, dispatch, pump>>
    BY <1>2 DEF Scan, Reload, vars, files, ghosts
  <2> QED
    BY <2>1, CopiesOfTypes, WriteKeepsCopies DEF Copies
<1> QED
  BY <1>1, <1>2, JobKeepsCopies, AnswerKeepsCopies, CommandKeepsCopies DEF Next

LEMMA CopiesHold == Spec => [](TypeOK /\ Copies)
BY InitTypeOK, NextTypeOK, InitCopies, NextCopies, PTL DEF Spec

\* Whatever answers and profilers write back, the cursor of a user whose copies no
\* command has crossed stays within the turns (RunProfiler, AfterDispatch).
THEOREM CountStays == Spec => []CountWithinTurns
<1>1. TypeOK /\ Copies => CountWithinTurns
  BY DEF Copies, CountWithinTurns
<1> QED
  BY <1>1, CopiesHold, PTL

\* What a command has made of opted_out and the locks survives every write of the
\* profile by an answer or a profiler that held no copy at the command.
THEOREM CommandsStay == Spec => []CommandsHold
<1>1. TypeOK /\ Copies => CommandsHold
  BY DEF Copies, CommandsHold, Agrees
<1> QED
  BY <1>1, CopiesHold, PTL
=============================================================================
