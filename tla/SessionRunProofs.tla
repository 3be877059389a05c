-------------------------- MODULE SessionRunProofs --------------------------
(***************************************************************************)
(* Machine-checked proofs about SessionRun: the state is well typed, the    *)
(* token of a session is never lost or doubled, two CLI processes work in  *)
(* one chat only when a reload came between their calls, and until then a  *)
(* run continues the chat of everyone who has spoken in its session since  *)
(* it was last cleared, never one that was cleared.                         *)
(***************************************************************************)
EXTENDS SessionRun, TLAPS

LEMMA GensFacts ==
  /\ 0 \in Gens
  /\ \A n \in Gens : n \in Nat
  /\ \A n \in Nat, k \in Nat : k <= MaxCrashes /\ n - k < MaxReloads /\ n \in Gens => n + 1 \in Gens
  /\ \A n \in Nat, k \in Nat : k < MaxCrashes /\ n - k <= MaxReloads /\ n \in Gens => n + 1 \in Gens
BY SessionRunAssumption DEF Gens

-----------------------------------------------------------------------------
(* Type correctness *)

LEMMA InitTypeOK == Init => TypeOK
<1> SUFFICES ASSUME Init PROVE TypeOK
  OBVIOUS
<1>1. Idle \in Call /\ NoEntry \in Entry
  BY DEF Idle, Call, NoEntry, Entry
<1>2. call \in [Calls -> Call] /\ \A c \in Calls : call[c].orch = 0 /\ call[c].backend = 0
  BY <1>1 DEF Init, Idle
<1>3. store \in [Gens -> [Sessions -> Entry]] /\ file \in [Sessions -> Entry]
  BY <1>1 DEF Init
<1>4. conf \in [Gens -> Dirs \cup {NoDir}] /\ free \in [Gens -> [Sessions -> BOOLEAN]]
  BY DEF Init
<1>5. log \in [Calls -> SUBSET Calls] /\ since \in [Sessions -> SUBSET Calls]
  BY DEF Init
<1> QED
  BY <1>2, <1>3, <1>4, <1>5, GensFacts, SessionRunAssumption DEF Init, TypeOK

\* A change of an entry keeps the types of the store and the file.
LEMMA PutType ==
  ASSUME TypeOK, NEW g \in Gens, NEW s \in Sessions, NEW e \in Entry, Put(g, s, e)
  PROVE  store' \in [Gens -> [Sessions -> Entry]] /\ file' \in [Sessions -> Entry]
BY DEF TypeOK, Put

LEMMA ForgetType ==
  ASSUME TypeOK, NEW g \in Gens, NEW s \in Sessions, Forget(g, s)
  PROVE  /\ store' \in [Gens -> [Sessions -> Entry]] /\ file' \in [Sessions -> Entry]
         /\ cleared' \subseteq Calls /\ since' \in [Sessions -> SUBSET Calls]
<1>1. store[g][s] \in Entry
  BY DEF TypeOK
<1>2. [store[g][s] EXCEPT !.chat = NoChat] \in Entry
  BY <1>1 DEF Entry
<1>3. cleared' \subseteq Calls
  BY <1>1 DEF Forget, TypeOK, Entry
<1>4. since' \in [Sessions -> SUBSET Calls]
  BY DEF Forget, TypeOK
<1> QED
  BY <1>2, <1>3, <1>4, PutType DEF Forget

\* Every step of a call leaves the generations of the calls alone.
LEMMA GotoType ==
  ASSUME TypeOK, NEW c \in Calls,
         NEW pc \in {"idle", "wait", "clear", "entry", "create", "spawn", "run", "record",
                     "release", "done"},
         Goto(c, pc)
  PROVE  /\ call' \in [Calls -> Call]
         /\ \A d \in Calls : call'[d].orch \in Gens /\ call'[d].backend \in Gens
<1>1. call \in [Calls -> Call]
  BY DEF TypeOK
<1>2. call' = [call EXCEPT ![c] = [call[c] EXCEPT !.pc = pc]]
  BY DEF Goto
<1>3. [call[c] EXCEPT !.pc = pc] \in Call
  BY <1>1 DEF Call
<1>4. \A d \in Calls : call'[d].orch = call[d].orch /\ call'[d].backend = call[d].backend
  BY <1>1, <1>2 DEF Call
<1> QED
  BY <1>1, <1>2, <1>3, <1>4 DEF TypeOK

LEMMA ChatType ==
  ASSUME TypeOK, NEW c \in Calls, NEW chat \in Calls \cup {NoChat},
         NEW pc \in {"create", "spawn"},
         call' = [call EXCEPT ![c].chat = chat, ![c].pc = pc]
  PROVE  /\ call' \in [Calls -> Call]
         /\ \A d \in Calls : call'[d].orch \in Gens /\ call'[d].backend \in Gens
<1>1. call \in [Calls -> Call]
  BY DEF TypeOK
<1>2. call' = [call EXCEPT ![c] = [call[c] EXCEPT !.chat = chat, !.pc = pc]]
  BY <1>1 DEF Call
<1>3. [call[c] EXCEPT !.chat = chat, !.pc = pc] \in Call
  BY <1>1 DEF Call
<1>4. \A d \in Calls : call'[d].orch = call[d].orch /\ call'[d].backend = call[d].backend
  BY <1>1, <1>2 DEF Call
<1> QED
  BY <1>1, <1>2, <1>3, <1>4 DEF TypeOK

LEMMA ResumeType ==
  ASSUME TypeOK, NEW c \in Calls, NEW chat \in Calls \cup {NoChat}, Resume(c, chat)
  PROVE  /\ call' \in [Calls -> Call]
         /\ \A d \in Calls : call'[d].orch \in Gens /\ call'[d].backend \in Gens
<1> DEFINE new == IF chat = NoChat /\ Backend = "claude" THEN c ELSE chat
           pc == IF chat = NoChat /\ Backend = "cursor" THEN "create" ELSE "spawn"
<1>1. new \in Calls \cup {NoChat} /\ pc \in {"create", "spawn"}
  OBVIOUS
<1>2. call' = [call EXCEPT ![c].chat = new, ![c].pc = pc]
  BY DEF Resume
<1> HIDE DEF new, pc
<1> QED
  BY <1>1, <1>2, ChatType

LEMMA DispatchTypeOK ==
  ASSUME TypeOK, NEW c \in Calls,
         Begin(c) \/ Acquire(c) \/ AbandonWait(c) \/ Clear(c) \/ Release(c) \/ Cancel(c)
  PROVE  TypeOK'
<1>0. /\ SessionOf[c] \in Sessions /\ gen \in Gens
      /\ call[c].orch \in Gens /\ call[c].backend \in Gens
      /\ store \in [Gens -> [Sessions -> Entry]] /\ conf \in [Gens -> Dirs \cup {NoDir}]
  BY SessionRunAssumption DEF TypeOK
<1>1. CASE Begin(c)
  <2>1. PICK g \in Alive : call' = [call EXCEPT ![c] =
          [pc |-> IF conf[gen] = NoDir THEN "done" ELSE "wait", orch |-> g,
           backend |-> gen, ws |-> Workspace(g, SessionOf[c]), chat |-> NoChat]]
    BY <1>1 DEF Begin
  <2>2. g \in Gens /\ g \in Nat /\ gen \in Nat
    BY SessionRunAssumption DEF Alive, Gens, TypeOK
  <2>3. Workspace(g, SessionOf[c]) \in Dirs \cup {NoDir}
    BY <1>0, <2>2 DEF Workspace, Entry
  <2> DEFINE new == [pc |-> IF conf[gen] = NoDir THEN "done" ELSE "wait", orch |-> g,
                     backend |-> gen, ws |-> Workspace(g, SessionOf[c]), chat |-> NoChat]
  <2>4. new \in Call /\ new.orch = g /\ new.backend = gen
    BY <2>2, <2>3 DEF Call
  <2>5. call' = [call EXCEPT ![c] = new]
    BY <2>1
  <2> HIDE DEF new
  <2>6. /\ call' \in [Calls -> Call]
        /\ \A d \in Calls : call'[d].orch \in Gens /\ call'[d].backend \in Gens
    BY <1>0, <2>2, <2>4, <2>5 DEF TypeOK
  <2> QED
    BY <1>1, <2>6 DEF Begin, TypeOK, data, cli, loads, ghosts
<1>2. CASE Acquire(c)
  <2>1. free' \in [Gens -> [Sessions -> BOOLEAN]]
    BY <1>2 DEF Acquire, TypeOK
  <2>2. Goto(c, IF c \in Clearing THEN "clear" ELSE "entry")
    BY <1>2 DEF Acquire
  <2>3. /\ call' \in [Calls -> Call]
        /\ \A d \in Calls : call'[d].orch \in Gens /\ call'[d].backend \in Gens
    BY <2>2, GotoType
  <2> QED
    BY <1>2, <2>1, <2>3 DEF Acquire, TypeOK, data, cli, loads, ghosts
<1>3. CASE AbandonWait(c)
  <2>1. /\ call' \in [Calls -> Call]
        /\ \A d \in Calls : call'[d].orch \in Gens /\ call'[d].backend \in Gens
    BY <1>3, GotoType DEF AbandonWait
  <2> QED
    BY <1>3, <2>1 DEF AbandonWait, TypeOK, data, cli, loads, ghosts
<1>4. CASE Clear(c)
  <2>1. /\ call' \in [Calls -> Call]
        /\ \A d \in Calls : call'[d].orch \in Gens /\ call'[d].backend \in Gens
    BY <1>4, GotoType DEF Clear
  <2>2. /\ store' \in [Gens -> [Sessions -> Entry]] /\ file' \in [Sessions -> Entry]
        /\ cleared' \subseteq Calls /\ since' \in [Sessions -> SUBSET Calls]
    BY <1>0, <1>4, ForgetType DEF Clear, TypeOK, data, ghosts
  <2> QED
    BY <1>4, <2>1, <2>2 DEF Clear, TypeOK, cli, loads
<1>5. CASE Release(c)
  <2>1. /\ call' \in [Calls -> Call]
        /\ \A d \in Calls : call'[d].orch \in Gens /\ call'[d].backend \in Gens
    BY <1>5, GotoType DEF Release
  <2>2. free' \in [Gens -> [Sessions -> BOOLEAN]]
    BY <1>5 DEF Release, TypeOK
  <2> QED
    BY <1>5, <2>1, <2>2 DEF Release, TypeOK, data, cli, loads, ghosts
<1>6. CASE Cancel(c)
  BY <1>6 DEF Cancel, TypeOK, data, cli, loads, ghosts
<1> QED
  BY <1>1, <1>2, <1>3, <1>4, <1>5, <1>6

LEMMA RunTypeOK ==
  ASSUME TypeOK, NEW c \in Calls,
         GetEntry(c) \/ CreateChat(c) \/ Spawn(c) \/ RunEnds(c) \/ Record(c)
  PROVE  TypeOK'
<1> DEFINE g == call[c].backend
           s == SessionOf[c]
<1>0. s \in Sessions /\ g \in Gens /\ store[g][s] \in Entry /\ call[c] \in Call
  BY SessionRunAssumption DEF TypeOK
<1>1. CASE GetEntry(c)
  <2>1. store[g][s].chat \in Calls \cup {NoChat}
    BY <1>0 DEF Entry
  <2>2. \E chat \in Calls \cup {NoChat} : Resume(c, chat)
    BY <1>1, <2>1 DEF GetEntry
  <2>3. /\ call' \in [Calls -> Call]
        /\ \A d \in Calls : call'[d].orch \in Gens /\ call'[d].backend \in Gens
    BY <2>2, ResumeType
  <2>4. /\ store' \in [Gens -> [Sessions -> Entry]] /\ file' \in [Sessions -> Entry]
        /\ cleared' \subseteq Calls /\ since' \in [Sessions -> SUBSET Calls]
    BY <1>0, <1>1, ForgetType DEF GetEntry, TypeOK, data
  <2> QED
    BY <1>1, <2>3, <2>4 DEF GetEntry, TypeOK, cli, loads
<1>2. CASE CreateChat(c)
  <2>1. [store[g][s] EXCEPT !.chat = c] \in Entry
    BY <1>0 DEF Entry
  <2>2. store' \in [Gens -> [Sessions -> Entry]] /\ file' \in [Sessions -> Entry]
    BY <1>0, <1>2, <2>1, PutType DEF CreateChat, TypeOK, data
  <2>3. /\ call' \in [Calls -> Call]
        /\ \A d \in Calls : call'[d].orch \in Gens /\ call'[d].backend \in Gens
    BY <1>2, GotoType, ChatType DEF CreateChat
  <2>4. exists' \subseteq Calls
    BY <1>2 DEF CreateChat, TypeOK
  <2> QED
    BY <1>2, <2>2, <2>3, <2>4 DEF CreateChat, TypeOK, loads, ghosts
<1>3. CASE Spawn(c)
  <2>1. /\ call' \in [Calls -> Call]
        /\ \A d \in Calls : call'[d].orch \in Gens /\ call'[d].backend \in Gens
    BY <1>3, GotoType DEF Spawn
  <2> QED
    BY <1>3, <2>1 DEF Spawn, TypeOK, data, cli, loads, ghosts
<1>4. CASE RunEnds(c)
  <2>1. /\ call' \in [Calls -> Call]
        /\ \A d \in Calls : call'[d].orch \in Gens /\ call'[d].backend \in Gens
    BY <1>4, GotoType DEF RunEnds
  <2>2. /\ exists' \subseteq Calls /\ log' \in [Calls -> SUBSET Calls]
        /\ since' \in [Sessions -> SUBSET Calls]
    <3>1. CASE UNCHANGED <<cli, since>>
      BY <3>1 DEF TypeOK, cli
    <3>2. CASE ~UNCHANGED <<cli, since>>
      <4>1. /\ call[c].chat \in exists \cup {c}
            /\ exists' = exists \cup {call[c].chat}
            /\ log' = [log EXCEPT ![call[c].chat] = @ \cup {c}]
            /\ since' = IF s \in Keyed THEN [since EXCEPT ![s] = @ \cup {c}] ELSE since
        BY <1>4, <3>2 DEF RunEnds
      <4>2. call[c].chat \in Calls
        BY <4>1 DEF TypeOK
      <4> QED
        BY <1>0, <4>1, <4>2 DEF TypeOK
    <3> QED
      BY <3>1, <3>2
  <2> QED
    BY <1>4, <2>1, <2>2 DEF RunEnds, TypeOK, data, loads
<1>5. CASE Record(c)
  <2>1. [chat |-> call[c].chat,
         cwd |-> IF Backend = "claude" THEN call[c].ws ELSE store[g][s].cwd] \in Entry
    BY <1>0 DEF Entry, Call
  <2>2. store' \in [Gens -> [Sessions -> Entry]] /\ file' \in [Sessions -> Entry]
    BY <1>0, <1>5, <2>1, PutType DEF Record, TypeOK, data
  <2>3. /\ call' \in [Calls -> Call]
        /\ \A d \in Calls : call'[d].orch \in Gens /\ call'[d].backend \in Gens
    BY <1>5, GotoType DEF Record
  <2> QED
    BY <1>5, <2>2, <2>3 DEF Record, TypeOK, cli, loads, ghosts
<1> QED
  BY <1>1, <1>2, <1>3, <1>4, <1>5

LEMMA AroundTypeOK ==
  ASSUME TypeOK, (\E s \in Sessions : BareClear(s)) \/ OpenStore \/ Load \/ Crash
  PROVE  TypeOK'
<1>0. /\ gen \in Nat /\ boot \in Nat /\ crashes \in Nat
      /\ gen \in Gens /\ boot \in Gens /\ boot <= gen
      /\ opened \in {gen, gen + 1} /\ opened \in Gens
      /\ crashes <= MaxCrashes /\ opened - crashes <= MaxReloads
  BY SessionRunAssumption DEF TypeOK, Gens
<1>1. ASSUME NEW s \in Sessions, BareClear(s) PROVE TypeOK'
  <2>1. store[gen][s].chat \in Calls
    BY <1>0, <1>1 DEF BareClear, TypeOK, Entry
  <2> QED
    BY <1>1, <2>1 DEF BareClear, TypeOK, data, cli, loads
<1>2. CASE OpenStore
  <2>1. gen + 1 \in Gens /\ opened' - crashes <= MaxReloads
    BY <1>0, <1>2, GensFacts, SessionRunAssumption DEF OpenStore
  <2>2. store' \in [Gens -> [Sessions -> Entry]]
    BY <1>2 DEF OpenStore, TypeOK
  <2> QED
    BY <1>0, <1>2, <2>1, <2>2 DEF OpenStore, TypeOK, cli, ghosts
<1>3. CASE Load
  <2>1. gen' = gen + 1 /\ gen' = opened
    BY <1>3 DEF Load
  <2>2. conf' \in [Gens -> Dirs \cup {NoDir}]
    BY <1>3 DEF Load, TypeOK
  <2>3. gen' \in Gens /\ boot <= gen' /\ opened \in {gen', gen' + 1} \cap Gens
    BY <1>0, <2>1
  <2> QED
    BY <1>0, <1>3, <2>2, <2>3 DEF Load, TypeOK, data, cli, ghosts
<1>4. CASE Crash
  <2>1. gen + 1 \in Gens /\ crashes + 1 <= MaxCrashes /\ crashes + 1 \in Nat
        /\ gen + 1 - (crashes + 1) <= MaxReloads
    BY <1>0, <1>4, SessionRunAssumption DEF Crash, Gens
  <2>2. /\ store' \in [Gens -> [Sessions -> Entry]]
        /\ conf' \in [Gens -> Dirs \cup {NoDir}]
    BY <1>0, <1>4 DEF Crash, TypeOK
  <2>3. Idle \in Call /\ [Idle EXCEPT !.pc = "done"] \in Call
        /\ Idle.orch = 0 /\ Idle.backend = 0
        /\ [Idle EXCEPT !.pc = "done"].orch = 0 /\ [Idle EXCEPT !.pc = "done"].backend = 0
    BY DEF Idle, Call
  <2>4. /\ call' \in [Calls -> Call]
        /\ \A d \in Calls : call'[d].orch = 0 /\ call'[d].backend = 0
    BY <1>4, <2>3 DEF Crash
  <2>5. /\ gen' = gen + 1 /\ boot' = gen + 1 /\ opened' = gen + 1 /\ crashes' = crashes + 1
        /\ UNCHANGED <<free, file, cancelled, exists, log, since, cleared>>
    BY <1>4 DEF Crash, cli, ghosts
  <2>6. /\ gen' \in Gens /\ boot' \in Gens /\ boot' <= gen' /\ opened' \in {gen', gen' + 1} \cap Gens
        /\ crashes' \in Nat /\ crashes' <= MaxCrashes /\ opened' - crashes' <= MaxReloads
    BY <1>0, <2>1, <2>5
  <2> QED
    BY <2>2, <2>4, <2>5, <2>6, GensFacts DEF TypeOK
<1> QED
  BY <1>1, <1>2, <1>3, <1>4

LEMMA NextTypeOK == TypeOK /\ [Next]_vars => TypeOK'
<1> SUFFICES ASSUME TypeOK, [Next]_vars PROVE TypeOK'
  OBVIOUS
<1>1. CASE UNCHANGED vars
  BY <1>1 DEF vars, TypeOK
<1>2. ASSUME NEW c \in Calls, Begin(c) \/ Step(c) \/ Cancel(c) PROVE TypeOK'
  BY <1>2, DispatchTypeOK, RunTypeOK DEF Step
<1> QED
  BY <1>1, <1>2, AroundTypeOK DEF Next

\* The state is well typed for any calls, sessions, engine and number of
\* reloads and crashes.
THEOREM TypeCorrect == Spec => []TypeOK
BY InitTypeOK, NextTypeOK, PTL DEF Spec

-----------------------------------------------------------------------------
(* Calls belong to this process *)

\* What a step of a call that has begun does to the calls: it moves on.
LEMMA StepMoves ==
  ASSUME TypeOK, NEW c \in Calls, Step(c)
  PROVE  /\ \A d \in Calls \ {c} : call'[d] = call[d]
         /\ call'[c].orch = call[c].orch /\ call'[c].backend = call[c].backend
         /\ call[c].pc \notin {"idle", "done"}
         /\ UNCHANGED <<gen, boot>>
<1>1. call \in [Calls -> Call]
  BY DEF TypeOK
<1>2. ASSUME NEW pc, Goto(c, pc)
      PROVE  /\ \A d \in Calls \ {c} : call'[d] = call[d]
             /\ call'[c].orch = call[c].orch /\ call'[c].backend = call[c].backend
  BY <1>1, <1>2 DEF Goto, Call
<1>3. ASSUME NEW chat, NEW pc, call' = [call EXCEPT ![c].chat = chat, ![c].pc = pc]
      PROVE  /\ \A d \in Calls \ {c} : call'[d] = call[d]
             /\ call'[c].orch = call[c].orch /\ call'[c].backend = call[c].backend
  BY <1>1, <1>3 DEF Call
<1>4. ASSUME NEW chat, Resume(c, chat)
      PROVE  /\ \A d \in Calls \ {c} : call'[d] = call[d]
             /\ call'[c].orch = call[c].orch /\ call'[c].backend = call[c].backend
  BY <1>3, <1>4 DEF Resume
<1>5. CASE Acquire(c) \/ AbandonWait(c) \/ Clear(c) \/ Release(c) \/ Spawn(c) \/ RunEnds(c)
           \/ Record(c)
  <2>1. \E pc : Goto(c, pc)
    BY <1>5 DEF Acquire, AbandonWait, Clear, Release, Spawn, RunEnds, Record
  <2> QED
    BY <1>2, <1>5, <2>1
    DEF Acquire, AbandonWait, Clear, Release, Spawn, RunEnds, Record, loads
<1>6. CASE GetEntry(c)
  BY <1>4, <1>6 DEF GetEntry, loads
<1>7. CASE CreateChat(c)
  BY <1>2, <1>3, <1>7 DEF CreateChat, loads
<1> QED
  BY <1>5, <1>6, <1>7 DEF Step

LEMMA NextAlive == TypeOK /\ CallsAreAlive /\ [Next]_vars => CallsAreAlive'
<1> SUFFICES ASSUME TypeOK, CallsAreAlive, [Next]_vars PROVE CallsAreAlive'
  OBVIOUS
<1>0. gen \in Nat /\ boot \in Nat /\ boot <= gen
  BY SessionRunAssumption DEF TypeOK, Gens
<1>1. CASE UNCHANGED vars
  BY <1>1 DEF vars, CallsAreAlive, Alive
<1>2. ASSUME NEW c \in Calls, Begin(c) PROVE CallsAreAlive'
  <2>1. PICK g \in Alive : call' = [call EXCEPT ![c] =
          [pc |-> IF conf[gen] = NoDir THEN "done" ELSE "wait", orch |-> g,
           backend |-> gen, ws |-> Workspace(g, SessionOf[c]), chat |-> NoChat]]
    BY <1>2 DEF Begin
  <2>2. \A d \in Calls \ {c} : call'[d] = call[d]
    BY <2>1 DEF TypeOK
  <2>3. call'[c].orch = g /\ call'[c].backend = gen
    BY <2>1 DEF TypeOK
  <2>4. UNCHANGED <<gen, boot>>
    BY <1>2 DEF Begin, loads
  <2> QED
    BY <1>0, <2>2, <2>3, <2>4 DEF CallsAreAlive, Alive
<1>3. ASSUME NEW c \in Calls, Step(c) PROVE CallsAreAlive'
  BY <1>3, StepMoves DEF CallsAreAlive, Alive
<1>4. ASSUME NEW c \in Calls, Cancel(c) PROVE CallsAreAlive'
  BY <1>4 DEF Cancel, CallsAreAlive, Alive, loads
<1>5. CASE (\E s \in Sessions : BareClear(s)) \/ OpenStore
  BY <1>5 DEF BareClear, OpenStore, CallsAreAlive, Alive, loads
<1>6. CASE Load
  BY <1>0, <1>6 DEF Load, CallsAreAlive, Alive
<1>7. CASE Crash
  <2>1. \A d \in Calls : call'[d].pc \in {"idle", "done"}
    BY <1>7 DEF Crash, Idle
  <2> QED
    BY <2>1 DEF CallsAreAlive
<1> QED
  BY <1>1, <1>2, <1>3, <1>4, <1>5, <1>6, <1>7 DEF Next

-----------------------------------------------------------------------------
(* The token of a session *)

LEMMA SameHolders ==
  ASSUME TokensInPlace, UNCHANGED <<boot, free>>,
         \A d \in Calls : /\ Holding(d)' <=> Holding(d)
                          /\ Holding(d) => call'[d].orch = call[d].orch
  PROVE  TokensInPlace'
<1>1. \A g \in Gens, s \in Sessions : Holders(g, s)' = Holders(g, s)
  BY DEF Holders
<1> QED
  BY <1>1 DEF TokensInPlace

\* Only Acquire and Release change who holds a token.
LEMMA KeepsHolding ==
  ASSUME TypeOK, NEW c \in Calls,
         AbandonWait(c) \/ Clear(c) \/ GetEntry(c) \/ CreateChat(c) \/ Spawn(c) \/ RunEnds(c)
           \/ Record(c)
  PROVE  (Holding(c)' <=> Holding(c)) /\ UNCHANGED free
<1>1. call \in [Calls -> Call]
  BY DEF TypeOK
<1>2. \A pc : Goto(c, pc) => call'[c].pc = pc
  BY <1>1 DEF Goto, Call
<1>3. \A chat, pc : call' = [call EXCEPT ![c].chat = chat, ![c].pc = pc] => call'[c].pc = pc
  BY <1>1 DEF Call
<1>4. \A chat : Resume(c, chat) => call'[c].pc \in {"create", "spawn"}
  BY <1>3 DEF Resume
<1>5. CASE AbandonWait(c)
  BY <1>2, <1>5 DEF AbandonWait, Holding
<1>6. CASE Clear(c) \/ Spawn(c) \/ RunEnds(c) \/ Record(c)
  BY <1>2, <1>6 DEF Clear, Spawn, RunEnds, Record, Holding
<1>7. CASE GetEntry(c)
  BY <1>4, <1>7 DEF GetEntry, Holding
<1>8. CASE CreateChat(c)
  BY <1>2, <1>3, <1>8 DEF CreateChat, Holding
<1> QED
  BY <1>5, <1>6, <1>7, <1>8

LEMMA AcquireTokens ==
  ASSUME TypeOK, CallsAreAlive, TokensInPlace, NEW c \in Calls, Acquire(c)
  PROVE  TokensInPlace'
<1> DEFINE g == call[c].orch
           s == SessionOf[c]
<1>0. g \in Alive /\ gen \in Gens /\ boot \in Gens
  BY DEF TypeOK, CallsAreAlive, Acquire
<1>1. /\ g \in Gens /\ g >= boot /\ s \in Sessions
      /\ call \in [Calls -> Call] /\ free \in [Gens -> [Sessions -> BOOLEAN]]
  BY <1>0, GensFacts, SessionRunAssumption DEF TypeOK, Alive
<1>2. /\ ~Holding(c) /\ Holding(c)' /\ call'[c].orch = g
      /\ \A d \in Calls \ {c} : call'[d] = call[d]
  BY <1>1 DEF Acquire, Goto, Holding, Call
<1>3. /\ UNCHANGED boot /\ free[g][s]
      /\ \A h \in Gens, t \in Sessions :
           free'[h][t] = IF h = g /\ t = s THEN FALSE ELSE free[h][t]
  BY <1>1 DEF Acquire, loads
<1>4. Holders(g, s) = {}
  BY <1>1, <1>3 DEF TokensInPlace
<1>5. \A h \in Gens, t \in Sessions :
        Holders(h, t)' = IF h = g /\ t = s THEN {c} ELSE Holders(h, t)
  <2> SUFFICES ASSUME NEW h \in Gens, NEW t \in Sessions
               PROVE  Holders(h, t)' = IF h = g /\ t = s THEN {c} ELSE Holders(h, t)
    OBVIOUS
  <2>1. \A d \in Calls \ {c} : d \in Holders(h, t)' <=> d \in Holders(h, t)
    BY <1>2 DEF Holders, Holding
  <2>2. c \notin Holders(h, t) /\ (c \in Holders(h, t)' <=> h = g /\ t = s)
    BY <1>2 DEF Holders
  <2>3. Holders(h, t) \subseteq Calls /\ Holders(h, t)' \subseteq Calls
    BY DEF Holders
  <2> QED
    BY <1>4, <2>1, <2>2, <2>3
<1> HIDE DEF g, s
<1>6. ASSUME NEW h \in Gens, NEW t \in Sessions, h >= boot
      PROVE  /\ free'[h][t] <=> Holders(h, t)' = {}
             /\ \A d, e \in Holders(h, t)' : d = e
  <2>1. CASE h = g /\ t = s
    <3>1. Holders(h, t)' = {c} /\ free'[h][t] = FALSE
      BY <1>3, <1>5, <2>1
    <3> QED
      BY <3>1
  <2>2. CASE ~(h = g /\ t = s)
    <3>1. Holders(h, t)' = Holders(h, t) /\ free'[h][t] = free[h][t]
      BY <1>3, <1>5, <2>2
    <3> QED
      BY <1>6, <3>1 DEF TokensInPlace
  <2> QED
    BY <2>1, <2>2
<1> QED
  BY <1>3, <1>6 DEF TokensInPlace

LEMMA ReleaseTokens ==
  ASSUME TypeOK, CallsAreAlive, TokensInPlace, NEW c \in Calls, Release(c)
  PROVE  TokensInPlace'
<1> DEFINE g == call[c].orch
           s == SessionOf[c]
<1>0. g \in Alive /\ gen \in Gens /\ boot \in Gens
  BY DEF TypeOK, CallsAreAlive, Release
<1>1. /\ g \in Gens /\ g >= boot /\ s \in Sessions
      /\ call \in [Calls -> Call] /\ free \in [Gens -> [Sessions -> BOOLEAN]]
  BY <1>0, GensFacts, SessionRunAssumption DEF TypeOK, Alive
<1>2. /\ Holding(c) /\ ~Holding(c)'
      /\ \A d \in Calls \ {c} : call'[d] = call[d]
  BY <1>1 DEF Release, Goto, Holding, Call
<1>3. /\ UNCHANGED boot
      /\ \A h \in Gens, t \in Sessions :
           free'[h][t] = IF h = g /\ t = s THEN TRUE ELSE free[h][t]
  BY <1>1 DEF Release, loads
<1>4. Holders(g, s) = {c}
  BY <1>1, <1>2 DEF TokensInPlace, Holders
<1>5. \A h \in Gens, t \in Sessions :
        Holders(h, t)' = IF h = g /\ t = s THEN {} ELSE Holders(h, t)
  <2> SUFFICES ASSUME NEW h \in Gens, NEW t \in Sessions
               PROVE  Holders(h, t)' = IF h = g /\ t = s THEN {} ELSE Holders(h, t)
    OBVIOUS
  <2>1. \A d \in Calls \ {c} : d \in Holders(h, t)' <=> d \in Holders(h, t)
    BY <1>2 DEF Holders, Holding
  <2>2. c \notin Holders(h, t)' /\ (c \in Holders(h, t) <=> h = g /\ t = s)
    BY <1>2 DEF Holders
  <2>3. Holders(h, t) \subseteq Calls /\ Holders(h, t)' \subseteq Calls
    BY DEF Holders
  <2> QED
    BY <1>4, <2>1, <2>2, <2>3
<1> HIDE DEF g, s
<1>6. ASSUME NEW h \in Gens, NEW t \in Sessions, h >= boot
      PROVE  /\ free'[h][t] <=> Holders(h, t)' = {}
             /\ \A d, e \in Holders(h, t)' : d = e
  <2>1. CASE h = g /\ t = s
    <3>1. Holders(h, t)' = {} /\ free'[h][t] = TRUE
      BY <1>3, <1>5, <2>1
    <3> QED
      BY <3>1
  <2>2. CASE ~(h = g /\ t = s)
    <3>1. Holders(h, t)' = Holders(h, t) /\ free'[h][t] = free[h][t]
      BY <1>3, <1>5, <2>2
    <3> QED
      BY <1>6, <3>1 DEF TokensInPlace
  <2> QED
    BY <2>1, <2>2
<1> QED
  BY <1>3, <1>6 DEF TokensInPlace

LEMMA NextTokens ==
  TypeOK /\ CallsAreAlive /\ TokensInPlace /\ [Next]_vars => TokensInPlace'
<1> SUFFICES ASSUME TypeOK, CallsAreAlive, TokensInPlace, [Next]_vars PROVE TokensInPlace'
  OBVIOUS
<1>0. gen \in Nat /\ boot \in Nat /\ boot <= gen /\ call \in [Calls -> Call]
  BY SessionRunAssumption DEF TypeOK, Gens
<1>1. CASE UNCHANGED vars
  BY <1>1, SameHolders DEF vars, Holding
<1>2. ASSUME NEW c \in Calls, Begin(c) PROVE TokensInPlace'
  <2>1. PICK g \in Alive : call' = [call EXCEPT ![c] =
          [pc |-> IF conf[gen] = NoDir THEN "done" ELSE "wait", orch |-> g,
           backend |-> gen, ws |-> Workspace(g, SessionOf[c]), chat |-> NoChat]]
    BY <1>2 DEF Begin
  <2>2. \A d \in Calls \ {c} : call'[d] = call[d]
    BY <1>0, <2>1
  <2>3. call'[c].pc \in {"done", "wait"} /\ call[c].pc = "idle"
    BY <1>0, <1>2, <2>1 DEF Begin
  <2> QED
    BY <1>2, <2>2, <2>3, SameHolders DEF Begin, Holding, loads
<1>3. ASSUME NEW c \in Calls, Step(c) PROVE TokensInPlace'
  <2>1. CASE Acquire(c) \/ Release(c)
    BY <2>1, AcquireTokens, ReleaseTokens
  <2>2. CASE ~(Acquire(c) \/ Release(c))
    <3>1. (Holding(c)' <=> Holding(c)) /\ UNCHANGED free
      BY <1>3, <2>2, KeepsHolding DEF Step
    <3>2. \A d \in Calls : /\ Holding(d)' <=> Holding(d)
                           /\ Holding(d) => call'[d].orch = call[d].orch
      BY <1>3, <3>1, StepMoves DEF Holding
    <3>3. UNCHANGED boot
      BY <1>3, StepMoves
    <3> QED
      BY <3>1, <3>2, <3>3, SameHolders
  <2> QED
    BY <2>1, <2>2
<1>4. ASSUME NEW c \in Calls, Cancel(c) PROVE TokensInPlace'
  BY <1>4, SameHolders DEF Cancel, Holding, loads
<1>5. CASE (\E s \in Sessions : BareClear(s)) \/ OpenStore \/ Load
  BY <1>5, SameHolders DEF BareClear, OpenStore, Load, Holding, loads
<1>6. CASE Crash
  <2>1. /\ boot' = gen + 1 /\ UNCHANGED free
        /\ \A d \in Calls : ~Holding(d)'
    BY <1>6 DEF Crash, Idle, Holding
  <2>2. ASSUME NEW g \in Gens, NEW s \in Sessions, g >= gen + 1
        PROVE  free[g][s] /\ Holders(g, s)' = {}
    <3>1. \A d \in Calls : Holding(d) => call[d].orch # g
      BY <1>0, <2>2, GensFacts DEF CallsAreAlive, Alive, Holding
    <3>2. g >= boot /\ Holders(g, s) = {}
      BY <1>0, <2>2, <3>1, GensFacts DEF Holders
    <3> QED
      BY <2>1, <3>2 DEF TokensInPlace, Holders
  <2> QED
    BY <2>1, <2>2 DEF TokensInPlace
<1> QED
  BY <1>1, <1>2, <1>3, <1>4, <1>5, <1>6 DEF Next

-----------------------------------------------------------------------------
(* Sessions never share a chat *)

\* A chat that is at home in a session: of one of its calls, or none.
Home(chat, s) == chat \in Calls \cup {NoChat} /\ (chat # NoChat => SessionOf[chat] = s)

StoresStayHome ==
  /\ \A s \in Sessions : Home(file[s].chat, s)
  /\ \A g \in Gens, s \in Sessions : Home(store[g][s].chat, s)

CallsStayHome ==
  \A c \in Calls : /\ Home(call[c].chat, SessionOf[c])
                   /\ call[c].pc \in {"spawn", "run", "record"} => call[c].chat # NoChat

LEMMA HomeSplit ==
  ASSUME TypeOK
  PROVE  ChatsStayHome <=> StoresStayHome /\ CallsStayHome
<1>1. /\ \A s \in Sessions : file[s].chat \in Calls \cup {NoChat}
      /\ \A g \in Gens, s \in Sessions : store[g][s].chat \in Calls \cup {NoChat}
      /\ \A c \in Calls : call[c].chat \in Calls \cup {NoChat}
  BY DEF TypeOK, Entry, Call
<1> QED
  BY <1>1 DEF ChatsStayHome, StoresStayHome, CallsStayHome, Home

LEMMA PutHome ==
  ASSUME TypeOK, StoresStayHome, NEW g \in Gens, NEW s \in Sessions, NEW e \in Entry,
         Home(e.chat, s), Put(g, s, e)
  PROVE  StoresStayHome'
<1>1. /\ \A t \in Sessions : file'[t] = IF t = s THEN e ELSE store[g][t]
      /\ \A h \in Gens, t \in Sessions :
           store'[h][t] = IF h = g /\ t = s THEN e ELSE store[h][t]
  BY DEF Put, TypeOK
<1> QED
  BY <1>1 DEF StoresStayHome, Home

LEMMA ForgetHome ==
  ASSUME TypeOK, StoresStayHome, NEW g \in Gens, NEW s \in Sessions, Forget(g, s)
  PROVE  StoresStayHome'
<1>1. store[g][s] \in Entry
  BY DEF TypeOK
<1> DEFINE e == [store[g][s] EXCEPT !.chat = NoChat]
<1>2. e \in Entry /\ Home(e.chat, s)
  BY <1>1 DEF Entry, Home
<1>3. Put(g, s, e)
  BY DEF Forget
<1> HIDE DEF e
<1> QED
  BY <1>2, <1>3, PutHome

\* A call keeps its chat when it moves on, and has one when it spawns.
LEMMA GotoHome ==
  ASSUME TypeOK, CallsStayHome, NEW c \in Calls, NEW pc, Goto(c, pc),
         pc \in {"spawn", "run", "record"} => call[c].pc \in {"spawn", "run", "record"}
  PROVE  CallsStayHome'
<1>1. \A d \in Calls : /\ call'[d].chat = call[d].chat
                       /\ call'[d].pc = IF d = c THEN pc ELSE call[d].pc
  BY DEF TypeOK, Goto, Call
<1> QED
  BY <1>1 DEF CallsStayHome, Home

LEMMA ChatHome ==
  ASSUME TypeOK, CallsStayHome, NEW c \in Calls, NEW chat, NEW pc,
         Home(chat, SessionOf[c]),
         pc \in {"spawn", "run", "record"} => chat # NoChat,
         call' = [call EXCEPT ![c].chat = chat, ![c].pc = pc]
  PROVE  CallsStayHome'
<1>1. \A d \in Calls : /\ call'[d].chat = IF d = c THEN chat ELSE call[d].chat
                       /\ call'[d].pc = IF d = c THEN pc ELSE call[d].pc
  BY DEF TypeOK, Call
<1>2. ASSUME NEW d \in Calls
      PROVE  /\ Home(call'[d].chat, SessionOf[d])
             /\ call'[d].pc \in {"spawn", "run", "record"} => call'[d].chat # NoChat
  <2>1. CASE d = c
    <3>1. call'[d].chat = chat /\ call'[d].pc = pc
      BY <1>1, <2>1
    <3> QED
      BY <2>1, <3>1
  <2>2. CASE d # c
    <3>1. call'[d].chat = call[d].chat /\ call'[d].pc = call[d].pc
      BY <1>1, <2>2
    <3> QED
      BY <3>1 DEF CallsStayHome
  <2> QED
    BY <2>1, <2>2
<1>3. \A d \in Calls : /\ Home(call[d].chat, SessionOf[d])'
                       /\ call'[d].pc \in {"spawn", "run", "record"} => call'[d].chat # NoChat
  BY <1>2 DEF Home
<1> QED
  BY <1>3 DEF CallsStayHome

LEMMA ResumeHome ==
  ASSUME TypeOK, CallsStayHome, NEW c \in Calls, NEW chat, Home(chat, SessionOf[c]),
         Resume(c, chat)
  PROVE  CallsStayHome'
<1> DEFINE new == IF chat = NoChat /\ Backend = "claude" THEN c ELSE chat
           pc == IF chat = NoChat /\ Backend = "cursor" THEN "create" ELSE "spawn"
<1>1. /\ Home(new, SessionOf[c])
      /\ pc \in {"spawn", "run", "record"} => new # NoChat
  BY SessionRunAssumption DEF Home
<1>2. call' = [call EXCEPT ![c].chat = new, ![c].pc = pc]
  BY DEF Resume
<1> HIDE DEF new, pc
<1> QED
  BY <1>1, <1>2, ChatHome

LEMMA StepHome ==
  ASSUME TypeOK, StoresStayHome, CallsStayHome, NEW c \in Calls, Step(c)
  PROVE  StoresStayHome' /\ CallsStayHome'
<1> DEFINE g == call[c].backend
           s == SessionOf[c]
<1>0. /\ s \in Sessions /\ g \in Gens /\ call[c].orch \in Gens
      /\ store[g][s] \in Entry /\ call[c] \in Call
  BY SessionRunAssumption DEF TypeOK
<1>1. CASE Acquire(c) \/ AbandonWait(c) \/ Release(c) \/ Spawn(c) \/ RunEnds(c)
  <2>1. UNCHANGED data
    BY <1>1 DEF Acquire, AbandonWait, Release, Spawn, RunEnds
  <2>2. \E pc : /\ Goto(c, pc)
                /\ pc \in {"spawn", "run", "record"} => call[c].pc \in {"spawn", "run", "record"}
    BY <1>1 DEF Acquire, AbandonWait, Release, Spawn, RunEnds
  <2> QED
    BY <2>1, <2>2, GotoHome DEF StoresStayHome, data
<1>2. CASE Clear(c)
  <2>1. CallsStayHome'
    BY <1>2, GotoHome DEF Clear
  <2>2. CASE s \in Keyed
    BY <1>0, <1>2, <2>1, <2>2, ForgetHome DEF Clear
  <2>3. CASE s \notin Keyed
    BY <1>2, <2>1, <2>3 DEF Clear, StoresStayHome, data
  <2> QED
    BY <2>2, <2>3
<1>3. CASE GetEntry(c)
  <2>1. CASE Forget(g, s) /\ Resume(c, NoChat)
    <3>1. Home(NoChat, s)
      BY DEF Home
    <3> QED
      BY <1>0, <2>1, <3>1, ForgetHome, ResumeHome
  <2>2. CASE Resume(c, IF Moved(c) THEN NoChat ELSE store[g][s].chat) /\ UNCHANGED data
    <3>1. Home(IF Moved(c) THEN NoChat ELSE store[g][s].chat, s)
      BY <1>0 DEF StoresStayHome, Home
    <3> QED
      BY <2>2, <3>1, ResumeHome DEF StoresStayHome, data
  <2> QED
    BY <1>3, <2>1, <2>2 DEF GetEntry, data
<1>4. CASE CreateChat(c)
  <2>1. CASE Goto(c, "release") /\ UNCHANGED data
    BY <2>1, GotoHome DEF StoresStayHome, data
  <2>2. CASE /\ call' = [call EXCEPT ![c].chat = c, ![c].pc = "spawn"]
             /\ IF s \in Keyed THEN Put(g, s, [store[g][s] EXCEPT !.chat = c]) ELSE UNCHANGED data
    <3>1. Home(c, s) /\ c # NoChat
      BY SessionRunAssumption DEF Home
    <3>2. CallsStayHome'
      BY <2>2, <3>1, ChatHome
    <3>3. CASE s \in Keyed
      <4> DEFINE e == [store[g][s] EXCEPT !.chat = c]
      <4>1. e \in Entry /\ Home(e.chat, s)
        BY <1>0, <3>1 DEF Entry
      <4>2. Put(g, s, e)
        BY <2>2, <3>3
      <4> HIDE DEF e
      <4> QED
        BY <1>0, <3>2, <4>1, <4>2, PutHome
    <3>4. CASE s \notin Keyed
      BY <2>2, <3>2, <3>4 DEF StoresStayHome, data
    <3> QED
      BY <3>3, <3>4
  <2> QED
    BY <1>4, <2>1, <2>2 DEF CreateChat, data
<1>5. CASE Record(c)
  <2>1. CallsStayHome'
    BY <1>5, GotoHome DEF Record
  <2> DEFINE e == [chat |-> call[c].chat,
                   cwd |-> IF Backend = "claude" THEN call[c].ws ELSE store[g][s].cwd]
  <2>2. e \in Entry /\ Home(e.chat, s)
    BY <1>0 DEF Entry, Call, CallsStayHome
  <2>3. CASE s \in Keyed
    <3>1. Put(g, s, e)
      BY <1>5, <2>3 DEF Record
    <3> HIDE DEF e
    <3> QED
      BY <1>0, <2>1, <2>2, <3>1, PutHome
  <2>4. CASE s \notin Keyed
    BY <1>5, <2>1, <2>4 DEF Record, StoresStayHome, data
  <2> QED
    BY <2>3, <2>4
<1> QED
  BY <1>1, <1>2, <1>3, <1>4, <1>5 DEF Step

LEMMA NextHome ==
  ASSUME TypeOK, StoresStayHome, CallsStayHome, [Next]_vars
  PROVE  StoresStayHome' /\ CallsStayHome'
<1>1. CASE UNCHANGED vars
  BY <1>1 DEF vars, StoresStayHome, CallsStayHome
<1>2. ASSUME NEW c \in Calls, Begin(c) PROVE StoresStayHome' /\ CallsStayHome'
  <2>1. PICK g \in Alive : call' = [call EXCEPT ![c] =
          [pc |-> IF conf[gen] = NoDir THEN "done" ELSE "wait", orch |-> g,
           backend |-> gen, ws |-> Workspace(g, SessionOf[c]), chat |-> NoChat]]
    BY <1>2 DEF Begin
  <2>2. \A d \in Calls \ {c} : call'[d] = call[d]
    BY <2>1 DEF TypeOK
  <2>3. call'[c].chat = NoChat /\ call'[c].pc \in {"done", "wait"}
    BY <2>1 DEF TypeOK
  <2> QED
    BY <1>2, <2>2, <2>3 DEF Begin, StoresStayHome, CallsStayHome, Home, data
<1>3. ASSUME NEW c \in Calls, Step(c) \/ Cancel(c) PROVE StoresStayHome' /\ CallsStayHome'
  BY <1>3, StepHome DEF Cancel, StoresStayHome, CallsStayHome, data
<1>4. CASE \E s \in Sessions : BareClear(s)
  BY <1>4 DEF BareClear, StoresStayHome, CallsStayHome, data
<1>5. CASE Load
  BY <1>5 DEF Load, StoresStayHome, CallsStayHome, data
<1>6. CASE OpenStore \/ Crash
  <2>1. \A h \in Gens, t \in Sessions : store'[h][t] \in {store[h][t], file[t]}
    BY <1>6 DEF OpenStore, Crash, TypeOK
  <2>2. StoresStayHome'
    BY <1>6, <2>1 DEF OpenStore, Crash, StoresStayHome
  <2>3. CASE OpenStore
    BY <2>2, <2>3 DEF OpenStore, CallsStayHome
  <2>4. CASE Crash
    <3>1. \A d \in Calls : call'[d].chat = NoChat /\ call'[d].pc \in {"idle", "done"}
      BY <2>4 DEF Crash, Idle
    <3> QED
      BY <2>2, <3>1 DEF CallsStayHome, Home
  <2> QED
    BY <1>6, <2>3, <2>4
<1> QED
  BY <1>1, <1>2, <1>3, <1>4, <1>5, <1>6 DEF Next

-----------------------------------------------------------------------------
(* The theorems *)

LEMMA InitSessionInv == Init => SessionInv
<1> SUFFICES ASSUME Init PROVE SessionInv
  OBVIOUS
<1>1. TypeOK
  BY InitTypeOK
<1>2. \A c \in Calls : call[c].pc = "idle" /\ call[c].chat = NoChat
  BY DEF Init, Idle
<1>3. CallsAreAlive
  BY <1>2 DEF CallsAreAlive
<1>4. ChatsStayHome
  BY <1>2 DEF ChatsStayHome, Init, NoEntry
<1>5. \A g \in Gens, s \in Sessions : free[g][s] /\ Holders(g, s) = {}
  BY <1>2 DEF Init, Holders, Holding
<1>6. TokensInPlace
  BY <1>5 DEF TokensInPlace
<1> QED
  BY <1>1, <1>3, <1>4, <1>6 DEF SessionInv

LEMMA NextSessionInv == SessionInv /\ [Next]_vars => SessionInv'
<1> SUFFICES ASSUME SessionInv, [Next]_vars PROVE SessionInv'
  OBVIOUS
<1>1. TypeOK /\ CallsAreAlive /\ TokensInPlace /\ ChatsStayHome
  BY DEF SessionInv
<1>2. TypeOK'
  BY <1>1, NextTypeOK
<1>3. CallsAreAlive' /\ TokensInPlace'
  BY <1>1, NextAlive, NextTokens
<1>4. StoresStayHome' /\ CallsStayHome'
  BY <1>1, HomeSplit, NextHome
<1>5. ChatsStayHome'
  <2>1. /\ \A s \in Sessions : Home(file[s].chat, s)'
        /\ \A g \in Gens, s \in Sessions : Home(store[g][s].chat, s)'
    BY <1>4 DEF StoresStayHome
  <2>2. \A c \in Calls : /\ Home(call[c].chat, SessionOf[c])'
                         /\ call'[c].pc \in {"spawn", "run", "record"} => call'[c].chat # NoChat
    BY <1>4 DEF CallsStayHome
  <2> QED
    BY <2>1, <2>2 DEF ChatsStayHome, Home
<1> QED
  BY <1>2, <1>3, <1>5 DEF SessionInv

LEMMA AlwaysSessionInv == Spec => []SessionInv
BY InitSessionInv, NextSessionInv, PTL DEF Spec

\* Every token is in its channel or with exactly one call, for any calls,
\* interrupts, reloads and crashes: Acquire and release are balanced.
THEOREM TokenSafe == Spec => []TokenConserved
<1>1. SessionInv => TokenConserved
  BY GensFacts, SessionRunAssumption
  DEF SessionInv, TypeOK, TokensInPlace, TokenConserved, Alive, Gens
<1> QED
  BY <1>1, AlwaysSessionInv, PTL

\* Two CLI processes in one chat hold the locks of different generations of
\* the Orchestrator: without a reload there is one process per chat.
THEOREM OneProcess == Spec => []OneProcessPerChat
<1>1. ASSUME SessionInv, NEW c \in Calls, NEW d \in Calls, Running(c), Running(d),
             call[c].chat = call[d].chat, call[c].orch = call[d].orch
      PROVE  c = d
  <2>1. SessionOf[c] = SessionOf[d]
    BY <1>1 DEF SessionInv, ChatsStayHome, Running
  <2> DEFINE g == call[c].orch
             s == SessionOf[c]
  <2>2. g \in Alive /\ gen \in Gens /\ boot \in Gens /\ g \in Gens /\ s \in Sessions
    BY <1>1, SessionRunAssumption DEF SessionInv, CallsAreAlive, TypeOK, Running
  <2>3. g >= boot
    BY <2>2, GensFacts DEF Alive
  <2>4. c \in Holders(g, s) /\ d \in Holders(g, s)
    BY <1>1, <2>1 DEF Holders, Holding, Running
  <2> QED
    BY <1>1, <2>2, <2>3, <2>4 DEF SessionInv, TokensInPlace
<1>2. SessionInv => OneProcessPerChat
  BY <1>1 DEF OneProcessPerChat
<1> QED
  BY <1>2, AlwaysSessionInv, PTL

-----------------------------------------------------------------------------
(* Where the chats of a session are *)

\* What Put makes of the stores and the file, entry by entry.
LEMMA PutIs ==
  ASSUME TypeOK, NEW g \in Gens, NEW s \in Sessions, NEW e, Put(g, s, e)
  PROVE  /\ \A t \in Sessions : file'[t] = IF t = s THEN e ELSE store[g][t]
         /\ \A h \in Gens, t \in Sessions :
              store'[h][t] = IF h = g /\ t = s THEN e ELSE store[h][t]
         /\ store'[g] = file' /\ \A h \in Gens \ {g} : store'[h] = store[h]
BY DEF Put, TypeOK

LEMMA ForgetIs ==
  ASSUME TypeOK, NEW g \in Gens, NEW s \in Sessions, Forget(g, s)
  PROVE  /\ \A t \in Sessions : file'[t].chat = IF t = s THEN NoChat ELSE store[g][t].chat
         /\ \A h \in Gens, t \in Sessions :
              store'[h][t].chat = IF h = g /\ t = s THEN NoChat ELSE store[h][t].chat
         /\ store'[g] = file'
         /\ cleared' = cleared \cup ({store[g][s].chat} \ {NoChat})
         /\ \A t \in Sessions : since'[t] = IF t = s THEN {} ELSE since[t]
<1> DEFINE e == [store[g][s] EXCEPT !.chat = NoChat]
<1>1. store[g][s] \in Entry
  BY DEF TypeOK
<1>2. e.chat = NoChat
  BY <1>1 DEF Entry
<1>3. Put(g, s, e)
  BY DEF Forget
<1> HIDE DEF e
<1>4. \A t \in Sessions : since'[t] = IF t = s THEN {} ELSE since[t]
  BY DEF Forget, TypeOK
<1> QED
  BY <1>2, <1>3, <1>4, PutIs DEF Forget

LEMMA GotoIs ==
  ASSUME TypeOK, NEW c \in Calls, NEW pc, Goto(c, pc)
  PROVE  \A d \in Calls : /\ call'[d].pc = IF d = c THEN pc ELSE call[d].pc
                          /\ call'[d].chat = call[d].chat
BY DEF TypeOK, Goto, Call

LEMMA ResumeIs ==
  ASSUME TypeOK, NEW c \in Calls, NEW chat, Resume(c, chat)
  PROVE  /\ \A d \in Calls \ {c} : call'[d].pc = call[d].pc /\ call'[d].chat = call[d].chat
         /\ call'[c].chat = IF chat = NoChat /\ Backend = "claude" THEN c ELSE chat
         /\ call'[c].pc = IF chat = NoChat /\ Backend = "cursor" THEN "create" ELSE "spawn"
<1> DEFINE new == IF chat = NoChat /\ Backend = "claude" THEN c ELSE chat
           pc == IF chat = NoChat /\ Backend = "cursor" THEN "create" ELSE "spawn"
<1>1. call' = [call EXCEPT ![c].chat = new, ![c].pc = pc]
  BY DEF Resume
<1> HIDE DEF new, pc
<1>2. \A d \in Calls : /\ call'[d].pc = IF d = c THEN pc ELSE call[d].pc
                       /\ call'[d].chat = IF d = c THEN new ELSE call[d].chat
  BY <1>1 DEF TypeOK, Call
<1> QED
  BY <1>2 DEF new, pc

LEMMA BeginIs ==
  ASSUME TypeOK, NEW c \in Calls, Begin(c)
  PROVE  /\ \A d \in Calls \ {c} : call'[d] = call[d]
         /\ call'[c].pc \in {"done", "wait"} /\ call'[c].chat = NoChat
         /\ call[c].pc = "idle"
         /\ UNCHANGED <<free, store, file, cancelled, exists, log, gen, boot, opened, conf, crashes,
                        since, cleared>>
BY DEF Begin, TypeOK, data, cli, loads, ghosts

LEMMA CrashIs ==
  ASSUME TypeOK, Crash
  PROVE  /\ \A d \in Calls : /\ call'[d].pc \in {"idle", "done"} /\ call'[d].chat = NoChat
                             /\ call'[d].pc = "idle" => call[d].pc = "idle"
         /\ gen' = gen + 1 /\ boot' = gen' /\ crashes' = crashes + 1
         /\ gen' \in Gens
         /\ store'[gen'] = file
         /\ \A h \in Gens, t \in Sessions : store'[h][t] \in {store[h][t], file[t]}
         /\ UNCHANGED <<free, file, cancelled, exists, log, since, cleared>>
<1>1. gen' \in Gens
  <2>1. TypeOK'
    BY AroundTypeOK
  <2> QED
    BY <2>1 DEF TypeOK
<1> QED
  BY <1>1 DEF Crash, Idle, TypeOK, cli, ghosts

LEMMA OpenStoreIs ==
  ASSUME TypeOK, OpenStore
  PROVE  /\ \A h \in Gens, t \in Sessions : store'[h][t] \in {store[h][t], file[t]}
         /\ store'[gen] = store[gen]
         /\ UNCHANGED <<gen, boot, crashes, file, call, exists, log, since, cleared>>
<1>1. gen \in Gens /\ gen \in Nat
  BY GensFacts DEF TypeOK
<1> QED
  BY <1>1 DEF OpenStore, TypeOK, cli, ghosts

-----------------------------------------------------------------------------
(* A chat is nowhere before its call creates it *)

Occurs(chat) ==
  \/ chat \in cleared
  \/ \E s \in Sessions : file[s].chat = chat
  \/ \E g \in Gens, s \in Sessions : store[g][s].chat = chat
  \/ \E d \in Calls : call[d].chat = chat

LEMMA FreshIs == FreshNowhere <=> \A c \in Calls : Fresh(c) => ~Occurs(c)
BY DEF FreshNowhere, Occurs

LEMMA FreshStep ==
  ASSUME FreshNowhere,
         \A c \in Calls : Fresh(c)' => Fresh(c),
         \A c \in Calls : Occurs(c)' => Occurs(c) \/ ~Fresh(c)'
  PROVE  FreshNowhere'
<1>1. \A c \in Calls : Fresh(c)' => ~Occurs(c)'
  BY FreshIs
<1> QED
  BY <1>1 DEF FreshNowhere, Occurs

LEMMA OccursForget ==
  ASSUME TypeOK, NEW g \in Gens, NEW s \in Sessions, Forget(g, s),
         NEW x \in Calls, Occurs(x)', \A d \in Calls : call'[d].chat # x
  PROVE  Occurs(x)
BY ForgetIs, SessionRunAssumption DEF Occurs

LEMMA OccursPut ==
  ASSUME TypeOK, NEW g \in Gens, NEW s \in Sessions, NEW e, Put(g, s, e), UNCHANGED cleared,
         NEW x \in Calls, Occurs(x)', e.chat # x, \A d \in Calls : call'[d].chat # x
  PROVE  Occurs(x)
BY PutIs DEF Occurs

LEMMA StepFresh ==
  ASSUME TypeOK, FreshNowhere, NEW c \in Calls, Step(c)
  PROVE  FreshNowhere'
<1> DEFINE g == call[c].backend
           s == SessionOf[c]
<1>0. /\ s \in Sessions /\ g \in Gens /\ call[c].orch \in Gens
      /\ store[g][s] \in Entry /\ call[c] \in Call
  BY SessionRunAssumption DEF TypeOK
<1>1. CASE Acquire(c) \/ AbandonWait(c) \/ Release(c) \/ Spawn(c) \/ RunEnds(c)
  <2>1. UNCHANGED <<store, file, cleared>>
    BY <1>1 DEF Acquire, AbandonWait, Release, Spawn, RunEnds, data, ghosts
  <2>2. PICK pc : Goto(c, pc) /\ (pc \in {"idle", "wait", "clear", "entry", "create"} => Fresh(c))
    BY <1>1 DEF Acquire, AbandonWait, Release, Spawn, RunEnds, Fresh
  <2>3. \A x \in Calls : (Fresh(x)' => Fresh(x)) /\ (Occurs(x)' => Occurs(x))
    BY <2>1, <2>2, GotoIs DEF Fresh, Occurs
  <2> QED
    BY <2>3, FreshStep
<1>2. CASE Clear(c)
  <2>1. Goto(c, "entry") /\ Fresh(c)
    BY <1>2 DEF Clear, Fresh
  <2>2. \A x \in Calls : Fresh(x)' => Fresh(x)
    BY <2>1, GotoIs DEF Fresh
  <2>3. ASSUME NEW x \in Calls, Occurs(x)' PROVE Occurs(x)
    <3>1. CASE \E d \in Calls : call'[d].chat = x
      BY <2>1, <3>1, GotoIs DEF Occurs
    <3>2. CASE \A d \in Calls : call'[d].chat # x
      <4>1. CASE s \in Keyed
        BY <1>0, <1>2, <2>3, <3>2, <4>1, OccursForget DEF Clear
      <4>2. CASE s \notin Keyed
        BY <1>2, <2>3, <3>2, <4>2 DEF Clear, Occurs, data, ghosts
      <4> QED
        BY <4>1, <4>2
    <3> QED
      BY <3>1, <3>2
  <2> QED
    BY <2>2, <2>3, FreshStep
<1>3. CASE GetEntry(c)
  <2>1. PICK chat \in {NoChat, store[g][s].chat} :
          /\ Resume(c, chat)
          /\ Forget(g, s) \/ UNCHANGED <<data, cleared>>
    BY <1>3 DEF GetEntry
  <2>2. Fresh(c)
    BY <1>3 DEF GetEntry, Fresh
  <2>3. /\ \A d \in Calls \ {c} : call'[d].pc = call[d].pc /\ call'[d].chat = call[d].chat
        /\ call'[c].chat \in {c, chat}
        /\ call'[c].chat = c => ~Fresh(c)' \/ chat = c
    BY <2>1, ResumeIs DEF Fresh
  <2>4. \A x \in Calls : Fresh(x)' => Fresh(x)
    BY <2>2, <2>3 DEF Fresh
  <2>5. ASSUME NEW x \in Calls, Occurs(x)' PROVE Occurs(x) \/ ~Fresh(x)'
    <3>1. CASE \E d \in Calls : call'[d].chat = x
      <4>1. PICK d \in Calls : call'[d].chat = x
        BY <3>1
      <4>2. CASE d # c
        BY <2>3, <4>1, <4>2 DEF Occurs
      <4>3. CASE d = c
        BY <1>0, <2>1, <2>3, <4>1, <4>3, SessionRunAssumption DEF Occurs
      <4> QED
        BY <4>2, <4>3
    <3>2. CASE \A d \in Calls : call'[d].chat # x
      <4>1. CASE Forget(g, s)
        BY <1>0, <2>5, <3>2, <4>1, OccursForget
      <4>2. CASE UNCHANGED <<data, cleared>>
        BY <2>5, <3>2, <4>2 DEF Occurs, data
      <4> QED
        BY <2>1, <4>1, <4>2
    <3> QED
      BY <3>1, <3>2
  <2> QED
    BY <2>4, <2>5, FreshStep
<1>4. CASE CreateChat(c)
  <2>1. CASE Goto(c, "release") /\ UNCHANGED data
    <3>1. UNCHANGED cleared
      BY <1>4 DEF CreateChat, ghosts
    <3>2. \A x \in Calls : (Fresh(x)' => Fresh(x)) /\ (Occurs(x)' => Occurs(x))
      BY <2>1, <3>1, GotoIs DEF Fresh, Occurs, data
    <3> QED
      BY <3>2, FreshStep
  <2>2. CASE /\ call' = [call EXCEPT ![c].chat = c, ![c].pc = "spawn"]
             /\ IF s \in Keyed THEN Put(g, s, [store[g][s] EXCEPT !.chat = c]) ELSE UNCHANGED data
    <3>0. call' = [call EXCEPT ![c].chat = c, ![c].pc = "spawn"]
      BY <2>2
    <3>1. \A d \in Calls : /\ call'[d].pc = IF d = c THEN "spawn" ELSE call[d].pc
                           /\ call'[d].chat = IF d = c THEN c ELSE call[d].chat
      BY <3>0 DEF TypeOK, Call
    <3>2. UNCHANGED cleared
      BY <1>4 DEF CreateChat, ghosts
    <3>3. \A x \in Calls : Fresh(x)' => Fresh(x) /\ x # c
      BY <3>1 DEF Fresh
    <3>4. ASSUME NEW x \in Calls, Occurs(x)', x # c PROVE Occurs(x)
      <4>1. CASE \E d \in Calls : call'[d].chat = x
        BY <3>1, <3>4, <4>1 DEF Occurs
      <4>2. CASE \A d \in Calls : call'[d].chat # x
        <5>1. CASE s \in Keyed
          <6> DEFINE e == [store[g][s] EXCEPT !.chat = c]
          <6>1. e.chat = c
            BY <1>0 DEF Entry
          <6>2. Put(g, s, e)
            BY <2>2, <5>1
          <6> HIDE DEF e
          <6> QED
            BY <1>0, <3>2, <3>4, <4>2, <6>1, <6>2, OccursPut
        <5>2. CASE s \notin Keyed
          BY <2>2, <3>2, <3>4, <4>2, <5>2 DEF Occurs, data
        <5> QED
          BY <5>1, <5>2
      <4> QED
        BY <4>1, <4>2
    <3> QED
      BY <3>3, <3>4, FreshStep
  <2> QED
    BY <1>4, <2>1, <2>2 DEF CreateChat, data
<1>5. CASE Record(c)
  <2>1. Goto(c, "release") /\ UNCHANGED cleared
    BY <1>5 DEF Record, ghosts
  <2>2. \A x \in Calls : Fresh(x)' => Fresh(x)
    BY <2>1, GotoIs DEF Fresh
  <2>3. ASSUME NEW x \in Calls, Occurs(x)' PROVE Occurs(x)
    <3>1. CASE \E d \in Calls : call'[d].chat = x
      BY <2>1, <3>1, GotoIs DEF Occurs
    <3>2. CASE \A d \in Calls : call'[d].chat # x
      <4>1. CASE s \in Keyed
        <5> DEFINE e == [chat |-> call[c].chat,
                         cwd |-> IF Backend = "claude" THEN call[c].ws ELSE store[g][s].cwd]
        <5>1. Put(g, s, e)
          BY <1>5, <4>1 DEF Record
        <5>2. e.chat # x
          BY <2>1, <3>2, GotoIs
        <5> HIDE DEF e
        <5> QED
          BY <1>0, <2>1, <2>3, <3>2, <5>1, <5>2, OccursPut
      <4>2. CASE s \notin Keyed
        BY <1>5, <2>1, <2>3, <3>2, <4>2 DEF Record, Occurs, data
      <4> QED
        BY <4>1, <4>2
    <3> QED
      BY <3>1, <3>2
  <2> QED
    BY <2>2, <2>3, FreshStep
<1> QED
  BY <1>1, <1>2, <1>3, <1>4, <1>5 DEF Step

LEMMA NextFresh == TypeOK /\ FreshNowhere /\ [Next]_vars => FreshNowhere'
<1> SUFFICES ASSUME TypeOK, FreshNowhere, [Next]_vars PROVE FreshNowhere'
  OBVIOUS
<1>0. gen \in Gens /\ NoChat \notin Calls
  BY SessionRunAssumption DEF TypeOK
<1>1. CASE UNCHANGED vars
  <2>1. \A x \in Calls : (Fresh(x)' => Fresh(x)) /\ (Occurs(x)' => Occurs(x))
    BY <1>1 DEF vars, Fresh, Occurs
  <2> QED
    BY <2>1, FreshStep
<1>2. ASSUME NEW c \in Calls, Begin(c) PROVE FreshNowhere'
  <2>1. \A x \in Calls : (Fresh(x)' => Fresh(x)) /\ (Occurs(x)' => Occurs(x))
    BY <1>0, <1>2, BeginIs DEF Fresh, Occurs
  <2> QED
    BY <2>1, FreshStep
<1>3. ASSUME NEW c \in Calls, Cancel(c) PROVE FreshNowhere'
  <2>1. \A x \in Calls : (Fresh(x)' => Fresh(x)) /\ (Occurs(x)' => Occurs(x))
    BY <1>3 DEF Cancel, data, ghosts, Fresh, Occurs
  <2> QED
    BY <2>1, FreshStep
<1>4. ASSUME NEW s \in Sessions, BareClear(s) PROVE FreshNowhere'
  <2>1. \A x \in Calls : (Fresh(x)' => Fresh(x)) /\ (Occurs(x)' => Occurs(x))
    BY <1>0, <1>4 DEF BareClear, data, Fresh, Occurs
  <2> QED
    BY <2>1, FreshStep
<1>5. CASE Load
  <2>1. \A x \in Calls : (Fresh(x)' => Fresh(x)) /\ (Occurs(x)' => Occurs(x))
    BY <1>5 DEF Load, data, ghosts, Fresh, Occurs
  <2> QED
    BY <2>1, FreshStep
<1>6. CASE OpenStore
  <2>1. \A x \in Calls : (Fresh(x)' => Fresh(x)) /\ (Occurs(x)' => Occurs(x))
    BY <1>6, OpenStoreIs DEF Fresh, Occurs
  <2> QED
    BY <2>1, FreshStep
<1>7. CASE Crash
  <2>1. \A x \in Calls : (Fresh(x)' => Fresh(x)) /\ (Occurs(x)' => Occurs(x))
    BY <1>0, <1>7, CrashIs DEF Fresh, Occurs
  <2> QED
    BY <2>1, FreshStep
<1> QED
  BY <1>1, <1>2, <1>3, <1>4, <1>5, <1>6, <1>7, StepFresh DEF Next

-----------------------------------------------------------------------------
(* Without a Load there is one generation *)

LEMMA TheGeneration ==
  ASSUME TypeOK, CallsAreAlive, OneGeneration, FirstLoad, NEW c \in Calls,
         call[c].pc \notin {"idle", "done"}
  PROVE  call[c].orch = gen /\ call[c].backend = gen
<1>1. gen \in Nat /\ boot = gen
  BY GensFacts DEF TypeOK, OneGeneration
<1>2. call[c].orch \in boot .. gen /\ call[c].backend \in boot .. gen
  BY DEF CallsAreAlive, Alive
<1> QED
  BY <1>1, <1>2

LEMMA Alone ==
  ASSUME SessionInv, OneGeneration, FirstLoad,
         NEW c \in Calls, NEW d \in Calls, Holding(c), Holding(d), SessionOf[c] = SessionOf[d]
  PROVE  c = d
<1> DEFINE s == SessionOf[c]
<1>1. TypeOK /\ CallsAreAlive /\ TokensInPlace
  BY DEF SessionInv
<1>2. call[c].orch = gen /\ call[d].orch = gen
  BY <1>1, TheGeneration DEF Holding
<1>3. s \in Sessions /\ gen \in Gens /\ gen >= boot
  BY <1>1, GensFacts, SessionRunAssumption DEF TypeOK
<1>4. c \in Holders(gen, s) /\ d \in Holders(gen, s)
  BY <1>2 DEF Holders
<1> QED
  BY <1>1, <1>3, <1>4 DEF TokensInPlace

LEMMA StepLoads ==
  ASSUME TypeOK, NEW c \in Calls, Begin(c) \/ Step(c) \/ Cancel(c)
  PROVE  UNCHANGED <<gen, boot, opened, conf, crashes>>
BY DEF Begin, Step, Cancel, Acquire, AbandonWait, Clear, Release, GetEntry, CreateChat, Spawn,
       RunEnds, Record, loads

\* A step that writes a store writes that of the call's generation.
LEMMA StepPuts ==
  ASSUME TypeOK, NEW c \in Calls, Step(c)
  PROVE  \/ UNCHANGED <<store, file>>
         \/ /\ call[c].pc \notin {"idle", "done"}
            /\ \E g \in {call[c].orch, call[c].backend} : \E s \in Sessions : \E e : Put(g, s, e)
<1>1. SessionOf[c] \in Sessions
  BY SessionRunAssumption
<1>2. CASE Acquire(c) \/ AbandonWait(c) \/ Release(c) \/ Spawn(c) \/ RunEnds(c)
  BY <1>2 DEF Acquire, AbandonWait, Release, Spawn, RunEnds, data
<1>3. CASE Clear(c)
  BY <1>1, <1>3 DEF Clear, Forget, data
<1>4. CASE GetEntry(c)
  BY <1>1, <1>4 DEF GetEntry, Forget, data
<1>5. CASE CreateChat(c)
  BY <1>1, <1>5 DEF CreateChat, data
<1>6. CASE Record(c)
  BY <1>1, <1>6 DEF Record, data
<1> QED
  BY <1>2, <1>3, <1>4, <1>5, <1>6 DEF Step

LEMMA NextOneGeneration ==
  ASSUME TypeOK, CallsAreAlive, OneGeneration, [Next]_vars
  PROVE  OneGeneration'
<1>0. gen \in Nat /\ crashes \in Nat /\ gen \in Gens
  BY GensFacts DEF TypeOK
<1>1. CASE UNCHANGED vars
  BY <1>1 DEF vars, OneGeneration, FirstLoad
<1>2. ASSUME NEW c \in Calls, Begin(c) \/ Cancel(c) PROVE OneGeneration'
  BY <1>2, StepLoads DEF Begin, Cancel, data, OneGeneration, FirstLoad
<1>3. ASSUME NEW c \in Calls, Step(c) PROVE OneGeneration'
  <2>1. UNCHANGED <<gen, boot, crashes>>
    BY <1>3, StepLoads
  <2>2. ASSUME FirstLoad PROVE store'[gen] = file'
    <3>1. CASE UNCHANGED <<store, file>>
      BY <2>2, <3>1 DEF OneGeneration
    <3>2. ASSUME call[c].pc \notin {"idle", "done"}, NEW g \in {call[c].orch, call[c].backend},
                 NEW s \in Sessions, NEW e, Put(g, s, e)
          PROVE  store'[gen] = file'
      <4>1. g = gen
        BY <2>2, <3>2, TheGeneration
      <4> QED
        BY <1>0, <3>2, <4>1, PutIs
    <3> QED
      BY <1>3, <3>1, <3>2, StepPuts
  <2> QED
    BY <2>1, <2>2 DEF OneGeneration, FirstLoad
<1>4. CASE \E s \in Sessions : BareClear(s)
  BY <1>4 DEF BareClear, data, loads, OneGeneration, FirstLoad
<1>5. CASE OpenStore
  BY <1>5, OpenStoreIs DEF OneGeneration, FirstLoad
<1>6. CASE Load
  <2>1. gen' = gen + 1 /\ crashes' = crashes
    BY <1>6 DEF Load
  <2> QED
    BY <1>0, <2>1 DEF OneGeneration, FirstLoad
<1>7. CASE Crash
  BY <1>0, <1>7, CrashIs DEF OneGeneration, FirstLoad
<1> QED
  BY <1>1, <1>2, <1>3, <1>4, <1>5, <1>6, <1>7 DEF Next

-----------------------------------------------------------------------------
(* Chats in use were not cleared *)

\* The chat of a session is in use by the holder of its lock only.
LEMMA NobodyElsesChat ==
  ASSUME SessionInv, OneGeneration, FirstLoad, NEW c \in Calls, Holding(c),
         store[gen][SessionOf[c]].chat # NoChat
  PROVE  /\ \A d \in Calls \ {c} : InChat(d) => call[d].chat # store[gen][SessionOf[c]].chat
         /\ \A t \in Sessions \ {SessionOf[c]} :
              store[gen][t].chat # store[gen][SessionOf[c]].chat
<1>1. gen \in Gens /\ SessionOf[c] \in Sessions
  BY SessionRunAssumption DEF SessionInv, TypeOK
<1>2. SessionOf[store[gen][SessionOf[c]].chat] = SessionOf[c]
  BY <1>1 DEF SessionInv, ChatsStayHome
<1>3. ASSUME NEW d \in Calls \ {c}, InChat(d)
      PROVE  call[d].chat # store[gen][SessionOf[c]].chat
  <2>1. SessionOf[d] # SessionOf[c]
    BY <1>3, Alone DEF InChat, Holding
  <2>2. call[d].chat # NoChat /\ SessionOf[call[d].chat] = SessionOf[d]
    BY <1>3 DEF SessionInv, ChatsStayHome, InChat
  <2> QED
    BY <1>2, <2>1, <2>2
<1>4. ASSUME NEW t \in Sessions \ {SessionOf[c]}
      PROVE  store[gen][t].chat # store[gen][SessionOf[c]].chat
  BY <1>1, <1>2 DEF SessionInv, ChatsStayHome
<1> QED
  BY <1>3, <1>4

LEMMA StepInUse ==
  ASSUME SessionInv, FreshNowhere, OneGeneration, InUseNotCleared, FirstLoad,
         NEW c \in Calls, Step(c)
  PROVE  InUseNotCleared'
<1> DEFINE s == SessionOf[c]
<1>0. /\ TypeOK /\ CallsAreAlive /\ gen \in Gens /\ s \in Sessions
      /\ cleared \subseteq Calls /\ NoChat \notin Calls
      /\ UNCHANGED gen /\ call[c] \in Call /\ store[gen][s] \in Entry
  BY StepLoads, SessionRunAssumption DEF SessionInv, TypeOK
<1>1. call[c].orch = gen /\ call[c].backend = gen
  BY <1>0, StepMoves, TheGeneration
<1>2. /\ \A t \in Sessions : store[gen][t].chat \notin cleared
      /\ \A d \in Calls : InChat(d) => call[d].chat \notin cleared
  BY DEF InUseNotCleared
<1>3. CASE Acquire(c) \/ AbandonWait(c) \/ Release(c) \/ Spawn(c) \/ RunEnds(c)
  <2>1. UNCHANGED <<store, cleared>>
    BY <1>3 DEF Acquire, AbandonWait, Release, Spawn, RunEnds, data, ghosts
  <2>2. PICK pc : Goto(c, pc) /\ (pc \in {"spawn", "run", "record"} => InChat(c))
    BY <1>3 DEF Acquire, AbandonWait, Release, Spawn, RunEnds, InChat
  <2>3. \A d \in Calls : InChat(d)' => InChat(d) /\ call'[d].chat = call[d].chat
    BY <1>0, <2>2, GotoIs DEF InChat
  <2> QED
    BY <1>0, <1>2, <2>1, <2>3 DEF InUseNotCleared
<1>4. CASE Clear(c)
  <2>1. Goto(c, "entry") /\ Holding(c)
    BY <1>4 DEF Clear, Holding
  <2>2. \A d \in Calls : InChat(d)' => d # c /\ InChat(d) /\ call'[d].chat = call[d].chat
    BY <1>0, <2>1, GotoIs DEF InChat
  <2>3. CASE s \in Keyed
    <3>1. Forget(gen, s)
      BY <1>1, <1>4, <2>3 DEF Clear
    <3>2. /\ \A t \in Sessions : store'[gen][t].chat = IF t = s THEN NoChat ELSE store[gen][t].chat
          /\ cleared' = cleared \cup ({store[gen][s].chat} \ {NoChat})
      BY <1>0, <3>1, ForgetIs
    <3> QED
      BY <1>0, <1>2, <2>1, <2>2, <3>2, NobodyElsesChat DEF InUseNotCleared
  <2>4. CASE s \notin Keyed
    BY <1>0, <1>2, <1>4, <2>2, <2>4 DEF Clear, data, ghosts, InUseNotCleared
  <2> QED
    BY <2>3, <2>4
<1>5. CASE GetEntry(c)
  <2>1. Holding(c) /\ c \notin cleared /\ store[gen][s].chat # c
    BY <1>0, <1>5 DEF GetEntry, Holding, Fresh, FreshNowhere
  <2>2. CASE Forget(gen, s) /\ Resume(c, NoChat)
    <3>1. /\ \A t \in Sessions : store'[gen][t].chat = IF t = s THEN NoChat ELSE store[gen][t].chat
          /\ cleared' = cleared \cup ({store[gen][s].chat} \ {NoChat})
      BY <1>0, <2>2, ForgetIs
    <3>2. /\ \A d \in Calls \ {c} : call'[d].pc = call[d].pc /\ call'[d].chat = call[d].chat
          /\ call'[c].chat \in {c, NoChat}
      BY <1>0, <2>2, ResumeIs
    <3>3. c \notin cleared' /\ NoChat \notin cleared'
      BY <1>0, <2>1, <3>1
    <3>4. \A d \in Calls \ {c} : InChat(d)' => call'[d].chat \notin cleared'
      BY <1>2, <2>1, <3>1, <3>2, NobodyElsesChat DEF InChat
    <3>5. \A t \in Sessions : store'[gen][t].chat \notin cleared'
      BY <1>2, <2>1, <3>1, <3>3, NobodyElsesChat
    <3> QED
      BY <1>0, <3>2, <3>3, <3>4, <3>5 DEF InUseNotCleared
  <2>3. CASE Resume(c, IF Moved(c) THEN NoChat ELSE store[gen][s].chat) /\ UNCHANGED <<data, cleared>>
    <3> DEFINE chat == IF Moved(c) THEN NoChat ELSE store[gen][s].chat
    <3>1. chat \in {NoChat, store[gen][s].chat} /\ Resume(c, chat)
      BY <2>3
    <3> HIDE DEF chat
    <3>2. /\ \A d \in Calls \ {c} : call'[d].pc = call[d].pc /\ call'[d].chat = call[d].chat
          /\ call'[c].chat \in {c, chat}
      BY <1>0, <3>1, ResumeIs
    <3>3. call'[c].chat \notin cleared
      BY <1>0, <1>2, <2>1, <3>1, <3>2
    <3>4. \A d \in Calls \ {c} : InChat(d)' => call'[d].chat \notin cleared
      BY <1>2, <3>2 DEF InChat
    <3> QED
      BY <1>0, <1>2, <2>3, <3>3, <3>4 DEF InUseNotCleared, data
  <2> QED
    BY <1>1, <1>5, <2>2, <2>3 DEF GetEntry
<1>6. CASE CreateChat(c)
  <2>0. c \notin cleared /\ UNCHANGED cleared
    BY <1>0, <1>6 DEF CreateChat, Fresh, FreshNowhere, ghosts
  <2>1. CASE Goto(c, "release") /\ UNCHANGED data
    <3>1. \A d \in Calls : InChat(d)' => InChat(d) /\ call'[d].chat = call[d].chat
      BY <1>0, <2>1, GotoIs DEF InChat
    <3> QED
      BY <1>0, <1>2, <2>0, <2>1, <3>1 DEF InUseNotCleared, data
  <2>2. CASE /\ call' = [call EXCEPT ![c].chat = c, ![c].pc = "spawn"]
             /\ IF s \in Keyed THEN Put(gen, s, [store[gen][s] EXCEPT !.chat = c]) ELSE UNCHANGED data
    <3>0. call' = [call EXCEPT ![c].chat = c, ![c].pc = "spawn"]
      BY <2>2
    <3>1. \A d \in Calls : /\ call'[d].pc = IF d = c THEN "spawn" ELSE call[d].pc
                           /\ call'[d].chat = IF d = c THEN c ELSE call[d].chat
      BY <1>0, <3>0 DEF TypeOK, Call
    <3>2. \A d \in Calls : InChat(d)' => call'[d].chat \notin cleared
      BY <1>2, <2>0, <3>1 DEF InChat
    <3>3. \A t \in Sessions : store'[gen][t].chat \in {c, store[gen][t].chat}
      <4>1. CASE s \in Keyed
        <5> DEFINE e == [store[gen][s] EXCEPT !.chat = c]
        <5>1. e.chat = c
          BY <1>0 DEF Entry
        <5>2. Put(gen, s, e)
          BY <2>2, <4>1
        <5> HIDE DEF e
        <5> QED
          BY <1>0, <5>1, <5>2, PutIs
      <4>2. CASE s \notin Keyed
        BY <2>2, <4>2 DEF data
      <4> QED
        BY <4>1, <4>2
    <3> QED
      BY <1>0, <1>2, <2>0, <3>2, <3>3 DEF InUseNotCleared
  <2> QED
    BY <1>1, <1>6, <2>1, <2>2 DEF CreateChat, data
<1>7. CASE Record(c)
  <2>1. Goto(c, "release") /\ UNCHANGED cleared /\ call[c].chat \notin cleared
    BY <1>2, <1>7 DEF Record, ghosts, InChat
  <2>2. \A d \in Calls : InChat(d)' => InChat(d) /\ call'[d].chat = call[d].chat
    BY <1>0, <2>1, GotoIs DEF InChat
  <2>3. \A t \in Sessions : store'[gen][t].chat \in {call[c].chat, store[gen][t].chat}
    <3>1. CASE s \in Keyed
      <4> DEFINE e == [chat |-> call[c].chat,
                       cwd |-> IF Backend = "claude" THEN call[c].ws ELSE store[gen][s].cwd]
      <4>1. e.chat = call[c].chat
        OBVIOUS
      <4>2. Put(gen, s, e)
        BY <1>1, <1>7, <3>1 DEF Record
      <4> HIDE DEF e
      <4> QED
        BY <1>0, <4>1, <4>2, PutIs
    <3>2. CASE s \notin Keyed
      BY <1>7, <3>2 DEF Record, data
    <3> QED
      BY <3>1, <3>2
  <2> QED
    BY <1>0, <1>2, <2>1, <2>2, <2>3 DEF InUseNotCleared
<1> QED
  BY <1>3, <1>4, <1>5, <1>6, <1>7 DEF Step

LEMMA NextInUse ==
  ASSUME Bare \cap Keyed = {},
         SessionInv, FreshNowhere, OneGeneration, InUseNotCleared, [Next]_vars
  PROVE  InUseNotCleared'
<1>0. TypeOK /\ gen \in Nat /\ crashes \in Nat /\ gen \in Gens /\ NoChat \notin cleared
  BY GensFacts, SessionRunAssumption DEF SessionInv, TypeOK
<1>1. CASE UNCHANGED vars
  BY <1>1 DEF vars, InUseNotCleared, FirstLoad, InChat
<1>2. ASSUME NEW c \in Calls, Begin(c) PROVE InUseNotCleared'
  <2>1. \A d \in Calls : InChat(d)' => InChat(d) /\ call'[d].chat = call[d].chat
    BY <1>0, <1>2, BeginIs DEF InChat
  <2> QED
    BY <1>0, <1>2, <2>1, BeginIs DEF InUseNotCleared, FirstLoad
<1>3. ASSUME NEW c \in Calls, Cancel(c) PROVE InUseNotCleared'
  BY <1>3 DEF Cancel, data, ghosts, loads, InUseNotCleared, FirstLoad, InChat
<1>4. ASSUME NEW c \in Calls, Step(c) PROVE InUseNotCleared'
  <2>1. CASE FirstLoad
    BY <1>4, <2>1, StepInUse
  <2>2. CASE ~FirstLoad
    BY <1>0, <1>4, <2>2, StepLoads DEF InUseNotCleared, FirstLoad
  <2> QED
    BY <2>1, <2>2
<1>5. ASSUME NEW s \in Sessions, BareClear(s) PROVE InUseNotCleared'
  BY <1>5 DEF BareClear
<1>6. CASE OpenStore
  BY <1>0, <1>6, OpenStoreIs DEF InUseNotCleared, FirstLoad, InChat
<1>7. CASE Load
  BY <1>0, <1>7 DEF Load, OneGeneration, InUseNotCleared, FirstLoad
<1>8. CASE Crash
  <2>1. \A d \in Calls : ~InChat(d)'
    BY <1>0, <1>8, CrashIs DEF InChat
  <2>2. FirstLoad' => FirstLoad /\ store'[gen'] = store[gen]
    BY <1>0, <1>8, CrashIs DEF FirstLoad, OneGeneration
  <2>3. UNCHANGED cleared
    BY <1>0, <1>8, CrashIs
  <2> QED
    BY <2>1, <2>2, <2>3 DEF InUseNotCleared
<1> QED
  BY <1>1, <1>2, <1>3, <1>4, <1>5, <1>6, <1>7, <1>8 DEF Next

-----------------------------------------------------------------------------
(* Everyone who has spoken in a session is in its chat *)

\* A step of the holder of a session's lock disturbs no other session.
LEMMA SinceFrame ==
  ASSUME SessionInv, OneGeneration, SinceInChat, Lasting, NEW c \in Calls, Holding(c),
         UNCHANGED gen,
         \A d \in Calls \ {c} : call'[d].pc = call[d].pc /\ call'[d].chat = call[d].chat,
         \A t \in Sessions \ {SessionOf[c]} :
           since'[t] = since[t] /\ store'[gen][t].chat = store[gen][t].chat,
         \A x \in Calls : log[x] \subseteq log'[x],
         SessionOf[c] \in Keyed => Placed(SessionOf[c])',
         Follows(c)'
  PROVE  (\A t \in Keyed : Placed(t)') /\ (\A d \in Calls : Follows(d)')
<1>0. TypeOK /\ gen \in Gens /\ Keyed \subseteq Sessions /\ FirstLoad
  BY SessionRunAssumption DEF SessionInv, TypeOK, Lasting
<1>1. /\ \A t \in Keyed : Placed(t)
      /\ \A d \in Calls : Follows(d)
  BY DEF SinceInChat
<1>2. ASSUME NEW t \in Keyed PROVE Placed(t)'
  <2>1. CASE t = SessionOf[c]
    BY <2>1
  <2>2. CASE t # SessionOf[c]
    <3>1. /\ since'[t] = since[t] /\ store'[gen][t].chat = store[gen][t].chat
          /\ store[gen][t].chat \in Calls \cup {NoChat}
      BY <1>0, <2>2 DEF TypeOK, Entry
    <3>2. \A d \in Calls : call[d].pc = "record" /\ SessionOf[d] = t => call'[d].pc = "record"
      BY <2>2
    <3> QED
      BY <1>1, <3>1, <3>2 DEF Placed
  <2> QED
    BY <2>1, <2>2
<1>3. ASSUME NEW d \in Calls PROVE Follows(d)'
  <2>1. CASE d = c
    BY <2>1
  <2>2. CASE d # c /\ SessionOf[d] = SessionOf[c]
    <3>1. ~Holding(d)
      BY <1>0, <2>2, Alone
    <3>2. ~InChat(d)' /\ call'[d].pc # "create"
      BY <2>2, <3>1 DEF Holding, InChat
    <3> QED
      BY <3>2 DEF Follows, InChat
  <2>3. CASE SessionOf[d] # SessionOf[c]
    <3>1. SessionOf[d] \in Sessions \ {SessionOf[c]} /\ d # c
      BY <2>3, SessionRunAssumption
    <3>2. /\ since'[SessionOf[d]] = since[SessionOf[d]]
          /\ store'[gen][SessionOf[d]].chat = store[gen][SessionOf[d]].chat
          /\ call'[d].pc = call[d].pc /\ call'[d].chat = call[d].chat
      BY <3>1
    <3>3. InChat(d) => call[d].chat \in Calls
      BY <1>0 DEF SessionInv, ChatsStayHome, InChat, TypeOK, Call
    <3> QED
      BY <1>1, <3>2, <3>3 DEF Follows, InChat
  <2> QED
    BY <2>1, <2>2, <2>3
<1> QED
  BY <1>2, <1>3

\* A step that leaves stores, chats and sessions alone.
LEMMA SinceSame ==
  ASSUME SinceInChat, Lasting, UNCHANGED gen,
         \A s \in Sessions : store'[gen][s].chat = store[gen][s].chat,
         UNCHANGED <<log, since>>,
         \A d \in Calls : call'[d].pc \in {"create", "spawn", "run", "record"}
                            => call'[d].pc = call[d].pc /\ call'[d].chat = call[d].chat,
         \A d \in Calls : call[d].pc = "record" => call'[d].pc = "record"
  PROVE  (\A s \in Keyed : Placed(s)') /\ (\A d \in Calls : Follows(d)')
<1>0. /\ \A s \in Keyed : Placed(s)
      /\ \A d \in Calls : Follows(d)
  BY DEF SinceInChat
<1>1. \A s \in Keyed : Placed(s)'
  BY <1>0, SessionRunAssumption DEF Placed
<1>2. ASSUME NEW d \in Calls PROVE Follows(d)'
  <2>1. SessionOf[d] \in Sessions
    BY SessionRunAssumption
  <2>2. CASE call'[d].pc \in {"create", "spawn", "run", "record"}
    BY <1>0, <2>1, <2>2 DEF Follows, InChat
  <2>3. CASE call'[d].pc \notin {"create", "spawn", "run", "record"}
    BY <2>3 DEF Follows, InChat
  <2> QED
    BY <2>2, <2>3
<1> QED
  BY <1>1, <1>2

LEMMA ClearSince ==
  ASSUME SessionInv, OneGeneration, SinceInChat, Lasting, NEW c \in Calls, Clear(c)
  PROVE  (\A s \in Keyed : Placed(s)') /\ (\A d \in Calls : Follows(d)')
<1> DEFINE s == SessionOf[c]
<1>0. TypeOK /\ CallsAreAlive /\ gen \in Gens /\ s \in Sessions /\ FirstLoad
  BY SessionRunAssumption DEF SessionInv, TypeOK, Lasting
<1>1. call[c].orch = gen /\ Holding(c)
  BY <1>0, TheGeneration DEF Clear, Holding
<1>2. UNCHANGED <<gen, log>> /\ Goto(c, "entry")
  BY DEF Clear, cli, loads
<1>3. \A d \in Calls : /\ call'[d].pc = IF d = c THEN "entry" ELSE call[d].pc
                       /\ call'[d].chat = call[d].chat
  BY <1>0, <1>2, GotoIs
<1>4. Follows(c)'
  BY <1>3 DEF Follows, InChat
<1>5. CASE s \in Keyed
  <2>1. /\ \A t \in Sessions : since'[t] = IF t = s THEN {} ELSE since[t]
        /\ \A t \in Sessions : store'[gen][t].chat = IF t = s THEN NoChat ELSE store[gen][t].chat
    BY <1>0, <1>1, <1>5, ForgetIs DEF Clear
  <2>2. Placed(s)'
    BY <1>0, <2>1 DEF Placed
  <2> HIDE DEF s
  <2>3. \A t \in Sessions \ {s} : since'[t] = since[t] /\ store'[gen][t].chat = store[gen][t].chat
    BY <2>1
  <2> QED
    BY <1>1, <1>2, <1>3, <1>4, <2>2, <2>3, SinceFrame DEF s
<1>6. CASE s \notin Keyed
  BY <1>1, <1>2, <1>3, <1>4, <1>6, SinceFrame DEF Clear, data, ghosts
<1> QED
  BY <1>5, <1>6

LEMMA GetEntrySince ==
  ASSUME SessionInv, OneGeneration, SinceInChat, Lasting, NEW c \in Calls, GetEntry(c)
  PROVE  (\A s \in Keyed : Placed(s)') /\ (\A d \in Calls : Follows(d)')
<1> DEFINE s == SessionOf[c]
<1>0. /\ TypeOK /\ CallsAreAlive /\ gen \in Gens /\ s \in Sessions /\ FirstLoad
      /\ Backend \in {"claude", "cursor"}
  BY SessionRunAssumption DEF SessionInv, TypeOK, Lasting
<1>1. call[c].backend = gen /\ Holding(c) /\ call[c].pc = "entry"
  BY <1>0, TheGeneration DEF GetEntry, Holding
<1>2. UNCHANGED <<gen, log>>
  BY DEF GetEntry, cli, loads
<1>3. CASE Forget(gen, s) /\ Resume(c, NoChat)
  <2>1. /\ \A t \in Sessions : since'[t] = IF t = s THEN {} ELSE since[t]
        /\ \A t \in Sessions : store'[gen][t].chat = IF t = s THEN NoChat ELSE store[gen][t].chat
    BY <1>0, <1>3, ForgetIs
  <2>2. /\ \A d \in Calls \ {c} : call'[d].pc = call[d].pc /\ call'[d].chat = call[d].chat
        /\ call'[c].pc = IF Backend = "cursor" THEN "create" ELSE "spawn"
    BY <1>0, <1>3, ResumeIs
  <2>3. Placed(s)' /\ Follows(c)'
    BY <1>0, <1>2, <2>1, <2>2 DEF Placed, Follows, InChat
  <2> HIDE DEF s
  <2>4. \A t \in Sessions \ {s} : since'[t] = since[t] /\ store'[gen][t].chat = store[gen][t].chat
    BY <2>1
  <2> QED
    BY <1>1, <1>2, <2>2, <2>3, <2>4, SinceFrame DEF s
<1>4. CASE /\ Resume(c, IF Moved(c) THEN NoChat ELSE store[gen][s].chat)
           /\ since' = IF Moved(c) THEN [since EXCEPT ![s] = {}] ELSE since
           /\ UNCHANGED data
  <2>1. CASE Moved(c)
    <3>1. Backend = "claude" /\ Resume(c, NoChat)
      BY <1>4, <2>1 DEF Moved
    <3>2. \A t \in Sessions : since'[t] = IF t = s THEN {} ELSE since[t]
      BY <1>0, <1>4, <2>1 DEF TypeOK
    <3>3. /\ \A d \in Calls \ {c} : call'[d].pc = call[d].pc /\ call'[d].chat = call[d].chat
          /\ call'[c].pc = "spawn"
      BY <1>0, <3>1, ResumeIs
    <3>4. Placed(s)' /\ Follows(c)'
      BY <1>0, <3>1, <3>2, <3>3 DEF Placed, Follows, InChat
    <3>5. \A t \in Sessions \ {s} : since'[t] = since[t] /\ store'[gen][t].chat = store[gen][t].chat
      BY <1>4, <3>2 DEF data
    <3> QED
      BY <1>1, <1>2, <3>3, <3>4, <3>5, SinceFrame
  <2>2. CASE ~Moved(c)
    <3> DEFINE x == store[gen][s].chat
    <3>1. Resume(c, x) /\ UNCHANGED <<since, store>>
      BY <1>4, <2>2 DEF data
    <3>2. /\ \A d \in Calls \ {c} : call'[d].pc = call[d].pc /\ call'[d].chat = call[d].chat
          /\ call'[c].chat = IF x = NoChat /\ Backend = "claude" THEN c ELSE x
          /\ call'[c].pc = IF x = NoChat /\ Backend = "cursor" THEN "create" ELSE "spawn"
      BY <1>0, <3>1, ResumeIs
    <3>3. since[s] = {} \/ (x # NoChat /\ since[s] \subseteq log[x])
      <4>1. CASE s \in Keyed
        <5>1. \A d \in Calls : ~(call[d].pc = "record" /\ SessionOf[d] = s)
          BY <1>0, <1>1, Alone DEF Holding
        <5> QED
          BY <4>1, <5>1 DEF SinceInChat, Placed
      <4>2. CASE s \notin Keyed
        BY <1>0, <4>2 DEF SinceInChat
      <4> QED
        BY <4>1, <4>2
    <3>4. Placed(s)' /\ Follows(c)'
      BY <1>0, <1>2, <3>1, <3>2, <3>3 DEF Placed, Follows, InChat
    <3> QED
      BY <1>1, <1>2, <3>1, <3>2, <3>4, SinceFrame
  <2> QED
    BY <2>1, <2>2
<1> QED
  BY <1>1, <1>3, <1>4 DEF GetEntry

LEMMA CreateSince ==
  ASSUME SessionInv, OneGeneration, SinceInChat, Lasting, NEW c \in Calls, CreateChat(c)
  PROVE  (\A s \in Keyed : Placed(s)') /\ (\A d \in Calls : Follows(d)')
<1> DEFINE s == SessionOf[c]
<1>0. /\ TypeOK /\ CallsAreAlive /\ gen \in Gens /\ s \in Sessions /\ FirstLoad
      /\ store[gen][s] \in Entry
  BY SessionRunAssumption DEF SessionInv, TypeOK, Lasting
<1>1. call[c].backend = gen /\ Holding(c) /\ call[c].pc = "create" /\ Backend = "cursor"
  BY <1>0, TheGeneration DEF CreateChat, Holding, SinceInChat
<1>2. UNCHANGED <<gen, log, since>>
  BY DEF CreateChat, loads, ghosts
<1>3. since[s] = {}
  BY <1>0, <1>1 DEF SinceInChat, Placed, Follows
<1>4. CASE Goto(c, "release") /\ UNCHANGED data
  <2>1. \A d \in Calls : /\ call'[d].pc = IF d = c THEN "release" ELSE call[d].pc
                         /\ call'[d].chat = call[d].chat
    BY <1>0, <1>4, GotoIs
  <2> QED
    BY <1>1, <1>2, <1>4, <2>1, SinceSame DEF data
<1>5. CASE /\ call' = [call EXCEPT ![c].chat = c, ![c].pc = "spawn"]
           /\ IF s \in Keyed THEN Put(gen, s, [store[gen][s] EXCEPT !.chat = c]) ELSE UNCHANGED data
  <2>0. call' = [call EXCEPT ![c].chat = c, ![c].pc = "spawn"]
    BY <1>5
  <2>1. \A d \in Calls : /\ call'[d].pc = IF d = c THEN "spawn" ELSE call[d].pc
                         /\ call'[d].chat = IF d = c THEN c ELSE call[d].chat
    BY <1>0, <2>0 DEF TypeOK, Call
  <2>2. /\ s \in Keyed => store'[gen][s].chat = c
        /\ \A t \in Sessions \ {s} : store'[gen][t].chat = store[gen][t].chat
    <3>1. CASE s \in Keyed
      <4> DEFINE e == [store[gen][s] EXCEPT !.chat = c]
      <4>1. e.chat = c
        BY <1>0 DEF Entry
      <4>2. Put(gen, s, e)
        BY <1>5, <3>1
      <4> HIDE DEF e
      <4> QED
        BY <1>0, <4>1, <4>2, PutIs
    <3>2. CASE s \notin Keyed
      BY <1>5, <3>2 DEF data
    <3> QED
      BY <3>1, <3>2
  <2>3. Placed(s)' /\ Follows(c)'
    BY <1>2, <1>3, <2>1, <2>2 DEF Placed, Follows, InChat
  <2> QED
    BY <1>1, <1>2, <2>1, <2>2, <2>3, SinceFrame
<1> QED
  BY <1>1, <1>4, <1>5 DEF CreateChat, data

LEMMA RunEndsSince ==
  ASSUME SessionInv, OneGeneration, SinceInChat, Lasting, NEW c \in Calls, RunEnds(c)
  PROVE  (\A s \in Keyed : Placed(s)') /\ (\A d \in Calls : Follows(d)')
<1> DEFINE s == SessionOf[c]
           chat == call[c].chat
<1>0. /\ TypeOK /\ CallsAreAlive /\ gen \in Gens /\ s \in Sessions /\ FirstLoad
      /\ chat \in Calls /\ Backend \in {"claude", "cursor"}
  BY SessionRunAssumption DEF SessionInv, TypeOK, Lasting, RunEnds, ChatsStayHome, Call
<1>1. Holding(c) /\ call[c].pc = "run" /\ Goto(c, "record") /\ UNCHANGED <<gen, store>>
  BY DEF RunEnds, Holding, loads, data
<1>2. \A d \in Calls : /\ call'[d].pc = IF d = c THEN "record" ELSE call[d].pc
                       /\ call'[d].chat = call[d].chat
  BY <1>0, <1>1, GotoIs
<1>3. /\ since[s] \subseteq log[chat]
      /\ Backend = "cursor" /\ s \in Keyed => store[gen][s].chat = chat
      /\ s \in Keyed => Placed(s)
      /\ s \notin Keyed => since[s] = {}
  BY <1>0, <1>1 DEF SinceInChat, Follows, InChat
<1>4. CASE UNCHANGED <<exists, log, since>>
  <2>1. s \in Keyed => Placed(s)'
    <3>1. Backend = "claude" => Placed(s)'
      BY <1>2 DEF Placed
    <3>2. Backend = "cursor" /\ s \in Keyed => Placed(s)'
      BY <1>1, <1>3, <1>4 DEF Placed
    <3> QED
      BY <1>0, <3>1, <3>2
  <2>2. Follows(c)'
    BY <1>1, <1>2, <1>3, <1>4 DEF Follows, InChat
  <2>3. \A t \in Sessions \ {s} : since'[t] = since[t] /\ store'[gen][t].chat = store[gen][t].chat
    BY <1>1, <1>4
  <2>4. \A x \in Calls : log[x] \subseteq log'[x]
    BY <1>4
  <2>5. \A d \in Calls \ {c} : call'[d].pc = call[d].pc /\ call'[d].chat = call[d].chat
    BY <1>2
  <2> QED
    BY <1>1, <2>1, <2>2, <2>3, <2>4, <2>5, SinceFrame
<1>5. CASE /\ log' = [log EXCEPT ![chat] = @ \cup {c}]
           /\ since' = IF s \in Keyed THEN [since EXCEPT ![s] = @ \cup {c}] ELSE since
  <2>1. /\ log'[chat] = log[chat] \cup {c}
        /\ \A x \in Calls : log[x] \subseteq log'[x]
    BY <1>0, <1>5 DEF TypeOK
  <2>2. /\ s \in Keyed => since'[s] = since[s] \cup {c}
        /\ s \notin Keyed => since'[s] = since[s]
        /\ \A t \in Sessions \ {s} : since'[t] = since[t]
    BY <1>0, <1>5 DEF TypeOK
  <2>3. since'[s] \subseteq log'[chat]
    BY <1>3, <2>1, <2>2
  <2>4. s \in Keyed => Placed(s)'
    <3>1. Backend = "claude" => Placed(s)'
      BY <1>2 DEF Placed
    <3>2. Backend = "cursor" /\ s \in Keyed => Placed(s)'
      <4>1. chat # NoChat
        BY <1>0, SessionRunAssumption
      <4> QED
        BY <1>1, <1>3, <2>3, <4>1 DEF Placed
    <3> QED
      BY <1>0, <3>1, <3>2
  <2>5. Follows(c)'
    BY <1>1, <1>2, <1>3, <2>3 DEF Follows, InChat
  <2>6. \A d \in Calls \ {c} : call'[d].pc = call[d].pc /\ call'[d].chat = call[d].chat
    BY <1>2
  <2>7. \A t \in Sessions \ {s} : since'[t] = since[t] /\ store'[gen][t].chat = store[gen][t].chat
    BY <1>1, <2>2
  <2> QED
    BY <1>1, <2>1, <2>4, <2>5, <2>6, <2>7, SinceFrame
<1> QED
  BY <1>4, <1>5 DEF RunEnds, cli

LEMMA RecordSince ==
  ASSUME SessionInv, OneGeneration, SinceInChat, Lasting, NEW c \in Calls, Record(c)
  PROVE  (\A s \in Keyed : Placed(s)') /\ (\A d \in Calls : Follows(d)')
<1> DEFINE s == SessionOf[c]
           chat == call[c].chat
<1>0. /\ TypeOK /\ CallsAreAlive /\ gen \in Gens /\ s \in Sessions /\ FirstLoad
      /\ chat \in Calls /\ chat # NoChat
  BY SessionRunAssumption DEF SessionInv, TypeOK, Lasting, Record, ChatsStayHome, Call
<1>1. /\ Holding(c) /\ call[c].pc = "record" /\ call[c].backend = gen
      /\ Goto(c, "release") /\ UNCHANGED <<gen, log, since>>
  BY <1>0, TheGeneration DEF Record, Holding, loads, cli, ghosts
<1>2. \A d \in Calls : /\ call'[d].pc = IF d = c THEN "release" ELSE call[d].pc
                       /\ call'[d].chat = call[d].chat
  BY <1>0, <1>1, GotoIs
<1>3. since[s] \subseteq log[chat]
  BY <1>1 DEF SinceInChat, Follows, InChat
<1>4. /\ s \in Keyed => store'[gen][s].chat = chat
      /\ \A t \in Sessions \ {s} : store'[gen][t].chat = store[gen][t].chat
  <2>1. CASE s \in Keyed
    <3> DEFINE e == [chat |-> chat,
                     cwd |-> IF Backend = "claude" THEN call[c].ws ELSE store[gen][s].cwd]
    <3>1. e.chat = chat
      OBVIOUS
    <3>2. Put(gen, s, e)
      BY <1>1, <2>1 DEF Record
    <3> HIDE DEF e
    <3> QED
      BY <1>0, <2>1, <3>1, <3>2, PutIs
  <2>2. CASE s \notin Keyed
    BY <2>2 DEF Record, data
  <2> QED
    BY <2>1, <2>2
<1>5. s \in Keyed => Placed(s)'
  BY <1>0, <1>1, <1>3, <1>4 DEF Placed
<1>6. Follows(c)'
  BY <1>2 DEF Follows, InChat
<1>7. \A d \in Calls \ {c} : call'[d].pc = call[d].pc /\ call'[d].chat = call[d].chat
  BY <1>2
<1>8. /\ \A t \in Sessions \ {s} : since'[t] = since[t] /\ store'[gen][t].chat = store[gen][t].chat
      /\ \A x \in Calls : log[x] \subseteq log'[x]
  BY <1>1, <1>4
<1> QED
  BY <1>1, <1>5, <1>6, <1>7, <1>8, SinceFrame

\* Taking and releasing the lock, giving up and starting the CLI change no chat.
LEMMA LockSince ==
  ASSUME SessionInv, OneGeneration, SinceInChat, Lasting, NEW c \in Calls,
         Acquire(c) \/ AbandonWait(c) \/ Spawn(c) \/ Release(c)
  PROVE  (\A s \in Keyed : Placed(s)') /\ (\A d \in Calls : Follows(d)')
<1>0. TypeOK
  BY DEF SessionInv
<1>1. UNCHANGED <<gen, store, log, since>>
  BY DEF Acquire, AbandonWait, Spawn, Release, data, cli, loads, ghosts
<1>2. CASE Acquire(c) \/ AbandonWait(c) \/ Release(c)
  <2>1. PICK pc : Goto(c, pc) /\ pc \in {"clear", "entry", "done"} /\ call[c].pc # "record"
    BY <1>2 DEF Acquire, AbandonWait, Release
  <2>2. \A d \in Calls : /\ call'[d].pc = IF d = c THEN pc ELSE call[d].pc
                         /\ call'[d].chat = call[d].chat
    BY <1>0, <2>1, GotoIs
  <2>3. /\ \A d \in Calls : call'[d].pc \in {"create", "spawn", "run", "record"}
                              => call'[d].pc = call[d].pc /\ call'[d].chat = call[d].chat
        /\ \A d \in Calls : call[d].pc = "record" => call'[d].pc = "record"
    BY <2>1, <2>2
  <2> QED
    BY <1>1, <2>3, SinceSame
<1>3. CASE Spawn(c)
  <2> DEFINE s == SessionOf[c]
  <2>1. PICK pc \in {"run", "release"} : Goto(c, pc)
    BY <1>3 DEF Spawn
  <2>2. \A d \in Calls : /\ call'[d].pc = IF d = c THEN pc ELSE call[d].pc
                         /\ call'[d].chat = call[d].chat
    BY <1>0, <2>1, GotoIs
  <2>3. call[c].pc = "spawn" /\ Holding(c)
    BY <1>3 DEF Spawn, Holding
  <2>4. s \in Keyed => Placed(s)'
    <3>1. s \in Keyed => Placed(s)
      BY DEF SinceInChat
    <3>2. \A d \in Calls : call[d].pc = "record" => call'[d].pc = "record"
      BY <2>2, <2>3
    <3> QED
      BY <1>1, <3>1, <3>2 DEF Placed
  <2>5. Follows(c)'
    <3>1. Follows(c) /\ InChat(c)
      BY <2>3 DEF SinceInChat, InChat
    <3>2. call'[c].chat = call[c].chat /\ call'[c].pc # "create"
      BY <2>1, <2>2
    <3> QED
      BY <1>1, <3>1, <3>2 DEF Follows
  <2>6. \A d \in Calls \ {c} : call'[d].pc = call[d].pc /\ call'[d].chat = call[d].chat
    BY <2>2
  <2>7. /\ \A t \in Sessions \ {s} : since'[t] = since[t] /\ store'[gen][t].chat = store[gen][t].chat
        /\ \A x \in Calls : log[x] \subseteq log'[x]
    BY <1>1
  <2> QED
    BY <1>1, <2>3, <2>4, <2>5, <2>6, <2>7, SinceFrame
<1> QED
  BY <1>2, <1>3

\* Only the sessions with a store entry count who has spoken; only cursor creates chats.
LEMMA NextKeyed ==
  ASSUME TypeOK, SinceInChat, [Next]_vars
  PROVE  /\ \A s \in Sessions \ Keyed : since'[s] = {}
         /\ \A c \in Calls : call'[c].pc = "create" => Backend = "cursor"
<1>0. /\ \A s \in Sessions \ Keyed : since[s] = {}
      /\ \A c \in Calls : call[c].pc = "create" => Backend = "cursor"
  BY DEF SinceInChat
<1>1. CASE UNCHANGED vars
  BY <1>0, <1>1 DEF vars
<1>2. ASSUME NEW c \in Calls, Begin(c) \/ Cancel(c)
      PROVE  /\ \A s \in Sessions \ Keyed : since'[s] = {}
             /\ \A d \in Calls : call'[d].pc = "create" => Backend = "cursor"
  BY <1>0, <1>2, BeginIs DEF Cancel, ghosts
<1>3. ASSUME NEW c \in Calls,
             Acquire(c) \/ AbandonWait(c) \/ Release(c) \/ Spawn(c) \/ RunEnds(c) \/ Record(c)
               \/ Clear(c)
      PROVE  /\ \A s \in Sessions \ Keyed : since'[s] = {}
             /\ \A d \in Calls : call'[d].pc = "create" => Backend = "cursor"
  <2>1. PICK pc : Goto(c, pc) /\ pc # "create"
    BY <1>3 DEF Acquire, AbandonWait, Release, Spawn, RunEnds, Record, Clear
  <2>2. \A s \in Sessions \ Keyed : since'[s] = {}
    <3>1. CASE Clear(c)
      <4>1. call[c].orch \in Gens /\ SessionOf[c] \in Sessions
        BY SessionRunAssumption DEF TypeOK
      <4> QED
        BY <1>0, <3>1, <4>1, ForgetIs DEF Clear, ghosts
    <3>2. CASE RunEnds(c)
      BY <1>0, <3>2 DEF RunEnds, TypeOK, cli
    <3>3. CASE Acquire(c) \/ AbandonWait(c) \/ Release(c) \/ Spawn(c) \/ Record(c)
      BY <1>0, <3>3 DEF Acquire, AbandonWait, Release, Spawn, Record, ghosts
    <3> QED
      BY <1>3, <3>1, <3>2, <3>3
  <2> QED
    BY <1>0, <2>1, <2>2, GotoIs
<1>4. ASSUME NEW c \in Calls, GetEntry(c)
      PROVE  /\ \A s \in Sessions \ Keyed : since'[s] = {}
             /\ \A d \in Calls : call'[d].pc = "create" => Backend = "cursor"
  <2>1. call[c].backend \in Gens /\ SessionOf[c] \in Sessions
    BY SessionRunAssumption DEF TypeOK
  <2>2. \E chat : Resume(c, chat)
    BY <1>4 DEF GetEntry
  <2>3. \A s \in Sessions \ Keyed : since'[s] = {}
    BY <1>0, <1>4, <2>1, ForgetIs DEF GetEntry, TypeOK
  <2>4. \A d \in Calls : call'[d].pc = "create" => Backend = "cursor"
    BY <1>0, <2>2, ResumeIs
  <2> QED
    BY <2>3, <2>4
<1>5. ASSUME NEW c \in Calls, CreateChat(c)
      PROVE  /\ \A s \in Sessions \ Keyed : since'[s] = {}
             /\ \A d \in Calls : call'[d].pc = "create" => Backend = "cursor"
  <2>1. Backend = "cursor"
    BY <1>0, <1>5 DEF CreateChat
  <2> QED
    BY <1>0, <1>5, <2>1 DEF CreateChat, ghosts
<1>6. CASE (\E s \in Sessions : BareClear(s)) \/ Load
  BY <1>0, <1>6 DEF BareClear, Load, ghosts
<1>7. CASE OpenStore \/ Crash
  BY <1>0, <1>7, OpenStoreIs, CrashIs
<1> QED
  BY <1>1, <1>2, <1>3, <1>4, <1>5, <1>6, <1>7 DEF Next, Step

LEMMA NextSince ==
  ASSUME SessionInv, OneGeneration, SinceInChat, [Next]_vars
  PROVE  SinceInChat'
<1>0. /\ TypeOK /\ gen \in Nat /\ crashes \in Nat /\ gen \in Gens
      /\ Backend \in {"claude", "cursor"}
  BY GensFacts, SessionRunAssumption DEF SessionInv, TypeOK
<1>1. SUFFICES ASSUME Lasting'
               PROVE  (\A s \in Keyed : Placed(s)') /\ (\A d \in Calls : Follows(d)')
  <2>1. /\ \A s \in Sessions \ Keyed : since'[s] = {}
        /\ \A c \in Calls : call'[c].pc = "create" => Backend = "cursor"
    BY <1>0, NextKeyed
  <2> QED
    BY <1>1, <2>1 DEF SinceInChat
<1>2. CASE UNCHANGED vars
  <2>1. Lasting
    BY <1>1, <1>2 DEF vars, Lasting, FirstLoad
  <2> QED
    BY <1>2, <2>1, SinceSame DEF vars
<1>3. ASSUME NEW c \in Calls, Begin(c)
      PROVE  (\A s \in Keyed : Placed(s)') /\ (\A d \in Calls : Follows(d)')
  <2>1. Lasting /\ UNCHANGED <<gen, store, log, since>>
    BY <1>0, <1>1, <1>3, BeginIs DEF Lasting, FirstLoad
  <2>2. /\ \A d \in Calls : call'[d].pc \in {"create", "spawn", "run", "record"}
                              => call'[d].pc = call[d].pc /\ call'[d].chat = call[d].chat
        /\ \A d \in Calls : call[d].pc = "record" => call'[d].pc = "record"
    BY <1>0, <1>3, BeginIs
  <2> QED
    BY <2>1, <2>2, SinceSame
<1>4. ASSUME NEW c \in Calls, Cancel(c)
      PROVE  (\A s \in Keyed : Placed(s)') /\ (\A d \in Calls : Follows(d)')
  <2>1. Lasting /\ UNCHANGED <<gen, store, log, since, call>>
    BY <1>1, <1>4 DEF Cancel, data, cli, loads, ghosts, Lasting, FirstLoad
  <2> QED
    BY <2>1, SinceSame
<1>5. ASSUME NEW c \in Calls, Step(c)
      PROVE  (\A s \in Keyed : Placed(s)') /\ (\A d \in Calls : Follows(d)')
  <2>1. Lasting
    BY <1>0, <1>1, <1>5, StepLoads DEF Lasting, FirstLoad
  <2> QED
    BY <1>5, <2>1, ClearSince, GetEntrySince, CreateSince, RunEndsSince, RecordSince, LockSince
    DEF Step
<1>6. ASSUME NEW s \in Sessions, BareClear(s)
      PROVE  (\A t \in Keyed : Placed(t)') /\ (\A d \in Calls : Follows(d)')
  <2>1. Lasting /\ UNCHANGED <<gen, store, log, since, call>>
    BY <1>1, <1>6 DEF BareClear, data, cli, loads, Lasting, FirstLoad
  <2> QED
    BY <2>1, SinceSame
<1>7. CASE OpenStore
  <2>1. Lasting /\ UNCHANGED <<gen, log, since, call>> /\ store'[gen] = store[gen]
    BY <1>0, <1>1, <1>7, OpenStoreIs DEF Lasting, FirstLoad
  <2> QED
    BY <2>1, SinceSame
<1>8. CASE Load
  <2>1. gen' = gen + 1 /\ crashes' = crashes
    BY <1>8 DEF Load
  <2>2. gen' = crashes'
    BY <1>1 DEF Lasting, FirstLoad
  <2>3. crashes <= gen
    BY DEF OneGeneration
  <2> QED
    BY <1>0, <2>1, <2>2, <2>3
<1>9. CASE Crash
  <2>1. gen' = gen + 1 /\ crashes' = crashes + 1 /\ store'[gen'] = file
    BY <1>0, <1>9, CrashIs
  <2>2. Backend = "cursor" /\ Lasting
    <3>1. gen' = crashes' /\ (Backend = "cursor" \/ crashes' = 0)
      BY <1>1 DEF Lasting, FirstLoad
    <3>2. gen = crashes /\ crashes' # 0
      BY <1>0, <2>1, <3>1
    <3> QED
      BY <3>1, <3>2 DEF Lasting, FirstLoad
  <2>3. store'[gen'] = store[gen]
    BY <2>1, <2>2 DEF Lasting, OneGeneration
  <2>4. /\ UNCHANGED <<log, since>>
        /\ \A d \in Calls : call'[d].pc \in {"idle", "done"}
    BY <1>0, <1>9, CrashIs
  <2>5. \A s \in Keyed : Placed(s)'
    BY <2>2, <2>3, <2>4 DEF SinceInChat, Placed
  <2>6. \A d \in Calls : Follows(d)'
    BY <2>4 DEF Follows, InChat
  <2> QED
    BY <2>5, <2>6
<1> QED
  BY <1>2, <1>3, <1>4, <1>5, <1>6, <1>7, <1>8, <1>9 DEF Next

-----------------------------------------------------------------------------
(* The cursor CLI has created every chat that is recorded *)

LEMMA StepExist ==
  ASSUME TypeOK, ChatsExist, NEW c \in Calls, Step(c)
  PROVE  ChatsExist'
<1> DEFINE g == call[c].backend
           s == SessionOf[c]
<1>0. /\ s \in Sessions /\ g \in Gens /\ call[c].orch \in Gens
      /\ store[g][s] \in Entry /\ call[c] \in Call
  BY SessionRunAssumption DEF TypeOK
<1>1. SUFFICES ASSUME Backend = "cursor" PROVE ChatsExist'
  BY DEF ChatsExist
<1>2. /\ \A t \in Sessions : file[t].chat \in exists \cup {NoChat}
      /\ \A h \in Gens, t \in Sessions : store[h][t].chat \in exists \cup {NoChat}
      /\ \A d \in Calls : call[d].chat \in exists \cup {NoChat}
  BY <1>1 DEF ChatsExist
<1>3. CASE Acquire(c) \/ AbandonWait(c) \/ Release(c) \/ Spawn(c) \/ RunEnds(c)
  <2>1. UNCHANGED <<store, file>> /\ exists \subseteq exists'
    BY <1>3 DEF Acquire, AbandonWait, Release, Spawn, RunEnds, data, cli
  <2>2. \E pc : Goto(c, pc)
    BY <1>3 DEF Acquire, AbandonWait, Release, Spawn, RunEnds
  <2>3. \A d \in Calls : call'[d].chat = call[d].chat
    BY <2>2, GotoIs
  <2> QED
    BY <1>2, <2>1, <2>3 DEF ChatsExist
<1>4. CASE Clear(c)
  <2>1. \A d \in Calls : call'[d].chat = call[d].chat
    BY <1>4, GotoIs DEF Clear
  <2>2. /\ \A t \in Sessions : file'[t].chat \in exists \cup {NoChat}
        /\ \A h \in Gens, t \in Sessions : store'[h][t].chat \in exists \cup {NoChat}
    <3>1. CASE s \in Keyed
      BY <1>0, <1>2, <1>4, <3>1, ForgetIs DEF Clear
    <3>2. CASE s \notin Keyed
      BY <1>2, <1>4, <3>2 DEF Clear, data
    <3> QED
      BY <3>1, <3>2
  <2>3. UNCHANGED exists
    BY <1>4 DEF Clear, cli
  <2> QED
    BY <1>2, <2>1, <2>2, <2>3 DEF ChatsExist
<1>5. CASE GetEntry(c)
  <2>1. PICK chat \in {NoChat, store[g][s].chat} :
          Resume(c, chat) /\ (Forget(g, s) \/ UNCHANGED data)
    BY <1>5 DEF GetEntry
  <2>2. chat \in exists \cup {NoChat}
    BY <1>0, <1>2, <2>1
  <2>3. \A d \in Calls : call'[d].chat \in exists \cup {NoChat}
    BY <1>1, <1>2, <2>1, <2>2, ResumeIs
  <2>4. /\ \A t \in Sessions : file'[t].chat \in exists \cup {NoChat}
        /\ \A h \in Gens, t \in Sessions : store'[h][t].chat \in exists \cup {NoChat}
    <3>1. CASE Forget(g, s)
      BY <1>0, <1>2, <3>1, ForgetIs
    <3>2. CASE UNCHANGED data
      BY <1>2, <3>2 DEF data
    <3> QED
      BY <2>1, <3>1, <3>2
  <2>5. UNCHANGED exists
    BY <1>5 DEF GetEntry, cli
  <2> QED
    BY <2>3, <2>4, <2>5 DEF ChatsExist
<1>6. CASE CreateChat(c)
  <2>1. CASE Goto(c, "release") /\ UNCHANGED <<data, exists>>
    BY <1>2, <2>1, GotoIs DEF ChatsExist, data
  <2>2. CASE /\ exists' = exists \cup {c}
             /\ call' = [call EXCEPT ![c].chat = c, ![c].pc = "spawn"]
             /\ IF s \in Keyed THEN Put(g, s, [store[g][s] EXCEPT !.chat = c]) ELSE UNCHANGED data
    <3>0. call' = [call EXCEPT ![c].chat = c, ![c].pc = "spawn"] /\ exists' = exists \cup {c}
      BY <2>2
    <3>1. \A d \in Calls : call'[d].chat = IF d = c THEN c ELSE call[d].chat
      BY <3>0 DEF TypeOK, Call
    <3>2. /\ \A t \in Sessions : file'[t].chat \in exists \cup {c, NoChat}
          /\ \A h \in Gens, t \in Sessions : store'[h][t].chat \in exists \cup {c, NoChat}
      <4>1. CASE s \in Keyed
        <5> DEFINE e == [store[g][s] EXCEPT !.chat = c]
        <5>1. e.chat = c
          BY <1>0 DEF Entry
        <5>2. Put(g, s, e)
          BY <2>2, <4>1
        <5> HIDE DEF e
        <5> QED
          BY <1>0, <1>2, <5>1, <5>2, PutIs
      <4>2. CASE s \notin Keyed
        BY <1>2, <2>2, <4>2 DEF data
      <4> QED
        BY <4>1, <4>2
    <3>3. \A d \in Calls : call'[d].chat \in exists \cup {c, NoChat}
      BY <1>2, <3>1
    <3>4. exists' = exists \cup {c}
      BY <3>0
    <3> QED
      BY <3>2, <3>3, <3>4 DEF ChatsExist
  <2> QED
    BY <1>6, <2>1, <2>2 DEF CreateChat
<1>7. CASE Record(c)
  <2>1. \A d \in Calls : call'[d].chat = call[d].chat
    BY <1>7, GotoIs DEF Record
  <2>2. /\ \A t \in Sessions : file'[t].chat \in exists \cup {NoChat}
        /\ \A h \in Gens, t \in Sessions : store'[h][t].chat \in exists \cup {NoChat}
    <3>1. CASE s \in Keyed
      <4> DEFINE e == [chat |-> call[c].chat,
                       cwd |-> IF Backend = "claude" THEN call[c].ws ELSE store[g][s].cwd]
      <4>1. e.chat = call[c].chat
        OBVIOUS
      <4>2. Put(g, s, e)
        BY <1>7, <3>1 DEF Record
      <4> HIDE DEF e
      <4> QED
        BY <1>0, <1>2, <4>1, <4>2, PutIs
    <3>2. CASE s \notin Keyed
      BY <1>2, <1>7, <3>2 DEF Record, data
    <3> QED
      BY <3>1, <3>2
  <2>3. UNCHANGED exists
    BY <1>7 DEF Record, cli
  <2> QED
    BY <1>2, <2>1, <2>2, <2>3 DEF ChatsExist
<1> QED
  BY <1>3, <1>4, <1>5, <1>6, <1>7 DEF Step

LEMMA NextExist == TypeOK /\ ChatsExist /\ [Next]_vars => ChatsExist'
<1> SUFFICES ASSUME TypeOK, ChatsExist, [Next]_vars PROVE ChatsExist'
  OBVIOUS
<1>1. CASE UNCHANGED vars
  BY <1>1 DEF vars, ChatsExist
<1>2. ASSUME NEW c \in Calls, Begin(c) PROVE ChatsExist'
  BY <1>2, BeginIs DEF ChatsExist
<1>3. ASSUME NEW c \in Calls, Cancel(c) PROVE ChatsExist'
  BY <1>3 DEF Cancel, data, cli, ChatsExist
<1>4. CASE \E s \in Sessions : BareClear(s)
  BY <1>4 DEF BareClear, data, cli, ChatsExist
<1>5. CASE Load
  BY <1>5 DEF Load, data, cli, ChatsExist
<1>6. CASE OpenStore
  BY <1>6, OpenStoreIs DEF ChatsExist
<1>7. CASE Crash
  BY <1>7, CrashIs DEF ChatsExist
<1> QED
  BY <1>1, <1>2, <1>3, <1>4, <1>5, <1>6, <1>7, StepExist DEF Next

-----------------------------------------------------------------------------
(* The theorems about chats *)

LEMMA InitChatInv == Init => ChatInv /\ InUseNotCleared
<1> SUFFICES ASSUME Init PROVE ChatInv /\ InUseNotCleared
  OBVIOUS
<1>0. SessionInv /\ 0 \in Gens /\ NoChat \notin Calls /\ Keyed \subseteq Sessions
  BY InitSessionInv, GensFacts, SessionRunAssumption
<1>1. /\ \A c \in Calls : call[c].pc = "idle" /\ call[c].chat = NoChat
      /\ \A g \in Gens, s \in Sessions : store[g][s].chat = NoChat
      /\ \A s \in Sessions : file[s].chat = NoChat /\ since[s] = {}
      /\ gen = 0 /\ boot = 0 /\ crashes = 0 /\ cleared = {}
  BY DEF Init, Idle, NoEntry
<1>2. FreshNowhere
  BY <1>0, <1>1 DEF FreshNowhere
<1>3. OneGeneration
  BY <1>0, <1>1 DEF Init, OneGeneration
<1>4. SinceInChat
  BY <1>0, <1>1 DEF SinceInChat, Placed, Follows, InChat
<1>5. ChatsExist
  BY <1>1 DEF ChatsExist
<1>6. InUseNotCleared
  BY <1>1 DEF InUseNotCleared
<1> QED
  BY <1>0, <1>2, <1>3, <1>4, <1>5, <1>6 DEF ChatInv

LEMMA NextChatInv == ChatInv /\ [Next]_vars => ChatInv'
<1> SUFFICES ASSUME ChatInv, [Next]_vars PROVE ChatInv'
  OBVIOUS
<1>1. /\ SessionInv /\ TypeOK /\ CallsAreAlive
      /\ FreshNowhere /\ OneGeneration /\ SinceInChat /\ ChatsExist
  BY DEF ChatInv, SessionInv
<1> QED
  BY <1>1, NextSessionInv, NextFresh, NextOneGeneration, NextSince, NextExist DEF ChatInv

LEMMA AlwaysChatInv == Spec => []ChatInv
BY InitChatInv, NextChatInv, PTL DEF Spec

\* Before a Load has ended, NoReload says.
LEMMA NoReloadIsFirst == SessionInv /\ OneGeneration /\ NoReload => FirstLoad
<1> SUFFICES ASSUME SessionInv, OneGeneration, NoReload PROVE FirstLoad
  OBVIOUS
<1>1. gen \in Nat /\ crashes \in Nat /\ opened \in {gen, gen + 1} /\ crashes <= gen
  BY GensFacts DEF SessionInv, TypeOK, OneGeneration
<1> QED
  BY <1>1 DEF NoReload, FirstLoad

\* A run continues the chat of everyone who has spoken in its session since the last
\* clear or reset, for any calls, interrupts and failures; with cursor, which records
\* the chat before it uses it, across crashes too, with claude until the first crash.
THEOREM ContextStays == Spec => [](Backend = "cursor" \/ crashes = 0 => ContextKept)
<1>1. ASSUME ChatInv, Backend = "cursor" \/ crashes = 0 PROVE ContextKept
  <2>1. SUFFICES ASSUME NoReload, NEW c \in Calls, Running(c)
                 PROVE  since[SessionOf[c]] \subseteq log[call[c].chat]
    BY DEF ContextKept
  <2>2. Lasting
    BY <1>1, <2>1, NoReloadIsFirst DEF ChatInv, Lasting
  <2> QED
    BY <1>1, <2>1, <2>2 DEF ChatInv, SinceInChat, Follows, Running, InChat
<1>2. ChatInv => (Backend = "cursor" \/ crashes = 0 => ContextKept)
  BY <1>1
<1> QED
  BY <1>2, AlwaysChatInv, PTL

\* Nobody runs in a chat that was current when its session was cleared, for any calls,
\* resets, failures and crashes, where no --clear comes without a prompt: that one is
\* answered and clears nothing.
THEOREM ClearedStays ==
  ASSUME Bare \cap Keyed = {}
  PROVE  Spec => []ClearedIsOver
<1> DEFINE Inv == ChatInv /\ InUseNotCleared
<1>1. Init => Inv
  BY InitChatInv
<1>2. Inv /\ [Next]_vars => Inv'
  <2>1. ASSUME Inv, [Next]_vars PROVE Inv'
    <3>1. SessionInv /\ FreshNowhere /\ OneGeneration /\ InUseNotCleared
      BY <2>1 DEF ChatInv
    <3> QED
      BY <2>1, <3>1, NextChatInv, NextInUse
  <2> QED
    BY <2>1
<1>3. Inv => ClearedIsOver
  <2>1. ASSUME Inv, NoReload, NEW c \in Calls, Running(c) PROVE call[c].chat \notin cleared
    <3>1. FirstLoad
      BY <2>1, NoReloadIsFirst DEF ChatInv
    <3> QED
      BY <2>1, <3>1 DEF InUseNotCleared, Running, InChat
  <2> QED
    BY <2>1 DEF ClearedIsOver
<1> HIDE DEF Inv
<1> QED
  BY <1>1, <1>2, <1>3, PTL DEF Spec

\* The chat of a cursor run is one the CLI has created, whatever fails or crashes
\* between create-chat and the end of the run.
THEOREM ResumeFinds ==
  ASSUME Backend = "cursor"
  PROVE  Spec => []ResumeFindsChat
<1>1. ChatInv => ResumeFindsChat
  BY DEF ChatInv, SessionInv, ChatsStayHome, ChatsExist, ResumeFindsChat, Running
<1> QED
  BY <1>1, AlwaysChatInv, PTL
=============================================================================
