---------------------------- MODULE IntakeProofs -----------------------------
(***************************************************************************)
(* Machine-checked proofs about Intake: however a message is delivered, a  *)
(* channel answers it once in a load, as long as the keys are kept; only   *)
(* the channels answer that it is for; and every polled channel answers    *)
(* what mentions it.                                                       *)
(***************************************************************************)
EXTENDS Intake, TLAPS

Keys == Bots \X Messages
LoadNumbers == 1 .. MaxLoads

\* What the argument needs of the types.
WorkState == [pc : {"idle", "target", "handle", "decide"}, msg : Messages \cup {Nobody},
              bot : Bots \cup {Nobody}, source : {"none", "websocket", "webhook", "yzj_cli"},
              load : 0 .. MaxLoads, targets : SUBSET Bots]

WorkOK(x) ==
  /\ x \in WorkState
  /\ x.pc # "idle" => x.msg \in Messages /\ x.load \in LoadNumbers
  /\ x.pc \in {"handle", "decide"} => x.bot \in Bots

Typed ==
  /\ gen \in LoadNumbers
  /\ seen \in [LoadNumbers -> SUBSET Keys]
  /\ dropped \in [LoadNumbers -> SUBSET Keys]
  /\ frames \in [Readers -> Seq(Messages)]
  /\ DOMAIN worker = Workers /\ \A w \in Workers : WorkOK(worker[w])

\* The key of an answer.
AnswerKey(a) == <<a.bot, a.msg>>

\* A key that a dispatcher has met is remembered or has been dropped.
Met(k, g) == k \in seen[g] \cup dropped[g]

Deciding(w) == worker[w].pc = "decide"

SameWork(v, w) == worker[v].load = worker[w].load /\ Key(v) = Key(w)

\* Whoever decides has been let through by AlreadySeen, and of two who were let through
\* with one key the second was because the key had been dropped.
Once ==
  /\ \A w \in Workers : Deciding(w) => Met(Key(w), worker[w].load)
  /\ repeats \subseteq answers
  /\ \A a \in answers : a.load \in LoadNumbers /\ Met(AnswerKey(a), a.load)
  /\ \A v, w \in Workers : v # w /\ Deciding(v) /\ Deciding(w) /\ SameWork(v, w) =>
       Key(w) \in dropped[worker[w].load]
  /\ \A w \in Workers, a \in answers :
       Deciding(w) /\ AnswerKey(a) = Key(w) /\ a.load = worker[w].load =>
         Key(w) \in dropped[worker[w].load]

IInv == Typed /\ Once /\ AnsweredOnce
-----------------------------------------------------------------------------
(* Types *)

LEMMA Parties ==
  /\ WS \subseteq Bots /\ Hooked \subseteq Bots /\ Polled \subseteq Bots
  /\ Readers \subseteq Workers /\ Posts \subseteq Workers /\ Watchers \subseteq Workers
  /\ \A r \in Readers : r[1] \in Bots /\ r[2] \in LoadNumbers
BY DEF WS, Hooked, Polled, Readers, Posts, Watchers, Workers, LoadNumbers

LEMMA LoadFacts == LoadNumbers \subseteq 0 .. MaxLoads
BY IntakeAssumption DEF LoadNumbers

LEMMA NoWorkOK == WorkOK(NoWork)
BY IntakeAssumption DEF WorkOK, WorkState, NoWork, LoadNumbers

LEMMA WorkTyped ==
  ASSUME Typed, NEW w \in Workers, NEW x, WorkOK(x), Work(w, x)
  PROVE  DOMAIN worker' = Workers /\ \A v \in Workers : WorkOK(worker'[v])
BY DEF Typed, Work

LEMMA DoneOK ==
  ASSUME NEW x, WorkOK(x)
  PROVE  WorkOK([x EXCEPT !.pc = "target"]) \/ x.pc = "idle"
BY DEF WorkOK, WorkState

LEMMA DoneTyped ==
  ASSUME Typed, NEW w \in Workers, worker[w].pc # "idle", Done(w)
  PROVE  DOMAIN worker' = Workers /\ \A v \in Workers : WorkOK(worker'[v])
<1>1. WorkOK(worker[w])
  BY DEF Typed
<1> DEFINE x == IF worker[w].targets = {} THEN NoWork ELSE [worker[w] EXCEPT !.pc = "target"]
<1>2. WorkOK(x)
  BY <1>1, NoWorkOK, DoneOK
<1>3. Work(w, x)
  BY DEF Done
<1> HIDE DEF x
<1> QED
  BY <1>2, <1>3, WorkTyped

LEMMA InitTyped == Init => Typed
<1> SUFFICES ASSUME Init PROVE Typed
  OBVIOUS
<1>1. gen \in LoadNumbers
  BY IntakeAssumption DEF Init, LoadNumbers
<1>2. frames \in [Readers -> Seq(Messages)]
  BY DEF Init
<1>3. DOMAIN worker = Workers /\ \A w \in Workers : WorkOK(worker[w])
  BY NoWorkOK DEF Init
<1> QED
  BY <1>1, <1>2, <1>3 DEF Init, Typed, LoadNumbers

\* A message that comes in starts a piece of work.
LEMMA ArriveTyped ==
  ASSUME Typed,
         \/ \E m \in Messages : Push(m)
         \/ \E r \in Readers : Read(r)
         \/ \E m \in Messages, h \in Posts, b \in Hooked : Post(h, b, m)
         \/ \E w \in Watchers, m \in Messages : Poll(w, m)
  PROVE  Typed'
<1>1. ASSUME NEW m \in Messages, Push(m) PROVE Typed'
  <2>1. frames' \in [Readers -> Seq(Messages)]
    <3>1. \A r \in Readers : Append(frames[r], m) \in Seq(Messages) /\ frames[r] \in Seq(Messages)
      BY DEF Typed
    <3> QED
      BY <3>1, <1>1 DEF Push
  <2> QED
    BY <2>1, <1>1 DEF Push, Typed
<1>2. ASSUME NEW r \in Readers, Read(r) PROVE Typed'
  <2>1. frames[r] \in Seq(Messages) /\ frames[r] # <<>>
    BY <1>2 DEF Typed, Read
  <2>2. Head(frames[r]) \in Messages /\ Tail(frames[r]) \in Seq(Messages)
    BY <2>1
  <2>3. frames' \in [Readers -> Seq(Messages)]
    BY <2>2, <1>2 DEF Read, Typed
  <2>4. DOMAIN worker' = Workers /\ \A v \in Workers : WorkOK(worker'[v])
    <3> DEFINE x == [NoWork EXCEPT !.pc = "handle", !.msg = Head(frames[r]), !.bot = r[1],
                                   !.source = "websocket", !.load = r[2]]
    <3>1. CASE UNCHANGED worker
      BY <3>1 DEF Typed
    <3>2. CASE Work(r, x)
      <4>1. WorkOK(x)
        BY <2>2, Parties, LoadFacts DEF WorkOK, WorkState, NoWork
      <4> HIDE DEF x
      <4> QED
        BY <3>2, <4>1, WorkTyped, Parties
    <3> QED
      BY <3>1, <3>2, <1>2 DEF Read
  <2> QED
    BY <2>3, <2>4, <1>2 DEF Read, Typed
<1>3. ASSUME NEW m \in Messages, NEW h \in Posts, NEW b \in Hooked, Post(h, b, m) PROVE Typed'
  <2> DEFINE x == [NoWork EXCEPT !.pc = "handle", !.msg = m, !.bot = b, !.source = "webhook",
                                 !.load = gen]
  <2>1. WorkOK(x)
    BY Parties, LoadFacts DEF WorkOK, WorkState, NoWork, Typed
  <2>2. Work(h, x)
    BY <1>3 DEF Post
  <2> HIDE DEF x
  <2>3. DOMAIN worker' = Workers /\ \A v \in Workers : WorkOK(worker'[v])
    BY <2>1, <2>2, WorkTyped, Parties
  <2> QED
    BY <2>3, <1>3 DEF Post, Typed
<1>4. ASSUME NEW w \in Watchers, NEW m \in Messages, Poll(w, m) PROVE Typed'
  <2> DEFINE asked == Targets(w[1]) \cap enabled \cap Known
             x == [NoWork EXCEPT !.pc = "target", !.msg = m, !.source = "yzj_cli", !.load = gen,
                                 !.targets = asked]
  <2>1. asked \subseteq Bots
    BY Parties DEF Targets
  <2>2. Work(w, x)
    BY <1>4 DEF Poll
  <2> HIDE DEF asked
  <2>3. WorkOK(x)
    BY <2>1, LoadFacts DEF WorkOK, WorkState, NoWork, Typed
  <2> HIDE DEF x
  <2>4. DOMAIN worker' = Workers /\ \A v \in Workers : WorkOK(worker'[v])
    BY <2>2, <2>3, WorkTyped, Parties
  <2> QED
    BY <2>4, <1>4 DEF Poll, Typed
<1> QED
  BY <1>1, <1>2, <1>3, <1>4

LEMMA NextTargetTyped ==
  ASSUME Typed, NEW w \in Watchers, NEW b \in Polled, NextTarget(w, b)
  PROVE  Typed'
<1> DEFINE rest == [worker[w] EXCEPT !.targets = @ \ {b}]
<1>1. WorkOK(worker[w]) /\ worker[w].pc = "target" /\ b \in Bots /\ w \in Workers
  BY Parties DEF NextTarget, Typed
<1>2. WorkOK(rest) /\ rest.pc = "target"
  BY <1>1 DEF WorkOK, WorkState
<1>3. WorkOK([rest EXCEPT !.pc = "handle", !.bot = b])
  BY <1>1, <1>2 DEF WorkOK, WorkState
<1>4. \E x : WorkOK(x) /\ Work(w, x)
  BY <1>2, <1>3, NoWorkOK DEF NextTarget
<1>5. DOMAIN worker' = Workers /\ \A v \in Workers : WorkOK(worker'[v])
  BY <1>1, <1>4, WorkTyped
<1> QED
  BY <1>5 DEF NextTarget, Typed

LEMMA KeyTyped ==
  ASSUME Typed, NEW w \in Workers, worker[w].pc \in {"handle", "decide"}
  PROVE  Key(w) \in Keys /\ worker[w].load \in LoadNumbers
BY DEF Typed, WorkOK, Key, Keys

LEMMA CheckTyped ==
  ASSUME Typed, NEW w \in Workers, Check(w)
  PROVE  Typed'
<1> DEFINE g == worker[w].load
<1>1. worker[w].pc = "handle" /\ WorkOK(worker[w]) /\ Key(w) \in Keys /\ g \in LoadNumbers
  BY KeyTyped DEF Check, Typed
<1>2. CASE Done(w) /\ UNCHANGED <<seen, dropped>>
  <2>1. DOMAIN worker' = Workers /\ \A v \in Workers : WorkOK(worker'[v])
    BY <1>1, <1>2, DoneTyped
  <2> QED
    BY <2>1, <1>2 DEF Check, Typed
<1>3. CASE /\ \E kept \in Kept(seen[g] \cup {Key(w)}) :
                 /\ seen' = [seen EXCEPT ![g] = kept]
                 /\ dropped' = [dropped EXCEPT ![g] = @ \cup ((seen[g] \cup {Key(w)}) \ kept)]
           /\ Work(w, [worker[w] EXCEPT !.pc = "decide"])
  <2>1. PICK kept \in Kept(seen[g] \cup {Key(w)}) :
          /\ seen' = [seen EXCEPT ![g] = kept]
          /\ dropped' = [dropped EXCEPT ![g] = @ \cup ((seen[g] \cup {Key(w)}) \ kept)]
    BY <1>3
  <2>2. seen[g] \cup {Key(w)} \subseteq Keys
    BY <1>1 DEF Typed
  <2>3. kept \subseteq Keys
    BY <2>2 DEF Kept
  <2>4. seen' \in [LoadNumbers -> SUBSET Keys] /\ dropped' \in [LoadNumbers -> SUBSET Keys]
    BY <2>1, <2>2, <2>3, <1>1 DEF Typed
  <2>5. WorkOK([worker[w] EXCEPT !.pc = "decide"])
    BY <1>1 DEF WorkOK, WorkState
  <2>6. DOMAIN worker' = Workers /\ \A v \in Workers : WorkOK(worker'[v])
    BY <2>5, <1>3, WorkTyped
  <2> QED
    BY <2>4, <2>6 DEF Check, Typed
<1> QED
  BY <1>2, <1>3 DEF Check

LEMMA DecideTyped ==
  ASSUME Typed, NEW w \in Workers, Decide(w)
  PROVE  Typed'
<1>1. worker[w].pc # "idle" /\ Done(w)
  BY DEF Decide
<1>2. DOMAIN worker' = Workers /\ \A v \in Workers : WorkOK(worker'[v])
  BY <1>1, DoneTyped
<1> QED
  BY <1>2 DEF Decide, Typed

LEMMA ControlTyped ==
  ASSUME Typed, Load \/ \E b \in Bots : Switch(b)
  PROVE  Typed'
<1>1. CASE Load
  <2>1. gen' \in LoadNumbers
    BY <1>1, IntakeAssumption DEF Load, Typed, LoadNumbers
  <2> QED
    BY <2>1, <1>1 DEF Load, Typed
<1>2. CASE \E b \in Bots : Switch(b)
  BY <1>2 DEF Switch, Typed
<1> QED
  BY <1>1, <1>2

-----------------------------------------------------------------------------
(* A key is answered once while it is kept *)

LEMMA WorkLetsNobodyIn ==
  ASSUME Typed, NEW w \in Workers, NEW x, x.pc # "decide", Work(w, x)
  PROVE  \A v \in Workers : Deciding(v)' => worker'[v] = worker[v]
BY DEF Work, Deciding, Typed

\* Steps that let nobody through AlreadySeen and decide nothing.
LEMMA OthersKeepOnce ==
  ASSUME Typed, Once, AnsweredOnce, UNCHANGED <<seen, dropped, answers, repeats>>,
         \A v \in Workers : Deciding(v)' => worker'[v] = worker[v]
  PROVE  Once' /\ AnsweredOnce'
<1>1. \A v \in Workers : Deciding(v)' => worker'[v] = worker[v]
  OBVIOUS
<1>2. \A v \in Workers : Deciding(v)' => Deciding(v) /\ Key(v)' = Key(v)
  BY <1>1 DEF Deciding, Key
<1>3. AnsweredOnce'
  BY DEF AnsweredOnce
<1>4. \A k, g : Met(k, g)' <=> Met(k, g)
  BY DEF Met
<1>5. \A v \in Workers : Deciding(v)' => Met(Key(v), worker[v].load)'
  BY <1>1, <1>2, <1>4 DEF Once
<1>6. \A a \in answers' : a.load \in LoadNumbers /\ Met(AnswerKey(a), a.load)'
  BY <1>4 DEF Once
<1>7. \A u, v \in Workers : u # v /\ Deciding(u)' /\ Deciding(v)' /\ SameWork(u, v)' =>
        Key(v)' \in dropped'[worker'[v].load]
  BY <1>1, <1>2 DEF Once, SameWork
<1>8. \A v \in Workers, a \in answers' :
        Deciding(v)' /\ AnswerKey(a) = Key(v)' /\ a.load = worker'[v].load =>
          Key(v)' \in dropped'[worker'[v].load]
  BY <1>1, <1>2 DEF Once
<1> QED
  BY <1>3, <1>5, <1>6, <1>7, <1>8 DEF Once

\* A key that is let through was not remembered; whoever has it already met it when it
\* was dropped.
LEMMA CheckKeepsOnce ==
  ASSUME Typed, Once, AnsweredOnce, NEW w \in Workers, Check(w)
  PROVE  Once' /\ AnsweredOnce'
<1> DEFINE g == worker[w].load
           k == Key(w)
<1>1. worker[w].pc = "handle" /\ k \in Keys /\ g \in LoadNumbers
  BY KeyTyped DEF Check
<1>2. CASE Done(w) /\ UNCHANGED <<seen, dropped>>
  <2> DEFINE x == IF worker[w].targets = {} THEN NoWork ELSE [worker[w] EXCEPT !.pc = "target"]
  <2>1. x.pc # "decide" /\ Work(w, x)
    BY <1>2, WorkOK(worker[w]) DEF Done, NoWork, WorkOK, WorkState, Typed
  <2> HIDE DEF x
  <2> QED
    BY <2>1, <1>2, OthersKeepOnce, WorkLetsNobodyIn DEF Check
<1>3. CASE /\ k \notin seen[g]
           /\ \E kept \in Kept(seen[g] \cup {k}) :
                 /\ seen' = [seen EXCEPT ![g] = kept]
                 /\ dropped' = [dropped EXCEPT ![g] = @ \cup ((seen[g] \cup {k}) \ kept)]
           /\ Work(w, [worker[w] EXCEPT !.pc = "decide"])
  <2>1. PICK kept \in Kept(seen[g] \cup {k}) :
          /\ seen' = [seen EXCEPT ![g] = kept]
          /\ dropped' = [dropped EXCEPT ![g] = @ \cup ((seen[g] \cup {k}) \ kept)]
    BY <1>3
  <2>2. \A h \in LoadNumbers : dropped[h] \subseteq dropped'[h]
    BY <2>1 DEF Typed
  <2>3. \A h \in LoadNumbers : \A key : Met(key, h) => Met(key, h)'
    BY <2>1, <1>1 DEF Met, Typed
  <2>4. k \in seen'[g] \cup dropped'[g]
    BY <2>1, <1>1 DEF Typed
  <2>5. \A v \in Workers : v # w => worker'[v] = worker[v] /\ (Deciding(v)' <=> Deciding(v))
                                    /\ Key(v)' = Key(v)
    BY <1>3 DEF Work, Typed, Deciding, Key
  <2>6. Key(w)' = k /\ worker'[w].load = g /\ ~Deciding(w)
    <3>1. worker'[w] = [worker[w] EXCEPT !.pc = "decide"] /\ worker[w] \in WorkState
      BY <1>3 DEF Work, Typed, WorkOK
    <3> QED
      BY <3>1, <1>1 DEF Key, WorkState, Deciding
  <2>7. \A v \in Workers : Deciding(v) => worker[v].load \in LoadNumbers
    BY KeyTyped DEF Deciding
  <2>8. UNCHANGED <<answers, repeats>>
    BY DEF Check
  <2>9. Once'
    <3>1. \A v \in Workers : Deciding(v)' => Met(Key(v), worker[v].load)'
      <4> SUFFICES ASSUME NEW v \in Workers, Deciding(v)' PROVE Met(Key(v), worker[v].load)'
        OBVIOUS
      <4>1. CASE v = w
        BY <4>1, <2>4, <2>6 DEF Met
      <4>2. CASE v # w
        <5>1. Met(Key(v), worker[v].load) /\ worker[v].load \in LoadNumbers
          BY <4>2, <2>5, <2>7 DEF Once
        <5>2. Key(v) \in seen'[worker[v].load] \cup dropped'[worker[v].load]
          BY <5>1, <2>3 DEF Met
        <5> QED
          BY <5>2, <4>2, <2>5 DEF Met
      <4> QED
        BY <4>1, <4>2
    <3>2. \A a \in answers' : a.load \in LoadNumbers /\ Met(AnswerKey(a), a.load)'
      BY <2>3, <2>8 DEF Once
    <3>3. \A u, v \in Workers : u # v /\ Deciding(u)' /\ Deciding(v)' /\ SameWork(u, v)' =>
            Key(v)' \in dropped'[worker'[v].load]
      <4> SUFFICES ASSUME NEW u \in Workers, NEW v \in Workers, u # v,
                          Deciding(u)', Deciding(v)', SameWork(u, v)'
                   PROVE  Key(v)' \in dropped'[worker'[v].load]
        OBVIOUS
      <4>1. CASE u # w /\ v # w
        <5>1. Key(v) \in dropped[worker[v].load] /\ worker[v].load \in LoadNumbers
          BY <4>1, <2>5, <2>7 DEF Once, SameWork
        <5> QED
          BY <5>1, <4>1, <2>2, <2>5
      <4>2. ASSUME NEW t \in Workers, t # w, Deciding(t), Key(t) = k, worker[t].load = g
            PROVE  k \in dropped'[g]
        <5>1. Met(k, g)
          BY <4>2 DEF Once
        <5> QED
          BY <5>1, <1>1, <1>3, <2>2 DEF Met
      <4>3. CASE u = w
        <5>1. Deciding(v) /\ Key(v) = k /\ worker[v].load = g
          BY <4>3, <2>5, <2>6 DEF SameWork
        <5> QED
          BY <5>1, <4>2, <4>3, <2>5
      <4>4. CASE v = w
        <5>1. Deciding(u) /\ Key(u) = k /\ worker[u].load = g
          BY <4>4, <2>5, <2>6 DEF SameWork
        <5> QED
          BY <5>1, <4>2, <4>4, <2>6
      <4> QED
        BY <4>1, <4>3, <4>4
    <3>4. \A v \in Workers, a \in answers' :
            Deciding(v)' /\ AnswerKey(a) = Key(v)' /\ a.load = worker'[v].load =>
              Key(v)' \in dropped'[worker'[v].load]
      <4> SUFFICES ASSUME NEW v \in Workers, NEW a \in answers, Deciding(v)',
                          AnswerKey(a) = Key(v)', a.load = worker'[v].load
                   PROVE  Key(v)' \in dropped'[worker'[v].load]
        BY <2>8
      <4>1. CASE v = w
        <5>1. Met(k, g)
          BY <4>1, <2>6 DEF Once
        <5> QED
          BY <5>1, <4>1, <1>1, <1>3, <2>2, <2>6 DEF Met
      <4>2. CASE v # w
        <5>1. Key(v) \in dropped[worker[v].load] /\ worker[v].load \in LoadNumbers
          BY <4>2, <2>5, <2>7 DEF Once
        <5> QED
          BY <5>1, <4>2, <2>2, <2>5
      <4> QED
        BY <4>1, <4>2
    <3> QED
      BY <2>8, <3>1, <3>2, <3>3, <3>4 DEF Once
  <2>10. AnsweredOnce'
    <3>1. \A a \in repeats : a.load \in LoadNumbers
      BY DEF Once
    <3> QED
      BY <2>2, <2>8, <3>1 DEF AnsweredOnce
  <2> QED
    BY <2>9, <2>10
<1> QED
  BY <1>2, <1>3 DEF Check

\* Whoever decides a second time about a key was let through because it was dropped.
LEMMA DecideKeepsOnce ==
  ASSUME Typed, Once, AnsweredOnce, NEW w \in Workers, Decide(w)
  PROVE  Once' /\ AnsweredOnce'
<1> DEFINE x == IF worker[w].targets = {} THEN NoWork ELSE [worker[w] EXCEPT !.pc = "target"]
<1>1. Deciding(w) /\ Key(w) \in Keys /\ worker[w].load \in LoadNumbers
  BY KeyTyped DEF Decide, Deciding
<1>2. x.pc # "decide" /\ Work(w, x)
  BY WorkOK(worker[w]) DEF Decide, Done, NoWork, WorkOK, WorkState, Typed
<1> HIDE DEF x
<1>3. CASE UNCHANGED <<answers, repeats>>
  BY <1>2, <1>3, OthersKeepOnce, WorkLetsNobodyIn DEF Decide
<1>4. ASSUME NEW answer, answer.bot = worker[w].bot, answer.msg = worker[w].msg,
             answer.load = worker[w].load, answers' = answers \cup {answer},
             repeats' = IF answer \in answers THEN repeats \cup {answer} ELSE repeats
      PROVE  Once' /\ AnsweredOnce'
  <2>1. AnswerKey(answer) = Key(w)
    BY <1>4 DEF AnswerKey, Key
  <2>2. UNCHANGED <<seen, dropped>>
    BY DEF Decide
  <2>3. \A v \in Workers : Deciding(v)' => /\ v # w /\ Deciding(v)
                                           /\ worker'[v] = worker[v] /\ Key(v)' = Key(v)
    BY <1>2 DEF Work, Typed, Deciding, Key
  <2>4. \A key, h : Met(key, h)' <=> Met(key, h)
    BY <2>2 DEF Met
  <2>5. \A v \in Workers : Deciding(v)' => Met(Key(v), worker[v].load)'
    BY <2>3, <2>4 DEF Once
  <2>6. \A a \in answers' : a.load \in LoadNumbers /\ Met(AnswerKey(a), a.load)'
    BY <1>1, <1>4, <2>1, <2>4 DEF Once
  <2>7. \A u, v \in Workers : u # v /\ Deciding(u)' /\ Deciding(v)' /\ SameWork(u, v)' =>
          Key(v)' \in dropped'[worker'[v].load]
    BY <2>2, <2>3 DEF Once, SameWork
  <2>8. \A v \in Workers, a \in answers' :
          Deciding(v)' /\ AnswerKey(a) = Key(v)' /\ a.load = worker'[v].load =>
            Key(v)' \in dropped'[worker'[v].load]
    <3> SUFFICES ASSUME NEW v \in Workers, NEW a \in answers', Deciding(v)',
                        AnswerKey(a) = Key(v)', a.load = worker'[v].load
                 PROVE  Key(v)' \in dropped'[worker'[v].load]
      OBVIOUS
    <3>1. CASE a \in answers
      BY <3>1, <2>2, <2>3 DEF Once
    <3>2. CASE a = answer
      <4>1. v # w /\ Deciding(v) /\ SameWork(w, v)
        BY <3>2, <1>4, <2>1, <2>3 DEF SameWork
      <4>2. Key(v) \in dropped[worker[v].load]
        BY <4>1, <1>1 DEF Once
      <4> QED
        BY <4>2, <2>2, <2>3
    <3> QED
      BY <3>1, <3>2, <1>4
  <2>9. repeats' \subseteq answers'
    BY <1>4 DEF Once
  <2>10. AnsweredOnce'
    <3>1. answer \in answers => <<answer.bot, answer.msg>> \in dropped[answer.load]
      BY <1>1, <1>4, <2>1 DEF Once, AnswerKey
    <3> QED
      BY <3>1, <1>4, <2>2 DEF AnsweredOnce
  <2> QED
    BY <2>5, <2>6, <2>7, <2>8, <2>9, <2>10 DEF Once
<1>5. CASE ~UNCHANGED <<answers, repeats>>
  <2> DEFINE answer == [bot |-> worker[w].bot, msg |-> worker[w].msg, load |-> worker[w].load,
                        as |-> IF Allowed(worker[w].bot, worker[w].msg)
                                 THEN Outcome(worker[w].bot, Text[worker[w].msg].words)
                                 ELSE "denied"]
  <2>1. /\ answers' = answers \cup {answer}
        /\ repeats' = IF answer \in answers THEN repeats \cup {answer} ELSE repeats
    BY <1>5 DEF Decide
  <2>2. /\ answer.bot = worker[w].bot /\ answer.msg = worker[w].msg
        /\ answer.load = worker[w].load
    OBVIOUS
  <2> HIDE DEF answer
  <2> QED
    BY <2>1, <2>2, <1>4
<1> QED
  BY <1>3, <1>5

LEMMA InitIInv == Init => IInv
<1> SUFFICES ASSUME Init PROVE IInv
  OBVIOUS
<1>1. \A w \in Workers : ~Deciding(w)
  BY DEF Init, Deciding, NoWork
<1>2. Once /\ AnsweredOnce
  BY <1>1 DEF Init, Once, AnsweredOnce
<1> QED
  BY <1>2, InitTyped DEF IInv

LEMMA NextIInv == IInv /\ [Next]_vars => IInv'
<1> SUFFICES ASSUME Typed, Once, AnsweredOnce, [Next]_vars PROVE IInv'
  BY DEF IInv
<1> DEFINE Silent == \A v \in Workers : Deciding(v)' => worker'[v] = worker[v]
<1>1. ASSUME NEW m \in Messages, Push(m) PROVE IInv'
  BY <1>1, ArriveTyped, OthersKeepOnce DEF Push, IInv
<1>2. ASSUME NEW r \in Readers, Read(r) PROVE IInv'
  <2> DEFINE x == [NoWork EXCEPT !.pc = "handle", !.msg = Head(frames[r]), !.bot = r[1],
                                 !.source = "websocket", !.load = r[2]]
  <2>1. x.pc # "decide" /\ (UNCHANGED worker \/ Work(r, x)) /\ r \in Workers
    BY <1>2, Parties DEF Read, NoWork
  <2> HIDE DEF x
  <2>2. Silent
    BY <2>1, WorkLetsNobodyIn
  <2>3. Once' /\ AnsweredOnce'
    BY <1>2, <2>2, OthersKeepOnce DEF Read
  <2> QED
    BY <2>3, <1>2, ArriveTyped DEF IInv
<1>3. ASSUME NEW m \in Messages, NEW h \in Posts, NEW b \in Hooked, Post(h, b, m) PROVE IInv'
  <2> DEFINE x == [NoWork EXCEPT !.pc = "handle", !.msg = m, !.bot = b, !.source = "webhook",
                                 !.load = gen]
  <2>1. x.pc # "decide" /\ Work(h, x) /\ h \in Workers
    BY <1>3, Parties DEF Post, NoWork
  <2> HIDE DEF x
  <2>2. Once' /\ AnsweredOnce'
    BY <1>3, <2>1, WorkLetsNobodyIn, OthersKeepOnce DEF Post
  <2> QED
    BY <2>2, <1>3, ArriveTyped DEF IInv
<1>4. ASSUME NEW w \in Watchers, NEW m \in Messages, Poll(w, m) PROVE IInv'
  <2> DEFINE x == [NoWork EXCEPT !.pc = "target", !.msg = m, !.source = "yzj_cli", !.load = gen,
                                 !.targets = Targets(w[1]) \cap enabled \cap Known]
  <2>1. x.pc # "decide" /\ Work(w, x) /\ w \in Workers
    BY <1>4, Parties DEF Poll, NoWork
  <2> HIDE DEF x
  <2>2. Once' /\ AnsweredOnce'
    BY <1>4, <2>1, WorkLetsNobodyIn, OthersKeepOnce DEF Poll
  <2> QED
    BY <2>2, <1>4, ArriveTyped DEF IInv
<1>5. ASSUME NEW w \in Watchers, NEW b \in Polled, NextTarget(w, b) PROVE IInv'
  <2> DEFINE rest == [worker[w] EXCEPT !.targets = @ \ {b}]
             x == IF Labelled(b, w[1], worker[w].load) /\ PollTrigger(b, worker[w].msg)
                    THEN [rest EXCEPT !.pc = "handle", !.bot = b]
                    ELSE IF rest.targets = {} THEN NoWork ELSE rest
  <2>1. w \in Workers /\ worker[w] \in WorkState /\ worker[w].pc = "target"
    BY <1>5, Parties DEF NextTarget, Typed, WorkOK
  <2>2. x.pc # "decide"
    BY <2>1 DEF NoWork, WorkState
  <2>3. Work(w, x)
    BY <1>5 DEF NextTarget
  <2> HIDE DEF x
  <2>4. Once' /\ AnsweredOnce'
    BY <1>5, <2>1, <2>2, <2>3, WorkLetsNobodyIn, OthersKeepOnce DEF NextTarget
  <2> QED
    BY <2>4, <1>5, NextTargetTyped DEF IInv
<1>6. ASSUME NEW w \in Workers, Check(w) PROVE IInv'
  BY <1>6, CheckTyped, CheckKeepsOnce DEF IInv
<1>7. ASSUME NEW w \in Workers, Decide(w) PROVE IInv'
  BY <1>7, DecideTyped, DecideKeepsOnce DEF IInv
<1>8. ASSUME Load \/ \E b \in Bots : Switch(b) PROVE IInv'
  <2>1. UNCHANGED <<seen, dropped, answers, repeats, worker>>
    BY <1>8 DEF Load, Switch
  <2>2. Once' /\ AnsweredOnce'
    BY <2>1, OthersKeepOnce
  <2> QED
    BY <2>2, <1>8, ControlTyped DEF IInv
<1>9. CASE UNCHANGED vars
  <2>1. UNCHANGED <<seen, dropped, answers, repeats, worker>> /\ Typed'
    BY <1>9 DEF vars, Typed
  <2>2. Once' /\ AnsweredOnce'
    BY <2>1, OthersKeepOnce
  <2> QED
    BY <2>1, <2>2 DEF IInv
<1> QED
  BY <1>1, <1>2, <1>3, <1>4, <1>5, <1>6, <1>7, <1>8, <1>9 DEF Next, Handling, Watching

LEMMA IInvHolds == Spec => []IInv
BY InitIInv, NextIInv, PTL DEF Spec

\* However often, on however many ways and by however many goroutines at once a message
\* is delivered, a channel answers it once in a load while its key is remembered, for
\* every configuration, limit and load (AlreadySeen, Handle).
THEOREM AnswerOnce == Spec => []AnsweredOnce
<1>1. IInv => AnsweredOnce
  BY DEF IInv
<1> QED
  BY <1>1, IInvHolds, PTL

-----------------------------------------------------------------------------
(* Who handles what, and the grounds of an answer *)

ToRobots == {m \in Messages : Robots(m) # {}}

\* The message speaks to the channel, or to nobody by name.
Addressed(b, m) ==
  Text[m].private \/ Text[m].tokens = {} \/ Config[b].role \in Text[m].tokens

\* What worker w may have in hand: a watcher the messages and the targets of its group,
\* a reader what was pushed to its channel, a webhook what was posted to it.
Fits(w, x) ==
  /\ w \in Watchers =>
       /\ x.pc # "idle" => /\ x.source = "yzj_cli" /\ Text[x.msg].chat = w[1]
                           /\ x.targets \subseteq Targets(w[1])
       /\ x.pc \in {"handle", "decide"} => x.bot \in Targets(w[1]) /\ PollTrigger(x.bot, x.msg)
  /\ w \notin Watchers =>
       /\ x.targets = {}
       /\ x.pc \in {"handle", "decide"} =>
            \/ /\ x.source = "websocket" /\ x.bot \in WS /\ x.msg \in ToRobots
               /\ x.pc = "decide" => ForBot(x.bot, x.msg)
            \/ /\ x.source = "webhook" /\ x.bot \in Hooked
               /\ Config[x.bot].group_id = Text[x.msg].chat

\* An answer was pushed, posted or polled, and passed the filters of its way.
Grounded(a) ==
  LET b == a.bot
      m == a.msg IN
  \/ b \in WS /\ m \in ToRobots /\ ForBot(b, m) /\ Addressed(b, m)
  \/ b \in Hooked /\ Config[b].group_id = Text[m].chat /\ Addressed(b, m)
  \/ b \in Polled /\ Config[b].group_id = Text[m].chat /\ PollTrigger(b, m)

WayInv ==
  /\ frames \in [Readers -> Seq(ToRobots)]
  /\ \A w \in Workers : Fits(w, worker[w])
  /\ \A a \in answers : Grounded(a)

\* The ways are told apart by who goes them.
LEMMA Apart ==
  /\ \A w \in Readers \cup Posts : w \notin Watchers
  /\ \A b \in Polled : b \notin WS \cup Hooked
<1>1. \A w \in Readers \cup Posts : w[2] # 0
  BY IntakeAssumption DEF Readers, Posts
<1>2. \A w \in Watchers : w[2] = 0
  BY DEF Watchers
<1> QED
  BY <1>1, <1>2 DEF Polled, WS, Hooked

LEMMA WorkFits ==
  ASSUME Typed, WayInv, NEW w \in Workers, NEW x, Fits(w, x), Work(w, x)
  PROVE  \A v \in Workers : Fits(v, worker'[v])
BY DEF Typed, WayInv, Work

LEMMA DoneFits ==
  ASSUME Typed, WayInv, NEW w \in Workers, worker[w].pc # "idle", Done(w)
  PROVE  \A v \in Workers : Fits(v, worker'[v])
<1> DEFINE x == IF worker[w].targets = {} THEN NoWork ELSE [worker[w] EXCEPT !.pc = "target"]
<1>1. worker[w] \in WorkState /\ Fits(w, worker[w])
  BY DEF Typed, WorkOK, WayInv
<1>2. Fits(w, NoWork)
  BY DEF Fits, NoWork
<1>3. Fits(w, [worker[w] EXCEPT !.pc = "target"])
  BY <1>1 DEF Fits, WorkState
<1>4. Fits(w, x) /\ Work(w, x)
  BY <1>2, <1>3 DEF Done
<1> HIDE DEF x
<1> QED
  BY <1>4, WorkFits

LEMMA InitWay == Init => WayInv
<1> SUFFICES ASSUME Init PROVE WayInv
  OBVIOUS
<1>1. frames \in [Readers -> Seq(ToRobots)]
  BY DEF Init
<1>2. \A w \in Workers : Fits(w, worker[w])
  BY DEF Init, Fits, NoWork
<1> QED
  BY <1>1, <1>2 DEF Init, WayInv

LEMMA ArriveWay ==
  ASSUME Typed, WayInv,
         \/ \E m \in Messages : Push(m)
         \/ \E r \in Readers : Read(r)
         \/ \E m \in Messages, h \in Posts, b \in Hooked : Post(h, b, m)
         \/ \E w \in Watchers, m \in Messages : Poll(w, m)
  PROVE  WayInv'
<1>1. ASSUME NEW m \in Messages, Push(m) PROVE WayInv'
  <2>1. m \in ToRobots
    BY <1>1 DEF Push, ToRobots
  <2>2. \A r \in Readers : Append(frames[r], m) \in Seq(ToRobots) /\ frames[r] \in Seq(ToRobots)
    BY <2>1 DEF WayInv
  <2>3. frames' \in [Readers -> Seq(ToRobots)] /\ UNCHANGED <<worker, answers>>
    BY <2>2, <1>1 DEF Push
  <2> QED
    BY <2>3 DEF WayInv
<1>2. ASSUME NEW r \in Readers, Read(r) PROVE WayInv'
  <2>1. frames[r] \in Seq(ToRobots) /\ frames[r] # <<>> /\ r \in Workers /\ r \notin Watchers
    BY <1>2, Parties, Apart DEF WayInv, Read
  <2>2. Head(frames[r]) \in ToRobots /\ Tail(frames[r]) \in Seq(ToRobots)
    BY <2>1
  <2>3. frames' \in [Readers -> Seq(ToRobots)] /\ UNCHANGED answers
    BY <2>2, <1>2 DEF Read, WayInv
  <2> DEFINE x == [NoWork EXCEPT !.pc = "handle", !.msg = Head(frames[r]), !.bot = r[1],
                                 !.source = "websocket", !.load = r[2]]
  <2>4. Fits(r, x)
    <3>1. r[1] \in WS
      BY DEF Readers
    <3> QED
      BY <2>1, <2>2, <3>1 DEF Fits, NoWork
  <2>5. UNCHANGED worker \/ Work(r, x)
    BY <1>2 DEF Read
  <2> HIDE DEF x
  <2>6. \A v \in Workers : Fits(v, worker'[v])
    BY <2>1, <2>4, <2>5, WorkFits DEF WayInv
  <2> QED
    BY <2>3, <2>6 DEF WayInv
<1>3. ASSUME NEW m \in Messages, NEW h \in Posts, NEW b \in Hooked, Post(h, b, m) PROVE WayInv'
  <2> DEFINE x == [NoWork EXCEPT !.pc = "handle", !.msg = m, !.bot = b, !.source = "webhook",
                                 !.load = gen]
  <2>1. Fits(h, x) /\ Work(h, x) /\ h \in Workers
    BY <1>3, Apart, Parties DEF Post, Fits, NoWork
  <2> HIDE DEF x
  <2>2. \A v \in Workers : Fits(v, worker'[v])
    BY <2>1, WorkFits
  <2> QED
    BY <2>2, <1>3 DEF Post, WayInv
<1>4. ASSUME NEW w \in Watchers, NEW m \in Messages, Poll(w, m) PROVE WayInv'
  <2> DEFINE x == [NoWork EXCEPT !.pc = "target", !.msg = m, !.source = "yzj_cli", !.load = gen,
                                 !.targets = Targets(w[1]) \cap enabled \cap Known]
  <2>1. Fits(w, x) /\ Work(w, x) /\ w \in Workers
    BY <1>4, Parties DEF Poll, Fits, NoWork
  <2> HIDE DEF x
  <2>2. \A v \in Workers : Fits(v, worker'[v])
    BY <2>1, WorkFits
  <2> QED
    BY <2>2, <1>4 DEF Poll, WayInv
<1> QED
  BY <1>1, <1>2, <1>3, <1>4

LEMMA NextTargetWay ==
  ASSUME Typed, WayInv, NEW w \in Watchers, NEW b \in Polled, NextTarget(w, b)
  PROVE  WayInv'
<1> DEFINE rest == [worker[w] EXCEPT !.targets = @ \ {b}]
<1>1. /\ worker[w] \in WorkState /\ worker[w].pc = "target" /\ w \in Workers
      /\ Fits(w, worker[w]) /\ b \in worker[w].targets
  BY Parties DEF NextTarget, Typed, WorkOK, WayInv
<1>2. Fits(w, rest) /\ Fits(w, NoWork)
  BY <1>1 DEF Fits, NoWork, WorkState
<1>3. ASSUME PollTrigger(b, worker[w].msg)
      PROVE  Fits(w, [rest EXCEPT !.pc = "handle", !.bot = b])
  BY <1>1, <1>3 DEF Fits, WorkState
<1>4. \E x : Fits(w, x) /\ Work(w, x)
  BY <1>2, <1>3 DEF NextTarget
<1>5. \A v \in Workers : Fits(v, worker'[v])
  BY <1>1, <1>4, WorkFits
<1> QED
  BY <1>5 DEF NextTarget, WayInv

LEMMA CheckWay ==
  ASSUME Typed, WayInv, NEW w \in Workers, Check(w)
  PROVE  WayInv'
<1>1. worker[w].pc = "handle" /\ worker[w] \in WorkState /\ Fits(w, worker[w])
  BY DEF Check, Typed, WorkOK, WayInv
<1>2. CASE Done(w)
  <2>1. \A v \in Workers : Fits(v, worker'[v])
    BY <1>1, <1>2, DoneFits
  <2> QED
    BY <2>1 DEF Check, WayInv
<1>3. CASE ~Done(w)
  <2> DEFINE x == [worker[w] EXCEPT !.pc = "decide"]
  <2>1. /\ ~(worker[w].source = "websocket" /\ ~ForBot(worker[w].bot, worker[w].msg))
        /\ Work(w, x)
    BY <1>3 DEF Check
  <2>2. Fits(w, x)
    BY <1>1, <2>1 DEF Fits, WorkState
  <2> HIDE DEF x
  <2>3. \A v \in Workers : Fits(v, worker'[v])
    BY <2>1, <2>2, WorkFits
  <2> QED
    BY <2>3 DEF Check, WayInv
<1> QED
  BY <1>2, <1>3

LEMMA AddressedIfTargeted ==
  ASSUME NEW b, NEW m, MessageTargetsBot(b, m)
  PROVE  Addressed(b, m)
BY DEF MessageTargetsBot, Mentioned, Addressed

LEMMA DecideWay ==
  ASSUME Typed, WayInv, NEW w \in Workers, Decide(w)
  PROVE  WayInv'
<1> DEFINE b == worker[w].bot
           m == worker[w].msg
<1>1. /\ worker[w].pc = "decide" /\ worker[w] \in WorkState /\ Fits(w, worker[w]) /\ Done(w)
      /\ UNCHANGED frames
  BY DEF Decide, Typed, WorkOK, WayInv
<1>2. \A v \in Workers : Fits(v, worker'[v])
  BY <1>1, DoneFits
<1>3. CASE answers' = answers
  BY <1>1, <1>2, <1>3 DEF WayInv
<1>4. CASE answers' # answers
  <2>1. worker[w].source = "yzj_cli" \/ MessageTargetsBot(b, m)
    BY <1>4 DEF Decide
  <2>2. PICK answer : answers' = answers \cup {answer} /\ answer.bot = b /\ answer.msg = m
    <3> DEFINE a == [bot |-> b, msg |-> m, load |-> worker[w].load,
                     as |-> IF Allowed(b, m) THEN Outcome(b, Text[m].words) ELSE "denied"]
    <3>1. answers' = answers \cup {a} /\ a.bot = b /\ a.msg = m
      BY <1>4 DEF Decide
    <3> HIDE DEF a
    <3> QED
      BY <3>1
  <2>3. CASE w \in Watchers
    <3>1. b \in Polled /\ Config[b].group_id = Text[m].chat /\ PollTrigger(b, m)
      BY <1>1, <2>3 DEF Fits, Targets
    <3> QED
      BY <1>1, <1>2, <2>2, <3>1 DEF WayInv, Grounded
  <2>4. CASE w \notin Watchers
    <3>1. Addressed(b, m)
      BY <1>1, <2>1, <2>4, AddressedIfTargeted DEF Fits
    <3>2. \/ b \in WS /\ m \in ToRobots /\ ForBot(b, m)
          \/ b \in Hooked /\ Config[b].group_id = Text[m].chat
      BY <1>1, <2>4 DEF Fits
    <3> QED
      BY <1>1, <1>2, <2>2, <3>1, <3>2 DEF WayInv, Grounded
  <2> QED
    BY <2>3, <2>4
<1> QED
  BY <1>3, <1>4

LEMMA ControlWay ==
  ASSUME Typed, WayInv, Load \/ \E b \in Bots : Switch(b)
  PROVE  WayInv'
<1>1. UNCHANGED <<worker, answers>>
  BY DEF Load, Switch
<1>2. frames' \in [Readers -> Seq(ToRobots)]
  <2>1. \A r \in Readers : frames[r] \in Seq(ToRobots) /\ <<>> \in Seq(ToRobots)
    BY DEF WayInv
  <2> QED
    BY <2>1 DEF Load, Switch
<1> QED
  BY <1>1, <1>2 DEF WayInv

LEMMA NextWay == Typed /\ WayInv /\ [Next]_vars => WayInv'
<1> SUFFICES ASSUME Typed, WayInv, [Next]_vars PROVE WayInv'
  OBVIOUS
<1>1. CASE UNCHANGED vars
  BY <1>1 DEF vars, WayInv
<1> QED
  BY <1>1, ArriveWay, NextTargetWay, CheckWay, DecideWay, ControlWay
     DEF Next, Handling, Watching

LEMMA WayHolds == Spec => []WayInv
<1>1. IInv => Typed
  BY DEF IInv
<1> QED
  BY <1>1, IInvHolds, InitWay, NextWay, PTL DEF Spec

\* What the filter needs of the configuration: an ID given to a channel is that of the
\* robot in its chat (README.md:133).
IdsAreTheirs ==
  \A m \in ToRobots, b \in WS :
    Text[m].robotId \in Config[b].openids => Config[b].group_id = Text[m].chat

\* What makes a polled channel answer speaks to it.
LEMMA TriggerSpeaks ==
  ASSUME NEW b, NEW m, PollTrigger(b, m)
  PROVE  SpokenTo(b, m)
<1>1. MentionsBots(b, m) => SpokenTo(b, m)
  BY DEF MentionsBots, SpokenTo
<1> QED
  BY <1>1 DEF PollTrigger, SpokenTo

\* A message comes out of the filter at a channel of its chat, or without an ID to compare
\* and with no name against that channel.
LEMMA FilteredIsTheirs ==
  ASSUME IdsAreTheirs, NEW b \in WS, NEW m \in ToRobots, ForBot(b, m)
  PROVE  \/ Config[b].group_id = Text[m].chat
         \/ /\ Text[m].robotId = Nobody \/ Config[b].openids = {}
            /\ Text[m].robotName \in {Nobody, Config[b].role} \cup Config[b].aliases
BY DEF IdsAreTheirs, ForBot

\* Where each ID is that of the robot in the chat of its channel, a channel answers for
\* another chat only what is pushed without an ID to compare and with no name against it,
\* and nothing that names only others; although every WebSocket hears of every message,
\* for every configuration, every message and every number of loads and switches
\* (websocketMessageForBot, MessageTargetsBot, pollTrigger, samePollGroupLabel).
THEOREM NobodyElse ==
  ASSUME IdsAreTheirs
  PROVE  Spec => []NobodyElseAnswers
<1>1. WayInv => NobodyElseAnswers
  <2> SUFFICES ASSUME NEW a \in answers, Grounded(a)
               PROVE  /\ \/ Config[a.bot].group_id = Text[a.msg].chat
                         \/ /\ a.bot \in WS
                            /\ Text[a.msg].robotId = Nobody \/ Config[a.bot].openids = {}
                            /\ Text[a.msg].robotName \in
                                 {Nobody, Config[a.bot].role} \cup Config[a.bot].aliases
                      /\ Text[a.msg].tokens = {} \/ Config[a.bot].role \in Text[a.msg].tokens
                         \/ IF a.bot \in Polled THEN SpokenTo(a.bot, a.msg)
                            ELSE Text[a.msg].private
    BY DEF WayInv, NobodyElseAnswers
  <2> DEFINE b == a.bot
             m == a.msg
  <2>1. CASE b \in WS /\ m \in ToRobots /\ ForBot(b, m) /\ Addressed(b, m)
    <3>1. b \notin Polled
      BY <2>1, Apart
    <3> QED
      BY <2>1, <3>1, FilteredIsTheirs DEF Addressed
  <2>2. CASE b \in Hooked /\ Config[b].group_id = Text[m].chat /\ Addressed(b, m)
    <3>1. b \notin Polled
      BY <2>2, Apart
    <3> QED
      BY <2>2, <3>1 DEF Addressed
  <2>3. CASE b \in Polled /\ Config[b].group_id = Text[m].chat /\ PollTrigger(b, m)
    BY <2>3, TriggerSpeaks
  <2> QED
    BY <2>1, <2>2, <2>3 DEF Grounded
<1> QED
  BY <1>1, WayHolds, PTL

-----------------------------------------------------------------------------
(* Mentions *)

\* In no load does the name of a polled group keep a channel from it (samePollGroupLabel).
LabelsAgree == \A b \in Polled, g \in LoadNumbers : Labelled(b, Config[b].group_id, g)

\* The channel has answered the message or is about to.
Taken(b, m) ==
  \/ \E a \in answers : a.bot = b /\ a.msg = m
  \/ \E w \in Watchers : Deciding(w) /\ Key(w) = <<b, m>>

\* The message is waiting for the channel at a watcher.
Waiting(b, m) ==
  \E w \in Watchers :
    /\ worker[w].pc # "idle" /\ worker[w].msg = m
    /\ b \in worker[w].targets \/ (worker[w].pc = "handle" /\ worker[w].bot = b)

\* A polled message that the channel has to answer.
Due(b, m) ==
  /\ switches = 0 /\ sent["poll"][m] > 0
  /\ Config[b].group_id = Text[m].chat /\ ~IsFromBot(m) /\ MentionsBots(b, m)
  /\ \A g \in 1 .. gen : b \in Loaded[g]

\* A key is remembered only after its message has been taken up, and until it is the
\* message waits: with this MentionsAreAnswered is inductive.
MentionInv ==
  /\ sent \in [Ways -> [Messages -> Nat]] /\ switches \in Nat
  /\ switches = 0 => enabled = Bots
  /\ \A b \in Polled, m \in Messages, g \in LoadNumbers : <<b, m>> \in seen[g] => Taken(b, m)
  /\ \A b \in Polled, m \in Messages : Due(b, m) => Taken(b, m) \/ Waiting(b, m)

LEMMA MentionsFollow == MentionInv /\ Typed => MentionsAreAnswered
<1> SUFFICES ASSUME MentionInv, Typed, NEW m \in Messages, NEW b \in Polled, Due(b, m),
                    \A w \in Watchers : worker[w].msg # m
             PROVE  \E a \in answers : a.bot = b /\ a.msg = m
  BY DEF MentionsAreAnswered, Due
<1>1. ~Waiting(b, m)
  BY DEF Waiting
<1>2. \A w \in Watchers : Key(w) # <<b, m>>
  BY DEF Key
<1> QED
  BY <1>1, <1>2 DEF MentionInv, Taken

LEMMA InitMention == Init => MentionInv
<1> SUFFICES ASSUME Init PROVE MentionInv
  OBVIOUS
<1>1. \A m \in Messages : sent["poll"][m] = 0
  BY DEF Init, Ways
<1>2. sent \in [Ways -> [Messages -> Nat]]
  BY DEF Init
<1> QED
  BY <1>1, <1>2 DEF Init, MentionInv, Due, LoadNumbers

\* Steps of which the watchers see nothing.
LEMMA SameMention ==
  ASSUME MentionInv, \A w \in Watchers : worker'[w] = worker[w],
         UNCHANGED <<seen, answers, enabled, switches>>, gen <= gen', gen \in Nat, gen' \in Nat,
         sent' \in [Ways -> [Messages -> Nat]], sent'["poll"] = sent["poll"]
  PROVE  MentionInv'
<1>1. \A b, m : /\ Taken(b, m) => Taken(b, m)'
                /\ Waiting(b, m) => Waiting(b, m)'
                /\ Due(b, m)' => Due(b, m)
  <2>1. \A w \in Watchers : Key(w)' = Key(w) /\ (Deciding(w)' <=> Deciding(w))
    BY DEF Key, Deciding
  <2>2. 1 .. gen \subseteq 1 .. gen'
    OBVIOUS
  <2>3. \A b, m : Taken(b, m) => Taken(b, m)'
    BY <2>1 DEF Taken
  <2>4. \A b, m : Waiting(b, m) => Waiting(b, m)'
    BY DEF Waiting
  <2>5. \A b, m : Due(b, m)' => Due(b, m)
    BY <2>2 DEF Due
  <2> QED
    BY <2>3, <2>4, <2>5
<1> QED
  BY <1>1 DEF MentionInv

\* A worker goes on with x.  What is taken stays taken, and what waits keeps waiting,
\* when x still has it.
LEMMA MovesMention ==
  ASSUME Typed, MentionInv, NEW w \in Workers, NEW x, Work(w, x),
         UNCHANGED <<enabled, switches, gen>>, answers \subseteq answers',
         sent' \in [Ways -> [Messages -> Nat]],
         \A b \in Polled, m \in Messages, g \in LoadNumbers :
           <<b, m>> \in seen'[g] => <<b, m>> \in seen[g] \/ Taken(b, m)',
         \A b \in Polled, m \in Messages :
           w \in Watchers /\ Deciding(w) /\ Key(w) = <<b, m>> => Taken(b, m)',
         \A b \in Polled, m \in Messages : Due(b, m)' => Due(b, m) \/ Waiting(b, m)',
         \A b \in Polled, m \in Messages :
           /\ w \in Watchers /\ worker[w].pc # "idle" /\ worker[w].msg = m /\ Due(b, m)
           /\ b \in worker[w].targets \/ (worker[w].pc = "handle" /\ worker[w].bot = b)
           => Taken(b, m)' \/ Waiting(b, m)'
  PROVE  MentionInv'
<1>1. \A v \in Workers : v # w => worker'[v] = worker[v]
  BY DEF Work, Typed
<1>2. \A v \in Watchers : v \in Workers
  BY Parties
<1>3. \A b \in Polled, m \in Messages : Taken(b, m) => Taken(b, m)'
  <2> SUFFICES ASSUME NEW b \in Polled, NEW m \in Messages, Taken(b, m) PROVE Taken(b, m)'
    OBVIOUS
  <2>1. CASE \E a \in answers : a.bot = b /\ a.msg = m
    BY <2>1 DEF Taken
  <2>2. ASSUME NEW v \in Watchers, Deciding(v), Key(v) = <<b, m>> PROVE Taken(b, m)'
    <3>1. CASE v = w
      BY <2>2, <3>1
    <3>2. CASE v # w
      <4>1. Deciding(v)' /\ Key(v)' = <<b, m>>
        BY <1>1, <1>2, <2>2, <3>2 DEF Deciding, Key
      <4> QED
        BY <4>1 DEF Taken
    <3> QED
      BY <3>1, <3>2
  <2> QED
    BY <2>1, <2>2 DEF Taken
<1>4. \A b \in Polled, m \in Messages :
        Due(b, m) /\ Waiting(b, m) => Taken(b, m)' \/ Waiting(b, m)'
  <2> SUFFICES ASSUME NEW b \in Polled, NEW m \in Messages, Due(b, m), NEW v \in Watchers,
                      worker[v].pc # "idle", worker[v].msg = m,
                      b \in worker[v].targets \/ (worker[v].pc = "handle" /\ worker[v].bot = b)
               PROVE  Taken(b, m)' \/ Waiting(b, m)'
    BY DEF Waiting
  <2>1. CASE v = w
    BY <2>1
  <2>2. CASE v # w
    BY <1>1, <1>2, <2>2 DEF Waiting
  <2> QED
    BY <2>1, <2>2
<1>5. \A b \in Polled, m \in Messages, g \in LoadNumbers : <<b, m>> \in seen'[g] => Taken(b, m)'
  BY <1>3 DEF MentionInv
<1>6. \A b \in Polled, m \in Messages : Due(b, m)' => Taken(b, m)' \/ Waiting(b, m)'
  BY <1>3, <1>4 DEF MentionInv
<1> QED
  BY <1>5, <1>6 DEF MentionInv

LEMMA CopyTyped ==
  ASSUME MentionInv, NEW way \in Ways, NEW m \in Messages, Copy(way, m)
  PROVE  /\ sent' \in [Ways -> [Messages -> Nat]]
         /\ way # "poll" => sent'["poll"] = sent["poll"]
         /\ \A n \in Messages : n # m => sent'["poll"][n] = sent["poll"][n]
<1>1. sent[way] \in [Messages -> Nat] /\ "poll" \in Ways
  BY DEF MentionInv, Ways
<1>2. [sent[way] EXCEPT ![m] = @ + 1] \in [Messages -> Nat]
  BY <1>1
<1>3. sent' = [sent EXCEPT ![way] = [sent[way] EXCEPT ![m] = @ + 1]]
  BY DEF Copy
<1> QED
  BY <1>1, <1>2, <1>3 DEF MentionInv

\* What is pushed, read or posted is none of the watchers' business.
LEMMA OtherWaysMention ==
  ASSUME Typed, MentionInv,
         \/ \E m \in Messages : Push(m)
         \/ \E r \in Readers : Read(r)
         \/ \E m \in Messages, h \in Posts, b \in Hooked : Post(h, b, m)
  PROVE  MentionInv'
<1>1. \A w \in Watchers : w \in Workers
  BY Parties
<1>2. gen \in Nat /\ gen <= gen
  BY DEF Typed, LoadNumbers
<1>3. ASSUME NEW m \in Messages, Push(m) PROVE MentionInv'
  <2>1. Copy("push", m) /\ UNCHANGED <<worker, seen, answers, enabled, switches, gen>>
    BY <1>3 DEF Push
  <2>2. sent' \in [Ways -> [Messages -> Nat]] /\ sent'["poll"] = sent["poll"]
    BY <2>1, CopyTyped DEF Ways
  <2> QED
    BY <1>2, <2>1, <2>2, SameMention
<1>4. ASSUME NEW r \in Readers, Read(r) PROVE MentionInv'
  <2>1. /\ UNCHANGED <<sent, seen, answers, enabled, switches, gen>>
        /\ worker' = worker \/ \E x : Work(r, x)
    BY <1>4 DEF Read
  <2>2. \A w \in Watchers : w # r
    BY Apart
  <2>3. \A w \in Watchers : worker'[w] = worker[w]
    BY <1>1, <2>1, <2>2 DEF Work, Typed
  <2>4. sent' \in [Ways -> [Messages -> Nat]]
    BY <2>1 DEF MentionInv
  <2> QED
    BY <1>2, <2>1, <2>3, <2>4, SameMention
<1>5. ASSUME NEW m \in Messages, NEW h \in Posts, NEW b \in Hooked, Post(h, b, m) PROVE MentionInv'
  <2>1. /\ UNCHANGED <<seen, answers, enabled, switches, gen>> /\ Copy("post", m)
        /\ \E x : Work(h, x)
    BY <1>5 DEF Post
  <2>2. \A w \in Watchers : w # h
    BY Apart
  <2>3. \A w \in Watchers : worker'[w] = worker[w]
    BY <1>1, <2>1, <2>2 DEF Work, Typed
  <2>4. sent' \in [Ways -> [Messages -> Nat]] /\ sent'["poll"] = sent["poll"]
    BY <2>1, CopyTyped DEF Ways
  <2> QED
    BY <1>2, <2>1, <2>3, <2>4, SameMention
<1> QED
  BY <1>3, <1>4, <1>5

\* A watcher takes a message to every channel of its group: each that has to answer is
\* among its targets.
LEMMA PollMention ==
  ASSUME Typed, MentionInv, NEW w \in Watchers, NEW m \in Messages, Poll(w, m)
  PROVE  MentionInv'
<1> DEFINE asked == Targets(w[1]) \cap enabled \cap Known
           x == [NoWork EXCEPT !.pc = "target", !.msg = m, !.source = "yzj_cli", !.load = gen,
                               !.targets = asked]
<1>1. /\ worker[w] = NoWork /\ Text[m].chat = w[1] /\ Copy("poll", m) /\ Work(w, x)
      /\ UNCHANGED <<gen, seen, enabled, switches, answers>> /\ w \in Workers
  BY Parties DEF Poll
<1>2. /\ sent' \in [Ways -> [Messages -> Nat]]
      /\ \A n \in Messages : n # m => sent'["poll"][n] = sent["poll"][n]
  BY <1>1, CopyTyped DEF Ways
<1>3. worker'[w] = x /\ x.pc = "target" /\ x.msg = m /\ x.targets = asked
  BY <1>1 DEF Work, Typed, NoWork
<1>4. worker[w].pc = "idle"
  BY <1>1 DEF NoWork
<1> HIDE DEF x
<1>5. ASSUME NEW b \in Polled, NEW n \in Messages, Due(b, n)'
      PROVE  Due(b, n) \/ Waiting(b, n)'
  <2>1. CASE n = m
    <3>1. b \in Targets(w[1])
      BY <1>1, <1>5, <2>1 DEF Targets, Due
    <3>2. b \in enabled
      BY <1>1, <1>5, Parties DEF MentionInv, Due
    <3>3. b \in Loaded[gen]
      BY <1>1, <1>5 DEF Due, Typed, LoadNumbers
    <3> QED
      BY <1>3, <2>1, <3>1, <3>2, <3>3 DEF Waiting, Known
  <2>2. CASE n # m
    BY <1>1, <1>2, <1>5, <2>2 DEF Due
  <2> QED
    BY <2>1, <2>2
<1> HIDE DEF asked
<1> QED
  BY <1>1, <1>2, <1>4, <1>5, MovesMention DEF Deciding

\* The next target of a message that it has to answer takes it to Handle.
LEMMA NextTargetMention ==
  ASSUME LabelsAgree, Typed, WayInv, MentionInv, NEW w \in Watchers, NEW t \in Polled, NextTarget(w, t)
  PROVE  MentionInv'
<1> DEFINE rest == [worker[w] EXCEPT !.targets = @ \ {t}]
           x == IF Labelled(t, w[1], worker[w].load) /\ PollTrigger(t, worker[w].msg)
                  THEN [rest EXCEPT !.pc = "handle", !.bot = t]
                  ELSE IF rest.targets = {} THEN NoWork ELSE rest
<1>1. /\ worker[w].pc = "target" /\ t \in worker[w].targets /\ Work(w, x) /\ w \in Workers
      /\ worker[w].load \in LoadNumbers
      /\ worker[w] \in WorkState /\ Fits(w, worker[w])
      /\ UNCHANGED <<gen, seen, enabled, sent, switches, answers>>
  BY Parties DEF NextTarget, Typed, WorkOK, WayInv
<1>2. worker'[w] = x
  BY <1>1 DEF Work, Typed
<1>3. rest \in WorkState /\ rest.targets = worker[w].targets \ {t} /\ rest.msg = worker[w].msg
      /\ rest.pc = "target"
  BY <1>1 DEF WorkState
<1>4. Config[t].group_id = w[1]
  BY <1>1 DEF Fits, Targets
<1>5. Labelled(t, w[1], worker[w].load)
  BY <1>1, <1>4 DEF LabelsAgree
<1>6. ASSUME NEW b \in Polled, NEW m \in Messages, worker[w].msg = m, Due(b, m),
             b \in worker[w].targets
      PROVE  Waiting(b, m)'
  <2>1. CASE b = t
    <3>1. PollTrigger(t, m)
      BY <1>6, <2>1 DEF Due, PollTrigger
    <3>2. x = [rest EXCEPT !.pc = "handle", !.bot = t]
      BY <1>5, <1>6, <3>1
    <3>3. x.pc = "handle" /\ x.bot = b /\ x.msg = m
      BY <1>3, <1>6, <2>1, <3>2 DEF WorkState
    <3> QED
      BY <1>2, <3>3 DEF Waiting
  <2>2. CASE b # t
    <3>1. b \in rest.targets /\ rest.targets # {}
      BY <1>3, <1>6, <2>2
    <3>2. x.pc # "idle" /\ x.msg = m /\ b \in x.targets
      BY <1>3, <1>6, <3>1 DEF WorkState
    <3> QED
      BY <1>2, <3>2 DEF Waiting
  <2> QED
    BY <2>1, <2>2
<1>7. sent' \in [Ways -> [Messages -> Nat]]
  BY <1>1 DEF MentionInv
<1>8. \A b, m : Due(b, m)' => Due(b, m)
  BY <1>1 DEF Due
<1> HIDE DEF x
<1> QED
  BY <1>1, <1>6, <1>7, <1>8, MovesMention DEF Deciding

\* Done leaves the targets that are left waiting.
LEMMA DoneWaiting ==
  ASSUME Typed, NEW w \in Watchers, worker[w].pc # "idle", Done(w),
         NEW b \in worker[w].targets, NEW m, worker[w].msg = m
  PROVE  Waiting(b, m)'
<1>1. w \in Workers /\ worker[w] \in WorkState
  BY Parties DEF Typed, WorkOK
<1>2. worker'[w] = [worker[w] EXCEPT !.pc = "target"]
  BY <1>1 DEF Done, Work, Typed
<1>3. worker'[w].pc = "target" /\ worker'[w].msg = worker[w].msg /\ worker'[w].targets = worker[w].targets
  BY <1>1, <1>2 DEF WorkState
<1> QED
  BY <1>3 DEF Waiting

LEMMA CheckMention ==
  ASSUME Typed, WayInv, MentionInv, NEW w \in Workers, Check(w)
  PROVE  MentionInv'
<1> DEFINE g == worker[w].load
<1>1. /\ worker[w].pc = "handle" /\ worker[w] \in WorkState /\ Fits(w, worker[w])
      /\ Key(w) \in Keys /\ g \in LoadNumbers
      /\ UNCHANGED <<gen, enabled, sent, switches, answers>>
  BY KeyTyped DEF Check, Typed, WorkOK, WayInv
<1>2. sent' \in [Ways -> [Messages -> Nat]]
  BY <1>1 DEF MentionInv
<1>3. \A b, m : Due(b, m)' => Due(b, m)
  BY <1>1 DEF Due
<1>4. ASSUME NEW x, Work(w, x), Done(w), UNCHANGED seen
      PROVE  MentionInv'
  <2>1. ASSUME NEW b \in Polled, NEW m \in Messages, w \in Watchers, worker[w].msg = m,
               Due(b, m), worker[w].bot = b
        PROVE  Taken(b, m)'
    <3>1. b \in Known
      BY <2>1 DEF Due, Known, Typed, LoadNumbers
    <3>2. worker[w].source # "websocket"
      BY <1>1, <2>1 DEF Fits
    <3>3. x.pc # "decide"
      <4>1. Done(w) => worker'[w].pc # "decide"
        BY <1>1 DEF Done, Work, Typed, NoWork, WorkState
      <4>2. worker'[w] = x
        BY <1>4 DEF Work, Typed
      <4> QED
        BY <1>4, <4>1, <4>2
    <3>4. worker'[w].pc # "decide"
      BY <1>4, <3>3 DEF Work, Typed
    <3>5. [worker[w] EXCEPT !.pc = "decide"].pc = "decide"
      BY <1>1 DEF WorkState
    <3>6. Key(w) \in seen[g]
      BY <3>1, <3>2, <3>4, <3>5, <2>1 DEF Check, Work, Typed
    <3>7. Taken(b, m)
      BY <1>1, <2>1, <3>6 DEF Key, MentionInv
    <3>8. ASSUME NEW v \in Watchers, Deciding(v), Key(v) = <<b, m>>
          PROVE  Taken(b, m)'
      <4>1. v # w /\ v \in Workers
        BY <1>1, <3>8, Parties DEF Deciding
      <4>2. Deciding(v)' /\ Key(v)' = <<b, m>>
        BY <1>4, <3>8, <4>1 DEF Work, Typed, Deciding, Key
      <4> QED
        BY <4>2 DEF Taken
    <3> QED
      BY <1>1, <3>7, <3>8 DEF Taken
  <2>2. \A b \in Polled, m \in Messages :
          /\ w \in Watchers /\ worker[w].pc # "idle" /\ worker[w].msg = m /\ Due(b, m)
          /\ b \in worker[w].targets \/ (worker[w].pc = "handle" /\ worker[w].bot = b)
          => Taken(b, m)' \/ Waiting(b, m)'
    <3> SUFFICES ASSUME NEW b \in Polled, NEW m \in Messages, w \in Watchers,
                        worker[w].msg = m, Due(b, m),
                        b \in worker[w].targets \/ worker[w].bot = b
                 PROVE  Taken(b, m)' \/ Waiting(b, m)'
      OBVIOUS
    <3>1. CASE b \in worker[w].targets
      BY <1>1, <1>4, <3>1, DoneWaiting
    <3>2. CASE worker[w].bot = b
      BY <2>1, <3>2
    <3> QED
      BY <3>1, <3>2
  <2> QED
    BY <1>1, <1>2, <1>3, <1>4, <2>2, MovesMention DEF Deciding
<1>5. ASSUME NEW kept \in SUBSET (seen[g] \cup {Key(w)}),
             seen' = [seen EXCEPT ![g] = kept],
             Work(w, [worker[w] EXCEPT !.pc = "decide"])
      PROVE  MentionInv'
  <2> DEFINE x == [worker[w] EXCEPT !.pc = "decide"]
  <2>1. /\ worker'[w] = x /\ x.pc = "decide" /\ x.bot = worker[w].bot /\ x.msg = worker[w].msg
        /\ x.targets = worker[w].targets
    BY <1>1, <1>5 DEF Work, Typed, WorkState
  <2> HIDE DEF x
  <2>2. Deciding(w)' /\ Key(w)' = Key(w)
    BY <2>1 DEF Deciding, Key
  <2>3. ASSUME NEW b \in Polled, NEW m \in Messages, Key(w) = <<b, m>>
        PROVE  Taken(b, m)'
    <3>1. w \in Watchers
      <4>1. worker[w].bot = b
        BY <2>3 DEF Key
      <4> QED
        BY <1>1, <4>1, Apart DEF Fits
    <3> QED
      BY <2>2, <2>3, <3>1 DEF Taken
  <2>4. \A b \in Polled, m \in Messages, h \in LoadNumbers :
          <<b, m>> \in seen'[h] => <<b, m>> \in seen[h] \/ Taken(b, m)'
    <3> SUFFICES ASSUME NEW b \in Polled, NEW m \in Messages, NEW h \in LoadNumbers,
                        <<b, m>> \in seen'[h]
                 PROVE  <<b, m>> \in seen[h] \/ Taken(b, m)'
      OBVIOUS
    <3>1. <<b, m>> \in seen[h] \/ Key(w) = <<b, m>>
      BY <1>1, <1>5 DEF Typed
    <3> QED
      BY <2>3, <3>1
  <2>5. \A b \in Polled, m \in Messages :
          /\ w \in Watchers /\ worker[w].pc # "idle" /\ worker[w].msg = m /\ Due(b, m)
          /\ b \in worker[w].targets \/ (worker[w].pc = "handle" /\ worker[w].bot = b)
          => Taken(b, m)' \/ Waiting(b, m)'
    <3> SUFFICES ASSUME NEW b \in Polled, NEW m \in Messages, w \in Watchers, worker[w].msg = m,
                        b \in worker[w].targets \/ worker[w].bot = b
                 PROVE  Taken(b, m)' \/ Waiting(b, m)'
      OBVIOUS
    <3>1. CASE b \in worker[w].targets
      BY <2>1, <3>1 DEF Waiting
    <3>2. CASE worker[w].bot = b
      BY <2>3, <3>2 DEF Key
    <3> QED
      BY <3>1, <3>2
  <2>6. Work(w, x)
    BY <1>5 DEF x
  <2> QED
    BY <1>1, <1>2, <1>3, <2>4, <2>5, <2>6, MovesMention DEF Deciding
<1>6. CASE Done(w) /\ UNCHANGED seen
  BY <1>4, <1>6 DEF Done
<1>7. CASE ~(Done(w) /\ UNCHANGED seen)
  <2>1. PICK kept \in Kept(seen[g] \cup {Key(w)}) :
          /\ seen' = [seen EXCEPT ![g] = kept]
          /\ Work(w, [worker[w] EXCEPT !.pc = "decide"])
    BY <1>7 DEF Check
  <2>2. kept \in SUBSET (seen[g] \cup {Key(w)})
    BY DEF Kept
  <2> QED
    BY <1>5, <2>1, <2>2
<1> QED
  BY <1>6, <1>7

LEMMA DecideMention ==
  ASSUME Typed, WayInv, MentionInv, NEW w \in Workers, Decide(w)
  PROVE  MentionInv'
<1>1. /\ worker[w].pc = "decide" /\ worker[w] \in WorkState /\ Fits(w, worker[w]) /\ Done(w)
      /\ UNCHANGED <<gen, enabled, sent, switches, seen>> /\ answers \subseteq answers'
  BY DEF Decide, Typed, WorkOK, WayInv
<1>2. sent' \in [Ways -> [Messages -> Nat]]
  BY <1>1 DEF MentionInv
<1>3. \A b, m : Due(b, m)' => Due(b, m)
  BY <1>1 DEF Due
<1>4. ASSUME NEW b \in Polled, NEW m \in Messages, w \in Watchers, Key(w) = <<b, m>>
      PROVE  Taken(b, m)'
  <2> DEFINE a == [bot |-> worker[w].bot, msg |-> worker[w].msg, load |-> worker[w].load,
                   as |-> IF Allowed(worker[w].bot, worker[w].msg)
                            THEN Outcome(worker[w].bot, Text[worker[w].msg].words)
                            ELSE "denied"]
  <2>1. worker[w].source = "yzj_cli"
    BY <1>1, <1>4 DEF Fits
  <2>2. a \in answers' /\ a.bot = worker[w].bot /\ a.msg = worker[w].msg
    BY <2>1 DEF Decide
  <2> HIDE DEF a
  <2> QED
    BY <1>4, <2>2 DEF Taken, Key
<1>5. \A b \in Polled, m \in Messages :
        /\ w \in Watchers /\ worker[w].pc # "idle" /\ worker[w].msg = m /\ Due(b, m)
        /\ b \in worker[w].targets \/ (worker[w].pc = "handle" /\ worker[w].bot = b)
        => Taken(b, m)' \/ Waiting(b, m)'
  <2> SUFFICES ASSUME NEW b \in Polled, NEW m \in Messages, w \in Watchers,
                      worker[w].msg = m, b \in worker[w].targets
               PROVE  Waiting(b, m)'
    BY <1>1
  <2> QED
    BY <1>1, DoneWaiting
<1>6. PICK x : Work(w, x)
  BY <1>1 DEF Done
<1> QED
  BY <1>1, <1>2, <1>3, <1>4, <1>5, <1>6, MovesMention DEF Deciding

LEMMA ControlMention ==
  ASSUME Typed, MentionInv, Load \/ \E b \in Bots : Switch(b)
  PROVE  MentionInv'
<1>1. CASE Load
  <2>1. /\ UNCHANGED <<worker, seen, answers, enabled, switches, sent>>
        /\ gen \in Nat /\ gen' \in Nat /\ gen <= gen'
    BY <1>1 DEF Load, Typed, LoadNumbers
  <2> QED
    BY <2>1, SameMention DEF MentionInv
<1>2. ASSUME NEW t \in Bots, Switch(t) PROVE MentionInv'
  <2>1. /\ UNCHANGED <<worker, seen, answers, sent>> /\ switches' = switches + 1
    BY <1>2 DEF Switch
  <2>2. switches' \in Nat /\ switches' # 0
    BY <2>1 DEF MentionInv
  <2>3. \A b, m : Taken(b, m) => Taken(b, m)'
    BY <2>1 DEF Taken, Deciding, Key
  <2>4. \A b, m : ~Due(b, m)'
    BY <2>2 DEF Due
  <2> QED
    BY <2>1, <2>2, <2>3, <2>4 DEF MentionInv
<1> QED
  BY <1>1, <1>2

LEMMA NextMention ==
  LabelsAgree /\ Typed /\ WayInv /\ MentionInv /\ [Next]_vars => MentionInv'
<1> SUFFICES ASSUME LabelsAgree, Typed, WayInv, MentionInv, [Next]_vars PROVE MentionInv'
  OBVIOUS
<1>1. CASE UNCHANGED vars
  BY <1>1 DEF vars, MentionInv, Taken, Waiting, Due, Deciding, Key
<1> QED
  BY <1>1, OtherWaysMention, PollMention, NextTargetMention, CheckMention, DecideMention,
     ControlMention DEF Next, Handling, Watching

\* Where the channels of a group bear its name, a polled message is answered by every
\* channel of the group that it mentions, for every number of channels, messages and
\* copies of them, whichever target comes first and whatever the others make of it, as
\* long as nothing is switched and the channel stays in the configuration (onPollMessage).
THEOREM Mentions ==
  ASSUME LabelsAgree
  PROVE  Spec => []MentionsAreAnswered
<1>1. IInv => Typed
  BY DEF IInv
<1>2. Init => MentionInv
  BY InitMention
<1>3. Typed /\ WayInv /\ MentionInv /\ [Next]_vars => MentionInv'
  BY NextMention
<1>4. Typed /\ MentionInv => MentionsAreAnswered
  BY MentionsFollow
<1> QED
  BY <1>1, <1>2, <1>3, <1>4, IInvHolds, WayHolds, PTL DEF Spec
=============================================================================
