--------------------------- MODULE OpenAIChatProofs ---------------------------
(***************************************************************************)
(* Machine-checked proofs about OpenAIChat: the conversation stays in      *)
(* pairs because the run lock has one holder, the sessions of the GUI only *)
(* grow, and a request carries the whole window because the summary that   *)
(* was stored for a prefix stands for that prefix.                         *)
(***************************************************************************)
EXTENDS OpenAIChat, SequenceTheorems, FiniteSetTheorems, TLAPS

Inside == {"history", "summarize", "ask", "finalize", "user", "assistant", "release"}

Session == [exists : BOOLEAN, messages : Seq(Calls \X Role)]

Typed ==
  /\ DOMAIN run = Calls
  /\ \A c \in Calls : {"pc", "empty"} \subseteq DOMAIN run[c] /\ run[c].empty \in BOOLEAN
  /\ conv \in [Keys -> Seq(Turn)]
  /\ lock \in [Keys -> Calls \cup {NoCall}]
  /\ session \in [Gui -> Session]

\* Who is between Acquire and Release has the lock of his key.
Locked == \A c \in Calls : run[c].pc \in Inside => lock[KeyOf[c]] = c

\* The turns of a conversation are of calls of its key, and the one that is about to
\* append an answer has appended the last question.
Asked ==
  /\ \A k \in Keys : \A i \in DOMAIN conv[k] : KeyOf[conv[k][i].call] = k
  /\ \A c \in Calls : run[c].pc = "assistant" =>
       /\ Len(conv[KeyOf[c]]) % 2 = 1
       /\ conv[KeyOf[c]][Len(conv[KeyOf[c]])].call = c

IInv == Typed /\ Locked /\ Asked /\ TurnsPaired
-----------------------------------------------------------------------------
(* What a step does to the calls *)

\* Call c goes from a place in From to pc, and the others stay.
Goes(c, From, pc) ==
  /\ run[c].pc \in From /\ run'[c].pc = pc
  /\ \A d \in Calls \ {c} : run'[d].pc = run[d].pc

RunTyped ==
  /\ DOMAIN run = Calls
  /\ \A c \in Calls : {"pc", "empty"} \subseteq DOMAIN run[c] /\ run[c].empty \in BOOLEAN

LEMMA Facts ==
  /\ Gui \subseteq Keys /\ KeyOf \in [Calls -> Keys] /\ NoCall \notin Calls
BY OpenAIChatAssumption

LEMMA GoGoes ==
  ASSUME RunTyped, NEW c \in Calls, NEW From, NEW pc, run[c].pc \in From, Go(c, pc)
  PROVE  RunTyped' /\ Goes(c, From, pc)
BY DEF RunTyped, Go, Goes

LEMMA FinishGoes ==
  ASSUME RunTyped, NEW c \in Calls, run[c].pc = "reply", Finish(c)
  PROVE  RunTyped' /\ Goes(c, {"reply"}, "done")
BY DEF RunTyped, Finish, Goes, NoRun

\* Between the lock and the answer.
LEMMA QuietGoes ==
  ASSUME RunTyped, NEW c \in Calls,
         LoadHistory(c) \/ Summarize(c) \/ SummarizeFails(c) \/ Interrupted(c)
           \/ UseTools(c) \/ Answer(c) \/ AnswerEmpty(c) \/ RequestFails(c)
  PROVE  /\ RunTyped' /\ UNCHANGED <<conv, lock, session>>
         /\ \E pc \in Inside \ {"assistant"} : Goes(c, Inside \ {"assistant"}, pc)
<1> DEFINE In == Inside \ {"assistant"}
<1>0. {"history", "summarize", "ask", "finalize", "user", "release"} \subseteq In
  BY DEF Inside
<1> HIDE DEF In
<1>1. ASSUME LoadHistory(c) PROVE RunTyped' /\ \E pc \in In : Goes(c, In, pc)
  <2>1. run[c].pc = "history" /\ run'[c].pc \in {"ask", "summarize"}
    BY <1>1 DEF LoadHistory, RunTyped
  <2>2. RunTyped' /\ \A d \in Calls \ {c} : run'[d].pc = run[d].pc
    BY <1>1 DEF LoadHistory, RunTyped
  <2> QED
    BY <2>1, <2>2, <1>0 DEF Goes
<1>2. ASSUME Summarize(c) PROVE RunTyped' /\ \E pc \in In : Goes(c, In, pc)
  <2>1. run[c].pc = "summarize" /\ run'[c].pc = "ask"
    BY <1>2 DEF Summarize, RunTyped
  <2>2. RunTyped' /\ \A d \in Calls \ {c} : run'[d].pc = run[d].pc
    BY <1>2 DEF Summarize, RunTyped
  <2> QED
    BY <2>1, <2>2, <1>0 DEF Goes
<1>3. ASSUME UseTools(c) PROVE RunTyped' /\ \E pc \in In : Goes(c, In, pc)
  <2>1. run[c].pc = "ask" /\ run'[c].pc \in {"ask", "finalize"}
    BY <1>3 DEF UseTools, RunTyped
  <2>2. RunTyped' /\ \A d \in Calls \ {c} : run'[d].pc = run[d].pc
    BY <1>3 DEF UseTools, RunTyped
  <2> QED
    BY <2>1, <2>2, <1>0 DEF Goes
<1>4. ASSUME AnswerEmpty(c) PROVE RunTyped' /\ \E pc \in In : Goes(c, In, pc)
  <2>1. run[c].pc \in {"ask", "finalize"} /\ run'[c].pc = "user"
    BY <1>4 DEF AnswerEmpty, RunTyped
  <2>2. RunTyped' /\ \A d \in Calls \ {c} : run'[d].pc = run[d].pc
    BY <1>4 DEF AnswerEmpty, RunTyped
  <2> QED
    BY <2>1, <2>2, <1>0 DEF Goes
<1>5. ASSUME SummarizeFails(c) PROVE RunTyped' /\ Goes(c, In, "ask")
  BY <1>5, <1>0, GoGoes DEF SummarizeFails
<1>6. ASSUME Interrupted(c) \/ RequestFails(c) PROVE RunTyped' /\ Goes(c, In, "release")
  BY <1>6, <1>0, GoGoes DEF Interrupted, RequestFails
<1>7. ASSUME Answer(c) PROVE RunTyped' /\ Goes(c, In, "user")
  BY <1>7, <1>0, GoGoes DEF Answer
<1>8. UNCHANGED <<conv, lock, session>>
  BY DEF LoadHistory, Summarize, SummarizeFails, Interrupted, UseTools, Answer, AnswerEmpty,
         RequestFails, InRun
<1> QED
  BY <1>0, <1>1, <1>2, <1>3, <1>4, <1>5, <1>6, <1>7, <1>8 DEF In
-----------------------------------------------------------------------------
(* Who holds the lock *)

\* Two calls of one key are not both inside.
LEMMA OneInside ==
  ASSUME Locked, NEW c \in Calls, NEW d \in Calls, run[c].pc \in Inside, run[d].pc \in Inside,
         KeyOf[c] = KeyOf[d]
  PROVE  c = d
BY DEF Locked

LEMMA SameLocked ==
  ASSUME Locked, lock' = lock, \A d \in Calls : run'[d].pc \in Inside => run[d].pc \in Inside
  PROVE  Locked'
BY DEF Locked

\* A step that neither appends nor begins or ends the wait for the answer.
LEMMA SameAsked ==
  ASSUME Typed, Asked, TurnsPaired, conv' = conv,
         \A d \in Calls : run'[d].pc = "assistant" <=> run[d].pc = "assistant"
  PROVE  Asked' /\ TurnsPaired'
<1>1. Asked'
  BY DEF Asked
<1>2. \A k \in Keys : \A i \in DOMAIN conv[k] : conv[k][i].call \in Calls
  <2> SUFFICES ASSUME NEW k \in Keys, NEW i \in DOMAIN conv[k] PROVE conv[k][i].call \in Calls
    OBVIOUS
  <2>1. conv[k] \in Seq(Turn)
    BY DEF Typed
  <2>2. conv[k][i] \in Turn
    BY <2>1
  <2> QED
    BY <2>2 DEF Turn
<1>3. TurnsPaired'
  BY <1>2 DEF TurnsPaired
<1> QED
  BY <1>1, <1>3

\* A call that moves outside of the two places.
LEMMA OtherMove ==
  ASSUME IInv, RunTyped', UNCHANGED <<conv, lock>>, session' \in [Gui -> Session],
         NEW c \in Calls, NEW From, NEW pc, Goes(c, From, pc), "assistant" \notin From,
         pc # "assistant", pc \in Inside => From \subseteq Inside
  PROVE  IInv'
<1>1. Typed'
  BY DEF IInv, Typed, RunTyped
<1>2. Locked'
  BY SameLocked DEF IInv, Goes
<1>3. Asked' /\ TurnsPaired'
  BY SameAsked DEF IInv, Goes
<1> QED
  BY <1>1, <1>2, <1>3 DEF IInv
-----------------------------------------------------------------------------
(* The sessions of the GUI *)

Grown(old, new) ==
  /\ ~old.exists => ~new.exists
  /\ new.exists => IsPrefix(old.messages, new.messages)

LEMMA IsPrefixOfConcat ==
  ASSUME NEW S, NEW s \in Seq(S), NEW t \in Seq(S)
  PROVE  IsPrefix(s, s \o t) /\ IsPrefix(s, s)
BY DEF IsPrefix

LEMMA SameGrown ==
  ASSUME NEW x \in Session
  PROVE  Grown(x, x)
BY IsPrefixOfConcat DEF Grown, Session

LEMMA ReplyKeeps ==
  ASSUME Typed, NEW c \in Calls, Reply(c)
  PROVE  session' \in [Gui -> Session] /\ \A l \in Gui : Grown(session[l], session'[l])
<1> DEFINE k == KeyOf[c]
           pair == <<<<c, "user">>, <<c, "assistant">>>>
<1>1. pair \in Seq(Calls \X Role)
  BY DEF Role
<1> HIDE DEF pair
<1>2. session \in [Gui -> Session]
  BY DEF Typed
<1>3. \A l \in Gui : Grown(session[l], session[l])
  BY <1>2, SameGrown
<1>4. CASE ~(k \in Gui /\ session[k].exists)
  BY <1>2, <1>3, <1>4 DEF Reply
<1>5. CASE k \in Gui /\ session[k].exists
  <2> DEFINE new == [session[k] EXCEPT !.messages = session[k].messages \o pair]
  <2>1. session' = [session EXCEPT ![k] = new]
    BY <1>5 DEF Reply, pair
  <2>2. session[k] \in Session /\ session[k].messages \in Seq(Calls \X Role)
    BY <1>2, <1>5 DEF Session
  <2>3. session[k].messages \o pair \in Seq(Calls \X Role)
        /\ IsPrefix(session[k].messages, session[k].messages \o pair)
    BY <1>1, <2>2, IsPrefixOfConcat
  <2>4. new \in Session /\ Grown(session[k], new)
    BY <1>5, <2>2, <2>3 DEF Session, Grown
  <2> HIDE DEF new
  <2> QED
    BY <1>2, <1>3, <1>5, <2>1, <2>4
<1> QED
  BY <1>4, <1>5
-----------------------------------------------------------------------------
(* Appending *)

LEMMA AppendAt ==
  ASSUME NEW S, NEW s \in Seq(S), NEW e \in S
  PROVE  /\ Append(s, e) \in Seq(S) /\ Len(Append(s, e)) = Len(s) + 1
         /\ Append(s, e)[Len(s) + 1] = e /\ Len(s) \in Nat
         /\ \A i \in 1 .. Len(s) : Append(s, e)[i] = s[i]
         /\ DOMAIN s = 1 .. Len(s) /\ DOMAIN Append(s, e) = 1 .. Len(s) + 1
OBVIOUS

LEMMA Append2At ==
  ASSUME Typed, NEW c \in Calls, NEW role \in Role, NEW empty \in BOOLEAN, Append2(c, role, empty)
  PROVE  LET k == KeyOf[c] IN
         /\ conv' \in [Keys -> Seq(Turn)] /\ k \in Keys
         /\ \A l \in Keys \ {k} : conv'[l] = conv[l]
         /\ Len(conv[k]) \in Nat /\ Len(conv'[k]) = Len(conv[k]) + 1
         /\ DOMAIN conv[k] = 1 .. Len(conv[k]) /\ DOMAIN conv'[k] = 1 .. Len(conv[k]) + 1
         /\ \A i \in 1 .. Len(conv[k]) : conv'[k][i] = conv[k][i]
         /\ conv'[k][Len(conv[k]) + 1].call = c /\ conv'[k][Len(conv[k]) + 1].role = role
<1> DEFINE k == KeyOf[c]
           e == [call |-> c, role |-> role, empty |-> empty]
<1>1. k \in Keys
  BY Facts
<1>2. e \in Turn /\ e.call = c /\ e.role = role
  BY DEF Turn
<1>3. conv[k] \in Seq(Turn) /\ conv' = [conv EXCEPT ![k] = Append(conv[k], e)] /\ DOMAIN conv = Keys
  BY <1>1 DEF Typed, Append2
<1> HIDE DEF e
<1>4. conv'[k] = Append(conv[k], e) /\ \A l \in Keys \ {k} : conv'[l] = conv[l]
  BY <1>1, <1>3
<1>5. Append(conv[k], e) \in Seq(Turn)
  BY <1>2, <1>3
<1>6. conv' \in [Keys -> Seq(Turn)]
  BY <1>3, <1>5 DEF Typed
<1> QED
  BY <1>1, <1>2, <1>3, <1>4, <1>6, AppendAt

LEMMA Odd ==
  ASSUME NEW n \in Nat
  PROVE  (n % 2 = 1 <=> (n + 1) % 2 # 1) /\ (n % 2 = 1 => n \in 1 .. n)
OBVIOUS

\* The turns there are stay in pairs when one is appended that fits.
LEMMA AppendPaired ==
  ASSUME IInv, RunTyped', UNCHANGED <<lock, session>>, NEW c \in Calls, NEW role \in Role,
         NEW empty \in BOOLEAN, Append2(c, role, empty), NEW From, NEW pc, Goes(c, From, pc),
         From \subseteq Inside, pc \in Inside,
         \/ role = "user" /\ pc = "assistant" /\ From = {"user"}
         \/ role = "assistant" /\ pc = "release" /\ From = {"assistant"}
  PROVE  IInv'
<1> DEFINE k == KeyOf[c]
           n == Len(conv[k])
<1>1. /\ conv' \in [Keys -> Seq(Turn)] /\ k \in Keys /\ n \in Nat /\ Len(conv'[k]) = n + 1
      /\ \A l \in Keys \ {k} : conv'[l] = conv[l]
      /\ DOMAIN conv[k] = 1 .. n /\ DOMAIN conv'[k] = 1 .. n + 1
      /\ \A i \in 1 .. n : conv'[k][i] = conv[k][i]
      /\ conv'[k][n + 1].call = c /\ conv'[k][n + 1].role = role
  BY Append2At DEF IInv
<1>2. Typed'
  BY <1>1 DEF IInv, Typed, RunTyped
<1>3. Locked'
  BY SameLocked DEF IInv, Goes
<1>4. \A d \in Calls \ {c} : KeyOf[d] = k => run[d].pc \notin Inside /\ run'[d].pc \notin Inside
  BY OneInside DEF IInv, Goes
<1>5. "assistant" \in Inside
  BY DEF Inside
<1>6. \A l \in Keys : \A i \in DOMAIN conv[l] : conv[l][i].call \in Calls
  <2> SUFFICES ASSUME NEW l \in Keys, NEW i \in DOMAIN conv[l] PROVE conv[l][i].call \in Calls
    OBVIOUS
  <2>1. conv[l] \in Seq(Turn)
    BY DEF IInv, Typed
  <2>2. conv[l][i] \in Turn
    BY <2>1
  <2> QED
    BY <2>2 DEF Turn
<1>7. \A i \in 1 .. n : KeyOf[conv[k][i].call] = k
  BY <1>1 DEF IInv, Asked
\* A question is asked after an answer, an answer after its own question.
<1>8. /\ role = "user" => n % 2 # 1
      /\ role = "assistant" => n % 2 = 1 /\ conv[k][n].call = c
  <2>1. CASE role = "user"
    <3>1. SUFFICES ASSUME n % 2 = 1 PROVE FALSE
      BY <2>1
    <3>2. n \in DOMAIN conv[k]
      BY <3>1, <1>1, Odd
    <3>3. run[conv[k][n].call].pc = "assistant"
      BY <3>1, <3>2, <1>1 DEF IInv, TurnsPaired
    <3>4. conv[k][n].call \in Calls /\ KeyOf[conv[k][n].call] = k
      BY <3>2, <1>1, <1>6, <1>7
    <3>5. run[c].pc = "user"
      BY <2>1 DEF Goes
    <3> QED
      BY <3>3, <3>4, <3>5, <1>4, <1>5
  <2>2. CASE role = "assistant"
    BY <2>2 DEF IInv, Asked, Goes
  <2> QED
    BY <2>1, <2>2
<1>9. Asked'
  <2>1. ASSUME NEW l \in Keys, NEW i \in DOMAIN conv'[l] PROVE KeyOf[conv'[l][i].call] = l
    <3>1. CASE l # k
      BY <3>1, <2>1, <1>1 DEF IInv, Asked
    <3>2. CASE l = k
      BY <3>2, <2>1, <1>1, <1>7
    <3> QED
      BY <3>1, <3>2
  <2>2. ASSUME NEW d \in Calls, run'[d].pc = "assistant"
        PROVE  Len(conv'[KeyOf[d]]) % 2 = 1 /\ conv'[KeyOf[d]][Len(conv'[KeyOf[d]])].call = d
    <3>1. CASE d = c
      <4>1. role = "user"
        BY <3>1, <2>2 DEF Goes
      <4> QED
        BY <4>1, <3>1, <1>1, <1>8, Odd
    <3>2. CASE d # c
      <4>1. KeyOf[d] # k /\ KeyOf[d] \in Keys
        BY <3>2, <2>2, <1>4, <1>5, Facts
      <4>2. run[d].pc = "assistant"
        BY <3>2, <2>2 DEF Goes
      <4>3. conv'[KeyOf[d]] = conv[KeyOf[d]]
        BY <4>1, <1>1
      <4> QED
        BY <4>2, <4>3 DEF IInv, Asked
    <3> QED
      BY <3>1, <3>2
  <2> QED
    BY <2>1, <2>2 DEF Asked
<1>10. ASSUME NEW l \in Keys, NEW i \in DOMAIN conv'[l]
       PROVE  IF i % 2 = 1
                THEN conv'[l][i].role = "user"
                     /\ (i = Len(conv'[l]) => run'[conv'[l][i].call].pc = "assistant")
                ELSE conv'[l][i].role = "assistant" /\ conv'[l][i].call = conv'[l][i - 1].call
  <2>1. CASE l # k
    <3>1. conv'[l] = conv[l] /\ conv[l][i].call \in Calls /\ KeyOf[conv[l][i].call] = l
      BY <2>1, <1>10, <1>1, <1>6 DEF IInv, Asked
    <3>2. run'[conv[l][i].call].pc = run[conv[l][i].call].pc
      BY <3>1, <2>1 DEF Goes
    <3> QED
      BY <3>1, <3>2, <1>10 DEF IInv, TurnsPaired
  <2>2. CASE l = k /\ i # n + 1
    <3>1. i \in 1 .. n /\ i # Len(conv'[k]) /\ (i # 1 => i - 1 \in 1 .. n)
      BY <2>2, <1>10, <1>1
    <3>2. i % 2 # 1 => i # 1
      OBVIOUS
    <3>3. IF i % 2 = 1 THEN conv[k][i].role = "user"
                       ELSE conv[k][i].role = "assistant" /\ conv[k][i].call = conv[k][i - 1].call
      BY <3>1, <1>1 DEF IInv, TurnsPaired
    <3>4. conv'[k][i] = conv[k][i] /\ (i # 1 => conv'[k][i - 1] = conv[k][i - 1])
      BY <3>1, <1>1
    <3> QED
      BY <3>1, <3>2, <3>3, <3>4, <2>2
  <2>3. CASE l = k /\ i = n + 1
    <3>1. CASE role = "user"
      <4>1. i % 2 = 1 /\ run'[c].pc = "assistant"
        BY <3>1, <2>3, <1>1, <1>8, Odd DEF Goes
      <4> QED
        BY <4>1, <3>1, <2>3, <1>1
    <3>2. CASE role = "assistant"
      <4>1. n % 2 = 1
        BY <3>2, <1>8
      <4>2. (n + 1) % 2 # 1 /\ n \in 1 .. n
        BY <4>1, <1>1, Odd
      <4>3. n + 1 - 1 = n
        BY <1>1
      <4>4. conv'[k][n].call = c
        BY <4>2, <3>2, <1>1, <1>8
      <4> QED
        BY <4>2, <4>3, <4>4, <3>2, <2>3, <1>1
    <3> QED
      BY <3>1, <3>2
  <2> QED
    BY <2>1, <2>2, <2>3
<1> QED
  BY <1>2, <1>3, <1>9, <1>10 DEF IInv, TurnsPaired
-----------------------------------------------------------------------------
(* Every step *)

LEMMA InitIInv == Init => IInv
<1> SUFFICES ASSUME Init PROVE IInv
  OBVIOUS
<1>0. NoRun.pc = "idle" /\ {"pc", "empty"} \subseteq DOMAIN NoRun /\ NoRun.empty = FALSE
  BY DEF NoRun
<1>1. Typed
  <2>1. RunTyped
    BY <1>0 DEF Init, RunTyped
  <2>2. conv \in [Keys -> Seq(Turn)] /\ lock \in [Keys -> Calls \cup {NoCall}]
    BY DEF Init
  <2>3. [exists |-> TRUE, messages |-> <<>>] \in Session
    BY DEF Session
  <2>4. session \in [Gui -> Session]
    BY <2>3 DEF Init
  <2> QED
    BY <2>1, <2>2, <2>4 DEF Typed, RunTyped
<1>2. Locked /\ Asked /\ TurnsPaired
  <2>1. \A c \in Calls : run[c].pc = "idle"
    BY <1>0 DEF Init
  <2>2. \A k \in Keys : DOMAIN conv[k] = {}
    BY DEF Init
  <2> QED
    BY <2>1, <2>2 DEF Locked, Asked, TurnsPaired, Inside
<1> QED
  BY <1>1, <1>2 DEF IInv

\* What the control API does.
LEMMA GuiSteps ==
  ASSUME IInv, NEW c \in Calls, Send(c) \/ Reply(c)
  PROVE  IInv'
<1>0. RunTyped
  BY DEF IInv, Typed, RunTyped
<1>1. CASE Send(c)
  <2>1. run[c].pc = "idle" /\ run'[c].pc \in {"wait", "done"} /\ RunTyped'
        /\ \A d \in Calls \ {c} : run'[d].pc = run[d].pc
    BY <1>0, <1>1 DEF Send, Go, RunTyped
  <2>2. UNCHANGED <<conv, lock>> /\ session' \in [Gui -> Session]
    BY <1>1 DEF Send, IInv, Typed
  <2>3. Goes(c, {"idle"}, run'[c].pc)
    BY <2>1 DEF Goes
  <2>4. run'[c].pc # "assistant" /\ run'[c].pc \notin Inside
    BY <2>1 DEF Inside
  <2> QED
    BY <2>1, <2>2, <2>3, <2>4, OtherMove
<1>2. CASE Reply(c)
  <2>1. RunTyped' /\ Goes(c, {"reply"}, "done")
    BY <1>0, <1>2, FinishGoes DEF Reply
  <2>2. UNCHANGED <<conv, lock>> /\ session' \in [Gui -> Session]
    BY <1>2, ReplyKeeps DEF Reply, IInv
  <2> QED
    BY <2>1, <2>2, OtherMove DEF Inside
<1> QED
  BY <1>1, <1>2

LEMMA LockSteps ==
  ASSUME IInv, NEW c \in Calls, Acquire(c) \/ AbandonWait(c) \/ Release(c)
  PROVE  IInv'
<1> DEFINE k == KeyOf[c]
<1>0. RunTyped /\ k \in Keys /\ lock \in [Keys -> Calls \cup {NoCall}]
  BY Facts DEF IInv, Typed, RunTyped
<1>1. CASE AbandonWait(c)
  <2>1. RunTyped' /\ Goes(c, {"wait"}, "reply")
    BY <1>0, <1>1, GoGoes DEF AbandonWait
  <2>2. UNCHANGED <<conv, lock>> /\ session' \in [Gui -> Session]
    BY <1>1 DEF AbandonWait, IInv, Typed
  <2> QED
    BY <2>1, <2>2, OtherMove DEF Inside
<1>2. CASE Acquire(c) \/ Release(c)
  <2>1. RunTyped' /\ (Goes(c, {"wait"}, "history") \/ Goes(c, {"release"}, "reply"))
    BY <1>0, <1>2, GoGoes DEF Acquire, Release
  <2>2. UNCHANGED <<conv, session>>
    BY <1>2 DEF Acquire, Release
  <2>3. lock' \in [Keys -> Calls \cup {NoCall}] /\ \A l \in Keys \ {k} : lock'[l] = lock[l]
    BY <1>0, <1>2 DEF Acquire, Release
  <2>4. Typed'
    BY <2>1, <2>2, <2>3 DEF IInv, Typed, RunTyped
  <2>5. Asked' /\ TurnsPaired'
    BY <2>1, <2>2, SameAsked DEF IInv, Goes
  <2>6. \A d \in Calls : KeyOf[d] = k /\ run[d].pc \in Inside => lock[k] = d
    BY DEF IInv, Locked
  <2>7. \A d \in Calls \ {c} : KeyOf[d] = k => run[d].pc \notin Inside
    <3>1. CASE Acquire(c)
      BY <3>1, <2>6, Facts DEF Acquire
    <3>2. CASE Release(c)
      <4>1. run[c].pc \in Inside
        BY <3>2 DEF Release, Inside
      <4> QED
        BY <4>1, <2>6
    <3> QED
      BY <3>1, <3>2, <1>2
  <2>8. run'[c].pc \in Inside => lock'[k] = c
    <3>1. CASE Acquire(c)
      BY <3>1, <1>0 DEF Acquire
    <3>2. CASE Release(c)
      <4>1. Goes(c, {"release"}, "reply")
        BY <3>2, <1>0, GoGoes DEF Release
      <4> QED
        BY <4>1 DEF Goes, Inside
    <3> QED
      BY <3>1, <3>2, <1>2
  <2>9. Locked'
    <3> SUFFICES ASSUME NEW d \in Calls, run'[d].pc \in Inside PROVE lock'[KeyOf[d]] = d
      BY DEF Locked
    <3>1. CASE d = c
      BY <3>1, <2>8
    <3>2. CASE d # c
      <4>1. run[d].pc \in Inside
        BY <3>2, <2>1 DEF Goes
      <4>2. KeyOf[d] # k /\ KeyOf[d] \in Keys /\ lock[KeyOf[d]] = d
        BY <4>1, <3>2, <2>7, Facts DEF IInv, Locked
      <4> QED
        BY <4>2, <2>3
    <3> QED
      BY <3>1, <3>2
  <2> QED
    BY <2>4, <2>5, <2>9 DEF IInv
<1> QED
  BY <1>1, <1>2

LEMMA AppendSteps ==
  ASSUME IInv, NEW c \in Calls, AppendUser(c) \/ AppendAssistant(c)
  PROVE  IInv'
<1>0. RunTyped /\ run[c].empty \in BOOLEAN
  BY DEF IInv, Typed, RunTyped
<1>1. {"user", "assistant", "release"} \subseteq Inside
  BY DEF Inside
<1>2. CASE AppendUser(c)
  <2>1. RunTyped' /\ Goes(c, {"user"}, "assistant")
    BY <1>0, <1>2, GoGoes DEF AppendUser
  <2>2. Append2(c, "user", FALSE) /\ UNCHANGED <<lock, session>> /\ "user" \in Role
    BY <1>2 DEF AppendUser, Role
  <2>3. {"user"} \subseteq Inside /\ "assistant" \in Inside /\ FALSE \in BOOLEAN
    BY <1>1
  <2> QED
    BY <2>1, <2>2, <2>3, AppendPaired
<1>3. CASE AppendAssistant(c)
  <2>1. RunTyped' /\ Goes(c, {"assistant"}, "release")
    BY <1>0, <1>3, GoGoes DEF AppendAssistant
  <2>2. Append2(c, "assistant", run[c].empty) /\ UNCHANGED <<lock, session>>
        /\ "assistant" \in Role
    BY <1>3 DEF AppendAssistant, Role
  <2>3. {"assistant"} \subseteq Inside /\ "release" \in Inside
    BY <1>1
  <2> QED
    BY <2>1, <2>2, <2>3, <1>0, AppendPaired
<1> QED
  BY <1>2, <1>3

LEMMA NextIInv == IInv /\ [Next]_vars => IInv'
<1> SUFFICES ASSUME IInv, [Next]_vars PROVE IInv'
  OBVIOUS
<1>0. RunTyped
  BY DEF IInv, Typed, RunTyped
<1>1. ASSUME NEW c \in Calls, Send(c) \/ Reply(c) PROVE IInv'
  BY <1>1, GuiSteps
<1>2. ASSUME NEW c \in Calls, Acquire(c) \/ AbandonWait(c) \/ Release(c) PROVE IInv'
  BY <1>2, LockSteps
<1>3. ASSUME NEW c \in Calls,
             LoadHistory(c) \/ Summarize(c) \/ SummarizeFails(c) \/ Interrupted(c)
               \/ UseTools(c) \/ Answer(c) \/ AnswerEmpty(c) \/ RequestFails(c)
      PROVE  IInv'
  <2>1. /\ RunTyped' /\ UNCHANGED <<conv, lock, session>>
        /\ \E pc \in Inside \ {"assistant"} : Goes(c, Inside \ {"assistant"}, pc)
    BY <1>0, <1>3, QuietGoes
  <2>2. session' \in [Gui -> Session]
    BY <2>1 DEF IInv, Typed
  <2> QED
    BY <2>1, <2>2, OtherMove
<1>4. ASSUME NEW c \in Calls, AppendUser(c) \/ AppendAssistant(c) PROVE IInv'
  BY <1>4, AppendSteps
<1>5. ASSUME UNCHANGED <<run, conv, lock>>, session' \in [Gui -> Session] PROVE IInv'
  <2>1. Typed'
    BY <1>5 DEF IInv, Typed
  <2>2. Locked'
    BY <1>5 DEF IInv, Locked
  <2>3. Asked' /\ TurnsPaired'
    BY <1>5, SameAsked DEF IInv
  <2> QED
    BY <2>1, <2>2, <2>3 DEF IInv
<1>6. ASSUME NEW c \in Calls, Cancel(c) PROVE IInv'
  BY <1>5, <1>6 DEF Cancel, IInv, Typed
<1>7. ASSUME NEW k \in Gui, DeleteSession(k) PROVE IInv'
  <2>1. session' \in [Gui -> Session]
    BY <1>7 DEF DeleteSession, IInv, Typed, Session
  <2> QED
    BY <1>5, <1>7, <2>1 DEF DeleteSession
<1>8. ASSUME TwoDaysPass \/ UNCHANGED vars PROVE IInv'
  BY <1>5, <1>8 DEF TwoDaysPass, vars, IInv, Typed
<1> QED
  BY <1>1, <1>2, <1>3, <1>4, <1>6, <1>7, <1>8 DEF Next, RunStep

LEMMA IInvHolds == Spec => []IInv
BY InitIInv, NextIInv, PTL DEF Spec

\* In the conversation of a key each question is followed by its answer, for every number
\* of calls, keys and rounds, however calls wait, are cut off and fail (dispatch,
\* AppendConversation).
THEOREM Paired == Spec => []TurnsPaired
<1>1. IInv => TurnsPaired
  BY DEF IInv
<1> QED
  BY <1>1, IInvHolds, PTL

\* A session of the GUI only grows, and one that was deleted does not come back, for
\* every number of runs that hold a copy of it (chatSendMessage).
THEOREM OnlyGrow == Spec => SessionsOnlyGrow
<1>1. Typed /\ [Next]_vars =>
        [\A k \in Gui : /\ ~session[k].exists => ~session'[k].exists
                        /\ session'[k].exists => IsPrefix(session[k].messages, session'[k].messages)
        ]_session
  <2>0. SUFFICES ASSUME Typed, [Next]_vars
                 PROVE  UNCHANGED session \/ \A k \in Gui : Grown(session[k], session'[k])
    BY DEF Grown
  <2>1. ASSUME NEW c \in Calls, Reply(c)
        PROVE  \A k \in Gui : Grown(session[k], session'[k])
    BY <2>0, <2>1, ReplyKeeps
  <2>2. ASSUME NEW l \in Gui, DeleteSession(l)
        PROVE  \A k \in Gui : Grown(session[k], session'[k])
    <3> SUFFICES ASSUME NEW k \in Gui PROVE Grown(session[k], session'[k])
      OBVIOUS
    <3>1. session[k] \in Session
      BY <2>0 DEF Typed
    <3>2. CASE k = l
      BY <3>1, <3>2, <2>2, <2>0 DEF DeleteSession, Grown, Typed, Session
    <3>3. CASE k # l
      BY <3>1, <3>3, <2>2, <2>0, SameGrown DEF DeleteSession, Typed
    <3> QED
      BY <3>2, <3>3
  <2>3. ASSUME NEW c \in Calls, Send(c) \/ Cancel(c) PROVE UNCHANGED session
    BY <2>3 DEF Send, Cancel
  <2>4. ASSUME NEW c \in Calls, RunStep(c), ~Reply(c) PROVE UNCHANGED session
    BY <2>4 DEF RunStep, Acquire, AbandonWait, LoadHistory, Summarize, SummarizeFails, Interrupted,
                UseTools, Answer, AnswerEmpty, RequestFails, AppendUser, AppendAssistant, Release, InRun
  <2>5. ASSUME TwoDaysPass \/ UNCHANGED vars PROVE UNCHANGED session
    BY <2>5 DEF TwoDaysPass, vars
  <2> QED
    BY <2>0, <2>1, <2>2, <2>3, <2>4, <2>5 DEF Next
<1>2. IInv => Typed
  BY DEF IInv
<1> QED
  BY <1>1, <1>2, IInvHolds, PTL DEF Spec, SessionsOnlyGrow

-----------------------------------------------------------------------------
(* The summary stands for the beginning of the history *)

Sequence(s) == s \in Seq({s[i] : i \in DOMAIN s})

RunFields == {"pc", "hist", "summary", "recent", "rounds", "empty", "sess"}

\* What was summarized is what the hash is of, so the text that was stored for a prefix is
\* that prefix, whichever summaries it was made from.
StoredIsPrefix ==
  \A k \in Keys : LET stored == compact[k] IN
    stored.text = stored.hash /\ stored.count = Len(stored.hash) /\ Sequence(stored.hash)

\* Before the summary a call has the recent turns only.
Splitting ==
  \A c \in Calls : run[c].pc = "summarize" =>
    LET hist == run[c].hist IN
    /\ Sequence(hist) /\ run[c].summary = <<>>
    /\ run[c].recent = SubSeq(hist, Len(Prefix(hist)) + 1, Len(hist))

SummaryInv ==
  /\ DOMAIN run = Calls /\ DOMAIN compact = Keys /\ first \in [Keys -> Nat]
  /\ \A c \in Calls : DOMAIN run[c] = RunFields
  /\ StoredIsPrefix /\ Splitting /\ SummaryFits

LEMMA SeqIsSequence == ASSUME NEW S, NEW s \in Seq(S) PROVE Sequence(s)
<1>1. s \in [1 .. Len(s) -> S] /\ Len(s) \in Nat /\ DOMAIN s = 1 .. Len(s)
  BY LenProperties
<1>2. s \in [1 .. Len(s) -> {s[i] : i \in DOMAIN s}]
  BY <1>1
<1> QED
  BY <1>1, <1>2, SeqDef DEF Sequence

\* The turns that were kept are a sequence.
LEMMA SaidIsSequence ==
  ASSUME NEW S, NEW turns \in Seq(S)
  PROVE  Sequence(Said(turns))
<1> DEFINE kept == {i \in DOMAIN turns : ~turns[i].empty}
           at(n) == turns[CHOOSE i \in kept : Cardinality({j \in kept : j <= i}) = n]
           n == Cardinality(kept)
           T == {at(i) : i \in 1 .. n}
<1>1. Len(turns) \in Nat /\ DOMAIN turns = 1 .. Len(turns)
  BY LenProperties
<1>2. IsFiniteSet(1 .. Len(turns))
  BY <1>1, FS_Interval
<1>3. n \in Nat
  BY <1>1, <1>2, FS_Subset, FS_CardinalityType
<1>4. Said(turns) = [i \in 1 .. n |-> at(i)]
  BY DEF Said
<1> HIDE DEF n, at
<1>5. [i \in 1 .. n |-> at(i)] \in [1 .. n -> T]
  OBVIOUS
<1>6. Said(turns) \in Seq(T)
  BY <1>3, <1>4, <1>5, SeqDef
<1> HIDE DEF T
<1> QED
  BY <1>6, SeqIsSequence

LEMMA HistoryIsSequence ==
  ASSUME Typed, first \in [Keys -> Nat], NEW k \in Keys
  PROVE  Sequence(History(k))
<1> DEFINE turns == SubSeq(conv[k], first[k] + 1, Len(conv[k]))
           said == Said(turns)
<1>1. conv[k] \in Seq(Turn) /\ first[k] \in Nat
  BY DEF Typed
<1>2. turns \in Seq(Turn)
  <2>1. \A i \in first[k] + 1 .. Len(conv[k]) : conv[k][i] \in Turn
    BY <1>1
  <2> QED
    BY <1>1, <2>1, SubSeqProperties
<1>3. Sequence(said)
  BY <1>2, SaidIsSequence
<1> HIDE DEF said
<1>4. CASE Len(said) > Window
  <2> DEFINE S == {said[i] : i \in DOMAIN said}
  <2>1. said \in Seq(S) /\ Len(said) \in Nat
    BY <1>3 DEF Sequence
  <2>2. SubSeq(said, Len(said) - Window + 1, Len(said)) \in Seq(S)
    BY <1>4, <2>1, OpenAIChatAssumption
  <2> HIDE DEF S
  <2> QED
    BY <1>4, <2>2, SeqIsSequence DEF History, Latest, said
<1>5. CASE ~(Len(said) > Window)
  BY <1>3, <1>5 DEF History, Latest, said
<1> QED
  BY <1>4, <1>5

\* The prefix and the rest are the whole history.
LEMMA PrefixAndRest ==
  ASSUME NEW hist, Sequence(hist)
  PROVE  /\ Sequence(Prefix(hist))
         /\ Prefix(hist) \o SubSeq(hist, Len(Prefix(hist)) + 1, Len(hist)) = hist
<1> DEFINE S == {hist[i] : i \in DOMAIN hist}
<1>1. hist \in Seq(S) /\ Len(hist) \in Nat
  BY DEF Sequence
<1> HIDE DEF S
<1>2. CASE ~Splits(hist)
  <2>1. Prefix(hist) = <<>>
    BY <1>2 DEF Prefix
  <2>2. SubSeq(hist, 1, Len(hist)) = hist
    BY <1>1, SubSeqFull
  <2>3. Len(<<>>) = 0 /\ <<>> \o hist = hist
    BY <1>1, ConcatEmptySeq, EmptySeq
  <2>4. Sequence(<<>>)
    BY EmptySeq, SeqIsSequence
  <2>5. Len(Prefix(hist)) + 1 = 1
    BY <2>1, <2>3
  <2> QED
    BY <2>1, <2>2, <2>3, <2>4, <2>5
<1>3. CASE Splits(hist)
  <2> DEFINE n == Len(hist) - Keep
  <2>1. Prefix(hist) = SubSeq(hist, 1, n) /\ n \in 1 .. Len(hist)
    BY <1>1, <1>3, OpenAIChatAssumption DEF Prefix, Splits
  <2>2. SubSeq(hist, 1, n) \in Seq(S) /\ Len(SubSeq(hist, 1, n)) = n
    BY <1>1, <2>1
  <2>3. SubSeq(hist, 1, n) \o SubSeq(hist, n + 1, Len(hist)) = SubSeq(hist, 1, Len(hist))
    <3>1. 1 \in 1 .. Len(hist) + 1 /\ n \in 1 - 1 .. Len(hist) /\ Len(hist) \in n .. Len(hist)
      BY <1>1, <2>1
    <3> HIDE DEF n
    <3> QED
      BY <1>1, <3>1, ConcatAdjacentSubSeq
  <2>4. SubSeq(hist, 1, Len(hist)) = hist
    BY <1>1, SubSeqFull
  <2> HIDE DEF n
  <2> QED
    BY <2>1, <2>2, <2>3, <2>4, SeqIsSequence
<1> QED
  BY <1>2, <1>3

\* A summary that is extended by the turns since is one of the whole prefix.
LEMMA ExtendedIsPrefix ==
  ASSUME NEW prefix, Sequence(prefix), NEW stored, stored.text = stored.hash,
         stored.count \in Nat, Extends(stored, prefix)
  PROVE  stored.text \o SubSeq(prefix, stored.count + 1, Len(prefix)) = prefix
<1> DEFINE S == {prefix[i] : i \in DOMAIN prefix}
           n == stored.count
<1>1. prefix \in Seq(S) /\ Len(prefix) \in Nat
  BY DEF Sequence
<1> HIDE DEF S
<1>2. n \in 1 .. Len(prefix) /\ stored.text = SubSeq(prefix, 1, n)
  BY <1>1 DEF Extends
<1>3. SubSeq(prefix, 1, n) \o SubSeq(prefix, n + 1, Len(prefix)) = SubSeq(prefix, 1, Len(prefix))
  <2>1. 1 \in 1 .. Len(prefix) + 1 /\ n \in 1 - 1 .. Len(prefix) /\ Len(prefix) \in n .. Len(prefix)
    BY <1>1, <1>2
  <2> HIDE DEF n
  <2> QED
    BY <1>1, <2>1, ConcatAdjacentSubSeq
<1>4. SubSeq(prefix, 1, Len(prefix)) = prefix
  BY <1>1, SubSeqFull
<1> QED
  BY <1>2, <1>3, <1>4

-----------------------------------------------------------------------------
(* What the steps do to the summaries *)

\* A step that leaves the stored summaries alone, and at most takes call c on.
LEMMA SummaryMoves ==
  ASSUME SummaryInv, NEW c \in Calls, UNCHANGED compact, first' \in [Keys -> Nat],
         DOMAIN run' = Calls, DOMAIN run'[c] = RunFields,
         \A d \in Calls \ {c} : run'[d] = run[d],
         run'[c].pc # "summarize",
         Asking(c)' => /\ run'[c].summary = run[c].summary \/ run'[c].summary = <<>>
                       /\ run'[c].recent = run[c].recent /\ run'[c].hist = run[c].hist
                       /\ Asking(c) \/ run[c].pc = "summarize"
  PROVE  SummaryInv'
<1>1. \A d \in Calls : DOMAIN run'[d] = RunFields
  BY DEF SummaryInv
<1>2. StoredIsPrefix'
  BY DEF SummaryInv, StoredIsPrefix
<1>3. Splitting'
  BY DEF SummaryInv, Splitting
<1>4. ASSUME NEW d \in Calls, Asking(d)', run'[d].summary # <<>>
      PROVE  run'[d].summary \o run'[d].recent = run'[d].hist
  <2>1. CASE d = c
    BY <1>4, <2>1 DEF SummaryInv, Splitting, SummaryFits
  <2>2. CASE d # c
    BY <1>4, <2>2 DEF SummaryInv, SummaryFits, Asking
  <2> QED
    BY <2>1, <2>2
<1>5. SummaryFits'
  BY <1>4 DEF SummaryFits, Asking
<1> QED
  BY <1>1, <1>2, <1>3, <1>5 DEF SummaryInv

LEMMA GoSummary ==
  ASSUME SummaryInv, NEW c \in Calls, NEW pc, pc \notin {"summarize", "ask", "finalize"},
         Go(c, pc), UNCHANGED <<compact, first>>
  PROVE  SummaryInv'
<1>1. /\ DOMAIN run' = Calls /\ DOMAIN run'[c] = RunFields /\ run'[c].pc = pc
      /\ \A d \in Calls \ {c} : run'[d] = run[d]
  BY DEF SummaryInv, Go, RunFields
<1>2. ~Asking(c)' /\ first' \in [Keys -> Nat]
  BY <1>1 DEF Asking, SummaryInv
<1> QED
  BY <1>1, <1>2, SummaryMoves

LEMMA LoadHistorySummary ==
  ASSUME IInv, SummaryInv, NEW c \in Calls, LoadHistory(c)
  PROVE  SummaryInv'
<1> DEFINE k == KeyOf[c]
           hist == History(k)
           prefix == Prefix(hist)
           rest == SubSeq(hist, Len(prefix) + 1, Len(hist))
           stored == compact[k]
           found == stored.hash = prefix /\ stored.count = Len(prefix)
           text == IF found THEN stored.text ELSE <<>>
           pc == IF prefix = <<>> \/ found THEN "ask" ELSE "summarize"
<1>0. k \in Keys /\ Typed
  BY Facts DEF IInv
<1>1. Sequence(hist)
  BY <1>0, HistoryIsSequence DEF SummaryInv
<1>2. prefix \o rest = hist
  BY <1>1, PrefixAndRest
<1>3. stored.text = stored.hash
  BY <1>0 DEF SummaryInv, StoredIsPrefix
<1>4. text # <<>> => text \o rest = hist
  BY <1>2, <1>3
<1>5. /\ pc \in {"ask", "summarize"}
      /\ pc = "summarize" => text = <<>> /\ rest = SubSeq(hist, Len(Prefix(hist)) + 1, Len(hist))
  OBVIOUS
<1>6. run' = [run EXCEPT ![c].hist = hist, ![c].recent = rest, ![c].summary = text, ![c].pc = pc]
  BY DEF LoadHistory
<1>7. UNCHANGED <<compact, first>>
  BY DEF LoadHistory, clock
<1> HIDE DEF hist, rest, text, pc
<1>8. /\ DOMAIN run' = Calls /\ DOMAIN run'[c] = RunFields
      /\ run'[c].hist = hist /\ run'[c].recent = rest /\ run'[c].summary = text /\ run'[c].pc = pc
      /\ \A d \in Calls \ {c} : run'[d] = run[d]
  BY <1>6 DEF SummaryInv, RunFields
<1>9. \A d \in Calls : DOMAIN run'[d] = RunFields
  BY <1>8 DEF SummaryInv
<1>10. StoredIsPrefix'
  BY <1>7 DEF SummaryInv, StoredIsPrefix
<1>11. Splitting'
  BY <1>1, <1>5, <1>8 DEF SummaryInv, Splitting
<1>12. ASSUME NEW d \in Calls, Asking(d)', run'[d].summary # <<>>
       PROVE  run'[d].summary \o run'[d].recent = run'[d].hist
  <2>1. CASE d = c
    BY <1>4, <1>8, <1>12, <2>1
  <2>2. CASE d # c
    BY <1>8, <1>12, <2>2 DEF SummaryInv, SummaryFits, Asking
  <2> QED
    BY <2>1, <2>2
<1>13. SummaryFits'
  BY <1>12 DEF SummaryFits, Asking
<1> QED
  BY <1>7, <1>8, <1>9, <1>10, <1>11, <1>13 DEF SummaryInv

LEMMA SummarizeSummary ==
  ASSUME SummaryInv, NEW c \in Calls, Summarize(c)
  PROVE  SummaryInv'
<1> DEFINE k == KeyOf[c]
           hist == run[c].hist
           prefix == Prefix(hist)
           rest == SubSeq(hist, Len(prefix) + 1, Len(hist))
           stored == compact[k]
           text == IF Extends(stored, prefix)
                     THEN stored.text \o SubSeq(prefix, stored.count + 1, Len(prefix))
                     ELSE prefix
<1>0. k \in Keys /\ Sequence(hist) /\ run[c].recent = rest
  BY Facts DEF Summarize, SummaryInv, Splitting
<1>1. Sequence(prefix) /\ prefix \o rest = hist
  BY <1>0, PrefixAndRest
<1>2. text = prefix
  <2>1. stored.text = stored.hash /\ stored.count \in Nat
    <3>1. stored.text = stored.hash /\ stored.count = Len(stored.hash) /\ Sequence(stored.hash)
      BY <1>0 DEF SummaryInv, StoredIsPrefix
    <3> HIDE DEF stored
    <3>2. Len(stored.hash) \in Nat
      BY <3>1, LenProperties DEF Sequence
    <3> QED
      BY <3>1, <3>2
  <2> HIDE DEF stored, prefix
  <2> QED
    BY <1>1, <2>1, ExtendedIsPrefix
<1>3. /\ compact' = [compact EXCEPT ![k] = [text |-> text, hash |-> prefix, count |-> Len(prefix)]]
      /\ run' = [run EXCEPT ![c].summary = text, ![c].pc = "ask"]
      /\ UNCHANGED first
  BY DEF Summarize, clock
<1> HIDE DEF text, prefix, rest, hist
<1>4. /\ DOMAIN run' = Calls /\ DOMAIN run'[c] = RunFields
      /\ run'[c].hist = hist /\ run'[c].recent = rest /\ run'[c].summary = prefix
      /\ run'[c].pc = "ask"
      /\ \A d \in Calls \ {c} : run'[d] = run[d]
  BY <1>0, <1>2, <1>3 DEF SummaryInv, RunFields, hist
<1>5. /\ DOMAIN compact' = Keys
      /\ \A l \in Keys : compact'[l] = IF l = k THEN [text |-> prefix, hash |-> prefix, count |-> Len(prefix)]
                                                ELSE compact[l]
  BY <1>0, <1>2, <1>3 DEF SummaryInv
<1>6. StoredIsPrefix'
  BY <1>1, <1>5 DEF SummaryInv, StoredIsPrefix
<1>7. Splitting'
  BY <1>4 DEF SummaryInv, Splitting
<1>8. ASSUME NEW d \in Calls, Asking(d)', run'[d].summary # <<>>
      PROVE  run'[d].summary \o run'[d].recent = run'[d].hist
  <2>1. CASE d = c
    BY <1>1, <1>4, <2>1
  <2>2. CASE d # c
    BY <1>4, <1>8, <2>2 DEF SummaryInv, SummaryFits, Asking
  <2> QED
    BY <2>1, <2>2
<1>9. SummaryFits'
  BY <1>8 DEF SummaryFits, Asking
<1>10. \A d \in Calls : DOMAIN run'[d] = RunFields
  BY <1>4 DEF SummaryInv
<1> QED
  BY <1>3, <1>4, <1>5, <1>6, <1>7, <1>9, <1>10 DEF SummaryInv

LEMMA AcquireSummary ==
  ASSUME SummaryInv, NEW c \in Calls, Acquire(c)
  PROVE  SummaryInv'
<1>1. /\ compact' = compact \/ compact' = [compact EXCEPT ![KeyOf[c]] = NoSummary]
      /\ Go(c, "history") /\ UNCHANGED first
  BY DEF Acquire
<1>2. CASE compact' = compact
  BY <1>1, <1>2, GoSummary
<1>3. CASE compact' = [compact EXCEPT ![KeyOf[c]] = NoSummary]
  <2>1. /\ DOMAIN run' = Calls /\ DOMAIN run'[c] = RunFields /\ run'[c].pc = "history"
        /\ \A d \in Calls \ {c} : run'[d] = run[d]
    BY <1>1 DEF SummaryInv, Go, RunFields
  <2>2. Sequence(NoSummary.hash)
    BY EmptySeq, SeqIsSequence DEF NoSummary
  <2>3. StoredIsPrefix' /\ DOMAIN compact' = Keys
    BY <1>3, <2>2 DEF SummaryInv, StoredIsPrefix, NoSummary
  <2>4. Splitting'
    BY <2>1 DEF SummaryInv, Splitting
  <2>5. SummaryFits'
    BY <2>1 DEF SummaryInv, SummaryFits, Asking
  <2>6. \A d \in Calls : DOMAIN run'[d] = RunFields
    BY <2>1 DEF SummaryInv
  <2> QED
    BY <1>1, <2>1, <2>3, <2>4, <2>5, <2>6 DEF SummaryInv
<1> QED
  BY <1>1, <1>2, <1>3

LEMMA StepSummary ==
  ASSUME IInv, SummaryInv, NEW c \in Calls, RunStep(c)
  PROVE  SummaryInv'
<1>1. CASE AbandonWait(c) \/ Interrupted(c) \/ Answer(c) \/ RequestFails(c) \/ Release(c)
             \/ AppendUser(c) \/ AppendAssistant(c)
  <2>1. UNCHANGED <<compact, first>>
    BY <1>1 DEF AbandonWait, Interrupted, Answer, RequestFails, Release, AppendUser,
                AppendAssistant, InRun, clock
  <2>2. \E pc : pc \notin {"summarize", "ask", "finalize"} /\ Go(c, pc)
    <3>1. Go(c, "reply") \/ Go(c, "release") \/ Go(c, "user") \/ Go(c, "assistant")
      BY <1>1 DEF AbandonWait, Interrupted, Answer, RequestFails, Release, AppendUser,
                  AppendAssistant
    <3> QED
      BY <3>1
  <2> QED
    BY <2>1, <2>2, GoSummary
<1>2. CASE SummarizeFails(c)
  <2>1. /\ DOMAIN run' = Calls /\ DOMAIN run'[c] = RunFields
        /\ run'[c] = [run[c] EXCEPT !.pc = "ask"] /\ run[c].pc = "summarize"
        /\ \A d \in Calls \ {c} : run'[d] = run[d]
        /\ UNCHANGED <<compact, first>>
    BY <1>2 DEF SummarizeFails, Go, SummaryInv, RunFields, clock
  <2>2. /\ run'[c].pc = "ask" /\ run'[c].summary = run[c].summary
        /\ run'[c].recent = run[c].recent /\ run'[c].hist = run[c].hist
    BY <2>1 DEF SummaryInv, RunFields
  <2>3. first' \in [Keys -> Nat]
    BY <2>1 DEF SummaryInv
  <2> QED
    BY <2>1, <2>2, <2>3, SummaryMoves
<1>3. CASE UseTools(c)
  <2>1. /\ DOMAIN run' = Calls /\ DOMAIN run'[c] = RunFields
        /\ run'[c].pc \in {"ask", "finalize"} /\ run[c].pc = "ask"
        /\ run'[c].summary = run[c].summary
        /\ run'[c].recent = run[c].recent /\ run'[c].hist = run[c].hist
        /\ \A d \in Calls \ {c} : run'[d] = run[d]
    BY <1>3 DEF UseTools, SummaryInv, RunFields
  <2>2. UNCHANGED compact /\ first' \in [Keys -> Nat] /\ Asking(c)
    BY <1>3, <2>1 DEF UseTools, InRun, clock, SummaryInv, Asking
  <2> QED
    BY <2>1, <2>2, SummaryMoves
<1>4. CASE AnswerEmpty(c)
  <2>1. /\ DOMAIN run' = Calls /\ DOMAIN run'[c] = RunFields /\ run'[c].pc = "user"
        /\ \A d \in Calls \ {c} : run'[d] = run[d]
    BY <1>4 DEF AnswerEmpty, SummaryInv, RunFields
  <2>2. UNCHANGED compact /\ first' \in [Keys -> Nat] /\ ~Asking(c)'
    BY <1>4, <2>1 DEF AnswerEmpty, InRun, clock, SummaryInv, Asking
  <2> QED
    BY <2>1, <2>2, SummaryMoves
<1>5. CASE Reply(c)
  <2>1. /\ DOMAIN run' = Calls /\ DOMAIN run'[c] = RunFields /\ run'[c].pc = "done"
        /\ \A d \in Calls \ {c} : run'[d] = run[d]
    BY <1>5 DEF Reply, Finish, NoRun, SummaryInv, RunFields
  <2>2. UNCHANGED compact /\ first' \in [Keys -> Nat] /\ ~Asking(c)'
    BY <1>5, <2>1 DEF Reply, clock, SummaryInv, Asking
  <2> QED
    BY <2>1, <2>2, SummaryMoves
<1> QED
  BY <1>1, <1>2, <1>3, <1>4, <1>5, AcquireSummary, LoadHistorySummary, SummarizeSummary
  DEF RunStep

LEMMA NextSummary == IInv /\ SummaryInv /\ [Next]_vars => SummaryInv'
<1> SUFFICES ASSUME IInv, SummaryInv, [Next]_vars PROVE SummaryInv'
  OBVIOUS
<1>1. ASSUME UNCHANGED <<run, compact>>, first' \in [Keys -> Nat] PROVE SummaryInv'
  BY <1>1 DEF SummaryInv, StoredIsPrefix, Splitting, SummaryFits, Asking
<1>2. ASSUME NEW c \in Calls, Send(c) PROVE SummaryInv'
  <2>1. /\ DOMAIN run' = Calls /\ DOMAIN run'[c] = RunFields /\ run'[c].pc \in {"wait", "done"}
        /\ \A d \in Calls \ {c} : run'[d] = run[d]
    BY <1>2 DEF Send, Go, SummaryInv, RunFields
  <2>2. UNCHANGED compact /\ first' \in [Keys -> Nat] /\ ~Asking(c)'
    BY <1>2, <2>1 DEF Send, clock, SummaryInv, Asking
  <2> QED
    BY <2>1, <2>2, SummaryMoves
<1>3. ASSUME NEW c \in Calls, Cancel(c) PROVE SummaryInv'
  BY <1>1, <1>3 DEF Cancel, clock, SummaryInv
<1>4. ASSUME NEW k \in Gui, DeleteSession(k) PROVE SummaryInv'
  BY <1>1, <1>4 DEF DeleteSession, clock, SummaryInv
<1>5. CASE TwoDaysPass
  <2>1. first' \in [Keys -> Nat]
    BY <1>5 DEF TwoDaysPass, IInv, Typed
  <2> QED
    BY <1>1, <1>5, <2>1 DEF TwoDaysPass
<1>6. CASE UNCHANGED vars
  BY <1>1, <1>6 DEF vars, SummaryInv
<1> QED
  BY <1>2, <1>3, <1>4, <1>5, <1>6, StepSummary DEF Next

LEMMA InitSummary == Init => SummaryInv
<1> SUFFICES ASSUME Init PROVE SummaryInv
  OBVIOUS
<1>1. Sequence(NoSummary.hash)
  BY EmptySeq, SeqIsSequence DEF NoSummary
<1>2. /\ DOMAIN run = Calls /\ DOMAIN compact = Keys /\ first \in [Keys -> Nat]
      /\ \A c \in Calls : DOMAIN run[c] = RunFields /\ run[c].pc = "idle"
  BY DEF Init, NoRun, RunFields
<1>3. StoredIsPrefix
  BY <1>1 DEF Init, StoredIsPrefix, NoSummary
<1> QED
  BY <1>2, <1>3 DEF SummaryInv, Splitting, SummaryFits, Asking

\* A request carries the whole window, each turn once, for every window, number of turns
\* to keep and of calls, although summaries fail, are extended and are emptied while
\* others are made (applyCompact).
THEOREM RequestsFit == Spec => []SummaryFits
<1>1. SummaryInv => SummaryFits
  BY DEF SummaryInv
<1>2. Spec => []SummaryInv
  BY IInvHolds, InitSummary, NextSummary, PTL DEF Spec
<1> QED
  BY <1>1, <1>2, PTL
=============================================================================
