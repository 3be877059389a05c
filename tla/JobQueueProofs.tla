--------------------------- MODULE JobQueueProofs ---------------------------
(***************************************************************************)
(* Machine-checked proofs about JobQueue: type correctness for all senders; *)
(* and when every sender has an openID, the safety of the slots, where every *)
(* message is, the order of the waiters, and the refinement of AskService.  *)
(***************************************************************************)
EXTENDS JobQueueRefinement, SequenceTheorems, TLAPS

LEMMA ScopeOfMsg == \A m \in Msgs : Author[m] \in Senders /\ ScopeOf(m) \in Scopes
BY JobQueueAssumption DEF ScopeOf, Scopes

LEMMA ScopeOfSender == \A u \in Senders : Scope(u) \in Scopes
BY DEF Scopes

\* The slots, jobs and items the actions build are well typed.
LEMMA IdleSlotType == IdleSlot \in Slot
BY DEF IdleSlot, Slot, Senders

LEMMA SlotFields ==
  ASSUME NEW x \in Slot
  PROVE  /\ [x EXCEPT !.cancel = FALSE] \in Slot /\ [x EXCEPT !.cancel = FALSE].cancel = FALSE
         /\ [x EXCEPT !.extra = {}] \in Slot /\ [x EXCEPT !.extra = {}].ctx = x.ctx
         /\ [x EXCEPT !.extra = {}].cancel = x.cancel
BY DEF Slot

LEMMA NoJobType == NoJob \in Job
BY DEF NoJob, Job

LEMMA NoticesType ==
  ASSUME NEW queue \in Seq(Item)
  PROVE  NoticesFor(queue) \in Seq(Notice)
<1>1. Len(queue) \in Nat
  BY LenProperties
<1>2. \A i \in 1 .. Len(queue) : queue[i] \in Item
  BY ElementOfSeq
<1>3. \A i \in 1 .. Len(queue) : [openID |-> queue[i].openID, position |-> i] \in Notice
  BY <1>1, <1>2 DEF Item, Notice
<1>4. NoticesFor(queue) \in [1 .. Len(queue) -> Notice]
  BY <1>3 DEF NoticesFor
<1> QED
  BY <1>1, <1>4, SeqDef

-----------------------------------------------------------------------------
(* Type correctness *)

LEMMA InitTypeOK == Init => TypeOK
<1> SUFFICES ASSUME Init PROVE TypeOK
  OBVIOUS
<1>1. slots \in [Scopes -> Slot]
  BY IdleSlotType DEF Init
<1>2. job \in [Msgs -> Job]
  BY NoJobType DEF Init
<1> QED
  BY <1>1, <1>2 DEF Init, TypeOK

LEMMA ArriveTypeOK ==
  ASSUME TypeOK, NEW m \in Msgs, Arrive(m)
  PROVE  TypeOK'
<1> DEFINE s == ScopeOf(m)
           sl == slots[s]
<1>1. sl \in Slot /\ s \in Scopes /\ Author[m] \in Senders
  BY ScopeOfMsg DEF TypeOK
<1>2. slots' \in [Scopes -> Slot]
  <2>1. CASE Accept(m)
    BY <2>1, <1>1 DEF Accept, TypeOK, Slot
  <2>2. CASE Merge(m)
    BY <2>2, <1>1 DEF Merge, TypeOK, Slot
  <2>3. CASE Rejoin(m)
    <3>1. PICK i \in DOMAIN sl.queue :
            slots' = [slots EXCEPT ![s].queue[i] = Joined(@, m)]
      BY <2>3 DEF Rejoin, SlotOf
    <3>2. sl.queue \in Seq(Item) /\ i \in 1 .. Len(sl.queue)
      BY <1>1, <3>1, LenProperties DEF Slot
    <3>3. sl.queue[i] \in Item
      BY <3>2, ElementOfSeq
    <3> DEFINE it == Joined(sl.queue[i], m)
    <3>4. it \in Item
      BY <3>3 DEF Item, Joined
    <3>5. slots' = [slots EXCEPT ![s] = [sl EXCEPT !.queue = [sl.queue EXCEPT ![i] = it]]]
      BY <3>1
    <3> HIDE DEF it
    <3> DEFINE q == [sl.queue EXCEPT ![i] = it]
    <3>6. q \in Seq(Item)
      BY <3>2, <3>4, ExceptSeq, Zenon
    <3> HIDE DEF q
    <3>7. [sl EXCEPT !.queue = q] \in Slot
      BY <1>1, <3>6 DEF Slot
    <3> QED
      BY <3>5, <3>7, <1>1 DEF TypeOK, q
  <2>4. CASE Enqueue(m)
    <3> DEFINE it == [openID |-> Author[m], content |-> {m}, payload |-> m]
    <3>1. it \in Item
      BY <1>1 DEF Item
    <3>2. sl.queue \in Seq(Item)
      BY <1>1 DEF Slot
    <3>3. Append(sl.queue, it) \in Seq(Item)
      BY <3>1, <3>2, AppendProperties
    <3> HIDE DEF it
    <3>4. [sl EXCEPT !.queue = Append(sl.queue, it)] \in Slot
      BY <1>1, <3>3 DEF Slot
    <3>5. slots' = [slots EXCEPT ![s] = [sl EXCEPT !.queue = Append(sl.queue, it)]]
      BY <2>4 DEF Enqueue, it
    <3> QED
      BY <3>4, <3>5 DEF TypeOK
  <2> QED
    BY <2>1, <2>2, <2>3, <2>4 DEF Arrive
<1>3. PICK status \in {"accepted", "merged", "queued"}, pos \in Nat : Decide(m, status, pos)
  <2>1. CASE Accept(m) \/ Merge(m)
    BY <2>1 DEF Accept, Merge
  <2>2. CASE Rejoin(m)
    <3>1. PICK i \in DOMAIN sl.queue : Decide(m, "queued", i)
      BY <2>2 DEF Rejoin, SlotOf
    <3>2. sl.queue \in Seq(Item)
      BY <1>1 DEF Slot
    <3>3. Len(sl.queue) \in Nat /\ DOMAIN sl.queue = 1 .. Len(sl.queue)
      BY <3>2, LenProperties
    <3>4. i \in Nat
      BY <3>3
    <3> QED
      BY <3>1, <3>4
  <2>3. CASE Enqueue(m)
    <3>1. sl.queue \in Seq(Item)
      BY <1>1 DEF Slot
    <3>2. Len(sl.queue) \in Nat
      BY <3>1, LenProperties
    <3> QED
      BY <2>3, <3>2 DEF Enqueue, SlotOf
  <2> QED
    BY <2>1, <2>2, <2>3 DEF Arrive
<1> QED
  BY <1>2, <1>3 DEF Decide, TypeOK

LEMMA AnswerTypeOK ==
  ASSUME TypeOK, NEW m \in Msgs, Answer(m)
  PROVE  TypeOK'
<1>1. CASE AckAccepted(m)
  <2>1. [NoJob EXCEPT !.pc = "dispatch", !.content = {m}] \in Job
    BY NoJobType DEF Job
  <2> QED
    BY <1>1, <2>1 DEF AckAccepted, Launch, TypeOK
<1>2. CASE AckMerged(m)
  BY <1>2 DEF AckMerged, TypeOK
<1>3. CASE AckQueued(m)
  BY <1>3, ScopeOfMsg DEF AckQueued, TypeOK
<1> QED
  BY <1>1, <1>2, <1>3 DEF Answer

LEMMA RunJobTypeOK ==
  ASSUME TypeOK, NEW j \in Msgs, RunJob(j)
  PROVE  TypeOK'
<1> USE ScopeOfMsg
<1> DEFINE s == ScopeOf(j)
           sl == slots[s]
<1>0. sl \in Slot /\ s \in Scopes /\ job[j] \in Job
  BY DEF TypeOK
<1>1. CASE Dispatch(j)
  BY <1>0, <1>1 DEF Dispatch, SlotOf, TypeOK, Slot, Job
<1>2. CASE RunEnd(j)
  <2>1. PICK status \in {"ok", "interrupted"} :
          job' = [job EXCEPT ![j].pc = "reply", ![j].status = status]
    BY <1>2 DEF RunEnd
  <2>2. job' \in [Msgs -> Job]
    BY <1>0, <2>1 DEF TypeOK, Job
  <2> QED
    BY <1>2, <2>2 DEF RunEnd, TypeOK
<1>3. CASE Reply(j)
  BY <1>0, <1>3 DEF Reply, TypeOK, Job
<1>4. CASE DrainExtra(j)
  <2>1. Drained(j) \in SUBSET Msgs
    BY <1>0 DEF Drained, SlotOf, Slot
  <2>2. job' \in [Msgs -> Job]
    BY <1>0, <1>4, <2>1 DEF DrainExtra, TypeOK, Job
  <2>3. slots' \in [Scopes -> Slot]
    BY <1>0, <1>4 DEF DrainExtra, TypeOK, Slot
  <2> QED
    BY <1>4, <2>2, <2>3 DEF DrainExtra, TypeOK
<1>5. CASE FinishForeign(j)
  BY <1>0, <1>5 DEF FinishForeign, TypeOK, Job
<1>6. CASE FinishIdle(j)
  BY <1>0, <1>6, IdleSlotType DEF FinishIdle, TypeOK, Job
<1>7. CASE FinishNext(j)
  <2> DEFINE next == Head(sl.queue)
             rest == Tail(sl.queue)
  <2>1. next \in Item /\ rest \in Seq(Item)
    BY <1>0, <1>7, HeadTailProperties DEF FinishNext, SlotOf, Slot
  <2>2. NoticesFor(rest) \in Seq(Notice)
    BY <2>1, NoticesType
  <2>3. job' = [job EXCEPT ![j] = [job[j] EXCEPT !.pc = "notify", !.next = next,
                                                 !.notices = NoticesFor(rest)]]
    BY <1>7 DEF FinishNext, SlotOf
  <2>4. slots' = [slots EXCEPT ![s] =
                    [busy |-> next.openID, extra |-> {}, queue |-> rest,
                     ctx |-> next.payload, cancel |-> TRUE]]
    BY <1>7 DEF FinishNext, SlotOf
  <2> HIDE DEF next, rest
  <2>5. job' \in [Msgs -> Job]
    BY <1>0, <2>1, <2>2, <2>3 DEF TypeOK, Job
  <2>6. slots' \in [Scopes -> Slot]
    BY <2>1, <2>4 DEF TypeOK, Slot, Item
  <2> QED
    BY <1>7, <2>5, <2>6 DEF FinishNext, TypeOK
<1>8. CASE Notify(j)
  <2>1. job[j].notices \in Seq(Notice) /\ job[j].notices # <<>>
    BY <1>0, <1>8 DEF Notify, Job
  <2>2. Head(job[j].notices) \in Notice /\ Tail(job[j].notices) \in Seq(Notice)
    BY <2>1, HeadTailProperties
  <2>3. told' \in [Senders -> Nat]
    BY <1>8, <2>2 DEF Notify, TypeOK, Notice
  <2>4. job' \in [Msgs -> Job]
    BY <1>0, <1>8, <2>2 DEF Notify, TypeOK, Job
  <2> QED
    BY <1>8, <2>3, <2>4 DEF Notify, TypeOK
<1>9. CASE HandOver(j)
  <2> DEFINE p == job[j].next.payload
             old == [job[j] EXCEPT !.pc = "done", !.next = NoItem]
             new == [NoJob EXCEPT !.pc = "dispatch", !.content = job[j].next.content]
  <2>1. job' = [job EXCEPT ![j] = old, ![p] = new]
    BY <1>9 DEF HandOver
  <2>2. old \in Job
    BY <1>0 DEF Job
  <2>3. job[j].next.content \in SUBSET Msgs
    BY <1>0 DEF Job, Item, NoItem
  <2>4. new \in Job
    BY <2>3, NoJobType DEF Job
  <2> HIDE DEF old, new, p
  <2>5. job' \in [Msgs -> Job]
    BY <2>1, <2>2, <2>4 DEF TypeOK
  <2> QED
    BY <1>9, <2>5 DEF HandOver, TypeOK
<1> QED
  BY <1>1, <1>2, <1>3, <1>4, <1>5, <1>6, <1>7, <1>8, <1>9 DEF RunJob, Finish

LEMMA StopTypeOK ==
  ASSUME TypeInv, NEW u \in Stoppers, Stop(u)
  PROVE  TypeOK'
<1>1. u \in Senders /\ Scope(u) \in Scopes
  BY JobQueueAssumption, ScopeOfSender
<1>2. slots[Scope(u)] \in Slot
  BY <1>1 DEF TypeInv, TypeOK
<1>3. slots[Scope(u)].ctx \in Msgs
  BY <1>1, <1>2 DEF Stop, TypeInv, ArmedSlots, Slot
<1>4. slots' = [slots EXCEPT ![Scope(u)] = [slots[Scope(u)] EXCEPT !.cancel = FALSE]]
  BY DEF Stop
<1>5. slots' \in [Scopes -> Slot]
  BY <1>1, <1>2, <1>4, SlotFields DEF TypeInv, TypeOK
<1> QED
  BY <1>1, <1>3, <1>5 DEF Stop, TypeInv, TypeOK

LEMMA SetArmed ==
  ASSUME slots \in [Scopes -> Slot], ArmedSlots, NEW s \in Scopes, NEW x,
         x.cancel => x.ctx # NoMsg, slots' = [slots EXCEPT ![s] = x]
  PROVE  ArmedSlots'
BY DEF ArmedSlots

\* The second half of the type invariant: whatever arms a slot gives it the
\* context of a job.
LEMMA NextArmedSlots ==
  ASSUME TypeInv, [Next]_vars
  PROVE  ArmedSlots'
<1> USE ScopeOfMsg, JobQueueAssumption DEF TypeInv, ArmedSlots
<1>1. ASSUME NEW m \in Msgs, Arrive(m) PROVE ArmedSlots'
  <2>1. slots \in [Scopes -> Slot] /\ ScopeOf(m) \in Scopes
    BY DEF TypeOK
  <2>2. CASE Accept(m)
    BY <2>1, <2>2 DEF Accept, Slot
  <2>3. CASE Merge(m)
    BY <2>1, <2>3 DEF Merge, Slot
  <2>4. CASE Rejoin(m)
    <3>1. PICK i : slots' = [slots EXCEPT ![ScopeOf(m)].queue[i] = Joined(@, m)]
      BY <2>4 DEF Rejoin
    <3> QED
      BY <2>1, <3>1 DEF Slot
  <2>5. CASE Enqueue(m)
    BY <2>1, <2>5 DEF Enqueue, Slot
  <2> QED
    BY <1>1, <2>2, <2>3, <2>4, <2>5 DEF Arrive
<1>2. ASSUME NEW m \in Msgs, Answer(m) PROVE ArmedSlots'
  BY <1>2 DEF Answer, AckAccepted, AckMerged, AckQueued
<1>3. ASSUME NEW j \in Msgs, RunJob(j) PROVE ArmedSlots'
  <2>1. CASE DrainExtra(j)
    <3>1. \/ slots' = slots
          \/ slots' = [slots EXCEPT ![ScopeOf(j)] = [slots[ScopeOf(j)] EXCEPT !.extra = {}]]
      BY <2>1 DEF DrainExtra
    <3>2. slots \in [Scopes -> Slot] /\ ScopeOf(j) \in Scopes /\ slots[ScopeOf(j)] \in Slot
      BY DEF TypeOK
    <3> DEFINE x == [slots[ScopeOf(j)] EXCEPT !.extra = {}]
    <3>3. x.cancel => x.ctx # NoMsg
      <4>1. x.ctx = slots[ScopeOf(j)].ctx /\ x.cancel = slots[ScopeOf(j)].cancel
        BY <3>2, SlotFields
      <4>2. slots[ScopeOf(j)].cancel => slots[ScopeOf(j)].ctx # NoMsg
        BY <3>2 DEF ArmedSlots
      <4> HIDE DEF x
      <4> QED
        BY <4>1, <4>2
    <3> HIDE DEF x
    <3>4. CASE slots' = [slots EXCEPT ![ScopeOf(j)] = x]
      BY <3>2, <3>3, <3>4, SetArmed
    <3> QED
      BY <3>1, <3>4 DEF x
  <2>2. CASE FinishIdle(j)
    BY <2>2 DEF FinishIdle, IdleSlot, TypeOK
  <2>3. CASE FinishNext(j)
    <3>1. SlotOf(j).queue \in Seq(Item) /\ SlotOf(j).queue # <<>>
      BY <2>3 DEF FinishNext, SlotOf, TypeOK, Slot
    <3>2. Head(SlotOf(j).queue) \in Item
      BY <3>1, HeadTailProperties
    <3>3. Head(SlotOf(j).queue).payload \in Msgs
      BY <3>2 DEF Item
    <3> QED
      BY <2>3, <3>3 DEF FinishNext, TypeOK
  <2>4. CASE \/ Dispatch(j) \/ RunEnd(j) \/ Reply(j) \/ FinishForeign(j)
             \/ Notify(j) \/ HandOver(j)
    BY <2>4 DEF Dispatch, RunEnd, Reply, FinishForeign, Notify, HandOver
  <2> QED
    BY <1>3, <2>1, <2>2, <2>3, <2>4 DEF RunJob, Finish
<1>4. ASSUME NEW u \in Stoppers, Stop(u) PROVE ArmedSlots'
  <2>1. slots' = [slots EXCEPT ![Scope(u)] = [slots[Scope(u)] EXCEPT !.cancel = FALSE]]
    BY <1>4 DEF Stop
  <2>2. slots \in [Scopes -> Slot] /\ Scope(u) \in Scopes /\ slots[Scope(u)] \in Slot
    BY ScopeOfSender DEF TypeOK
  <2>3. [slots[Scope(u)] EXCEPT !.cancel = FALSE].cancel = FALSE
    BY <2>2, SlotFields
  <2> QED
    BY <2>1, <2>2, <2>3, SetArmed
<1>5. CASE UNCHANGED vars
  BY <1>5 DEF vars
<1> QED
  BY <1>1, <1>2, <1>3, <1>4, <1>5 DEF Next

LEMMA NextTypeInv == TypeInv /\ [Next]_vars => TypeInv'
<1> SUFFICES ASSUME TypeInv, [Next]_vars PROVE TypeOK'
  BY NextArmedSlots DEF TypeInv
<1>1. ASSUME NEW m \in Msgs, Arrive(m) \/ Answer(m) \/ RunJob(m) PROVE TypeOK'
  BY <1>1, ArriveTypeOK, AnswerTypeOK, RunJobTypeOK DEF TypeInv
<1>2. ASSUME NEW u \in Stoppers, Stop(u) PROVE TypeOK'
  BY <1>2, StopTypeOK
<1>3. CASE UNCHANGED vars
  BY <1>3 DEF vars, TypeOK, TypeInv
<1> QED
  BY <1>1, <1>2, <1>3 DEF Next

LEMMA InitTypeInv == Init => TypeInv
BY InitTypeOK DEF Init, TypeInv, ArmedSlots, IdleSlot

\* The state of the queue and of the goroutines is always well typed, whatever
\* the messages, the users and the modes of the bot: the types of jobs.go's
\* slot and Item and of the goroutines' locals.
THEOREM TypeCorrect == Spec => []TypeOK
<1>1. TypeInv => TypeOK
  BY DEF TypeInv
<1> QED
  BY <1>1, InitTypeInv, NextTypeInv, PTL DEF Spec

-----------------------------------------------------------------------------
(* The slots and the goroutines that hold them, for senders with an openID *)

SlotCore ==
  /\ BegunJobs
  /\ AckedDecided
  /\ QueueItems
  /\ HandOvers
  /\ CancelledContexts
  /\ IdleSlots
  /\ OneRunnerPerScope
  /\ OnePlacePerUser
  /\ StopReachesTheRunner

LEMMA SlotInvSplit == SlotInv <=> TypeInv /\ SlotCore
BY DEF SlotInv, SlotCore

\* A message that has not arrived has no goroutine and no slot.
LEMMA UndecidedFacts ==
  ASSUME SlotInv, NEW m \in Msgs, result[m] = "none"
  PROVE  job[m].pc = "idle" /\ ~Holds(m) /\ m \notin cancelled
<1>1. job[m].pc = "idle"
  BY DEF SlotInv, BegunJobs
<1>2. \A j \in Msgs : ~(job[j].pc = "notify" /\ job[j].next.payload = m)
  BY DEF SlotInv, HandOvers
<1>3. ~Holds(m)
  BY <1>1, <1>2 DEF Holds, InLoop
<1> QED
  BY <1>1, <1>3 DEF SlotInv, CancelledContexts

\* Whoever holds a scope is its only holder, and the slot names its author.
LEMMA HolderFacts ==
  ASSUME SlotInv, NEW m \in Msgs, Holds(m)
  PROVE  /\ Holders(ScopeOf(m)) = {m}
         /\ slots[ScopeOf(m)].busy = Author[m]
         /\ slots[ScopeOf(m)].busy # NoID
<1>1. ScopeOf(m) \in Scopes /\ m \in Holders(ScopeOf(m))
  BY ScopeOfMsg DEF Holders
<1>2. slots[ScopeOf(m)].busy # NoID
  BY <1>1 DEF SlotInv, OneRunnerPerScope
<1>3. PICK h \in Msgs : Holders(ScopeOf(m)) = {h} /\ Author[h] = slots[ScopeOf(m)].busy
  BY <1>1, <1>2 DEF SlotInv, OneRunnerPerScope
<1> QED
  BY <1>1, <1>2, <1>3

\* A waiting item stands for a message that holds nothing yet.
LEMMA WaiterFacts ==
  ASSUME SlotInv, NEW s \in Scopes, NEW i \in DOMAIN slots[s].queue
  PROVE  LET p == slots[s].queue[i].payload IN
           /\ p \in Msgs /\ ~Holds(p) /\ p \notin cancelled
           /\ result[p] = "queued" /\ job[p].pc = "idle"
           /\ ScopeOf(p) = s /\ Author[p] = slots[s].queue[i].openID
<1> DEFINE p == slots[s].queue[i].payload
<1>1. slots[s].queue \in Seq(Item)
  BY DEF SlotInv, TypeInv, TypeOK, Slot
<1>2. slots[s].queue[i] \in Item
  BY <1>1, ElementOfSeq, LenProperties
<1>3. p \in Msgs
  BY <1>2 DEF Item
<1>4. /\ result[p] = "queued" /\ job[p].pc = "idle"
      /\ ScopeOf(p) = s /\ Author[p] = slots[s].queue[i].openID
  BY DEF SlotInv, QueueItems
<1>5. slots[s].queue[i].openID # slots[s].busy
  BY DEF SlotInv, OnePlacePerUser
<1>6. ~Holds(p)
  BY <1>3, <1>4, <1>5, HolderFacts
<1> QED
  BY <1>3, <1>4, <1>6 DEF SlotInv, CancelledContexts

\* A step that leaves the slots, the contexts and who holds what alone.
LEMMA QuietStep ==
  ASSUME SlotInv, UNCHANGED <<slots, cancelled>>,
         \A m \in Msgs : Holds(m)' <=> Holds(m),
         \A m \in Msgs : result[m] = "accepted" => result'[m] = "accepted",
         \A m \in Msgs : job[m].pc # "idle" => job'[m].pc # "idle"
  PROVE  /\ OneRunnerPerScope' /\ OnePlacePerUser' /\ StopReachesTheRunner'
         /\ IdleSlots' /\ CancelledContexts'
<1>1. \A s \in Scopes : Holders(s)' = Holders(s)
  BY DEF Holders
<1>2. OneRunnerPerScope'
  BY <1>1 DEF SlotInv, OneRunnerPerScope
<1>3. OnePlacePerUser' /\ IdleSlots'
  BY DEF SlotInv, OnePlacePerUser, IdleSlots
<1>4. StopReachesTheRunner'
  BY <1>1 DEF SlotInv, StopReachesTheRunner
<1>5. CancelledContexts'
  BY DEF SlotInv, CancelledContexts, TypeInv, TypeOK
<1> QED
  BY <1>2, <1>3, <1>4, <1>5

LEMMA AcceptCore ==
  ASSUME SlotInv, AllNamed, NEW m \in Msgs, Accept(m)
  PROVE  SlotCore'
<1> DEFINE s == ScopeOf(m)
<1>1. /\ s \in Scopes /\ Author[m] \in Senders /\ Author[m] # NoID
      /\ slots \in [Scopes -> Slot] /\ slots[s].busy = NoID
      /\ result \in [Msgs -> {"none", "accepted", "merged", "queued"}]
  BY ScopeOfMsg DEF SlotInv, TypeInv, TypeOK, AllNamed, Accept, SlotOf
<1>2. /\ job' = job /\ acked' = acked /\ cancelled' = cancelled
      /\ result[m] = "none" /\ result' = [result EXCEPT ![m] = "accepted"]
      /\ slots' = [slots EXCEPT ![s] = [@ EXCEPT !.busy = Author[m], !.ctx = m,
                                                 !.cancel = TRUE]]
  BY <1>1 DEF Accept, Decide
<1>3. job[m].pc = "idle" /\ ~Holds(m) /\ m \notin cancelled
  BY <1>2, UndecidedFacts
<1>4. /\ slots'[s].busy = Author[m] /\ slots'[s].ctx = m /\ slots'[s].cancel
      /\ slots'[s].queue = slots[s].queue
      /\ \A t \in Scopes : t # s => slots'[t] = slots[t]
      /\ \A t \in Scopes : slots'[t].queue = slots[t].queue
  BY <1>1, <1>2 DEF Slot
<1>5. \A x \in Msgs : x # m => result'[x] = result[x]
  BY <1>1, <1>2
<1>6. result'[m] = "accepted"
  BY <1>1, <1>2
<1>7. m \notin acked
  BY <1>2 DEF SlotInv, AckedDecided
<1>8. \A x \in Msgs : Holds(x)' <=> Holds(x) \/ x = m
  BY <1>2, <1>5, <1>6, <1>7 DEF Holds, InLoop
<1>9. Holders(s) = {}
  BY <1>1 DEF SlotInv, OneRunnerPerScope
<1>10. Holders(s)' = {m} /\ \A t \in Scopes : t # s => Holders(t)' = Holders(t)
  BY <1>8, <1>9 DEF Holders
<1>11. BegunJobs'
  BY <1>2, <1>3, <1>5 DEF SlotInv, BegunJobs
<1>12. AckedDecided'
  BY <1>2, <1>5, <1>7 DEF SlotInv, AckedDecided, TypeInv, TypeOK
<1>13. QueueItems'
  <2>1. \A t \in Scopes : \A i \in DOMAIN slots[t].queue :
          slots[t].queue[i].payload \in Msgs /\ slots[t].queue[i].payload # m
    BY <1>2, WaiterFacts
  <2> QED
    BY <1>2, <1>4, <1>5, <2>1 DEF SlotInv, QueueItems
<1>14. HandOvers'
  BY <1>2, <1>5 DEF SlotInv, HandOvers
<1>15. CancelledContexts'
  BY <1>2, <1>3, <1>5, <1>8 DEF SlotInv, CancelledContexts, TypeInv, TypeOK
<1>16. IdleSlots'
  BY <1>1, <1>4 DEF SlotInv, IdleSlots
<1>17. OneRunnerPerScope'
  BY <1>1, <1>4, <1>10 DEF SlotInv, OneRunnerPerScope
<1>18. slots[s].queue = <<>>
  BY <1>1 DEF SlotInv, OnePlacePerUser
<1>19. OnePlacePerUser'
  BY <1>1, <1>4, <1>18 DEF SlotInv, OnePlacePerUser
<1>20. StopReachesTheRunner'
  BY <1>2, <1>3, <1>4, <1>10 DEF SlotInv, StopReachesTheRunner
<1> QED
  BY <1>11, <1>12, <1>13, <1>14, <1>15, <1>16, <1>17, <1>19, <1>20 DEF SlotCore

\* A message that has to wait changes neither who holds a scope nor a context.
LEMMA WaitCore ==
  ASSUME SlotInv, AllNamed, NEW m \in Msgs, Merge(m) \/ Rejoin(m) \/ Enqueue(m)
  PROVE  /\ BegunJobs' /\ AckedDecided' /\ HandOvers' /\ CancelledContexts'
         /\ IdleSlots' /\ OneRunnerPerScope' /\ StopReachesTheRunner'
<1> DEFINE s == ScopeOf(m)
<1>1. /\ s \in Scopes /\ slots \in [Scopes -> Slot]
      /\ result \in [Msgs -> {"none", "accepted", "merged", "queued"}]
  BY ScopeOfMsg DEF SlotInv, TypeInv, TypeOK
<1>2. PICK status \in {"merged", "queued"} :
        /\ job' = job /\ acked' = acked /\ cancelled' = cancelled
        /\ result[m] = "none" /\ result' = [result EXCEPT ![m] = status]
  BY DEF Merge, Rejoin, Enqueue, Decide
<1>3. \A t \in Scopes : /\ slots'[t].busy = slots[t].busy
                        /\ slots'[t].ctx = slots[t].ctx
                        /\ slots'[t].cancel = slots[t].cancel
  <2>1. CASE Merge(m)
    BY <1>1, <2>1 DEF Merge, Slot
  <2>2. CASE Rejoin(m)
    <3>1. PICK i : slots' = [slots EXCEPT ![s].queue[i] = Joined(@, m)]
      BY <2>2 DEF Rejoin
    <3> QED
      BY <1>1, <3>1 DEF Slot
  <2>3. CASE Enqueue(m)
    BY <1>1, <2>3 DEF Enqueue, Slot
  <2> QED
    BY <2>1, <2>2, <2>3
<1>4. job[m].pc = "idle" /\ ~Holds(m) /\ m \notin cancelled
  BY <1>2, UndecidedFacts
<1>5. /\ \A x \in Msgs : x # m => result'[x] = result[x]
      /\ result'[m] = status
  BY <1>1, <1>2
<1>6. \A x \in Msgs : Holds(x)' <=> Holds(x)
  BY <1>2, <1>5 DEF Holds, InLoop
<1>7. \A t \in Scopes : Holders(t)' = Holders(t)
  BY <1>6 DEF Holders
<1>8. BegunJobs'
  BY <1>2, <1>4, <1>5 DEF SlotInv, BegunJobs
<1>9. AckedDecided'
  BY <1>2, <1>5 DEF SlotInv, AckedDecided, TypeInv, TypeOK
<1>10. HandOvers'
  BY <1>2, <1>5 DEF SlotInv, HandOvers
<1>11. CancelledContexts'
  BY <1>2, <1>4, <1>5, <1>6 DEF SlotInv, CancelledContexts, TypeInv, TypeOK
<1>12. IdleSlots'
  BY <1>3 DEF SlotInv, IdleSlots
<1>13. OneRunnerPerScope'
  BY <1>3, <1>7 DEF SlotInv, OneRunnerPerScope
<1>14. StopReachesTheRunner'
  BY <1>2, <1>3, <1>7 DEF SlotInv, StopReachesTheRunner
<1> QED
  BY <1>8, <1>9, <1>10, <1>11, <1>12, <1>13, <1>14

LEMMA MergeCore ==
  ASSUME SlotInv, AllNamed, NEW m \in Msgs, Merge(m)
  PROVE  SlotCore'
<1>1. \A t \in Scopes : /\ slots'[t].queue = slots[t].queue
                        /\ slots'[t].busy = slots[t].busy
  BY ScopeOfMsg DEF Merge, SlotInv, TypeInv, TypeOK, Slot
<1>2. /\ result[m] = "none" /\ job' = job
      /\ \A x \in Msgs : x # m => result'[x] = result[x]
  BY DEF Merge, Decide, SlotInv, TypeInv, TypeOK
<1>3. QueueItems'
  <2>1. \A t \in Scopes : \A i \in DOMAIN slots[t].queue :
          slots[t].queue[i].payload \in Msgs /\ slots[t].queue[i].payload # m
    BY <1>2, WaiterFacts
  <2> QED
    BY <1>1, <1>2, <2>1 DEF SlotInv, QueueItems
<1>4. OnePlacePerUser'
  BY <1>1 DEF SlotInv, OnePlacePerUser
<1> QED
  BY <1>3, <1>4, WaitCore DEF SlotCore

LEMMA RejoinCore ==
  ASSUME SlotInv, AllNamed, NEW m \in Msgs, Rejoin(m)
  PROVE  SlotCore'
<1> DEFINE s == ScopeOf(m)
<1>1. s \in Scopes /\ slots \in [Scopes -> Slot]
  BY ScopeOfMsg DEF SlotInv, TypeInv, TypeOK
<1>2. PICK i \in DOMAIN slots[s].queue :
        /\ slots[s].queue[i].openID = Author[m]
        /\ slots' = [slots EXCEPT ![s].queue[i] = Joined(@, m)]
        /\ Decide(m, "queued", i)
  BY DEF Rejoin, SlotOf
<1>3. slots[s].queue \in Seq(Item)
  BY <1>1 DEF Slot
<1>4. slots[s].queue[i] \in Item
  BY <1>2, <1>3, ElementOfSeq, LenProperties
<1> DEFINE it == Joined(slots[s].queue[i], m)
<1>5. it.openID = Author[m] /\ it.payload = m
  BY <1>2, <1>4 DEF Joined, Item
<1> HIDE DEF it
<1>6. slots' = [slots EXCEPT ![s].queue[i] = it]
  BY <1>2 DEF it
<1>7. /\ \A t \in Scopes : slots'[t].busy = slots[t].busy
      /\ \A t \in Scopes : t # s => slots'[t].queue = slots[t].queue
      /\ slots'[s].queue = [slots[s].queue EXCEPT ![i] = it]
  BY <1>1, <1>6 DEF Slot
<1>8. /\ DOMAIN slots'[s].queue = DOMAIN slots[s].queue
      /\ slots'[s].queue[i] = it
      /\ \A k \in DOMAIN slots[s].queue : k # i => slots'[s].queue[k] = slots[s].queue[k]
  BY <1>2, <1>3, <1>7, LenProperties
<1>9. /\ result[m] = "none" /\ job' = job /\ result'[m] = "queued"
      /\ \A x \in Msgs : x # m => result'[x] = result[x]
  BY <1>2 DEF Rejoin, Decide, SlotInv, TypeInv, TypeOK
<1>10. job[m].pc = "idle"
  BY <1>9, UndecidedFacts
<1>11. \A t \in Scopes : \A k \in DOMAIN slots[t].queue :
          slots[t].queue[k].payload \in Msgs /\ slots[t].queue[k].payload # m
  BY <1>9, WaiterFacts
<1>12. QueueItems'
  BY <1>5, <1>7, <1>8, <1>9, <1>10, <1>11 DEF SlotInv, QueueItems
<1>13. \A k \in DOMAIN slots[s].queue :
         slots'[s].queue[k].openID = slots[s].queue[k].openID
  BY <1>2, <1>5, <1>8
<1>14. slots[s].queue # <<>> => slots[s].busy # NoID
  BY <1>1 DEF SlotInv, OnePlacePerUser
<1>15. slots[s].queue # <<>>
  BY <1>2, <1>3, EmptySeq, LenProperties
<1>16. OnePlacePerUser'
  BY <1>7, <1>8, <1>13, <1>14, <1>15 DEF SlotInv, OnePlacePerUser
<1> QED
  BY <1>12, <1>16, WaitCore DEF SlotCore

LEMMA EnqueueCore ==
  ASSUME SlotInv, AllNamed, NEW m \in Msgs, Enqueue(m)
  PROVE  SlotCore'
<1> DEFINE s == ScopeOf(m)
           q == slots[s].queue
           it == [openID |-> Author[m], content |-> {m}, payload |-> m]
<1>1. s \in Scopes /\ slots \in [Scopes -> Slot] /\ Author[m] \in Senders
  BY ScopeOfMsg DEF SlotInv, TypeInv, TypeOK
<1>2. q \in Seq(Item)
  BY <1>1 DEF Slot
<1>3. it \in Item /\ it.openID = Author[m] /\ it.payload = m
  BY <1>1 DEF Item
<1>4. slots' = [slots EXCEPT ![s].queue = Append(@, it)]
  BY DEF Enqueue
<1> HIDE DEF it
<1>5. /\ \A t \in Scopes : slots'[t].busy = slots[t].busy
      /\ \A t \in Scopes : t # s => slots'[t].queue = slots[t].queue
      /\ slots'[s].queue = Append(q, it)
  BY <1>1, <1>4 DEF Slot
<1>6. Len(q) \in Nat /\ DOMAIN q = 1 .. Len(q)
  BY <1>2, LenProperties
<1>7. /\ Append(q, it) \in Seq(Item) /\ Len(Append(q, it)) = Len(q) + 1
      /\ \A i \in 1 .. Len(q) : Append(q, it)[i] = q[i]
      /\ Append(q, it)[Len(q) + 1] = it
  BY <1>2, <1>3, AppendProperties
<1>8. DOMAIN Append(q, it) = 1 .. Len(q) + 1
  BY <1>7, LenProperties
<1>9. \A i \in DOMAIN slots'[s].queue :
        \/ i \in DOMAIN q /\ slots'[s].queue[i] = q[i]
        \/ i = Len(q) + 1 /\ slots'[s].queue[i] = it
  BY <1>5, <1>6, <1>7, <1>8
<1>10. /\ result[m] = "none" /\ job' = job /\ result'[m] = "queued"
       /\ \A x \in Msgs : x # m => result'[x] = result[x]
  BY DEF Enqueue, Decide, SlotInv, TypeInv, TypeOK
<1>11. job[m].pc = "idle"
  BY <1>10, UndecidedFacts
<1>12. \A t \in Scopes : \A k \in DOMAIN slots[t].queue :
          slots[t].queue[k].payload \in Msgs /\ slots[t].queue[k].payload # m
  BY <1>10, WaiterFacts
<1>13. QueueItems'
  <2> SUFFICES ASSUME NEW t \in Scopes, NEW i \in DOMAIN slots'[t].queue
               PROVE  LET e == slots'[t].queue[i] IN
                        /\ result'[e.payload] = "queued" /\ Author[e.payload] = e.openID
                        /\ ScopeOf(e.payload) = t /\ job'[e.payload].pc = "idle"
    BY DEF QueueItems
  <2>1. CASE i \in DOMAIN slots[t].queue /\ slots'[t].queue[i] = slots[t].queue[i]
    BY <1>10, <1>12, <2>1, WaiterFacts
  <2>2. CASE t = s /\ slots'[t].queue[i] = it
    BY <1>3, <1>10, <1>11, <2>2
  <2> QED
    BY <1>5, <1>9, <2>1, <2>2
<1>14. /\ slots[s].busy # NoID /\ slots[s].busy # Author[m]
       /\ \A i \in DOMAIN q : q[i].openID # Author[m]
  BY DEF Enqueue, SlotOf
<1>15. \A i \in DOMAIN slots'[s].queue :
         /\ slots'[s].queue[i].openID # slots[s].busy
         /\ \A k \in DOMAIN slots'[s].queue :
              slots'[s].queue[i].openID = slots'[s].queue[k].openID => i = k
  BY <1>1, <1>3, <1>9, <1>14 DEF SlotInv, OnePlacePerUser
<1>16. OnePlacePerUser'
  BY <1>1, <1>5, <1>14, <1>15 DEF SlotInv, OnePlacePerUser
<1> QED
  BY <1>13, <1>16, WaitCore DEF SlotCore

LEMMA AnswerCore ==
  ASSUME SlotInv, AllNamed, NEW m \in Msgs, Answer(m)
  PROVE  SlotCore'
<1>1. /\ slots' = slots /\ cancelled' = cancelled /\ result' = result
      /\ m \notin acked /\ acked' = acked \cup {m} /\ result[m] # "none"
  BY DEF Answer, AckAccepted, AckMerged, AckQueued
<1>2. \/ job' = job /\ result[m] # "accepted"
      \/ /\ result[m] = "accepted"
         /\ job' = [job EXCEPT ![m] = [NoJob EXCEPT !.pc = "dispatch", !.content = {m}]]
  BY DEF Answer, AckAccepted, AckMerged, AckQueued, Launch
<1>3. job \in [Msgs -> Job]
  BY DEF SlotInv, TypeInv, TypeOK
<1>4. \A x \in Msgs : x # m \/ result[m] # "accepted" => job'[x] = job[x]
  BY <1>2, <1>3
<1>5. result[m] = "accepted" => job'[m].pc = "dispatch"
  BY <1>2, <1>3 DEF NoJob
<1>6. result[m] = "accepted" => job[m].pc = "idle"
  BY <1>1 DEF SlotInv, BegunJobs
<1>7. \A x \in Msgs : job'[x].pc = "notify" => job'[x] = job[x]
  BY <1>4, <1>5
<1>8. \A x \in Msgs : job[x].pc = "notify" => job'[x] = job[x]
  BY <1>4, <1>6
<1>9. \A x \in Msgs : Holds(x)' <=> Holds(x)
  BY <1>1, <1>4, <1>5, <1>6, <1>7, <1>8 DEF Holds, InLoop
<1>10. \A x \in Msgs : result[x] = "queued" => job'[x] = job[x]
  BY <1>4
<1>11. BegunJobs'
  BY <1>1, <1>4 DEF SlotInv, BegunJobs
<1>12. AckedDecided'
  BY <1>1 DEF SlotInv, AckedDecided
<1>13. QueueItems'
  <2>1. \A s \in Scopes : \A i \in DOMAIN slots[s].queue :
          slots[s].queue[i].payload \in Msgs
    BY WaiterFacts
  <2> QED
    BY <1>1, <1>10, <2>1 DEF SlotInv, QueueItems
<1>14. HandOvers'
  BY <1>1, <1>7, <1>10 DEF SlotInv, HandOvers
<1>15. \A x \in Msgs : job[x].pc # "idle" => job'[x].pc # "idle"
  BY <1>4, <1>6
<1> QED
  BY <1>1, <1>9, <1>11, <1>12, <1>13, <1>14, <1>15, QuietStep DEF SlotCore

\* A job moves on without leaving its loop, or sends a notice.
LEMMA ProgressCore ==
  ASSUME SlotInv, AllNamed, NEW j \in Msgs,
         Dispatch(j) \/ RunEnd(j) \/ Reply(j) \/ DrainExtra(j) \/ Notify(j)
  PROVE  SlotCore'
<1> DEFINE Loop == {"dispatch", "running", "reply", "drain", "finish"}
<1>1. /\ cancelled' = cancelled /\ result' = result /\ acked' = acked
      /\ \A x \in Msgs : x # j => job'[x] = job[x]
      /\ \/ job[j].pc \in Loop /\ job'[j].pc \in Loop
         \/ job[j].pc = "notify" /\ job'[j].pc = "notify"
      /\ job'[j].next = job[j].next
  <2>1. job \in [Msgs -> Job] /\ job[j] \in Job
    BY DEF SlotInv, TypeInv, TypeOK
  <2>2. CASE Dispatch(j)
    BY <2>1, <2>2 DEF Dispatch, Job
  <2>3. CASE RunEnd(j)
    BY <2>1, <2>3 DEF RunEnd, Job
  <2>4. CASE Reply(j)
    BY <2>1, <2>4 DEF Reply, Job
  <2>5. CASE DrainExtra(j)
    BY <2>1, <2>5 DEF DrainExtra, Job
  <2>6. CASE Notify(j)
    BY <2>1, <2>6 DEF Notify, Job
  <2> QED
    BY <2>2, <2>3, <2>4, <2>5, <2>6
<1>2. \A s \in Scopes : /\ slots'[s].busy = slots[s].busy
                        /\ slots'[s].queue = slots[s].queue
                        /\ slots'[s].ctx = slots[s].ctx
                        /\ slots'[s].cancel = slots[s].cancel
  <2>1. CASE slots' = slots
    BY <2>1
  <2>2. CASE slots' = [slots EXCEPT ![ScopeOf(j)].extra = {}]
    BY <2>2, ScopeOfMsg DEF SlotInv, TypeInv, TypeOK, Slot
  <2> QED
    BY <2>1, <2>2 DEF Dispatch, RunEnd, Reply, DrainExtra, Notify
<1>3. /\ \A x \in Msgs : job'[x].pc = "idle" <=> job[x].pc = "idle"
      /\ \A x \in Msgs : job'[x].pc = "notify" <=> job[x].pc = "notify"
      /\ \A x \in Msgs : job'[x].next = job[x].next
      /\ \A x \in Msgs : InLoop(x)' <=> InLoop(x)
  BY <1>1 DEF InLoop
<1>4. \A x \in Msgs : Holds(x)' <=> Holds(x)
  BY <1>1, <1>3 DEF Holds
<1>5. \A s \in Scopes : Holders(s)' = Holders(s)
  BY <1>4 DEF Holders
<1>6. BegunJobs' /\ AckedDecided'
  BY <1>1, <1>3 DEF SlotInv, BegunJobs, AckedDecided
<1>7. QueueItems'
  <2>1. \A s \in Scopes : \A i \in DOMAIN slots[s].queue :
          slots[s].queue[i].payload \in Msgs
    BY WaiterFacts
  <2> QED
    BY <1>1, <1>2, <1>3, <2>1 DEF SlotInv, QueueItems
<1>8. HandOvers'
  BY <1>1, <1>3 DEF SlotInv, HandOvers
<1>9. CancelledContexts'
  BY <1>1, <1>3, <1>4 DEF SlotInv, CancelledContexts, TypeInv, TypeOK
<1>10. IdleSlots' /\ OnePlacePerUser'
  BY <1>2 DEF SlotInv, IdleSlots, OnePlacePerUser
<1>11. OneRunnerPerScope' /\ StopReachesTheRunner'
  BY <1>1, <1>2, <1>5 DEF SlotInv, OneRunnerPerScope, StopReachesTheRunner
<1> QED
  BY <1>6, <1>7, <1>8, <1>9, <1>10, <1>11 DEF SlotCore

\* The slot of a job that comes to its end names the job's author, and the job
\* is the only one to hold it: Finish never meets a foreign slot.
LEMMA FinisherFacts ==
  ASSUME SlotInv, NEW j \in Msgs, job[j].pc = "finish"
  PROVE  /\ Holders(ScopeOf(j)) = {j}
         /\ slots[ScopeOf(j)].busy = Author[j]
         /\ slots[ScopeOf(j)].busy # NoID
         /\ \A k \in Msgs : job[k].pc = "notify" => job[k].next.payload # j
<1>1. Holds(j)
  BY DEF Holds, InLoop
<1>2. \A k \in Msgs : job[k].pc = "notify" => job[k].next.payload # j
  BY DEF SlotInv, HandOvers
<1> QED
  BY <1>1, <1>2, HolderFacts

LEMMA FinishIdleCore ==
  ASSUME SlotInv, AllNamed, NEW j \in Msgs, FinishIdle(j)
  PROVE  SlotCore'
<1> DEFINE s == ScopeOf(j)
<1>1. /\ s \in Scopes /\ slots \in [Scopes -> Slot] /\ job \in [Msgs -> Job]
      /\ job[j] \in Job
  BY ScopeOfMsg DEF SlotInv, TypeInv, TypeOK
<1>2. /\ cancelled' = cancelled /\ result' = result /\ acked' = acked
      /\ job[j].pc = "finish" /\ job'[j].pc = "done"
      /\ \A x \in Msgs : x # j => job'[x] = job[x]
  BY <1>1 DEF FinishIdle, Job
<1>3. /\ slots'[s] = IdleSlot
      /\ \A t \in Scopes : t # s => slots'[t] = slots[t]
  BY <1>1 DEF FinishIdle
<1>4. /\ Holders(s) = {j}
      /\ \A k \in Msgs : job[k].pc = "notify" => job[k].next.payload # j
  BY <1>2, FinisherFacts
<1>5. ~(result[j] = "accepted" /\ j \notin acked)
  BY <1>2 DEF SlotInv, BegunJobs
<1>6. \A x \in Msgs : Holds(x)' <=> Holds(x) /\ x # j
  BY <1>2, <1>4, <1>5 DEF Holds, InLoop
<1>7. Holders(s)' = {} /\ \A t \in Scopes : t # s => Holders(t)' = Holders(t)
  BY <1>4, <1>6 DEF Holders
<1>8. BegunJobs' /\ AckedDecided'
  BY <1>2 DEF SlotInv, BegunJobs, AckedDecided
<1>9. QueueItems'
  <2>1. \A t \in Scopes : \A i \in DOMAIN slots[t].queue :
          slots[t].queue[i].payload \in Msgs /\ slots[t].queue[i].payload # j
    BY <1>2, WaiterFacts
  <2>2. DOMAIN slots'[s].queue = {}
    BY <1>3 DEF IdleSlot
  <2> QED
    BY <1>2, <1>3, <2>1, <2>2 DEF SlotInv, QueueItems
<1>10. HandOvers'
  BY <1>2, <1>4 DEF SlotInv, HandOvers
<1>11. CancelledContexts'
  BY <1>2, <1>6 DEF SlotInv, CancelledContexts, TypeInv, TypeOK
<1>12. IdleSlots'
  BY <1>3 DEF SlotInv, IdleSlots, IdleSlot
<1>13. OneRunnerPerScope'
  BY <1>3, <1>7 DEF SlotInv, OneRunnerPerScope, IdleSlot
<1>14. OnePlacePerUser'
  BY <1>3 DEF SlotInv, OnePlacePerUser, IdleSlot
<1>15. StopReachesTheRunner'
  BY <1>2, <1>3, <1>7 DEF SlotInv, StopReachesTheRunner, IdleSlot
<1> QED
  BY <1>8, <1>9, <1>10, <1>11, <1>12, <1>13, <1>14, <1>15 DEF SlotCore

LEMMA FinishNextCore ==
  ASSUME SlotInv, AllNamed, NEW j \in Msgs, FinishNext(j)
  PROVE  SlotCore'
<1> DEFINE s == ScopeOf(j)
           q == slots[s].queue
           next == Head(q)
           rest == Tail(q)
<1>1. /\ s \in Scopes /\ slots \in [Scopes -> Slot] /\ job \in [Msgs -> Job]
      /\ job[j] \in Job
  BY ScopeOfMsg DEF SlotInv, TypeInv, TypeOK
<1>2. q \in Seq(Item) /\ q # <<>>
  BY <1>1 DEF FinishNext, SlotOf, Slot
<1>3. /\ Len(q) \in Nat /\ Len(q) > 0 /\ DOMAIN q = 1 .. Len(q)
      /\ 1 \in DOMAIN q /\ next = q[1]
  BY <1>2, EmptySeq, LenProperties
<1>4. /\ rest \in Seq(Item) /\ Len(rest) = Len(q) - 1
      /\ \A i \in 1 .. Len(rest) : rest[i] = q[i + 1]
  BY <1>2, HeadTailProperties
<1>5. DOMAIN rest = 1 .. Len(q) - 1
  BY <1>4, LenProperties
<1>6. \A i \in DOMAIN rest : i + 1 \in DOMAIN q /\ i + 1 # 1 /\ rest[i] = q[i + 1]
  BY <1>3, <1>4, <1>5
<1>7. PICK p \in Msgs : next.payload = p
  BY <1>1, <1>3, WaiterFacts
<1>8. /\ ~Holds(p) /\ p \notin cancelled /\ result[p] = "queued"
      /\ job[p].pc = "idle" /\ ScopeOf(p) = s /\ Author[p] = next.openID
  BY <1>1, <1>3, <1>7, WaiterFacts
<1>9. next.openID # NoID
  BY <1>8 DEF AllNamed
<1>10. job' = [job EXCEPT ![j].pc = "notify", ![j].next = next,
                         ![j].notices = NoticesFor(rest)]
  BY DEF FinishNext, SlotOf
<1>11. slots' = [slots EXCEPT ![s] =
                   [busy |-> next.openID, extra |-> {}, queue |-> rest,
                    ctx |-> p, cancel |-> TRUE]]
  BY <1>7 DEF FinishNext, SlotOf
<1>12. cancelled' = cancelled /\ result' = result /\ acked' = acked /\ job[j].pc = "finish"
  BY DEF FinishNext
<1> HIDE DEF next, rest
<1>13. /\ job'[j].pc = "notify" /\ job'[j].next = next
       /\ \A x \in Msgs : x # j => job'[x] = job[x]
  BY <1>1, <1>10 DEF Job
<1>14. /\ slots'[s].busy = next.openID /\ slots'[s].queue = rest
       /\ slots'[s].ctx = p /\ slots'[s].cancel = TRUE
       /\ \A t \in Scopes : t # s => slots'[t] = slots[t]
  BY <1>1, <1>11
<1>15. /\ Holders(s) = {j}
       /\ \A k \in Msgs : job[k].pc = "notify" => job[k].next.payload # j
  BY <1>12, FinisherFacts
<1>16. \A k \in Msgs : job[k].pc = "notify" => job[k].next.payload # p
  BY <1>8 DEF Holds
<1>17. ~(result[j] = "accepted" /\ j \notin acked)
  BY <1>12 DEF SlotInv, BegunJobs
<1>18. \A x \in Msgs : Holds(x)' <=> (Holds(x) /\ x # j) \/ x = p
  <2>1. Holds(p)'
    BY <1>13, <1>7 DEF Holds
  <2>2. ~Holds(j)'
    BY <1>8, <1>12, <1>13, <1>15, <1>17, <1>7 DEF Holds, InLoop
  <2>3. ASSUME NEW x \in Msgs, x # j, x # p PROVE Holds(x)' <=> Holds(x)
    BY <1>12, <1>13, <1>7, <2>3 DEF Holds, InLoop
  <2>4. p # j
    BY <1>8, <1>12
  <2> QED
    BY <2>1, <2>2, <2>3, <2>4
<1>19. Holders(s)' = {p} /\ \A t \in Scopes : t # s => Holders(t)' = Holders(t)
  BY <1>8, <1>15, <1>18 DEF Holders
<1>20. BegunJobs' /\ AckedDecided'
  BY <1>12, <1>13 DEF SlotInv, BegunJobs, AckedDecided
<1>21. QueueItems'
  <2>1. \A t \in Scopes : \A i \in DOMAIN slots[t].queue :
          slots[t].queue[i].payload \in Msgs /\ slots[t].queue[i].payload # j
    BY <1>12, WaiterFacts
  <2> SUFFICES ASSUME NEW t \in Scopes, NEW i \in DOMAIN slots'[t].queue
               PROVE  LET e == slots'[t].queue[i] IN
                        /\ result'[e.payload] = "queued" /\ Author[e.payload] = e.openID
                        /\ ScopeOf(e.payload) = t /\ job'[e.payload].pc = "idle"
    BY DEF QueueItems
  <2>2. PICK k \in DOMAIN slots[t].queue : slots'[t].queue[i] = slots[t].queue[k]
    BY <1>6, <1>14
  <2> QED
    BY <1>12, <1>13, <2>1, <2>2, WaiterFacts
<1>22. HandOvers'
  BY <1>8, <1>12, <1>13, <1>15, <1>16, <1>7 DEF SlotInv, HandOvers
<1>23. CancelledContexts'
  BY <1>8, <1>12, <1>13, <1>18 DEF SlotInv, CancelledContexts, TypeInv, TypeOK
<1>24. IdleSlots'
  BY <1>9, <1>14 DEF SlotInv, IdleSlots
<1>25. OneRunnerPerScope'
  BY <1>8, <1>9, <1>14, <1>19 DEF SlotInv, OneRunnerPerScope
<1>26. \A i \in DOMAIN rest :
         /\ rest[i].openID # next.openID
         /\ \A k \in DOMAIN rest : rest[i].openID = rest[k].openID => i = k
  <2>1. \A i, k \in DOMAIN q : q[i].openID = q[k].openID => i = k
    BY <1>1 DEF SlotInv, OnePlacePerUser
  <2>2. \A i, k \in DOMAIN rest : i + 1 = k + 1 => i = k
    BY <1>3, <1>5
  <2>3. \A i, k \in DOMAIN rest : rest[i].openID = rest[k].openID => i = k
    BY <1>6, <2>1, <2>2
  <2>4. \A i \in DOMAIN rest : rest[i].openID # q[1].openID
    BY <1>3, <1>6, <2>1
  <2> QED
    BY <1>3, <2>3, <2>4
<1>27. OnePlacePerUser'
  BY <1>9, <1>14, <1>26 DEF SlotInv, OnePlacePerUser
<1>28. StopReachesTheRunner'
  BY <1>8, <1>12, <1>14, <1>19 DEF SlotInv, StopReachesTheRunner
<1> QED
  BY <1>20, <1>21, <1>22, <1>23, <1>24, <1>25, <1>27, <1>28 DEF SlotCore

LEMMA HandOverCore ==
  ASSUME SlotInv, AllNamed, NEW j \in Msgs, HandOver(j)
  PROVE  SlotCore'
<1>1. /\ job \in [Msgs -> Job] /\ job[j] \in Job
      /\ slots' = slots /\ cancelled' = cancelled /\ result' = result /\ acked' = acked
      /\ job[j].pc = "notify"
  BY DEF HandOver, SlotInv, TypeInv, TypeOK
<1>2. PICK p \in Msgs : job[j].next.payload = p
  BY <1>1 DEF SlotInv, HandOvers
<1>3. /\ result[p] = "queued" /\ job[p].pc = "idle"
      /\ \A k \in Msgs : job[k].pc = "notify" /\ job[k].next.payload = p => k = j
  BY <1>1, <1>2 DEF SlotInv, HandOvers
<1>4. p # j
  BY <1>1, <1>3
<1>5. /\ job'[j].pc = "done" /\ job'[p].pc = "dispatch"
      /\ \A x \in Msgs : x # j /\ x # p => job'[x] = job[x]
  BY <1>1, <1>2, <1>4 DEF HandOver, Job, NoJob
<1>6. \A k \in Msgs : job[k].pc = "notify" => job[k].next.payload # j
  BY <1>1 DEF SlotInv, HandOvers
<1>7. ~(result[j] = "accepted" /\ j \notin acked)
  BY <1>1 DEF SlotInv, BegunJobs
<1>8. \A x \in Msgs : Holds(x)' <=> Holds(x)
  <2>1. Holds(p) /\ Holds(p)'
    BY <1>1, <1>2, <1>5 DEF Holds, InLoop
  <2>2. ~Holds(j) /\ ~Holds(j)'
    BY <1>1, <1>5, <1>6, <1>7 DEF Holds, InLoop
  <2>3. ASSUME NEW x \in Msgs, x # j, x # p PROVE Holds(x)' <=> Holds(x)
    BY <1>1, <1>2, <1>3, <1>5, <2>3 DEF Holds, InLoop
  <2> QED
    BY <2>1, <2>2, <2>3
<1>9. BegunJobs' /\ AckedDecided'
  BY <1>1, <1>3, <1>5 DEF SlotInv, BegunJobs, AckedDecided
<1>10. QueueItems'
  <2>1. Holds(p)
    BY <1>1, <1>2 DEF Holds
  <2>2. \A s \in Scopes : \A i \in DOMAIN slots[s].queue :
          /\ slots[s].queue[i].payload \in Msgs
          /\ slots[s].queue[i].payload # j /\ slots[s].queue[i].payload # p
    BY <1>1, <2>1, WaiterFacts
  <2> QED
    BY <1>1, <1>5, <2>2 DEF SlotInv, QueueItems
<1>11. HandOvers'
  BY <1>1, <1>3, <1>5, <1>6 DEF SlotInv, HandOvers
<1>12. \A x \in Msgs : job[x].pc # "idle" => job'[x].pc # "idle"
  BY <1>3, <1>5
<1> QED
  BY <1>1, <1>8, <1>9, <1>10, <1>11, <1>12, QuietStep DEF SlotCore

LEMMA FinishForeignNever ==
  ASSUME SlotInv, NEW j \in Msgs, FinishForeign(j)
  PROVE  FALSE
BY FinisherFacts DEF FinishForeign, SlotOf

LEMMA StopCore ==
  ASSUME SlotInv, AllNamed, NEW u \in Stoppers, Stop(u)
  PROVE  SlotCore'
<1> DEFINE s == Scope(u)
<1>1. s \in Scopes /\ slots \in [Scopes -> Slot]
  <2>1. u \in Senders
    BY JobQueueAssumption
  <2> QED
    BY <2>1, ScopeOfSender DEF SlotInv, TypeInv, TypeOK
<1>2. /\ job' = job /\ result' = result /\ acked' = acked /\ slots[s].cancel
      /\ cancelled' = cancelled \cup {slots[s].ctx}
      /\ slots' = [slots EXCEPT ![s].cancel = FALSE]
  BY DEF Stop
<1>3. /\ \A t \in Scopes : /\ slots'[t].busy = slots[t].busy
                           /\ slots'[t].queue = slots[t].queue
                           /\ slots'[t].ctx = slots[t].ctx
      /\ \A t \in Scopes : t # s => slots'[t].cancel = slots[t].cancel
      /\ ~slots'[s].cancel
  BY <1>1, <1>2 DEF Slot
<1>4. slots[s].busy # NoID
  BY <1>1, <1>2 DEF SlotInv, IdleSlots
<1>5. slots[s].ctx \in Holders(s)
  BY <1>1, <1>4 DEF SlotInv, StopReachesTheRunner
<1>6. Holds(slots[s].ctx) /\ slots[s].ctx \in Msgs /\ ScopeOf(slots[s].ctx) = s
  BY <1>5 DEF Holders
<1>7. \A x \in Msgs : Holds(x)' <=> Holds(x)
  BY <1>2 DEF Holds, InLoop
<1>8. \A t \in Scopes : Holders(t)' = Holders(t)
  BY <1>7 DEF Holders
<1>9. BegunJobs' /\ AckedDecided' /\ HandOvers'
  BY <1>2 DEF SlotInv, BegunJobs, AckedDecided, HandOvers
<1>10. QueueItems' /\ OnePlacePerUser'
  BY <1>2, <1>3 DEF SlotInv, QueueItems, OnePlacePerUser
<1>11. CancelledContexts'
  BY <1>2, <1>6, <1>7 DEF SlotInv, CancelledContexts, TypeInv, TypeOK
<1>12. IdleSlots'
  BY <1>3 DEF SlotInv, IdleSlots
<1>13. OneRunnerPerScope'
  BY <1>3, <1>8 DEF SlotInv, OneRunnerPerScope
<1>14. \A t \in Scopes : t # s /\ slots[t].busy # NoID => slots[t].ctx # slots[s].ctx
  BY <1>6 DEF SlotInv, StopReachesTheRunner, Holders
<1>15. StopReachesTheRunner'
  BY <1>2, <1>3, <1>8, <1>14 DEF SlotInv, StopReachesTheRunner
<1> QED
  BY <1>9, <1>10, <1>11, <1>12, <1>13, <1>15 DEF SlotCore

LEMMA InitCore == Init => SlotCore
<1> SUFFICES ASSUME Init PROVE SlotCore
  OBVIOUS
<1>1. \A m \in Msgs : job[m].pc = "idle" /\ result[m] = "none" /\ m \notin acked
  BY DEF Init, NoJob
<1>2. \A m \in Msgs : ~Holds(m)
  BY <1>1 DEF Holds, InLoop
<1>3. \A s \in Scopes : /\ slots[s].busy = NoID /\ ~slots[s].cancel
                        /\ slots[s].queue = <<>> /\ DOMAIN slots[s].queue = {}
  BY DEF Init, IdleSlot
<1>4. BegunJobs /\ AckedDecided /\ QueueItems /\ HandOvers
  BY <1>1, <1>3 DEF BegunJobs, AckedDecided, QueueItems, HandOvers, Init
<1>5. CancelledContexts /\ IdleSlots /\ OneRunnerPerScope
  BY <1>2, <1>3 DEF CancelledContexts, IdleSlots, OneRunnerPerScope, Holders, Init
<1>6. OnePlacePerUser /\ StopReachesTheRunner
  BY <1>3 DEF OnePlacePerUser, StopReachesTheRunner
<1> QED
  BY <1>4, <1>5, <1>6 DEF SlotCore

LEMMA NextSlotInv ==
  ASSUME AllNamed, SlotInv, [Next]_vars
  PROVE  SlotInv'
<1> SUFFICES SlotCore'
  BY NextTypeInv DEF SlotInv, SlotCore
<1>1. ASSUME NEW m \in Msgs, Arrive(m) PROVE SlotCore'
  BY <1>1, AcceptCore, MergeCore, RejoinCore, EnqueueCore DEF Arrive
<1>2. ASSUME NEW m \in Msgs, Answer(m) PROVE SlotCore'
  BY <1>2, AnswerCore
<1>3. ASSUME NEW j \in Msgs, RunJob(j) PROVE SlotCore'
  BY <1>3, ProgressCore, FinishForeignNever, FinishIdleCore, FinishNextCore,
     HandOverCore DEF RunJob, Finish
<1>4. ASSUME NEW u \in Stoppers, Stop(u) PROVE SlotCore'
  BY <1>4, StopCore
<1>5. CASE UNCHANGED vars
  <2>1. \A x \in Msgs : Holds(x)' <=> Holds(x)
    BY <1>5 DEF vars, Holds, InLoop
  <2>2. BegunJobs' /\ AckedDecided' /\ QueueItems' /\ HandOvers'
    BY <1>5 DEF vars, SlotInv, BegunJobs, AckedDecided, QueueItems, HandOvers
  <2> QED
    BY <1>5, <2>1, <2>2, QuietStep DEF vars, SlotCore
<1> QED
  BY <1>1, <1>2, <1>3, <1>4, <1>5 DEF Next

LEMMA SlotInvHolds ==
  ASSUME AllNamed
  PROVE  Spec => []SlotInv
<1>1. Init => SlotInv
  BY InitTypeInv, InitCore DEF SlotInv, SlotCore
<1>2. SlotInv /\ [Next]_vars => SlotInv'
  BY NextSlotInv
<1> QED
  BY <1>1, <1>2, PTL DEF Spec

-----------------------------------------------------------------------------
(* What the invariant shows, for every set of messages and users with openIDs *)

\* One goroutine answers for a busy scope, and works for the user the slot
\* names; nobody answers for an idle one (jobs.go, busyOpenID).
THEOREM OneRunner ==
  ASSUME AllNamed
  PROVE  Spec => []OneRunnerPerScope
<1>1. SlotInv => OneRunnerPerScope
  BY DEF SlotInv
<1> QED
  BY <1>1, SlotInvHolds, PTL

\* Two jobs of a scope never run side by side: the channel is serialized
\* (jobs.go, UseChannelQueue), as long as every sender has an openID.
THEOREM Serialized ==
  ASSUME AllNamed
  PROVE  Spec => []ChannelSerialized
<1>1. SlotInv => ChannelSerialized
  <2> SUFFICES ASSUME SlotInv, NEW a \in Msgs, NEW b \in Msgs,
                      InLoop(a), InLoop(b), ScopeOf(a) = ScopeOf(b)
               PROVE  a = b
    BY DEF ChannelSerialized
  <2>1. Holds(a) /\ Holds(b)
    BY DEF Holds
  <2>2. Holders(ScopeOf(a)) = {a} /\ Holders(ScopeOf(a)) = {b}
    BY <2>1, HolderFacts
  <2> QED
    BY <2>2
<1> QED
  BY <1>1, SlotInvHolds, PTL

\* A user runs or waits in one place of a scope (TryAccept).
THEOREM OnePlace ==
  ASSUME AllNamed
  PROVE  Spec => []OnePlacePerUser
<1>1. SlotInv => OnePlacePerUser
  BY DEF SlotInv
<1> QED
  BY <1>1, SlotInvHolds, PTL

\* The context a stop cancels is that of the job that holds the scope (Cancel).
THEOREM StopReaches ==
  ASSUME AllNamed
  PROVE  Spec => []StopReachesTheRunner
<1>1. SlotInv => StopReachesTheRunner
  BY DEF SlotInv
<1> QED
  BY <1>1, SlotInvHolds, PTL

-----------------------------------------------------------------------------
(* Where the messages are *)

InExtra(m) == m \in SlotOf(m).extra

Texts == Prompts /\ QueuedTexts /\ ExtraTexts /\ RepliedTexts

\* Whatever is in hand has a goroutine that holds its scope.
LEMMA HandHeld ==
  ASSUME SlotInv, Prompts, NEW m \in Msgs, InHand(m)
  PROVE  \E h \in Msgs : Holds(h) /\ ScopeOf(h) = ScopeOf(m)
<1>1. CASE result[m] = "accepted" /\ m \notin acked
  BY <1>1 DEF Holds
<1>2. CASE \E j \in Msgs : /\ job[j].pc \in {"dispatch", "running", "reply"}
                           /\ m \in job[j].content
  BY <1>2 DEF Holds, InLoop, Prompts
<1>3. CASE \E j \in Msgs : job[j].pc = "notify" /\ m \in job[j].next.content
  <2>1. PICK j \in Msgs : job[j].pc = "notify" /\ m \in job[j].next.content
    BY <1>3
  <2>2. ScopeOf(m) = ScopeOf(j)
    BY <2>1 DEF Prompts
  <2>3. PICK p \in Msgs : p = job[j].next.payload /\ ScopeOf(p) = ScopeOf(j)
    BY <2>1 DEF SlotInv, HandOvers
  <2> QED
    BY <2>1, <2>2, <2>3 DEF Holds
<1> QED
  BY <1>1, <1>2, <1>3 DEF InHand

LEMMA IdleHand ==
  ASSUME SlotInv, Prompts, NEW m \in Msgs, slots[ScopeOf(m)].busy = NoID
  PROVE  ~InHand(m)
<1> SUFFICES ASSUME InHand(m) PROVE FALSE
  OBVIOUS
<1>1. PICK h \in Msgs : Holds(h) /\ ScopeOf(h) = ScopeOf(m)
  BY HandHeld
<1> QED
  BY <1>1, HolderFacts

\* While a job is in its loop, its prompt is all that is in hand in its scope.
LEMMA LoopHand ==
  ASSUME SlotInv, Prompts, NEW j \in Msgs, InLoop(j),
         NEW m \in Msgs, InHand(m), ScopeOf(m) = ScopeOf(j)
  PROVE  job[j].pc \in {"dispatch", "running", "reply"} /\ m \in job[j].content
<1>1. Holds(j) /\ Holders(ScopeOf(j)) = {j}
  BY HolderFacts DEF Holds
<1>2. \A h \in Msgs : Holds(h) /\ ScopeOf(h) = ScopeOf(j) => h = j
  BY <1>1 DEF Holders
<1>3. job[j].pc # "idle" /\ job[j].pc # "notify"
  BY DEF InLoop
<1>4. CASE result[m] = "accepted" /\ m \notin acked
  <2>1. m = j
    BY <1>2, <1>4 DEF Holds
  <2> QED
    BY <1>3, <1>4, <2>1 DEF SlotInv, BegunJobs
<1>5. CASE \E k \in Msgs : /\ job[k].pc \in {"dispatch", "running", "reply"}
                           /\ m \in job[k].content
  <2>1. PICK k \in Msgs : /\ job[k].pc \in {"dispatch", "running", "reply"}
                          /\ m \in job[k].content
    BY <1>5
  <2>2. InLoop(k)
    BY <2>1 DEF InLoop
  <2>3. ScopeOf(m) = ScopeOf(k)
    BY <2>1, <2>2 DEF Prompts
  <2>4. k = j
    BY <1>2, <2>2, <2>3 DEF Holds
  <2> QED
    BY <2>1, <2>4
<1>6. CASE \E k \in Msgs : job[k].pc = "notify" /\ m \in job[k].next.content
  <2>1. PICK k \in Msgs : job[k].pc = "notify" /\ m \in job[k].next.content
    BY <1>6
  <2>2. ScopeOf(m) = ScopeOf(k)
    BY <2>1 DEF Prompts
  <2>3. PICK p \in Msgs : /\ p = job[k].next.payload /\ ScopeOf(p) = ScopeOf(k)
                          /\ job[p].pc = "idle"
    BY <2>1 DEF SlotInv, HandOvers
  <2>4. Holds(p)
    BY <2>1, <2>3 DEF Holds
  <2>5. p = j
    BY <1>2, <2>2, <2>3, <2>4
  <2> QED
    BY <1>3, <2>3, <2>5
<1> QED
  BY <1>4, <1>5, <1>6 DEF InHand

LEMMA PromptsApart ==
  ASSUME SlotInv, Prompts
  PROVE  \A a, b \in Msgs : InLoop(a) /\ InLoop(b) /\ a # b =>
           job[a].content \cap job[b].content = {}
<1> SUFFICES ASSUME NEW a \in Msgs, NEW b \in Msgs, InLoop(a), InLoop(b),
                    NEW m \in job[a].content, m \in job[b].content
             PROVE  a = b
  OBVIOUS
<1>1. ScopeOf(m) = ScopeOf(a) /\ ScopeOf(m) = ScopeOf(b)
  BY DEF Prompts
<1>2. Holds(a) /\ Holds(b)
  BY DEF Holds
<1>3. Holders(ScopeOf(a)) = {a} /\ Holders(ScopeOf(b)) = {b}
  BY <1>2, HolderFacts
<1> QED
  BY <1>1, <1>3

\* The result of a message decides where it can be.
LEMMA PlaceFacts ==
  ASSUME Texts, NEW m \in Msgs
  PROVE  /\ InHand(m) => result[m] # "none"
         /\ InQueue(m) => result[m] = "queued"
         /\ InExtra(m) => result[m] = "merged"
         /\ m \in replied => Settled(m)
<1>1. InHand(m) => result[m] # "none"
  BY DEF InHand, InLoop, Texts, Prompts, Settled
<1>2. InQueue(m) => result[m] = "queued"
  BY ScopeOfMsg DEF InQueue, SlotOf, Texts, QueuedTexts
<1>3. InExtra(m) => result[m] = "merged"
  BY ScopeOfMsg DEF InExtra, SlotOf, Texts, ExtraTexts
<1> QED
  BY <1>1, <1>2, <1>3 DEF Texts, RepliedTexts

\* The part of the invariant that speaks of single messages.
Placed(m) ==
  /\ result[m] \in {"accepted", "queued"} => m \in replied \/ InHand(m) \/ InQueue(m)
  /\ m \in replied => ~InHand(m) /\ ~InQueue(m) /\ ~InExtra(m)
  /\ ~(InHand(m) /\ InQueue(m)) /\ ~(InHand(m) /\ InExtra(m))

AllPlaced == \A m \in Msgs : Placed(m)

LEMMA PlaceInvSplit == PlaceInv <=> SlotInv /\ Texts /\ AllPlaced
<1>1. ASSUME PlaceInv PROVE SlotInv /\ Texts /\ AllPlaced
  <2>1. replied \subseteq Msgs
    BY <1>1 DEF PlaceInv, SlotInv, TypeInv, TypeOK
  <2> QED
    BY <1>1, <2>1 DEF PlaceInv, Texts, AllPlaced, Placed, InExtra, NothingQueuedIsLost, NoSecondAnswer
<1>2. ASSUME SlotInv, Texts, AllPlaced PROVE PlaceInv
  <2>1. replied \subseteq Msgs
    BY <1>2 DEF SlotInv, TypeInv, TypeOK
  <2>2. NothingQueuedIsLost
    BY <1>2 DEF AllPlaced, Placed, NothingQueuedIsLost
  <2>3. NoSecondAnswer
    BY <1>2, <2>1, PromptsApart DEF Texts, AllPlaced, Placed, InExtra, NoSecondAnswer
  <2> QED
    BY <1>2, <2>2, <2>3 DEF PlaceInv, Texts
<1> QED
  BY <1>1, <1>2

\* What a step leaves of a message's places, and what it does to its text.
SamePlace(m) ==
  /\ InHand(m)' <=> InHand(m)
  /\ InQueue(m)' <=> InQueue(m)
  /\ InExtra(m)' <=> InExtra(m)

SameTexts(s) == slots'[s].queue = slots[s].queue /\ slots'[s].extra = slots[s].extra

LEMMA SameTextsPlace ==
  ASSUME NEW m \in Msgs, SameTexts(ScopeOf(m))
  PROVE  (InQueue(m)' <=> InQueue(m)) /\ (InExtra(m)' <=> InExtra(m))
BY DEF SameTexts, InQueue, InExtra, SlotOf

\* Results and acknowledgements only come, so a settled message stays settled.
LEMMA StaysSettled ==
  ASSUME SlotInv, [Next]_vars, NEW m \in Msgs, Settled(m)
  PROVE  Settled(m)' /\ result'[m] = result[m]
<1>1. result \in [Msgs -> {"none", "accepted", "merged", "queued"}]
  BY DEF SlotInv, TypeInv, TypeOK
<1>2. result[m] # "none"
  BY DEF Settled
<1>3. result'[m] = result[m] /\ (m \in acked => m \in acked')
  <2>1. ASSUME NEW x \in Msgs, Arrive(x) PROVE result'[m] = result[m] /\ acked' = acked
    <3>1. result[x] = "none" /\ acked' = acked
      BY <2>1 DEF Arrive, Accept, Merge, Rejoin, Enqueue, Decide
    <3>2. \E st : result' = [result EXCEPT ![x] = st]
      BY <2>1 DEF Arrive, Accept, Merge, Rejoin, Enqueue, Decide
    <3> QED
      BY <1>1, <1>2, <3>1, <3>2
  <2>2. ASSUME NEW x \in Msgs, Answer(x)
        PROVE  result' = result /\ acked' = acked \cup {x}
    BY <2>2 DEF Answer, AckAccepted, AckMerged, AckQueued
  <2>3. ASSUME NEW x \in Msgs, RunJob(x) PROVE result' = result /\ acked' = acked
    BY <2>3 DEF RunJob, Finish, Dispatch, RunEnd, Reply, DrainExtra, FinishForeign,
                FinishIdle, FinishNext, Notify, HandOver
  <2>4. ASSUME NEW u \in Stoppers, Stop(u) PROVE result' = result /\ acked' = acked
    BY <2>4 DEF Stop
  <2>5. CASE UNCHANGED vars
    BY <2>5 DEF vars
  <2> QED
    BY <2>1, <2>2, <2>3, <2>4, <2>5 DEF Next
<1> QED
  BY <1>2, <1>3 DEF Settled

\* A step that leaves the texts of the prompts and of the slots where they are.
Still(j) ==
  /\ job'[j].content = job[j].content /\ job'[j].next = job[j].next
  /\ InLoop(j)' <=> InLoop(j)
  /\ job'[j].pc = "notify" <=> job[j].pc = "notify"
  /\ job'[j].pc \in {"dispatch", "running", "reply"} <=>
       job[j].pc \in {"dispatch", "running", "reply"}

LEMMA QuietTexts ==
  ASSUME SlotInv, Texts, [Next]_vars,
         result' = result, replied' = replied,
         \A m \in Msgs : result[m] = "accepted" => (m \in acked' <=> m \in acked),
         \A s \in Scopes : SameTexts(s),
         \A j \in Msgs : Still(j)
  PROVE  Texts' /\ \A m \in Msgs : SamePlace(m)
<1>1. \A m \in Msgs : InHand(m)' <=> InHand(m)
  BY DEF InHand, Still
<1>2. \A m \in Msgs : SamePlace(m)
  BY <1>1, SameTextsPlace, ScopeOfMsg DEF SamePlace
<1>3. \A m \in Msgs : Settled(m) => Settled(m)'
  BY StaysSettled
<1>4. TypeOK
  BY DEF SlotInv, TypeInv
<1>5. Prompts'
  <2>1. \A j \in Msgs : job[j].content \subseteq Msgs
    BY <1>4 DEF TypeOK, Job
  <2> QED
    BY <1>3, <2>1 DEF Texts, Prompts, Still
<1>6. QueuedTexts' /\ ExtraTexts'
  BY DEF Texts, QueuedTexts, ExtraTexts, SameTexts
<1>7. RepliedTexts'
  BY <1>3, <1>4 DEF Texts, RepliedTexts, TypeOK
<1> QED
  BY <1>2, <1>5, <1>6, <1>7 DEF Texts

LEMMA QuietMoves ==
  ASSUME SlotInv, Texts, [Next]_vars,
         \/ \E m \in Msgs : AckMerged(m) \/ AckQueued(m)
         \/ \E j \in Msgs : Dispatch(j) \/ RunEnd(j) \/ Notify(j)
         \/ \E u \in Stoppers : Stop(u)
         \/ UNCHANGED vars
  PROVE  /\ Texts' /\ \A m \in Msgs : SamePlace(m)
         /\ result' = result /\ replied' = replied
<1>0. /\ slots \in [Scopes -> Slot] /\ job \in [Msgs -> Job]
      /\ \A j \in Msgs : job[j] \in Job
  BY DEF SlotInv, TypeInv, TypeOK
<1>1. result' = result /\ replied' = replied
  BY DEF AckMerged, AckQueued, Dispatch, RunEnd, Notify, Stop, vars
<1>2. \A m \in Msgs : result[m] = "accepted" => (m \in acked' <=> m \in acked)
  BY DEF AckMerged, AckQueued, Dispatch, RunEnd, Notify, Stop, vars
<1>3. \A s \in Scopes : SameTexts(s)
  <2>1. ASSUME NEW u \in Stoppers, Stop(u) PROVE \A s \in Scopes : SameTexts(s)
    <3>1. slots' = [slots EXCEPT ![Scope(u)].cancel = FALSE]
      BY <2>1 DEF Stop
    <3> QED
      BY <1>0, <3>1 DEF SameTexts, Slot
  <2> QED
    BY <2>1 DEF AckMerged, AckQueued, Dispatch, RunEnd, Notify, vars, SameTexts
<1>4. \A j \in Msgs : Still(j)
  <2>1. CASE job' = job
    BY <2>1 DEF Still, InLoop
  <2>2. ASSUME NEW j \in Msgs, Dispatch(j) \/ RunEnd(j) \/ Notify(j)
        PROVE  \A x \in Msgs : Still(x)
    <3>1. \A x \in Msgs : x # j => job'[x] = job[x]
      BY <1>0, <2>2 DEF Dispatch, RunEnd, Notify
    <3>2. Still(j)
      <4>1. CASE Dispatch(j)
        BY <1>0, <4>1 DEF Dispatch, Still, InLoop, Job
      <4>2. CASE RunEnd(j)
        BY <1>0, <4>2 DEF RunEnd, Still, InLoop, Job
      <4>3. CASE Notify(j)
        BY <1>0, <4>3 DEF Notify, Still, InLoop, Job
      <4> QED
        BY <2>2, <4>1, <4>2, <4>3
    <3> QED
      BY <3>1, <3>2 DEF Still, InLoop
  <2> QED
    BY <2>1, <2>2 DEF AckMerged, AckQueued, Stop, vars
<1> QED
  BY <1>1, <1>2, <1>3, <1>4, QuietTexts
\* The slots and the texts in them.
LEMMA QueueType ==
  ASSUME SlotInv, NEW s \in Scopes
  PROVE  /\ slots[s] \in Slot /\ slots[s].extra \subseteq Msgs
         /\ slots[s].queue \in Seq(Item) /\ Len(slots[s].queue) \in Nat
         /\ DOMAIN slots[s].queue = 1 .. Len(slots[s].queue)
         /\ \A i \in DOMAIN slots[s].queue :
              slots[s].queue[i] \in Item /\ slots[s].queue[i].content \subseteq Msgs
<1>1. slots[s] \in Slot /\ slots[s].queue \in Seq(Item) /\ slots[s].extra \subseteq Msgs
  BY DEF SlotInv, TypeInv, TypeOK, Slot
<1>2. \A i \in DOMAIN slots[s].queue : slots[s].queue[i] \in Item
  BY <1>1, ElementOfSeq, LenProperties
<1>3. \A i \in DOMAIN slots[s].queue : slots[s].queue[i].content \subseteq Msgs
  BY <1>2 DEF Item
<1> QED
  BY <1>1, <1>2, <1>3, LenProperties

\* A message that has not arrived is nowhere.
LEMMA UndecidedNowhere ==
  ASSUME Texts, NEW m \in Msgs, result[m] = "none"
  PROVE  ~InHand(m) /\ ~InQueue(m) /\ ~InExtra(m) /\ m \notin replied
BY PlaceFacts DEF Settled

\* The arrival of m decides m; it is in hand at once if it was accepted, and
\* touches no prompt.
LEMMA ArriveMoves ==
  ASSUME SlotInv, Texts, NEW m \in Msgs, Arrive(m)
  PROVE  /\ result[m] = "none" /\ result'[m] # "none" /\ replied' = replied
         /\ \A x \in Msgs : x # m => result'[x] = result[x]
         /\ \A x \in Msgs : InHand(x)' <=> InHand(x) \/ (x = m /\ result'[m] = "accepted")
         /\ Prompts' /\ RepliedTexts'
<1>1. /\ result \in [Msgs -> {"none", "accepted", "merged", "queued"}]
      /\ replied \subseteq Msgs
      /\ \A j \in Msgs : job[j].content \subseteq Msgs
  BY DEF SlotInv, TypeInv, TypeOK, Job
<1>2. /\ job' = job /\ acked' = acked /\ replied' = replied /\ result[m] = "none"
      /\ \E st \in {"accepted", "merged", "queued"} : result' = [result EXCEPT ![m] = st]
  BY DEF Arrive, Accept, Merge, Rejoin, Enqueue, Decide
<1>3. result'[m] # "none" /\ \A x \in Msgs : x # m => result'[x] = result[x]
  BY <1>1, <1>2
<1>4. m \notin acked
  BY <1>2 DEF SlotInv, AckedDecided
<1>5. ~InHand(m)
  BY <1>2, UndecidedNowhere
<1>6. \A x \in Msgs : InHand(x)' <=> InHand(x) \/ (x = m /\ result'[m] = "accepted")
  BY <1>2, <1>3, <1>4, <1>5 DEF InHand
<1>7. \A x \in Msgs : Settled(x) => Settled(x)'
  BY <1>2, <1>3 DEF Settled
<1>8. Prompts'
  BY <1>1, <1>2, <1>3, <1>7 DEF Texts, Prompts, InLoop
<1>9. RepliedTexts'
  BY <1>1, <1>2, <1>7 DEF Texts, RepliedTexts
<1> QED
  BY <1>2, <1>3, <1>6, <1>8, <1>9

LEMMA AcceptMoves ==
  ASSUME SlotInv, Texts, NEW m \in Msgs, Accept(m)
  PROVE  /\ Texts'
         /\ \A x \in Msgs : (InQueue(x)' <=> InQueue(x)) /\ (InExtra(x)' <=> InExtra(x))
         /\ result'[m] = "accepted"
<1>1. /\ result[m] = "none" /\ \A x \in Msgs : x # m => result'[x] = result[x]
      /\ Prompts' /\ RepliedTexts'
  BY ArriveMoves DEF Arrive
<1>2. slots \in [Scopes -> Slot] /\ ScopeOf(m) \in Scopes
  BY ScopeOfMsg DEF SlotInv, TypeInv, TypeOK
<1>3. \A s \in Scopes : SameTexts(s)
  BY <1>2 DEF Accept, SameTexts, Slot
<1>4. \A x \in Msgs : (InQueue(x)' <=> InQueue(x)) /\ (InExtra(x)' <=> InExtra(x))
  BY <1>3, SameTextsPlace, ScopeOfMsg
<1>5. QueuedTexts' /\ ExtraTexts'
  BY <1>1, <1>3, QueueType DEF Texts, QueuedTexts, ExtraTexts, SameTexts
<1>6. result'[m] = "accepted"
  BY DEF Accept, Decide, SlotInv, TypeInv, TypeOK
<1> QED
  BY <1>1, <1>4, <1>5, <1>6 DEF Texts

LEMMA MergeMoves ==
  ASSUME SlotInv, Texts, NEW m \in Msgs, Merge(m)
  PROVE  /\ Texts'
         /\ \A x \in Msgs : /\ InQueue(x)' <=> InQueue(x)
                            /\ InExtra(x)' <=> InExtra(x) \/ x = m
         /\ result'[m] = "merged"
<1>1. /\ result[m] = "none" /\ \A x \in Msgs : x # m => result'[x] = result[x]
      /\ Prompts' /\ RepliedTexts'
  BY ArriveMoves DEF Arrive
<1>2. slots \in [Scopes -> Slot] /\ ScopeOf(m) \in Scopes
  BY ScopeOfMsg DEF SlotInv, TypeInv, TypeOK
<1>3. result'[m] = "merged"
  BY DEF Merge, Decide, SlotInv, TypeInv, TypeOK
<1>4. /\ \A s \in Scopes : slots'[s].queue = slots[s].queue
      /\ \A s \in Scopes : s # ScopeOf(m) => slots'[s].extra = slots[s].extra
      /\ slots'[ScopeOf(m)].extra = slots[ScopeOf(m)].extra \cup {m}
  BY <1>2 DEF Merge, Slot
<1>5. \A x \in Msgs : InQueue(x)' <=> InQueue(x)
  BY <1>4, ScopeOfMsg DEF InQueue, SlotOf
<1>6. \A x \in Msgs : InExtra(x)' <=> InExtra(x) \/ x = m
  BY <1>2, <1>4, ScopeOfMsg DEF InExtra, SlotOf
<1>7. QueuedTexts'
  BY <1>1, <1>4, QueueType DEF Texts, QueuedTexts
<1>8. ExtraTexts'
  BY <1>1, <1>3, <1>4, QueueType DEF Texts, ExtraTexts
<1> QED
  BY <1>1, <1>3, <1>5, <1>6, <1>7, <1>8 DEF Texts

LEMMA RejoinMoves ==
  ASSUME SlotInv, Texts, NEW m \in Msgs, Rejoin(m)
  PROVE  /\ Texts'
         /\ \A x \in Msgs : /\ InQueue(x)' <=> InQueue(x) \/ x = m
                            /\ InExtra(x)' <=> InExtra(x)
         /\ result'[m] = "queued"
         /\ \A s \in Scopes :
              /\ DOMAIN slots'[s].queue = DOMAIN slots[s].queue
              /\ slots'[s].busy = slots[s].busy
              /\ \A k \in DOMAIN slots[s].queue :
                   slots'[s].queue[k].openID = slots[s].queue[k].openID
<1> DEFINE s == ScopeOf(m)
<1>1. /\ result[m] = "none" /\ \A x \in Msgs : x # m => result'[x] = result[x]
      /\ Prompts' /\ RepliedTexts'
  BY ArriveMoves DEF Arrive
<1>2. s \in Scopes /\ slots \in [Scopes -> Slot]
  BY ScopeOfMsg DEF SlotInv, TypeInv, TypeOK
<1>3. PICK i \in DOMAIN slots[s].queue :
        /\ slots[s].queue[i].openID = Author[m]
        /\ slots' = [slots EXCEPT ![s].queue[i] = Joined(@, m)]
        /\ Decide(m, "queued", i)
  BY DEF Rejoin, SlotOf
<1>4. slots[s].queue[i] \in Item
  BY <1>2, <1>3, QueueType
<1> DEFINE it == Joined(slots[s].queue[i], m)
<1>5. it.openID = Author[m] /\ it.content = slots[s].queue[i].content \cup {m}
  BY <1>3, <1>4 DEF Joined, Item
<1> HIDE DEF it
<1>6. slots' = [slots EXCEPT ![s].queue[i] = it]
  BY <1>3 DEF it
<1>7. /\ \A t \in Scopes : slots'[t].extra = slots[t].extra /\ slots'[t].busy = slots[t].busy
      /\ \A t \in Scopes : t # s => slots'[t].queue = slots[t].queue
      /\ slots'[s].queue = [slots[s].queue EXCEPT ![i] = it]
  BY <1>2, <1>6 DEF Slot
<1>8. /\ DOMAIN slots'[s].queue = DOMAIN slots[s].queue
      /\ slots'[s].queue[i] = it
      /\ \A k \in DOMAIN slots[s].queue : k # i => slots'[s].queue[k] = slots[s].queue[k]
  BY <1>3, <1>7
<1>9. result'[m] = "queued"
  BY <1>3 DEF Decide, SlotInv, TypeInv, TypeOK
<1>10. \A x \in Msgs : InQueue(x)' <=> InQueue(x) \/ x = m
  BY <1>2, <1>3, <1>5, <1>7, <1>8, ScopeOfMsg DEF InQueue, SlotOf
<1>11. \A x \in Msgs : InExtra(x)' <=> InExtra(x)
  BY <1>7, ScopeOfMsg DEF InExtra, SlotOf
<1>12. QueuedTexts'
  <2>1. ASSUME NEW k \in DOMAIN slots[s].queue
        PROVE  /\ slots'[s].queue[k].content # {}
               /\ \A x \in slots'[s].queue[k].content :
                    /\ result'[x] = "queued" /\ ScopeOf(x) = s
                    /\ Author[x] = slots'[s].queue[k].openID
    <3>1. slots[s].queue[k] \in Item
      BY <1>2, QueueType
    <3> QED
      BY <1>1, <1>2, <1>3, <1>4, <1>5, <1>8, <1>9, <3>1 DEF Texts, QueuedTexts, Item
  <2> QED
    BY <1>1, <1>7, <1>8, <2>1, QueueType DEF Texts, QueuedTexts
<1>13. ExtraTexts'
  BY <1>1, <1>7, QueueType DEF Texts, ExtraTexts
<1>14. \A k \in DOMAIN slots[s].queue :
         slots'[s].queue[k].openID = slots[s].queue[k].openID
  BY <1>3, <1>5, <1>8
<1> QED
  BY <1>1, <1>7, <1>8, <1>9, <1>10, <1>11, <1>12, <1>13, <1>14 DEF Texts

LEMMA EnqueueMoves ==
  ASSUME SlotInv, Texts, NEW m \in Msgs, Enqueue(m)
  PROVE  /\ Texts'
         /\ \A x \in Msgs : /\ InQueue(x)' <=> InQueue(x) \/ x = m
                            /\ InExtra(x)' <=> InExtra(x)
         /\ result'[m] = "queued"
<1> DEFINE s == ScopeOf(m)
           q == slots[s].queue
           it == [openID |-> Author[m], content |-> {m}, payload |-> m]
<1>1. /\ result[m] = "none" /\ \A x \in Msgs : x # m => result'[x] = result[x]
      /\ Prompts' /\ RepliedTexts'
  BY ArriveMoves DEF Arrive
<1>2. s \in Scopes /\ slots \in [Scopes -> Slot] /\ Author[m] \in Senders
  BY ScopeOfMsg DEF SlotInv, TypeInv, TypeOK
<1>3. q \in Seq(Item) /\ Len(q) \in Nat /\ DOMAIN q = 1 .. Len(q)
  BY <1>2, QueueType
<1>4. it \in Item /\ it.openID = Author[m] /\ it.content = {m}
  BY <1>2 DEF Item
<1>5. slots' = [slots EXCEPT ![s].queue = Append(@, it)]
  BY DEF Enqueue
<1> HIDE DEF it
<1>6. /\ \A t \in Scopes : slots'[t].extra = slots[t].extra
      /\ \A t \in Scopes : t # s => slots'[t].queue = slots[t].queue
      /\ slots'[s].queue = Append(q, it)
  BY <1>2, <1>5 DEF Slot
<1>7. /\ Append(q, it) \in Seq(Item) /\ Len(Append(q, it)) = Len(q) + 1
      /\ \A i \in 1 .. Len(q) : Append(q, it)[i] = q[i]
      /\ Append(q, it)[Len(q) + 1] = it
  BY <1>3, <1>4, AppendProperties
<1>8. DOMAIN Append(q, it) = 1 .. Len(q) + 1
  BY <1>7, LenProperties
<1>9. \A i \in DOMAIN slots'[s].queue :
        \/ i \in DOMAIN q /\ slots'[s].queue[i] = q[i]
        \/ i = Len(q) + 1 /\ slots'[s].queue[i] = it
  BY <1>3, <1>6, <1>7, <1>8
<1>10. /\ \A i \in DOMAIN q : i \in DOMAIN slots'[s].queue /\ slots'[s].queue[i] = q[i]
       /\ Len(q) + 1 \in DOMAIN slots'[s].queue /\ slots'[s].queue[Len(q) + 1] = it
  BY <1>3, <1>6, <1>7, <1>8
<1>11. result'[m] = "queued"
  BY DEF Enqueue, Decide, SlotInv, TypeInv, TypeOK
<1>12. \A x \in Msgs : InQueue(x)' <=> InQueue(x) \/ x = m
  <2>1. ASSUME NEW x \in Msgs, ScopeOf(x) = s
        PROVE  InQueue(x)' <=> InQueue(x) \/ x = m
    BY <1>4, <1>9, <1>10, <2>1 DEF InQueue, SlotOf
  <2>2. ASSUME NEW x \in Msgs, ScopeOf(x) # s
        PROVE  InQueue(x)' <=> InQueue(x) \/ x = m
    BY <1>6, <2>2, ScopeOfMsg DEF InQueue, SlotOf
  <2> QED
    BY <2>1, <2>2
<1>13. \A x \in Msgs : InExtra(x)' <=> InExtra(x)
  BY <1>6, ScopeOfMsg DEF InExtra, SlotOf
<1>14. QueuedTexts'
  <2>1. ASSUME NEW i \in DOMAIN slots'[s].queue
        PROVE  /\ slots'[s].queue[i].content # {}
               /\ \A x \in slots'[s].queue[i].content :
                    /\ result'[x] = "queued" /\ ScopeOf(x) = s
                    /\ Author[x] = slots'[s].queue[i].openID
    <3>1. CASE i \in DOMAIN q /\ slots'[s].queue[i] = q[i]
      <4>1. q[i] \in Item
        BY <1>2, <3>1, QueueType
      <4> QED
        BY <1>1, <1>2, <3>1, <4>1 DEF Texts, QueuedTexts, Item
    <3>2. CASE slots'[s].queue[i] = it
      BY <1>4, <1>11, <3>2
    <3> QED
      BY <1>9, <3>1, <3>2
  <2>2. ASSUME NEW t \in Scopes, t # s, NEW i \in DOMAIN slots'[t].queue
        PROVE  /\ slots'[t].queue[i].content # {}
               /\ \A x \in slots'[t].queue[i].content :
                    /\ result'[x] = "queued" /\ ScopeOf(x) = t
                    /\ Author[x] = slots'[t].queue[i].openID
    BY <1>1, <1>6, <2>2, QueueType DEF Texts, QueuedTexts
  <2> HIDE DEF q, s
  <2> QED
    BY <2>1, <2>2 DEF QueuedTexts
<1>15. ExtraTexts'
  BY <1>1, <1>6, QueueType DEF Texts, ExtraTexts
<1> QED
  BY <1>1, <1>11, <1>12, <1>13, <1>14, <1>15 DEF Texts

\* The accepted message goes from its own goroutine into the prompt of its job.
LEMMA AckAcceptedMoves ==
  ASSUME SlotInv, Texts, NEW m \in Msgs, AckAccepted(m)
  PROVE  /\ Texts' /\ \A x \in Msgs : SamePlace(x)
         /\ result' = result /\ replied' = replied
<1>1. /\ slots' = slots /\ result' = result /\ replied' = replied
      /\ acked' = acked \cup {m} /\ result[m] = "accepted" /\ m \notin acked
  BY DEF AckAccepted
<1>2. /\ job'[m].pc = "dispatch" /\ job'[m].content = {m}
      /\ \A x \in Msgs : x # m => job'[x] = job[x]
  BY DEF AckAccepted, Launch, NoJob, SlotInv, TypeInv, TypeOK
<1>3. job[m].pc = "idle"
  BY <1>1 DEF SlotInv, BegunJobs
<1>4. \A x \in Msgs : InHand(x)' <=> InHand(x)
  BY <1>1, <1>2, <1>3 DEF InHand
<1>5. \A x \in Msgs : SamePlace(x)
  BY <1>1, <1>4 DEF SamePlace, InQueue, InExtra, SlotOf
<1>6. \A x \in Msgs : Settled(x) => Settled(x)'
  BY <1>1 DEF Settled
<1>7. Prompts'
  <2>1. \A j \in Msgs : job[j].content \subseteq Msgs
    BY DEF SlotInv, TypeInv, TypeOK, Job
  <2>2. Settled(m)'
    BY <1>1 DEF Settled
  <2>3. ASSUME NEW j \in Msgs, InLoop(j)'
        PROVE  \A x \in job'[j].content : Settled(x)' /\ ScopeOf(x) = ScopeOf(j)
    <3>1. CASE j = m
      BY <1>2, <2>2, <3>1
    <3>2. CASE j # m
      BY <1>2, <1>6, <2>1, <2>3, <3>2 DEF Texts, Prompts, InLoop
    <3> QED
      BY <3>1, <3>2
  <2>4. ASSUME NEW j \in Msgs
        PROVE  /\ job'[j].pc \in {"dispatch", "running", "reply"} => job'[j].content # {}
               /\ job'[j].pc = "notify" =>
                    /\ job'[j].next.content # {}
                    /\ \A x \in job'[j].next.content :
                         result'[x] = "queued" /\ ScopeOf(x) = ScopeOf(j)
    BY <1>1, <1>2 DEF Texts, Prompts
  <2> QED
    BY <2>3, <2>4 DEF Prompts
<1>8. QueuedTexts' /\ ExtraTexts'
  BY <1>1 DEF Texts, QueuedTexts, ExtraTexts
<1>9. RepliedTexts'
  BY <1>1, <1>6 DEF Texts, RepliedTexts, SlotInv, TypeInv, TypeOK
<1> QED
  BY <1>1, <1>5, <1>7, <1>8, <1>9 DEF Texts

\* The next waiter's text goes from the goroutine of the old job into its own.
LEMMA HandOverMoves ==
  ASSUME SlotInv, Texts, NEW j \in Msgs, HandOver(j)
  PROVE  /\ Texts' /\ \A x \in Msgs : SamePlace(x)
         /\ result' = result /\ replied' = replied
<1>1. /\ slots' = slots /\ result' = result /\ replied' = replied /\ acked' = acked
      /\ job \in [Msgs -> Job] /\ job[j] \in Job /\ job[j].pc = "notify"
  BY DEF HandOver, SlotInv, TypeInv, TypeOK
<1>2. PICK p \in Msgs : job[j].next.payload = p
  BY <1>1 DEF SlotInv, HandOvers
<1>3. job[p].pc = "idle" /\ p # j /\ ScopeOf(p) = ScopeOf(j)
  BY <1>1, <1>2 DEF SlotInv, HandOvers
<1>4. /\ job'[j].pc = "done"
      /\ job'[p].pc = "dispatch" /\ job'[p].content = job[j].next.content
      /\ \A x \in Msgs : x # j /\ x # p => job'[x] = job[x]
  BY <1>1, <1>2, <1>3 DEF HandOver, Job, NoJob
<1>5. \A x \in Msgs : InHand(x)' <=> InHand(x)
  BY <1>1, <1>3, <1>4 DEF InHand
<1>6. \A x \in Msgs : SamePlace(x)
  BY <1>1, <1>5 DEF SamePlace, InQueue, InExtra, SlotOf
<1>7. \A x \in Msgs : Settled(x)' <=> Settled(x)
  BY <1>1 DEF Settled
<1>8. /\ job[j].next.content # {} /\ job[j].next.content \subseteq Msgs
      /\ \A x \in job[j].next.content : result[x] = "queued" /\ ScopeOf(x) = ScopeOf(j)
  <2>1. job[j].next \in Item \cup {NoItem}
    BY <1>1 DEF Job
  <2>2. job[j].next.content \subseteq Msgs
    BY <2>1 DEF Item, NoItem
  <2> QED
    BY <1>1, <2>2 DEF Texts, Prompts
<1>9. Prompts'
  <2>1. \A k \in Msgs : job[k].content \subseteq Msgs
    BY DEF SlotInv, TypeInv, TypeOK, Job
  <2> SUFFICES ASSUME NEW k \in Msgs
               PROVE  /\ InLoop(k)' => \A x \in job'[k].content :
                           Settled(x)' /\ ScopeOf(x) = ScopeOf(k)
                      /\ job'[k].pc \in {"dispatch", "running", "reply"}
                           => job'[k].content # {}
                      /\ job'[k].pc = "notify" =>
                           /\ job'[k].next.content # {}
                           /\ \A x \in job'[k].next.content :
                                result'[x] = "queued" /\ ScopeOf(x) = ScopeOf(k)
    BY DEF Prompts
  <2>2. CASE k = j
    BY <1>4, <2>2 DEF InLoop
  <2>3. CASE k = p
    <3>1. \A x \in job[j].next.content : Settled(x)
      BY <1>8 DEF Settled
    <3> QED
      BY <1>3, <1>4, <1>7, <1>8, <2>3, <3>1
  <2>4. CASE k # j /\ k # p
    BY <1>1, <1>4, <1>7, <2>1, <2>4 DEF Texts, Prompts, InLoop
  <2> QED
    BY <2>2, <2>3, <2>4
<1>10. QueuedTexts' /\ ExtraTexts'
  BY <1>1 DEF Texts, QueuedTexts, ExtraTexts
<1>11. RepliedTexts'
  BY <1>1, <1>7 DEF Texts, RepliedTexts, SlotInv, TypeInv, TypeOK
<1> QED
  BY <1>1, <1>6, <1>9, <1>10, <1>11 DEF Texts

\* A reply takes the whole prompt of its job out of hand, and nothing else.
LEMMA ReplyMoves ==
  ASSUME SlotInv, Texts, NEW j \in Msgs, Reply(j)
  PROVE  /\ Texts' /\ result' = result /\ replied' = replied \cup job[j].content
         /\ job[j].content # {} /\ job[j].content \subseteq Msgs
         /\ \A x \in job[j].content : InHand(x) /\ ScopeOf(x) = ScopeOf(j)
         /\ \A x \in Msgs : InHand(x)' <=> InHand(x) /\ x \notin job[j].content
         /\ \A x \in Msgs : (InQueue(x)' <=> InQueue(x)) /\ (InExtra(x)' <=> InExtra(x))
<1>1. /\ slots' = slots /\ result' = result /\ acked' = acked
      /\ replied' = replied \cup job[j].content /\ job[j].pc = "reply"
      /\ job \in [Msgs -> Job] /\ job[j] \in Job
  BY DEF Reply, SlotInv, TypeInv, TypeOK
<1>2. /\ job'[j].pc \in {"drain", "finish"} /\ job'[j].content = job[j].content
      /\ \A x \in Msgs : x # j => job'[x] = job[x]
  BY <1>1 DEF Reply, Job
<1>3. /\ InLoop(j) /\ job[j].content # {} /\ job[j].content \subseteq Msgs
      /\ \A x \in job[j].content : Settled(x) /\ ScopeOf(x) = ScopeOf(j)
  BY <1>1 DEF InLoop, Texts, Prompts, Job
<1>4. \A x \in job[j].content : InHand(x)
  BY <1>1 DEF InHand
<1>5. ASSUME NEW x \in Msgs, x \in job[j].content PROVE ~InHand(x)'
  <2>1. \A k \in Msgs : k # j => ~(/\ job[k].pc \in {"dispatch", "running", "reply"}
                                   /\ x \in job[k].content)
    <3> SUFFICES ASSUME NEW k \in Msgs, k # j, x \in job[k].content,
                        job[k].pc \in {"dispatch", "running", "reply"}
                 PROVE  FALSE
      OBVIOUS
    <3>1. InLoop(k)
      BY DEF InLoop
    <3> QED
      BY <1>3, <1>5, <3>1, PromptsApart DEF Texts
  <2>2. \A k \in Msgs : ~(job[k].pc = "notify" /\ x \in job[k].next.content)
    <3> SUFFICES ASSUME NEW k \in Msgs, job[k].pc = "notify", x \in job[k].next.content
                 PROVE  FALSE
      OBVIOUS
    <3>1. ScopeOf(k) = ScopeOf(j)
      BY <1>3, <1>5 DEF Texts, Prompts
    <3>2. PICK p \in Msgs : /\ p = job[k].next.payload /\ ScopeOf(p) = ScopeOf(k)
                            /\ job[p].pc = "idle"
      BY DEF SlotInv, HandOvers
    <3>3. Holds(p) /\ Holds(j)
      BY <1>3, <3>2 DEF Holds
    <3>4. Holders(ScopeOf(j)) = {p} /\ Holders(ScopeOf(j)) = {j}
      BY <3>1, <3>2, <3>3, HolderFacts
    <3> QED
      BY <1>1, <3>2, <3>4
  <2>3. ~(result[x] = "accepted" /\ x \notin acked)
    BY <1>3, <1>5 DEF Settled
  <2> QED
    BY <1>1, <1>2, <2>1, <2>2, <2>3 DEF InHand
<1>6. ASSUME NEW x \in Msgs, x \notin job[j].content PROVE InHand(x)' <=> InHand(x)
  BY <1>1, <1>2, <1>6 DEF InHand
<1>7. \A x \in Msgs : (InQueue(x)' <=> InQueue(x)) /\ (InExtra(x)' <=> InExtra(x))
  BY <1>1 DEF InQueue, InExtra, SlotOf
<1>8. \A x \in Msgs : Settled(x)' <=> Settled(x)
  BY <1>1 DEF Settled
<1>9. Prompts'
  <2>1. \A k \in Msgs : job[k].content \subseteq Msgs
    BY DEF SlotInv, TypeInv, TypeOK, Job
  <2> SUFFICES ASSUME NEW k \in Msgs
               PROVE  /\ InLoop(k)' => \A x \in job'[k].content :
                           Settled(x)' /\ ScopeOf(x) = ScopeOf(k)
                      /\ job'[k].pc \in {"dispatch", "running", "reply"}
                           => job'[k].content # {}
                      /\ job'[k].pc = "notify" =>
                           /\ job'[k].next.content # {}
                           /\ \A x \in job'[k].next.content :
                                result'[x] = "queued" /\ ScopeOf(x) = ScopeOf(k)
    BY DEF Prompts
  <2>2. CASE k = j
    BY <1>2, <1>3, <1>8, <2>2
  <2>3. CASE k # j
    BY <1>1, <1>2, <1>8, <2>1, <2>3 DEF Texts, Prompts, InLoop
  <2> QED
    BY <2>2, <2>3
<1>10. QueuedTexts' /\ ExtraTexts'
  BY <1>1 DEF Texts, QueuedTexts, ExtraTexts
<1>11. RepliedTexts'
  <2>1. replied \subseteq Msgs
    BY DEF SlotInv, TypeInv, TypeOK
  <2> QED
    BY <1>1, <1>3, <1>8, <2>1 DEF Texts, RepliedTexts
<1> QED
  BY <1>1, <1>3, <1>4, <1>5, <1>6, <1>7, <1>9, <1>10, <1>11 DEF Texts

\* A round begins with the extra text of the scope, all of it.
LEMMA DrainMoves ==
  ASSUME SlotInv, Texts, NEW j \in Msgs, DrainExtra(j)
  PROVE  /\ Texts' /\ result' = result /\ replied' = replied
         /\ \A x \in Msgs : ScopeOf(x) = ScopeOf(j) => ~InHand(x)
         /\ \A x \in Msgs :
              /\ InHand(x)' <=> InHand(x) \/ (InExtra(x) /\ ScopeOf(x) = ScopeOf(j))
              /\ InQueue(x)' <=> InQueue(x)
              /\ InExtra(x)' <=> InExtra(x) /\ ScopeOf(x) # ScopeOf(j)
<1> DEFINE s == ScopeOf(j)
<1>1. /\ result' = result /\ replied' = replied /\ acked' = acked /\ job[j].pc = "drain"
      /\ job \in [Msgs -> Job] /\ job[j] \in Job /\ s \in Scopes
      /\ slots \in [Scopes -> Slot]
  BY ScopeOfMsg DEF DrainExtra, SlotInv, TypeInv, TypeOK
<1>2. InLoop(j) /\ Holds(j)
  BY <1>1 DEF InLoop, Holds
<1>3. slots[s].busy = Author[j]
  BY <1>2, HolderFacts
<1>4. slots' = [slots EXCEPT ![s].extra = {}]
  BY <1>3 DEF DrainExtra, SlotOf
<1>5. /\ job'[j].pc = (IF slots[s].extra = {} THEN "finish" ELSE "dispatch")
      /\ job'[j].content = slots[s].extra
      /\ \A x \in Msgs : x # j => job'[x] = job[x]
  BY <1>1, <1>3 DEF DrainExtra, Drained, SlotOf, Job
<1>6. /\ \A t \in Scopes : slots'[t].queue = slots[t].queue
      /\ \A t \in Scopes : t # s => slots'[t].extra = slots[t].extra
      /\ slots'[s].extra = {}
  BY <1>1, <1>4 DEF Slot
<1>7. /\ slots[s].extra \subseteq Msgs
      /\ \A x \in slots[s].extra : result[x] = "merged" /\ ScopeOf(x) = s
  BY <1>1, QueueType DEF Texts, ExtraTexts
<1>8. \A x \in Msgs : ScopeOf(x) = s => ~InHand(x)
  BY <1>1, <1>2, LoopHand DEF Texts
<1>9. \A x \in Msgs : x \in slots[s].extra <=> InExtra(x) /\ ScopeOf(x) = s
  BY <1>7 DEF InExtra, SlotOf
<1>10. \A x \in Msgs : InHand(x)' <=> InHand(x) \/ x \in slots[s].extra
  <2>1. ASSUME NEW x \in slots[s].extra PROVE InHand(x)'
    BY <1>5, <2>1 DEF InHand
  <2>2. ASSUME NEW x \in Msgs, x \notin slots[s].extra PROVE InHand(x)' <=> InHand(x)
    BY <1>1, <1>5, <2>2 DEF InHand
  <2> QED
    BY <1>7, <1>8, <2>1, <2>2
<1>11. \A x \in Msgs : /\ InQueue(x)' <=> InQueue(x)
                       /\ InExtra(x)' <=> InExtra(x) /\ ScopeOf(x) # s
  BY <1>6, ScopeOfMsg DEF InQueue, InExtra, SlotOf
<1>12. \A x \in Msgs : Settled(x)' <=> Settled(x)
  BY <1>1 DEF Settled
<1>13. Prompts'
  <2>1. \A k \in Msgs : job[k].content \subseteq Msgs
    BY DEF SlotInv, TypeInv, TypeOK, Job
  <2> SUFFICES ASSUME NEW k \in Msgs
               PROVE  /\ InLoop(k)' => \A x \in job'[k].content :
                           Settled(x)' /\ ScopeOf(x) = ScopeOf(k)
                      /\ job'[k].pc \in {"dispatch", "running", "reply"}
                           => job'[k].content # {}
                      /\ job'[k].pc = "notify" =>
                           /\ job'[k].next.content # {}
                           /\ \A x \in job'[k].next.content :
                                result'[x] = "queued" /\ ScopeOf(x) = ScopeOf(k)
    BY DEF Prompts
  <2>2. CASE k = j
    <3>1. \A x \in slots[s].extra : Settled(x)'
      BY <1>7, <1>12 DEF Settled
    <3> QED
      BY <1>5, <1>7, <2>2, <3>1
  <2>3. CASE k # j
    BY <1>1, <1>5, <1>12, <2>1, <2>3 DEF Texts, Prompts, InLoop
  <2> QED
    BY <2>2, <2>3
<1>14. QueuedTexts'
  BY <1>1, <1>6 DEF Texts, QueuedTexts
<1>15. ExtraTexts'
  BY <1>1, <1>6 DEF Texts, ExtraTexts
<1>16. RepliedTexts'
  BY <1>1, <1>12 DEF Texts, RepliedTexts, SlotInv, TypeInv, TypeOK
<1> QED
  BY <1>1, <1>8, <1>9, <1>10, <1>11, <1>13, <1>14, <1>15, <1>16 DEF Texts

\* With nobody waiting, the end of a job drops the extra text of the scope.
LEMMA FinishIdleMoves ==
  ASSUME SlotInv, Texts, NEW j \in Msgs, FinishIdle(j)
  PROVE  /\ Texts' /\ result' = result /\ replied' = replied
         /\ \A x \in Msgs : ScopeOf(x) = ScopeOf(j) => ~InHand(x) /\ ~InQueue(x)
         /\ \A x \in Msgs : /\ InHand(x)' <=> InHand(x)
                            /\ InQueue(x)' <=> InQueue(x)
                            /\ InExtra(x)' <=> InExtra(x) /\ ScopeOf(x) # ScopeOf(j)
<1> DEFINE s == ScopeOf(j)
<1>1. /\ result' = result /\ replied' = replied /\ acked' = acked /\ job[j].pc = "finish"
      /\ job \in [Msgs -> Job] /\ job[j] \in Job /\ s \in Scopes
      /\ slots \in [Scopes -> Slot] /\ slots[s].queue = <<>>
  BY ScopeOfMsg DEF FinishIdle, SlotOf, SlotInv, TypeInv, TypeOK
<1>2. job'[j].pc = "done" /\ \A x \in Msgs : x # j => job'[x] = job[x]
  BY <1>1 DEF FinishIdle, Job
<1>3. /\ \A t \in Scopes : t # s => slots'[t] = slots[t]
      /\ slots'[s].queue = <<>> /\ slots'[s].extra = {}
  BY <1>1 DEF FinishIdle, IdleSlot
<1>4. InLoop(j)
  BY <1>1 DEF InLoop
<1>5. \A x \in Msgs : ScopeOf(x) = s => ~InHand(x)
  BY <1>1, <1>4, LoopHand DEF Texts
<1>6. DOMAIN slots[s].queue = {} /\ DOMAIN slots'[s].queue = {}
  BY <1>1, <1>3
<1>7. \A x \in Msgs : ScopeOf(x) = s => ~InQueue(x)
  BY <1>6 DEF InQueue, SlotOf
<1>8. \A x \in Msgs : InHand(x)' <=> InHand(x)
  BY <1>1, <1>2 DEF InHand
<1>9. \A x \in Msgs : /\ InQueue(x)' <=> InQueue(x)
                      /\ InExtra(x)' <=> InExtra(x) /\ ScopeOf(x) # s
  BY <1>3, <1>6, ScopeOfMsg DEF InQueue, InExtra, SlotOf
<1>10. \A x \in Msgs : Settled(x)' <=> Settled(x)
  BY <1>1 DEF Settled
<1>11. Prompts'
  <2>1. \A k \in Msgs : job[k].content \subseteq Msgs
    BY DEF SlotInv, TypeInv, TypeOK, Job
  <2> QED
    BY <1>1, <1>2, <1>10, <2>1 DEF Texts, Prompts, InLoop
<1>12. QueuedTexts'
  BY <1>1, <1>3, <1>6 DEF Texts, QueuedTexts
<1>13. ExtraTexts'
  BY <1>1, <1>3 DEF Texts, ExtraTexts
<1>14. RepliedTexts'
  BY <1>1, <1>10 DEF Texts, RepliedTexts, SlotInv, TypeInv, TypeOK
<1> QED
  BY <1>1, <1>5, <1>7, <1>8, <1>9, <1>11, <1>12, <1>13, <1>14 DEF Texts

\* The next waiter's text, all of it and nothing else, goes from the queue into
\* the hands of the job that ends; the extra text of the scope is dropped.
LEMMA FinishNextMoves ==
  ASSUME SlotInv, Texts, NEW j \in Msgs, FinishNext(j)
  PROVE  LET next == Head(slots[ScopeOf(j)].queue) IN
         /\ Texts' /\ result' = result /\ replied' = replied
         /\ \A x \in Msgs : ScopeOf(x) = ScopeOf(j) => ~InHand(x)
         /\ \A x \in next.content : InQueue(x) /\ ScopeOf(x) = ScopeOf(j)
         /\ \A x \in Msgs : InQueue(x) /\ ScopeOf(x) = ScopeOf(j) =>
              (x \in next.content <=> Author[x] = next.openID)
         /\ \A x \in Msgs : /\ InHand(x)' <=> InHand(x) \/ x \in next.content
                            /\ InQueue(x)' <=> InQueue(x) /\ x \notin next.content
                            /\ InExtra(x)' <=> InExtra(x) /\ ScopeOf(x) # ScopeOf(j)
<1> DEFINE s == ScopeOf(j)
           q == slots[s].queue
           next == Head(q)
           rest == Tail(q)
<1>1. /\ result' = result /\ replied' = replied /\ acked' = acked /\ job[j].pc = "finish"
      /\ job \in [Msgs -> Job] /\ job[j] \in Job /\ s \in Scopes
      /\ slots \in [Scopes -> Slot] /\ q # <<>>
  BY ScopeOfMsg DEF FinishNext, SlotOf, SlotInv, TypeInv, TypeOK
<1>2. q \in Seq(Item) /\ Len(q) \in Nat /\ DOMAIN q = 1 .. Len(q)
  BY <1>1, QueueType
<1>3. Len(q) > 0 /\ 1 \in DOMAIN q /\ next = q[1]
  BY <1>1, <1>2, EmptySeq
<1>4. /\ rest \in Seq(Item) /\ Len(rest) = Len(q) - 1
      /\ \A i \in 1 .. Len(rest) : rest[i] = q[i + 1]
  BY <1>1, <1>2, HeadTailProperties
<1>5. DOMAIN rest = 1 .. Len(q) - 1
  BY <1>4, LenProperties
<1>6. /\ \A i \in DOMAIN rest : i + 1 \in DOMAIN q /\ i + 1 # 1 /\ rest[i] = q[i + 1]
      /\ \A i \in DOMAIN q : i # 1 => i - 1 \in DOMAIN rest /\ q[i] = rest[i - 1]
  BY <1>2, <1>4, <1>5
<1>7. job' = [job EXCEPT ![j].pc = "notify", ![j].next = next,
                         ![j].notices = NoticesFor(rest)]
  BY DEF FinishNext, SlotOf
<1>8. slots' = [slots EXCEPT ![s] =
                  [busy |-> next.openID, extra |-> {}, queue |-> rest,
                   ctx |-> next.payload, cancel |-> TRUE]]
  BY DEF FinishNext, SlotOf
<1>9. /\ next.content # {} /\ next.content \subseteq Msgs
      /\ \A i \in DOMAIN q : \A x \in q[i].content :
           result[x] = "queued" /\ ScopeOf(x) = s /\ Author[x] = q[i].openID
  BY <1>1, <1>3, QueueType DEF Texts, QueuedTexts
<1> HIDE DEF next, rest
<1>10. /\ job'[j].pc = "notify" /\ job'[j].next = next
       /\ \A x \in Msgs : x # j => job'[x] = job[x]
  BY <1>1, <1>7 DEF Job
<1>11. /\ slots'[s].queue = rest /\ slots'[s].extra = {}
       /\ \A t \in Scopes : t # s => slots'[t] = slots[t]
  BY <1>1, <1>8
<1>12. InLoop(j)
  BY <1>1 DEF InLoop
<1>13. \A x \in Msgs : ScopeOf(x) = s => ~InHand(x)
  BY <1>1, <1>12, LoopHand DEF Texts
<1>14. \A x \in next.content : InQueue(x) /\ ScopeOf(x) = s
  BY <1>3, <1>9 DEF InQueue, SlotOf
<1>15. \A i, k \in DOMAIN q : q[i].openID = q[k].openID => i = k
  BY <1>1 DEF SlotInv, OnePlacePerUser
<1>16. \A i \in DOMAIN q : \A x \in q[i].content : x \in next.content <=> i = 1
  BY <1>3, <1>9, <1>15
<1>17. ASSUME NEW x \in Msgs, InQueue(x), ScopeOf(x) = s
       PROVE  x \in next.content <=> Author[x] = next.openID
  <2>1. PICK i \in DOMAIN q : x \in q[i].content
    BY <1>17 DEF InQueue, SlotOf
  <2> QED
    BY <1>3, <1>9, <1>15, <1>16, <2>1
<1>18. \A x \in Msgs : InHand(x)' <=> InHand(x) \/ x \in next.content
  <2>1. ASSUME NEW x \in next.content PROVE InHand(x)'
    BY <1>10, <2>1 DEF InHand
  <2>2. ASSUME NEW x \in Msgs, x \notin next.content PROVE InHand(x)' <=> InHand(x)
    BY <1>1, <1>10, <2>2 DEF InHand
  <2> QED
    BY <1>9, <1>13, <1>14, <2>1, <2>2
<1>19. \A x \in Msgs : InQueue(x)' <=> InQueue(x) /\ x \notin next.content
  <2>1. ASSUME NEW x \in Msgs, ScopeOf(x) # s
        PROVE  (InQueue(x)' <=> InQueue(x)) /\ x \notin next.content
    BY <1>11, <1>14, <2>1, ScopeOfMsg DEF InQueue, SlotOf
  <2>2. ASSUME NEW x \in Msgs, ScopeOf(x) = s
        PROVE  InQueue(x)' <=> InQueue(x) /\ x \notin next.content
    <3>1. InQueue(x)' <=> \E i \in DOMAIN rest : x \in rest[i].content
      BY <1>11, <2>2 DEF InQueue, SlotOf
    <3>2. InQueue(x) <=> \E i \in DOMAIN q : x \in q[i].content
      BY <2>2 DEF InQueue, SlotOf
    <3>3. ASSUME NEW i \in DOMAIN rest, x \in rest[i].content
          PROVE  InQueue(x) /\ x \notin next.content
      BY <1>6, <1>16, <3>2, <3>3
    <3>4. ASSUME NEW i \in DOMAIN q, x \in q[i].content, x \notin next.content
          PROVE  \E k \in DOMAIN rest : x \in rest[k].content
      BY <1>6, <1>16, <3>4
    <3> QED
      BY <3>1, <3>2, <3>3, <3>4
  <2> QED
    BY <2>1, <2>2
<1>20. \A x \in Msgs : InExtra(x)' <=> InExtra(x) /\ ScopeOf(x) # s
  BY <1>11, ScopeOfMsg DEF InExtra, SlotOf
<1>21. \A x \in Msgs : Settled(x)' <=> Settled(x)
  BY <1>1 DEF Settled
<1>22. Prompts'
  <2>1. \A k \in Msgs : job[k].content \subseteq Msgs
    BY DEF SlotInv, TypeInv, TypeOK, Job
  <2> SUFFICES ASSUME NEW k \in Msgs
               PROVE  /\ InLoop(k)' => \A x \in job'[k].content :
                           Settled(x)' /\ ScopeOf(x) = ScopeOf(k)
                      /\ job'[k].pc \in {"dispatch", "running", "reply"}
                           => job'[k].content # {}
                      /\ job'[k].pc = "notify" =>
                           /\ job'[k].next.content # {}
                           /\ \A x \in job'[k].next.content :
                                result'[x] = "queued" /\ ScopeOf(x) = ScopeOf(k)
    BY DEF Prompts
  <2>2. CASE k = j
    BY <1>1, <1>3, <1>9, <1>10, <2>2 DEF InLoop
  <2>3. CASE k # j
    BY <1>1, <1>10, <1>21, <2>1, <2>3 DEF Texts, Prompts, InLoop
  <2> QED
    BY <2>2, <2>3
<1>23. QueuedTexts'
  <2>1. ASSUME NEW t \in Scopes, NEW i \in DOMAIN slots'[t].queue
        PROVE  \E k \in DOMAIN slots[t].queue : slots'[t].queue[i] = slots[t].queue[k]
    BY <1>6, <1>11
  <2> QED
    BY <1>1, <2>1 DEF Texts, QueuedTexts
<1>24. ExtraTexts'
  BY <1>1, <1>11 DEF Texts, ExtraTexts
<1>25. RepliedTexts'
  BY <1>1, <1>21 DEF Texts, RepliedTexts, SlotInv, TypeInv, TypeOK
<1> QED
  BY <1>1, <1>13, <1>14, <1>17, <1>18, <1>19, <1>20, <1>22, <1>23, <1>24, <1>25
     DEF Texts, next

\* The steps that put no message anywhere else.
Stutters ==
  \/ \E m \in Msgs : Answer(m)
  \/ \E j \in Msgs : Dispatch(j) \/ RunEnd(j) \/ Notify(j) \/ HandOver(j)
  \/ \E u \in Stoppers : Stop(u)
  \/ UNCHANGED vars

LEMMA StutterMoves ==
  ASSUME SlotInv, Texts, [Next]_vars, Stutters
  PROVE  /\ Texts' /\ \A x \in Msgs : SamePlace(x)
         /\ result' = result /\ replied' = replied
<1>1. CASE \E m \in Msgs : AckAccepted(m)
  BY <1>1, AckAcceptedMoves
<1>2. CASE \E j \in Msgs : HandOver(j)
  BY <1>2, HandOverMoves
<1>3. CASE \/ \E m \in Msgs : AckMerged(m) \/ AckQueued(m)
           \/ \E j \in Msgs : Dispatch(j) \/ RunEnd(j) \/ Notify(j)
           \/ \E u \in Stoppers : Stop(u)
           \/ UNCHANGED vars
  BY <1>3, QuietMoves
<1> QED
  BY <1>1, <1>2, <1>3 DEF Stutters, Answer

LEMMA NextPlaced ==
  ASSUME PlaceInv, [Next]_vars
  PROVE  Texts' /\ AllPlaced'
<1> USE PlaceInvSplit
<1>1. CASE Stutters
  BY <1>1, StutterMoves DEF AllPlaced, Placed, SamePlace
<1>2. ASSUME NEW m \in Msgs, Arrive(m) PROVE Texts' /\ AllPlaced'
  <2>1. /\ result[m] = "none" /\ replied' = replied
        /\ \A x \in Msgs : x # m => result'[x] = result[x]
        /\ \A x \in Msgs : InHand(x)' <=> InHand(x) \/ (x = m /\ result'[m] = "accepted")
    BY <1>2, ArriveMoves
  <2>2. ~InHand(m) /\ ~InQueue(m) /\ ~InExtra(m) /\ m \notin replied
    BY <2>1, UndecidedNowhere
  <2>3. CASE Accept(m)
    BY <2>1, <2>2, <2>3, AcceptMoves DEF AllPlaced, Placed
  <2>4. CASE Merge(m)
    BY <2>1, <2>2, <2>4, MergeMoves DEF AllPlaced, Placed
  <2>5. CASE Rejoin(m)
    BY <2>1, <2>2, <2>5, RejoinMoves DEF AllPlaced, Placed
  <2>6. CASE Enqueue(m)
    BY <2>1, <2>2, <2>6, EnqueueMoves DEF AllPlaced, Placed
  <2> QED
    BY <1>2, <2>3, <2>4, <2>5, <2>6 DEF Arrive
<1>3. ASSUME NEW j \in Msgs, Reply(j) PROVE Texts' /\ AllPlaced'
  BY <1>3, ReplyMoves DEF AllPlaced, Placed
<1>4. ASSUME NEW j \in Msgs, DrainExtra(j) PROVE Texts' /\ AllPlaced'
  <2>1. \A x \in Msgs : InExtra(x) => ~InQueue(x)
    BY PlaceFacts
  <2> QED
    BY <1>4, <2>1, DrainMoves DEF AllPlaced, Placed
<1>5. ASSUME NEW j \in Msgs, FinishIdle(j) PROVE Texts' /\ AllPlaced'
  BY <1>5, FinishIdleMoves DEF AllPlaced, Placed
<1>6. ASSUME NEW j \in Msgs, FinishNext(j) PROVE Texts' /\ AllPlaced'
  <2>1. \A x \in Msgs : InExtra(x) => ~InQueue(x)
    BY PlaceFacts
  <2> QED
    BY <1>6, <2>1, FinishNextMoves DEF AllPlaced, Placed
<1> QED
  BY <1>1, <1>2, <1>3, <1>4, <1>5, <1>6, FinishForeignNever
     DEF Stutters, Next, RunJob, Finish

LEMMA InitPlaced == Init => Texts /\ AllPlaced
<1> SUFFICES ASSUME Init PROVE Texts /\ AllPlaced
  OBVIOUS
<1>1. \A m \in Msgs : job[m].pc = "idle" /\ result[m] = "none"
  BY DEF Init, NoJob
<1>2. \A s \in Scopes : slots[s].extra = {} /\ DOMAIN slots[s].queue = {}
  BY DEF Init, IdleSlot
<1>3. replied = {}
  BY DEF Init
<1> QED
  BY <1>1, <1>2, <1>3
     DEF Texts, Prompts, InLoop, QueuedTexts, ExtraTexts, RepliedTexts, AllPlaced, Placed, InHand

LEMMA PlaceInvHolds ==
  ASSUME AllNamed
  PROVE  Spec => []PlaceInv
<1>1. Init => PlaceInv
  BY InitTypeInv, InitCore, InitPlaced, PlaceInvSplit DEF SlotInv, SlotCore
<1>2. PlaceInv /\ [Next]_vars => PlaceInv'
  <2> SUFFICES ASSUME PlaceInv, [Next]_vars PROVE PlaceInv'
    OBVIOUS
  <2>1. SlotInv'
    BY NextSlotInv DEF PlaceInv
  <2>2. Texts' /\ AllPlaced'
    BY NextPlaced
  <2>3. (SlotInv /\ Texts /\ AllPlaced => PlaceInv)'
    BY PlaceInvSplit, PTL
  <2> QED
    BY <2>1, <2>2, <2>3
<1> QED
  BY <1>1, <1>2, PTL DEF Spec

\* What was accepted or queued is never lost: until its reply it is in a
\* prompt, on its way to one, or in the queue of its scope (TryAccept, Finish
\* and the goroutines of Handle and runJob between them).
THEOREM NothingLost ==
  ASSUME AllNamed
  PROVE  Spec => []NothingQueuedIsLost
<1>1. PlaceInv => NothingQueuedIsLost
  BY DEF PlaceInv
<1> QED
  BY <1>1, PlaceInvHolds, PTL

\* No message is answered twice or waits in two places: not in two prompts, not
\* in a prompt and the queue or the extra text, and nowhere after its reply
\* (DrainExtra clears what it returns, Finish pops what it hands over).
THEOREM NoneTwice ==
  ASSUME AllNamed
  PROVE  Spec => []NoSecondAnswer
<1>1. PlaceInv => NoSecondAnswer
  BY DEF PlaceInv
<1> QED
  BY <1>1, PlaceInvHolds, PTL

\* In a queue that loses its head, whoever was ahead stays ahead, unless it was
\* the head.
LEMMA TailKeepsOrder ==
  ASSUME NEW q \in Seq(Item), q # <<>>, NEW i \in DOMAIN q, NEW k \in DOMAIN q, i < k
  PROVE  \/ i = 1
         \/ /\ i - 1 \in DOMAIN Tail(q) /\ k - 1 \in DOMAIN Tail(q) /\ i - 1 < k - 1
            /\ Tail(q)[i - 1] = q[i] /\ Tail(q)[k - 1] = q[k]
<1>1. Len(q) \in Nat /\ DOMAIN q = 1 .. Len(q)
  BY LenProperties
<1>2. /\ Tail(q) \in Seq(Item) /\ Len(Tail(q)) = Len(q) - 1
      /\ \A n \in 1 .. Len(Tail(q)) : Tail(q)[n] = q[n + 1]
  BY HeadTailProperties
<1>3. DOMAIN Tail(q) = 1 .. Len(q) - 1
  BY <1>2, LenProperties
<1> QED
  BY <1>1, <1>2, <1>3

\* A step that keeps the users of a queue at their places keeps their order.
LEMMA PlacesKeepOrder ==
  ASSUME NEW s \in Scopes, NEW u, NEW v, Ahead(s, u, v),
         \A i \in DOMAIN slots[s].queue :
           /\ i \in DOMAIN slots'[s].queue
           /\ slots'[s].queue[i].openID = slots[s].queue[i].openID
  PROVE  Ahead(s, u, v)'
BY DEF Ahead

Served(s, u, v) == Ahead(s, u, v) => Ahead(s, u, v)' \/ slots'[s].busy = u

LEMMA FinishNextOrder ==
  ASSUME SlotInv, NEW j \in Msgs, FinishNext(j), NEW u, NEW v, Ahead(ScopeOf(j), u, v)
  PROVE  Ahead(ScopeOf(j), u, v)' \/ slots'[ScopeOf(j)].busy = u
<1> DEFINE s == ScopeOf(j)
           q == slots[s].queue
<1>1. s \in Scopes /\ slots \in [Scopes -> Slot] /\ q # <<>>
  BY ScopeOfMsg DEF FinishNext, SlotOf, SlotInv, TypeInv, TypeOK
<1>2. q \in Seq(Item) /\ DOMAIN q = 1 .. Len(q) /\ Len(q) \in Nat
  BY <1>1, QueueType
<1>3. slots'[s].busy = Head(q).openID /\ slots'[s].queue = Tail(q)
  BY <1>1 DEF FinishNext, SlotOf
<1>4. PICK i \in DOMAIN q, k \in DOMAIN q : i < k /\ q[i].openID = u /\ q[k].openID = v
  BY DEF Ahead
<1>5. CASE i = 1
  BY <1>1, <1>2, <1>3, <1>4, <1>5
<1>6. CASE i # 1
  <2>1. /\ i - 1 \in DOMAIN Tail(q) /\ k - 1 \in DOMAIN Tail(q) /\ i - 1 < k - 1
        /\ Tail(q)[i - 1] = q[i] /\ Tail(q)[k - 1] = q[k]
    BY <1>1, <1>2, <1>4, <1>6, TailKeepsOrder
  <2> QED
    BY <1>3, <1>4, <2>1 DEF Ahead
<1> QED
  BY <1>5, <1>6

LEMMA NextServed ==
  ASSUME PlaceInv, Next, NEW s \in Scopes, NEW u \in Senders, NEW v \in Senders
  PROVE  Served(s, u, v)
<1> USE PlaceInvSplit DEF Served
<1>0. slots \in [Scopes -> Slot] /\ SlotInv /\ Texts
  BY DEF SlotInv, TypeInv, TypeOK
<1>1. CASE slots'[s].queue = slots[s].queue
  BY <1>1 DEF Ahead
<1>2. ASSUME NEW m \in Msgs, Rejoin(m) PROVE Served(s, u, v)
  BY <1>0, <1>2, RejoinMoves, PlacesKeepOrder
<1>3. ASSUME NEW m \in Msgs, Enqueue(m) PROVE Served(s, u, v)
  <2> DEFINE it == [openID |-> Author[m], content |-> {m}, payload |-> m]
             q == slots[ScopeOf(m)].queue
  <2>1. it \in Item /\ ScopeOf(m) \in Scopes
    BY ScopeOfMsg DEF Item
  <2>2. slots' = [slots EXCEPT ![ScopeOf(m)].queue = Append(@, it)]
    BY <1>3 DEF Enqueue
  <2> HIDE DEF it
  <2>3. slots'[ScopeOf(m)].queue = Append(q, it)
    BY <1>0, <2>1, <2>2 DEF Slot
  <2>4. s # ScopeOf(m) => slots'[s].queue = slots[s].queue
    BY <1>0, <2>2
  <2>5. q \in Seq(Item) /\ Len(q) \in Nat /\ DOMAIN q = 1 .. Len(q)
    BY <1>0, <2>1, QueueType
  <2>6. /\ Append(q, it) \in Seq(Item) /\ Len(Append(q, it)) = Len(q) + 1
        /\ \A i \in 1 .. Len(q) : Append(q, it)[i] = q[i]
    BY <2>1, <2>5, AppendProperties
  <2>7. DOMAIN Append(q, it) = 1 .. Len(q) + 1
    BY <2>6, LenProperties
  <2>8. \A i \in DOMAIN q : i \in DOMAIN Append(q, it) /\ Append(q, it)[i] = q[i]
    BY <2>5, <2>6, <2>7
  <2>9. CASE s = ScopeOf(m)
    BY <2>3, <2>8, <2>9, PlacesKeepOrder
  <2> QED
    BY <1>1, <2>4, <2>9
<1>4. ASSUME NEW j \in Msgs, FinishNext(j) PROVE Served(s, u, v)
  <2>1. CASE s = ScopeOf(j)
    BY <1>0, <1>4, <2>1, FinishNextOrder
  <2>2. CASE s # ScopeOf(j)
    <3>1. slots'[s] = slots[s]
      BY <1>0, <1>4, <2>2 DEF FinishNext
    <3> QED
      BY <1>1, <3>1
  <2> QED
    BY <2>1, <2>2
<1>5. ASSUME NEW j \in Msgs, FinishIdle(j) PROVE Served(s, u, v)
  <2>1. slots'[s] = slots[s] \/ (s = ScopeOf(j) /\ slots[s].queue = <<>>)
    BY <1>0, <1>5 DEF FinishIdle, SlotOf
  <2>2. slots[s].queue = <<>> => ~Ahead(s, u, v)
    BY DEF Ahead
  <2> QED
    BY <1>1, <2>1, <2>2
<1>6. ASSUME NEW j \in Msgs, DrainExtra(j) PROVE slots'[s].queue = slots[s].queue
  BY <1>0, <1>6 DEF DrainExtra, Slot
<1>7. ASSUME NEW x \in Stoppers, Stop(x) PROVE slots'[s].queue = slots[s].queue
  BY <1>0, <1>7 DEF Stop, Slot
<1>8. ASSUME NEW m \in Msgs, Accept(m) \/ Merge(m) PROVE slots'[s].queue = slots[s].queue
  BY <1>0, <1>8 DEF Accept, Merge, Slot
<1>9. ASSUME NEW m \in Msgs, \/ Answer(m) \/ Dispatch(m) \/ RunEnd(m) \/ Reply(m)
                             \/ FinishForeign(m) \/ Notify(m) \/ HandOver(m)
      PROVE  slots'[s].queue = slots[s].queue
  BY <1>9 DEF Answer, AckAccepted, AckMerged, AckQueued, Dispatch, RunEnd, Reply,
              FinishForeign, Notify, HandOver
<1> QED
  BY <1>1, <1>2, <1>3, <1>4, <1>5, <1>6, <1>7, <1>8, <1>9 DEF Next, Arrive, RunJob, Finish

\* Nobody is overtaken: whoever waits ahead of another stays ahead until the
\* slot names it (TryAccept appends, Finish pops the first).
THEOREM NobodyOvertakes ==
  ASSUME AllNamed
  PROVE  Spec => NoOvertaking
<1>1. PlaceInv /\ [Next]_vars =>
        [\A s \in Scopes, u, v \in Senders :
           Ahead(s, u, v) => Ahead(s, u, v)' \/ slots'[s].busy = u]_vars
  BY NextServed DEF Served
<1> QED
  BY <1>1, PlaceInvHolds, PTL DEF Spec, NoOvertaking

-----------------------------------------------------------------------------
(* The queue implements what the bot promises (AskService) *)

LineFor(u, q) == <<u>> \o [i \in DOMAIN q |-> q[i].openID]

LEMMA LineForFacts ==
  ASSUME NEW u \in Senders, NEW q \in Seq(Item)
  PROVE  /\ LineFor(u, q) \in Seq(Senders) /\ LineFor(u, q) # <<>>
         /\ Len(LineFor(u, q)) = Len(q) + 1 /\ Len(q) \in Nat
         /\ DOMAIN LineFor(u, q) = 1 .. Len(q) + 1 /\ DOMAIN q = 1 .. Len(q)
         /\ LineFor(u, q)[1] = u /\ Head(LineFor(u, q)) = u
         /\ \A i \in DOMAIN q : LineFor(u, q)[i + 1] = q[i].openID
<1> DEFINE ids == [i \in DOMAIN q |-> q[i].openID]
<1>1. Len(q) \in Nat /\ DOMAIN q = 1 .. Len(q) /\ \A i \in DOMAIN q : q[i] \in Item
  BY ElementOfSeq, LenProperties
<1>2. ids \in [1 .. Len(q) -> Senders]
  BY <1>1 DEF Item
<1>3. ids \in Seq(Senders)
  BY <1>1, <1>2, SeqDef
<1>4. Len(ids) = Len(q)
  BY <1>1, <1>2, <1>3, LenProperties
<1>5. \A i \in DOMAIN q : ids[i] = q[i].openID
  OBVIOUS
<1>6. <<u>> \in Seq(Senders) /\ Len(<<u>>) = 1 /\ <<u>>[1] = u
  OBVIOUS
<1> HIDE DEF ids
<1>7. /\ <<u>> \o ids \in Seq(Senders) /\ Len(<<u>> \o ids) = 1 + Len(q)
      /\ \A i \in 1 .. 1 + Len(q) :
           (<<u>> \o ids)[i] = IF i <= 1 THEN <<u>>[i] ELSE ids[i - 1]
  BY <1>3, <1>4, <1>6, ConcatProperties
<1>8. LineFor(u, q) = <<u>> \o ids
  BY DEF LineFor, ids
<1> DEFINE L == LineFor(u, q)
<1>9. /\ L \in Seq(Senders) /\ Len(L) = Len(q) + 1 /\ L[1] = u
      /\ \A i \in DOMAIN q : L[i + 1] = ids[i]
  BY <1>1, <1>6, <1>7, <1>8
<1>10. DOMAIN L = 1 .. Len(q) + 1
  BY <1>9, LenProperties
<1>11. L # <<>> /\ Head(L) = L[1]
  BY <1>1, <1>9, EmptySeq
<1> QED
  BY <1>1, <1>5, <1>9, <1>10, <1>11

LEMMA LineForAppend ==
  ASSUME NEW u \in Senders, NEW q \in Seq(Item), NEW it \in Item
  PROVE  LineFor(u, Append(q, it)) = Append(LineFor(u, q), it.openID)
<1> DEFINE q2 == Append(q, it)
           L == LineFor(u, q)
           M == LineFor(u, q2)
           N == Append(L, it.openID)
<1>1. it.openID \in Senders
  BY DEF Item
<1>2. /\ q2 \in Seq(Item) /\ Len(q2) = Len(q) + 1
      /\ \A i \in 1 .. Len(q) : q2[i] = q[i]
      /\ q2[Len(q) + 1] = it
  BY AppendProperties
<1>3. /\ L \in Seq(Senders) /\ Len(L) = Len(q) + 1 /\ Len(q) \in Nat
      /\ DOMAIN q = 1 .. Len(q) /\ L[1] = u
      /\ \A i \in DOMAIN q : L[i + 1] = q[i].openID
  BY LineForFacts
<1>4. /\ M \in Seq(Senders) /\ Len(M) = Len(q2) + 1
      /\ DOMAIN q2 = 1 .. Len(q2) /\ M[1] = u
      /\ \A i \in DOMAIN q2 : M[i + 1] = q2[i].openID
  BY <1>2, LineForFacts
<1>5. /\ N \in Seq(Senders) /\ Len(N) = Len(L) + 1
      /\ \A i \in 1 .. Len(L) : N[i] = L[i]
      /\ N[Len(L) + 1] = it.openID
  BY <1>1, <1>3, AppendProperties
<1> HIDE DEF q2, L, M, N
<1>6. Len(M) = Len(N)
  BY <1>2, <1>3, <1>4, <1>5
<1>7. ASSUME NEW i \in 1 .. Len(M) PROVE M[i] = N[i]
  <2>1. CASE i = 1
    BY <1>3, <1>4, <1>5, <2>1
  <2>2. CASE i = Len(q) + 2
    <3>1. M[Len(q2) + 1] = q2[Len(q2)].openID
      BY <1>2, <1>3, <1>4
    <3> QED
      BY <1>2, <1>3, <1>5, <2>2, <3>1
  <2>3. CASE i # 1 /\ i # Len(q) + 2
    <3>1. i - 1 \in 1 .. Len(q) /\ i - 1 \in DOMAIN q2 /\ (i - 1) + 1 = i
      BY <1>2, <1>3, <1>4, <2>3
    <3>2. M[i] = q2[i - 1].openID /\ L[i] = q[i - 1].openID
      BY <1>3, <1>4, <3>1
    <3>3. N[i] = L[i]
      BY <1>3, <1>5, <3>1
    <3> QED
      BY <1>2, <3>1, <3>2, <3>3
  <2> QED
    BY <2>1, <2>2, <2>3
<1>8. M = N
  BY <1>4, <1>5, <1>6, <1>7, SeqEqual
<1> QED
  BY <1>8 DEF L, M, N, q2

LEMMA LineForTail ==
  ASSUME NEW u \in Senders, NEW q \in Seq(Item)
  PROVE  /\ q = <<>> => Tail(LineFor(u, q)) = <<>>
         /\ q # <<>> => /\ Tail(LineFor(u, q)) = LineFor(Head(q).openID, Tail(q))
                        /\ LineFor(u, q)[2] = Head(q).openID
<1> DEFINE L == LineFor(u, q)
           T == Tail(L)
<1>1. /\ L \in Seq(Senders) /\ L # <<>> /\ Len(L) = Len(q) + 1 /\ Len(q) \in Nat
      /\ DOMAIN q = 1 .. Len(q)
      /\ \A i \in DOMAIN q : L[i + 1] = q[i].openID
  BY LineForFacts
<1>2. /\ T \in Seq(Senders) /\ Len(T) = Len(L) - 1
      /\ \A i \in 1 .. Len(T) : T[i] = L[i + 1]
  BY <1>1, HeadTailProperties
<1>3. CASE q = <<>>
  <2>1. Len(q) = 0
    BY <1>3
  <2>2. Len(T) = 0
    BY <1>1, <1>2, <2>1
  <2> QED
    BY <1>2, <1>3, <2>2, EmptySeq
<1>4. CASE q # <<>>
  <2> DEFINE h == Head(q)
             r == Tail(q)
             R == LineFor(h.openID, r)
  <2>1. /\ h \in Item /\ r \in Seq(Item) /\ Len(r) = Len(q) - 1
        /\ \A i \in 1 .. Len(r) : r[i] = q[i + 1]
    BY <1>4, HeadTailProperties
  <2>2. Len(q) >= 1 /\ h = q[1]
    BY <1>1, <1>4, EmptySeq
  <2>3. h.openID \in Senders
    BY <2>1 DEF Item
  <2>4. /\ R \in Seq(Senders) /\ Len(R) = Len(r) + 1 /\ DOMAIN r = 1 .. Len(r)
        /\ R[1] = h.openID /\ \A i \in DOMAIN r : R[i + 1] = r[i].openID
    BY <2>1, <2>3, LineForFacts
  <2>5. L[2] = h.openID
    BY <1>1, <2>2
  <2> HIDE DEF h, r, R, L, T
  <2>6. Len(T) = Len(R)
    BY <1>1, <1>2, <2>1, <2>4
  <2>7. ASSUME NEW i \in 1 .. Len(T) PROVE T[i] = R[i]
    <3>1. i \in DOMAIN q /\ T[i] = q[i].openID
      BY <1>1, <1>2, <2>7
    <3>2. CASE i = 1
      BY <2>2, <2>4, <3>1, <3>2
    <3>3. CASE i # 1
      <4>1. i - 1 \in 1 .. Len(r) /\ (i - 1) + 1 = i
        BY <1>1, <2>1, <3>1, <3>3
      <4>2. R[i] = r[i - 1].openID
        BY <2>4, <4>1
      <4> QED
        BY <2>1, <3>1, <4>1, <4>2
    <3> QED
      BY <3>2, <3>3
  <2>8. T = R
    BY <1>2, <2>4, <2>6, <2>7, SeqEqual
  <2> QED
    BY <1>4, <2>5, <2>8 DEF h, r, R, L, T
<1> QED
  BY <1>3, <1>4
LEMMA LineOfFacts ==
  ASSUME SlotInv, NEW s \in Scopes
  PROVE  /\ slots[s].busy \in Senders /\ slots[s].queue \in Seq(Item)
         /\ slots[s].busy = NoID => LineOf(s) = <<>> /\ slots[s].queue = <<>>
         /\ slots[s].busy # NoID => LineOf(s) = LineFor(slots[s].busy, slots[s].queue)
<1>1. slots[s].busy \in Senders /\ slots[s].queue \in Seq(Item)
  BY DEF SlotInv, TypeInv, TypeOK, Slot
<1>2. slots[s].busy = NoID => slots[s].queue = <<>>
  BY DEF SlotInv, OnePlacePerUser
<1> QED
  BY <1>1, <1>2 DEF LineOf, LineFor

\* The user a scope is busy for is the head of its line; the line goes on with
\* the users of the queue.
LEMMA BusyLine ==
  ASSUME SlotInv, NEW s \in Scopes, slots[s].busy # NoID
  PROVE  /\ LineOf(s) # <<>> /\ Head(LineOf(s)) = slots[s].busy
         /\ LineOf(s) \in Seq(Senders)
         /\ \A u : (\E i \in DOMAIN LineOf(s) : LineOf(s)[i] = u) <=>
                     u = slots[s].busy \/ \E i \in DOMAIN slots[s].queue :
                                            slots[s].queue[i].openID = u
<1> DEFINE q == slots[s].queue
           L == LineOf(s)
<1>1. /\ slots[s].busy \in Senders /\ q \in Seq(Item)
      /\ L = LineFor(slots[s].busy, q)
  BY LineOfFacts
<1>2. /\ L \in Seq(Senders) /\ L # <<>> /\ Len(q) \in Nat
      /\ DOMAIN L = 1 .. Len(q) + 1 /\ DOMAIN q = 1 .. Len(q)
      /\ L[1] = slots[s].busy /\ Head(L) = slots[s].busy
      /\ \A i \in DOMAIN q : L[i + 1] = q[i].openID
  BY <1>1, LineForFacts
<1> HIDE DEF L, q
<1>3. \A i \in DOMAIN L : i = 1 \/ (i - 1 \in DOMAIN q /\ L[i] = q[i - 1].openID)
  <2> SUFFICES ASSUME NEW i \in DOMAIN L, i # 1
               PROVE  i - 1 \in DOMAIN q /\ L[i] = q[i - 1].openID
    OBVIOUS
  <2>1. i - 1 \in DOMAIN q /\ (i - 1) + 1 = i
    BY <1>2
  <2> QED
    BY <1>2, <2>1
<1>4. 1 \in DOMAIN L /\ \A i \in DOMAIN q : i + 1 \in DOMAIN L
  BY <1>2
<1>5. ASSUME NEW u
      PROVE  (\E i \in DOMAIN L : L[i] = u) <=>
               u = slots[s].busy \/ \E i \in DOMAIN q : q[i].openID = u
  BY <1>2, <1>3, <1>4
<1> QED
  BY <1>2, <1>5 DEF L, q

\* What the state of a message says of its places.
LEMMA StateFacts ==
  ASSUME PlaceInv, NEW m \in Msgs
  PROVE  /\ StateOf(m) = "unsent" <=> result[m] = "none"
         /\ StateOf(m) = "answered" <=> m \in replied
         /\ StateOf(m) = "owed" <=> InHand(m)
         /\ StateOf(m) = "waiting" <=> InQueue(m)
         /\ StateOf(m) = "added" <=> InExtra(m)
<1>1. Texts /\ Placed(m)
  BY PlaceInvSplit DEF AllPlaced
<1>2. /\ InHand(m) => result[m] # "none"
      /\ InQueue(m) => result[m] = "queued"
      /\ InExtra(m) => result[m] = "merged"
      /\ m \in replied => result[m] # "none"
  BY <1>1, PlaceFacts DEF Settled
<1> QED
  BY <1>1, <1>2 DEF StateOf, Placed, InExtra

\* A message whose places do not change keeps its state.
LEMMA SameState ==
  ASSUME NEW m \in Msgs, SamePlace(m), result'[m] = result[m],
         m \in replied' <=> m \in replied
  PROVE  StateOf(m)' = StateOf(m)
<1>1. /\ InHand(m)' <=> InHand(m)
      /\ InQueue(m)' <=> InQueue(m)
      /\ m \in SlotOf(m)'.extra <=> m \in SlotOf(m).extra
  BY DEF SamePlace, InExtra
<1> QED
  BY <1>1 DEF StateOf

LEMMA StutterState ==
  ASSUME PlaceInv, [Next]_vars, Stutters
  PROVE  stateBar' = stateBar
<1>1. /\ \A x \in Msgs : SamePlace(x)
      /\ result' = result /\ replied' = replied
  BY PlaceInvSplit, StutterMoves
<1>2. \A x \in Msgs : StateOf(x)' = StateOf(x)
  BY <1>1, SameState
<1> QED
  BY <1>2 DEF stateBar

LEMMA ArriveState ==
  ASSUME PlaceInv, NEW m \in Msgs, Arrive(m)
  PROVE  /\ StateOf(m) = "unsent"
         /\ Accept(m) => StateOf(m)' = "owed"
         /\ Merge(m) => StateOf(m)' = "added"
         /\ Rejoin(m) \/ Enqueue(m) => StateOf(m)' = "waiting"
         /\ \A x \in Msgs : x # m => StateOf(x)' = StateOf(x)
<1>0. SlotInv /\ Texts
  BY PlaceInvSplit
<1>1. /\ result[m] = "none" /\ result'[m] # "none" /\ replied' = replied
      /\ \A x \in Msgs : x # m => result'[x] = result[x]
      /\ \A x \in Msgs : InHand(x)' <=> InHand(x) \/ (x = m /\ result'[m] = "accepted")
  BY <1>0, ArriveMoves
<1>2. ~InHand(m) /\ ~InQueue(m) /\ ~InExtra(m) /\ m \notin replied
  BY <1>0, <1>1, UndecidedNowhere
<1>3. \A x \in Msgs : x # m => (InQueue(x)' <=> InQueue(x)) /\ (InExtra(x)' <=> InExtra(x))
  BY <1>0, AcceptMoves, MergeMoves, RejoinMoves, EnqueueMoves DEF Arrive
<1>4. \A x \in Msgs : x # m => StateOf(x)' = StateOf(x)
  BY <1>1, <1>3, SameState DEF SamePlace
<1>5. StateOf(m) = "unsent"
  BY <1>1, <1>2 DEF StateOf, InExtra
<1>6. ASSUME Accept(m) PROVE StateOf(m)' = "owed"
  <2>1. /\ InHand(m)' /\ ~InQueue(m)' /\ ~InExtra(m)'
        /\ m \notin replied' /\ result'[m] # "none"
    BY <1>0, <1>1, <1>2, <1>6, AcceptMoves
  <2> QED
    BY <2>1 DEF StateOf, InExtra
<1>7. ASSUME Merge(m) PROVE StateOf(m)' = "added"
  <2>1. /\ ~InHand(m)' /\ ~InQueue(m)' /\ InExtra(m)'
        /\ m \notin replied' /\ result'[m] # "none"
    BY <1>0, <1>1, <1>2, <1>7, MergeMoves
  <2> QED
    BY <2>1 DEF StateOf, InExtra
<1>8. ASSUME Rejoin(m) \/ Enqueue(m) PROVE StateOf(m)' = "waiting"
  <2>1. /\ ~InHand(m)' /\ InQueue(m)' /\ ~InExtra(m)'
        /\ m \notin replied' /\ result'[m] # "none"
    BY <1>0, <1>1, <1>2, <1>8, RejoinMoves, EnqueueMoves
  <2> QED
    BY <2>1 DEF StateOf, InExtra
<1> QED
  BY <1>4, <1>5, <1>6, <1>7, <1>8

LEMMA ReplyState ==
  ASSUME PlaceInv, NEW j \in Msgs, Reply(j)
  PROVE  /\ \E x \in Msgs : StateOf(x) = "owed" /\ ScopeOf(x) = ScopeOf(j)
         /\ \A x \in Msgs : StateOf(x)' =
              IF StateOf(x) = "owed" /\ ScopeOf(x) = ScopeOf(j) THEN "answered"
              ELSE StateOf(x)
<1>0. SlotInv /\ Texts /\ AllPlaced
  BY PlaceInvSplit
<1>1. /\ result' = result /\ replied' = replied \cup job[j].content
      /\ job[j].content # {} /\ job[j].content \subseteq Msgs
      /\ \A x \in job[j].content : InHand(x) /\ ScopeOf(x) = ScopeOf(j)
      /\ \A x \in Msgs : InHand(x)' <=> InHand(x) /\ x \notin job[j].content
      /\ \A x \in Msgs : (InQueue(x)' <=> InQueue(x)) /\ (InExtra(x)' <=> InExtra(x))
  BY <1>0, ReplyMoves
<1>2. InLoop(j)
  BY DEF Reply, InLoop
<1>3. \A x \in Msgs : x \in job[j].content <=> StateOf(x) = "owed" /\ ScopeOf(x) = ScopeOf(j)
  BY <1>0, <1>1, <1>2, LoopHand, StateFacts DEF Texts
<1>4. ASSUME NEW x \in Msgs, x \in job[j].content PROVE StateOf(x)' = "answered"
  <2>1. /\ result'[x] # "none" /\ x \in replied'
        /\ ~InHand(x)' /\ ~InQueue(x)' /\ ~InExtra(x)'
    BY <1>0, <1>1, <1>4, PlaceFacts DEF AllPlaced, Placed
  <2> QED
    BY <2>1 DEF StateOf, InExtra
<1>5. ASSUME NEW x \in Msgs, x \notin job[j].content PROVE StateOf(x)' = StateOf(x)
  BY <1>1, <1>5, SameState DEF SamePlace
<1> QED
  BY <1>1, <1>3, <1>4, <1>5

LEMMA DrainState ==
  ASSUME PlaceInv, NEW j \in Msgs, DrainExtra(j)
  PROVE  \A x \in Msgs :
           /\ ScopeOf(x) = ScopeOf(j) => StateOf(x) # "owed"
           /\ StateOf(x)' = IF StateOf(x) = "added" /\ ScopeOf(x) = ScopeOf(j)
                            THEN "owed" ELSE StateOf(x)
<1>0. SlotInv /\ Texts /\ AllPlaced
  BY PlaceInvSplit
<1>1. /\ result' = result /\ replied' = replied
      /\ \A x \in Msgs : ScopeOf(x) = ScopeOf(j) => ~InHand(x)
      /\ \A x \in Msgs :
           /\ InHand(x)' <=> InHand(x) \/ (InExtra(x) /\ ScopeOf(x) = ScopeOf(j))
           /\ InQueue(x)' <=> InQueue(x)
           /\ InExtra(x)' <=> InExtra(x) /\ ScopeOf(x) # ScopeOf(j)
  BY <1>0, DrainMoves
<1>2. \A x \in Msgs : ScopeOf(x) = ScopeOf(j) => StateOf(x) # "owed"
  BY <1>1, StateFacts
<1>3. ASSUME NEW x \in Msgs, InExtra(x), ScopeOf(x) = ScopeOf(j) PROVE StateOf(x)' = "owed"
  <2>1. /\ InHand(x)' /\ ~InQueue(x)' /\ ~InExtra(x)'
        /\ x \notin replied' /\ result'[x] # "none"
    BY <1>0, <1>1, <1>3, PlaceFacts DEF AllPlaced, Placed
  <2> QED
    BY <2>1 DEF StateOf, InExtra
<1>4. ASSUME NEW x \in Msgs, ~(InExtra(x) /\ ScopeOf(x) = ScopeOf(j))
      PROVE  StateOf(x)' = StateOf(x)
  BY <1>1, <1>4, SameState DEF SamePlace
<1>5. \A x \in Msgs : StateOf(x) = "added" <=> InExtra(x)
  BY StateFacts
<1> QED
  BY <1>2, <1>3, <1>4, <1>5

LEMMA FinishIdleState ==
  ASSUME PlaceInv, NEW j \in Msgs, FinishIdle(j)
  PROVE  \A x \in Msgs :
           /\ ScopeOf(x) = ScopeOf(j) => StateOf(x) \notin {"owed", "waiting"}
           /\ StateOf(x)' = IF StateOf(x) = "added" /\ ScopeOf(x) = ScopeOf(j)
                            THEN "dropped" ELSE StateOf(x)
<1>0. SlotInv /\ Texts /\ AllPlaced
  BY PlaceInvSplit
<1>1. /\ result' = result /\ replied' = replied
      /\ \A x \in Msgs : ScopeOf(x) = ScopeOf(j) => ~InHand(x) /\ ~InQueue(x)
      /\ \A x \in Msgs : /\ InHand(x)' <=> InHand(x)
                         /\ InQueue(x)' <=> InQueue(x)
                         /\ InExtra(x)' <=> InExtra(x) /\ ScopeOf(x) # ScopeOf(j)
  BY <1>0, FinishIdleMoves
<1>2. \A x \in Msgs : ScopeOf(x) = ScopeOf(j) => StateOf(x) \notin {"owed", "waiting"}
  BY <1>1, StateFacts
<1>3. ASSUME NEW x \in Msgs, InExtra(x), ScopeOf(x) = ScopeOf(j)
      PROVE  StateOf(x)' = "dropped"
  <2>1. /\ ~InHand(x)' /\ ~InQueue(x)' /\ ~InExtra(x)'
        /\ x \notin replied' /\ result'[x] # "none"
    BY <1>0, <1>1, <1>3, PlaceFacts DEF AllPlaced, Placed
  <2> QED
    BY <2>1 DEF StateOf, InExtra
<1>4. ASSUME NEW x \in Msgs, ~(InExtra(x) /\ ScopeOf(x) = ScopeOf(j))
      PROVE  StateOf(x)' = StateOf(x)
  BY <1>1, <1>4, SameState DEF SamePlace
<1>5. \A x \in Msgs : StateOf(x) = "added" <=> InExtra(x)
  BY StateFacts
<1> QED
  BY <1>2, <1>3, <1>4, <1>5

LEMMA FinishNextState ==
  ASSUME PlaceInv, NEW j \in Msgs, FinishNext(j)
  PROVE  LET u == Head(slots[ScopeOf(j)].queue).openID IN
         \A x \in Msgs :
           /\ ScopeOf(x) = ScopeOf(j) => StateOf(x) # "owed"
           /\ ScopeOf(x) # ScopeOf(j) => StateOf(x)' = StateOf(x)
           /\ ScopeOf(x) = ScopeOf(j) =>
                StateOf(x)' = CASE StateOf(x) = "added" -> "dropped"
                                [] StateOf(x) = "waiting" /\ Author[x] = u -> "owed"
                                [] OTHER -> StateOf(x)
<1> DEFINE next == Head(slots[ScopeOf(j)].queue)
<1>0. SlotInv /\ Texts /\ AllPlaced
  BY PlaceInvSplit
<1>1. /\ result' = result /\ replied' = replied
      /\ \A x \in Msgs : ScopeOf(x) = ScopeOf(j) => ~InHand(x)
      /\ \A x \in next.content : InQueue(x) /\ ScopeOf(x) = ScopeOf(j)
      /\ \A x \in Msgs : InQueue(x) /\ ScopeOf(x) = ScopeOf(j) =>
           (x \in next.content <=> Author[x] = next.openID)
      /\ \A x \in Msgs : /\ InHand(x)' <=> InHand(x) \/ x \in next.content
                         /\ InQueue(x)' <=> InQueue(x) /\ x \notin next.content
                         /\ InExtra(x)' <=> InExtra(x) /\ ScopeOf(x) # ScopeOf(j)
  BY <1>0, FinishNextMoves
<1> HIDE DEF next
<1>2. \A x \in Msgs : ScopeOf(x) = ScopeOf(j) => StateOf(x) # "owed"
  BY <1>1, StateFacts
<1>3. ASSUME NEW x \in Msgs, InExtra(x), ScopeOf(x) = ScopeOf(j)
      PROVE  StateOf(x)' = "dropped"
  <2>0. ~InQueue(x)
    BY <1>0, <1>3, PlaceFacts
  <2>1. /\ ~InHand(x)' /\ ~InQueue(x)' /\ ~InExtra(x)'
        /\ x \notin replied' /\ result'[x] # "none"
    BY <1>0, <1>1, <1>3, <2>0, PlaceFacts DEF AllPlaced, Placed
  <2> QED
    BY <2>1 DEF StateOf, InExtra
<1>4. ASSUME NEW x \in Msgs, x \in next.content PROVE StateOf(x)' = "owed"
  <2>1. /\ InHand(x)' /\ ~InQueue(x)' /\ ~InExtra(x)'
        /\ x \notin replied' /\ result'[x] # "none"
    BY <1>0, <1>1, <1>4, PlaceFacts DEF AllPlaced, Placed
  <2> QED
    BY <2>1 DEF StateOf, InExtra
<1>5. ASSUME NEW x \in Msgs, ~(InExtra(x) /\ ScopeOf(x) = ScopeOf(j)), x \notin next.content
      PROVE  StateOf(x)' = StateOf(x)
  BY <1>1, <1>5, SameState DEF SamePlace
<1>6. \A x \in Msgs : /\ StateOf(x) = "added" <=> InExtra(x)
                      /\ StateOf(x) = "waiting" <=> InQueue(x)
  BY StateFacts
<1>7. \A x \in Msgs : x \in next.content <=>
        StateOf(x) = "waiting" /\ ScopeOf(x) = ScopeOf(j) /\ Author[x] = next.openID
  BY <1>1, <1>6
<1>8. ASSUME NEW x \in Msgs, ScopeOf(x) = ScopeOf(j)
      PROVE  StateOf(x)' = CASE StateOf(x) = "added" -> "dropped"
                             [] StateOf(x) = "waiting" /\ Author[x] = next.openID -> "owed"
                             [] OTHER -> StateOf(x)
  BY <1>3, <1>4, <1>5, <1>6, <1>7, <1>8
<1>9. ASSUME NEW x \in Msgs, ScopeOf(x) # ScopeOf(j) PROVE StateOf(x)' = StateOf(x)
  BY <1>1, <1>5, <1>9
<1> QED
  BY <1>2, <1>8, <1>9 DEF next

\* A slot whose user and whose waiting users stay the same keeps its line.
LEMMA SameLine ==
  ASSUME NEW s \in Scopes, slots'[s].busy = slots[s].busy,
         DOMAIN slots'[s].queue = DOMAIN slots[s].queue,
         \A i \in DOMAIN slots[s].queue :
           slots'[s].queue[i].openID = slots[s].queue[i].openID
  PROVE  LineOf(s)' = LineOf(s)
BY DEF LineOf

LEMMA StutterLine ==
  ASSUME SlotInv, [Next]_vars,
         Stutters \/ (\E j \in Msgs : Reply(j) \/ DrainExtra(j)) \/ (\E m \in Msgs : Merge(m))
  PROVE  lineBar' = lineBar
<1>1. slots \in [Scopes -> Slot]
  BY DEF SlotInv, TypeInv, TypeOK
<1>2. \A s \in Scopes : slots'[s].busy = slots[s].busy /\ slots'[s].queue = slots[s].queue
  <2>1. CASE slots' = slots
    BY <2>1
  <2>2. ASSUME NEW u \in Stoppers, Stop(u)
        PROVE  \A s \in Scopes : /\ slots'[s].busy = slots[s].busy
                                 /\ slots'[s].queue = slots[s].queue
    BY <1>1, <2>2 DEF Stop, Slot
  <2>3. ASSUME NEW j \in Msgs, DrainExtra(j)
        PROVE  \A s \in Scopes : /\ slots'[s].busy = slots[s].busy
                                 /\ slots'[s].queue = slots[s].queue
    BY <1>1, <2>1, <2>3 DEF DrainExtra, Slot
  <2>4. ASSUME NEW m \in Msgs, Merge(m)
        PROVE  \A s \in Scopes : /\ slots'[s].busy = slots[s].busy
                                 /\ slots'[s].queue = slots[s].queue
    BY <1>1, <2>4 DEF Merge, Slot
  <2> QED
    BY <2>1, <2>2, <2>3, <2>4
       DEF Stutters, Answer, AckAccepted, AckMerged, AckQueued, Dispatch, RunEnd, Notify,
           HandOver, Reply, vars
<1>3. \A s \in Scopes : LineOf(s)' = LineOf(s)
  BY <1>2, SameLine
<1> QED
  BY <1>3 DEF lineBar

\* A message that finds its scope idle or has to wait steps to Ask.
LEMMA ArriveAsks ==
  ASSUME AllNamed, PlaceInv, [Next]_vars, NEW m \in Msgs, Arrive(m)
  PROVE  Ask!Ask(m)
<1> DEFINE s == ScopeOf(m)
           q == slots[s].queue
           u == slots[s].busy
           InLine == \E i \in DOMAIN lineBar[s] : lineBar[s][i] = Author[m]
<1>0. SlotInv /\ Texts /\ s \in Scopes /\ slots \in [Scopes -> Slot] /\ Author[m] \in Senders
  BY PlaceInvSplit, ScopeOfMsg DEF SlotInv, TypeInv, TypeOK
<1>1. /\ stateBar[m] = "unsent"
      /\ Accept(m) => stateBar' = [stateBar EXCEPT ![m] = "owed"]
      /\ Merge(m) => stateBar' = [stateBar EXCEPT ![m] = "added"]
      /\ Rejoin(m) \/ Enqueue(m) => stateBar' = [stateBar EXCEPT ![m] = "waiting"]
  BY ArriveState DEF stateBar
<1>2. lineBar[s] = LineOf(s)
  BY <1>0 DEF lineBar
<1>3. SUFFICES /\ \/ lineBar[s] = <<>> /\ Accept(m)
                  \/ lineBar[s] # <<>> /\ Head(lineBar[s]) = Author[m] /\ Merge(m)
                  \/ /\ lineBar[s] # <<>> /\ Head(lineBar[s]) # Author[m]
                     /\ Rejoin(m) \/ Enqueue(m)
               /\ lineBar' = IF InLine THEN lineBar
                             ELSE [lineBar EXCEPT ![s] = Append(@, Author[m])]
  BY <1>1 DEF Ask!Ask
<1>4. u # NoID => /\ lineBar[s] # <<>> /\ Head(lineBar[s]) = u
                  /\ InLine <=> Author[m] = u \/ \E i \in DOMAIN q : q[i].openID = Author[m]
  <2> SUFFICES ASSUME u # NoID
               PROVE  /\ lineBar[s] # <<>> /\ Head(lineBar[s]) = u
                      /\ InLine <=> Author[m] = u \/ \E i \in DOMAIN q : q[i].openID = Author[m]
    OBVIOUS
  <2>1. /\ LineOf(s) # <<>> /\ Head(LineOf(s)) = u
        /\ \A v : (\E i \in DOMAIN LineOf(s) : LineOf(s)[i] = v) <=>
                    v = u \/ \E i \in DOMAIN q : q[i].openID = v
    BY <1>0, BusyLine
  <2> HIDE DEF s, u, q
  <2>2. (\E i \in DOMAIN LineOf(s) : LineOf(s)[i] = Author[m]) <=>
          Author[m] = u \/ \E i \in DOMAIN q : q[i].openID = Author[m]
    BY <2>1
  <2> QED
    BY <1>2, <2>1, <2>2
<1>5. CASE Accept(m)
  <2>1. u = NoID /\ lineBar[s] = <<>> /\ q = <<>>
    BY <1>0, <1>2, <1>5, LineOfFacts DEF Accept, SlotOf
  <2>2. /\ slots'[s].busy = Author[m] /\ slots'[s].queue = <<>>
        /\ \A t \in Scopes : t # s => slots'[t] = slots[t]
    BY <1>0, <1>5, <2>1 DEF Accept, Slot
  <2>3. LineOf(s)' = Append(<<>>, Author[m])
    <3>1. Author[m] # NoID
      BY DEF AllNamed
    <3>2. [i \in DOMAIN <<>> |-> <<>>[i].openID] = <<>>
      OBVIOUS
    <3> QED
      BY <2>2, <3>1, <3>2 DEF LineOf
  <2>4. \A t \in Scopes : t # s => LineOf(t)' = LineOf(t)
    BY <2>2 DEF LineOf
  <2>5. ~InLine
    BY <2>1
  <2>6. lineBar' = [lineBar EXCEPT ![s] = Append(@, Author[m])]
    BY <1>0, <2>1, <2>3, <2>4 DEF lineBar
  <2> QED
    BY <1>5, <2>1, <2>5, <2>6
<1>6. CASE Merge(m)
  <2>1. u # NoID /\ u = Author[m]
    BY <1>6 DEF Merge, SlotOf
  <2>2. lineBar[s] # <<>> /\ Head(lineBar[s]) = Author[m] /\ InLine
    BY <1>4, <2>1
  <2>3. lineBar' = lineBar
    BY <1>0, <1>6, StutterLine
  <2> QED
    BY <1>6, <2>2, <2>3
<1>7. CASE Rejoin(m)
  <2>1. /\ u # NoID /\ u # Author[m]
        /\ \E i \in DOMAIN q : q[i].openID = Author[m]
    BY <1>7 DEF Rejoin, SlotOf
  <2>2. lineBar[s] # <<>> /\ Head(lineBar[s]) # Author[m] /\ InLine
    BY <1>4, <2>1
  <2>3. \A t \in Scopes : LineOf(t)' = LineOf(t)
    BY <1>0, <1>7, RejoinMoves, SameLine
  <2>4. lineBar' = lineBar
    BY <2>3 DEF lineBar
  <2> QED
    BY <1>7, <2>2, <2>4
<1>8. CASE Enqueue(m)
  <2> DEFINE it == [openID |-> Author[m], content |-> {m}, payload |-> m]
  <2>1. /\ u # NoID /\ u # Author[m]
        /\ ~\E i \in DOMAIN q : q[i].openID = Author[m]
    BY <1>8 DEF Enqueue, SlotOf
  <2>2. lineBar[s] # <<>> /\ Head(lineBar[s]) # Author[m] /\ ~InLine
    BY <1>4, <2>1
  <2>3. it \in Item /\ it.openID = Author[m]
    BY <1>0 DEF Item
  <2>4. slots' = [slots EXCEPT ![s].queue = Append(@, it)]
    BY <1>8 DEF Enqueue
  <2> HIDE DEF it
  <2>5. /\ slots'[s].busy = u /\ slots'[s].queue = Append(q, it)
        /\ \A t \in Scopes : t # s => slots'[t] = slots[t]
    BY <1>0, <2>4 DEF Slot
  <2>6. u \in Senders /\ q \in Seq(Item) /\ LineOf(s) = LineFor(u, q)
    BY <1>0, <2>1, LineOfFacts
  <2>7. LineFor(u, Append(q, it)) = Append(LineFor(u, q), Author[m])
    BY <2>3, <2>6, LineForAppend
  <2>8. LineOf(s)' = LineFor(u, Append(q, it))
    BY <2>1, <2>5 DEF LineOf, LineFor
  <2>9. \A t \in Scopes : t # s => LineOf(t)' = LineOf(t)
    BY <2>5 DEF LineOf
  <2>10. lineBar' = [lineBar EXCEPT ![s] = Append(@, Author[m])]
    BY <1>0, <2>6, <2>7, <2>8, <2>9 DEF lineBar
  <2> QED
    BY <1>8, <2>2, <2>10
<1> QED
  BY <1>5, <1>6, <1>7, <1>8 DEF Arrive

LEMMA ReplyAnswers ==
  ASSUME PlaceInv, [Next]_vars, NEW j \in Msgs, Reply(j)
  PROVE  Ask!Answer(ScopeOf(j))
<1>1. lineBar' = lineBar
  BY StutterLine, PlaceInvSplit
<1>2. /\ \E x \in Msgs : StateOf(x) = "owed" /\ ScopeOf(x) = ScopeOf(j)
      /\ \A x \in Msgs : StateOf(x)' =
           IF StateOf(x) = "owed" /\ ScopeOf(x) = ScopeOf(j) THEN "answered"
           ELSE StateOf(x)
  BY ReplyState
<1>3. \A x : x \in Ask!InState(ScopeOf(j), "owed") <=>
               x \in Msgs /\ StateOf(x) = "owed" /\ ScopeOf(x) = ScopeOf(j)
  BY DEF Ask!InState, stateBar
<1>4. stateBar' = [x \in Msgs |-> IF x \in Ask!InState(ScopeOf(j), "owed") THEN "answered"
                                  ELSE stateBar[x]]
  BY <1>2, <1>3 DEF stateBar
<1> QED
  BY <1>1, <1>2, <1>3, <1>4 DEF Ask!Answer

LEMMA DrainsAgain ==
  ASSUME PlaceInv, [Next]_vars, NEW j \in Msgs, DrainExtra(j)
  PROVE  Ask!Again(ScopeOf(j)) \/ UNCHANGED <<lineBar, stateBar>>
<1>1. lineBar' = lineBar
  BY StutterLine, PlaceInvSplit
<1>2. \A x \in Msgs :
        /\ ScopeOf(x) = ScopeOf(j) => StateOf(x) # "owed"
        /\ StateOf(x)' = IF StateOf(x) = "added" /\ ScopeOf(x) = ScopeOf(j)
                         THEN "owed" ELSE StateOf(x)
  BY DrainState
<1>3. \A st, x : x \in Ask!InState(ScopeOf(j), st) <=>
                   x \in Msgs /\ StateOf(x) = st /\ ScopeOf(x) = ScopeOf(j)
  BY DEF Ask!InState, stateBar
<1>4. stateBar' = [x \in Msgs |-> IF x \in Ask!InState(ScopeOf(j), "added") THEN "owed"
                                  ELSE stateBar[x]]
  BY <1>2, <1>3 DEF stateBar
<1>5. Ask!InState(ScopeOf(j), "owed") = {}
  BY <1>2, <1>3
<1>6. CASE Ask!InState(ScopeOf(j), "added") # {}
  BY <1>1, <1>4, <1>5, <1>6 DEF Ask!Again
<1>7. CASE Ask!InState(ScopeOf(j), "added") = {}
  <2>1. \A x \in Msgs : StateOf(x)' = StateOf(x)
    BY <1>2, <1>3, <1>7
  <2> QED
    BY <1>1, <2>1 DEF stateBar
<1> QED
  BY <1>6, <1>7

\* The line of a scope whose job ends loses its head.
LEMMA FinishLine ==
  ASSUME AllNamed, SlotInv, NEW j \in Msgs, FinishIdle(j) \/ FinishNext(j)
  PROVE  LET s == ScopeOf(j) IN
         /\ s \in Scopes /\ LineOf(s) # <<>>
         /\ lineBar' = [lineBar EXCEPT ![s] = Tail(@)]
         /\ FinishNext(j) => LineOf(s)[2] = Head(slots[s].queue).openID
<1> DEFINE s == ScopeOf(j)
           q == slots[s].queue
           u == slots[s].busy
<1>1. s \in Scopes /\ slots \in [Scopes -> Slot]
  BY ScopeOfMsg DEF SlotInv, TypeInv, TypeOK
<1>2. u # NoID
  BY FinisherFacts DEF FinishIdle, FinishNext
<1>3. u \in Senders /\ q \in Seq(Item) /\ LineOf(s) = LineFor(u, q)
  BY <1>1, <1>2, LineOfFacts
<1>4. LineOf(s) # <<>>
  BY <1>3, LineForFacts
<1>5. \A t \in Scopes : t # s => LineOf(t)' = LineOf(t)
  <2>1. \A t \in Scopes : t # s => slots'[t] = slots[t]
    BY <1>1 DEF FinishIdle, FinishNext
  <2> QED
    BY <2>1 DEF LineOf
<1>6. CASE FinishIdle(j)
  <2>1. q = <<>> /\ slots'[s].busy = NoID
    BY <1>1, <1>6 DEF FinishIdle, SlotOf, IdleSlot
  <2>2. LineOf(s)' = <<>> /\ Tail(LineOf(s)) = <<>>
    BY <1>3, <2>1, LineForTail DEF LineOf
  <2>3. lineBar' = [lineBar EXCEPT ![s] = Tail(@)]
    BY <1>1, <1>5, <2>2 DEF lineBar
  <2>4. ~FinishNext(j)
    BY <2>1 DEF FinishNext, SlotOf
  <2> QED
    BY <1>1, <1>4, <2>3, <2>4
<1>7. CASE FinishNext(j)
  <2>1. q # <<>> /\ slots'[s].busy = Head(q).openID /\ slots'[s].queue = Tail(q)
    BY <1>1, <1>7 DEF FinishNext, SlotOf
  <2>2. Head(q).openID # NoID
    <3>1. 1 \in DOMAIN q /\ Head(q) = q[1]
      BY <1>1, <2>1, QueueType, EmptySeq
    <3>2. q[1].payload \in Msgs /\ Author[q[1].payload] = q[1].openID
      BY <1>1, <3>1, WaiterFacts
    <3> QED
      BY <3>1, <3>2 DEF AllNamed
  <2>3. LineOf(s)' = LineFor(Head(q).openID, Tail(q))
    BY <2>1, <2>2 DEF LineOf, LineFor
  <2>4. /\ Tail(LineOf(s)) = LineFor(Head(q).openID, Tail(q))
        /\ LineOf(s)[2] = Head(q).openID
    BY <1>3, <2>1, LineForTail
  <2>5. lineBar' = [lineBar EXCEPT ![s] = Tail(@)]
    BY <1>1, <1>5, <2>3, <2>4 DEF lineBar
  <2> QED
    BY <1>1, <1>4, <2>4, <2>5
<1> QED
  BY <1>6, <1>7

LEMMA FinishLeaves ==
  ASSUME AllNamed, PlaceInv, NEW j \in Msgs, FinishIdle(j) \/ FinishNext(j)
  PROVE  Ask!Leave(ScopeOf(j))
<1> DEFINE s == ScopeOf(j)
<1>0. SlotInv
  BY PlaceInvSplit
<1>1. /\ s \in Scopes /\ lineBar[s] # <<>>
      /\ lineBar' = [lineBar EXCEPT ![s] = Tail(@)]
      /\ FinishNext(j) => lineBar[s][2] = Head(slots[s].queue).openID
  BY <1>0, FinishLine DEF lineBar
<1>2. \A st, x : x \in Ask!InState(s, st) <=> x \in Msgs /\ StateOf(x) = st /\ ScopeOf(x) = s
  BY DEF Ask!InState, stateBar
<1>3. \A x \in Msgs : ScopeOf(x) = s => StateOf(x) # "owed"
  BY FinishIdleState, FinishNextState
<1>4. \A x \in Msgs : StateOf(x)' =
        CASE x \in Ask!InState(s, "added") -> "dropped"
          [] x \in Ask!InState(s, "waiting") /\ Author[x] = lineBar[s][2] -> "owed"
          [] OTHER -> StateOf(x)
  <2>1. CASE FinishIdle(j)
    <3>1. \A x \in Msgs :
            /\ ScopeOf(x) = s => StateOf(x) \notin {"owed", "waiting"}
            /\ StateOf(x)' = IF StateOf(x) = "added" /\ ScopeOf(x) = s
                             THEN "dropped" ELSE StateOf(x)
      BY <2>1, FinishIdleState
    <3> QED
      BY <1>2, <3>1
  <2>2. CASE FinishNext(j)
    <3> DEFINE u == Head(slots[s].queue).openID
    <3>1. \A x \in Msgs :
            /\ ScopeOf(x) # s => StateOf(x)' = StateOf(x)
            /\ ScopeOf(x) = s =>
                 StateOf(x)' = CASE StateOf(x) = "added" -> "dropped"
                                 [] StateOf(x) = "waiting" /\ Author[x] = u -> "owed"
                                 [] OTHER -> StateOf(x)
      BY <2>2, FinishNextState
    <3>2. lineBar[s][2] = u
      BY <1>1, <2>2
    <3> HIDE DEF u, s
    <3> QED
      BY <1>2, <3>1, <3>2
  <2> QED
    BY <2>1, <2>2
<1>5. stateBar' = [x \in Msgs |->
        CASE x \in Ask!InState(s, "added") -> "dropped"
          [] x \in Ask!InState(s, "waiting") /\ Author[x] = lineBar[s][2] -> "owed"
          [] OTHER -> stateBar[x]]
  BY <1>4 DEF stateBar
<1>6. Ask!InState(s, "owed") = {}
  BY <1>2, <1>3
<1> QED
  BY <1>1, <1>5, <1>6 DEF Ask!Leave

LEMMA InitAsk == Init => Ask!Init
<1> SUFFICES ASSUME Init PROVE Ask!Init
  OBVIOUS
<1>1. \A s \in Scopes : LineOf(s) = <<>>
  BY DEF Init, IdleSlot, LineOf
<1>2. \A m \in Msgs : StateOf(m) = "unsent"
  <2>1. \A m \in Msgs : job[m].pc = "idle" /\ result[m] = "none" /\ m \notin replied
    BY DEF Init, NoJob
  <2>2. \A m \in Msgs : ~InHand(m)
    BY <2>1 DEF InHand
  <2>3. \A m \in Msgs : ~InQueue(m) /\ m \notin SlotOf(m).extra
    BY ScopeOfMsg DEF Init, IdleSlot, InQueue, SlotOf
  <2> QED
    BY <2>1, <2>2, <2>3 DEF StateOf
<1> QED
  BY <1>1, <1>2 DEF Ask!Init, lineBar, stateBar

LEMMA NextAsk ==
  ASSUME AllNamed, PlaceInv, [Next]_vars
  PROVE  [Ask!Next]_<<lineBar, stateBar>>
<1>1. CASE Stutters
  BY <1>1, StutterLine, StutterState, PlaceInvSplit
<1>2. ASSUME NEW m \in Msgs, Arrive(m) PROVE Ask!Next
  BY <1>2, ArriveAsks DEF Ask!Next
<1>3. ASSUME NEW j \in Msgs, Reply(j) PROVE Ask!Next
  BY <1>3, ReplyAnswers, ScopeOfMsg DEF Ask!Next
<1>4. ASSUME NEW j \in Msgs, DrainExtra(j) PROVE [Ask!Next]_<<lineBar, stateBar>>
  BY <1>4, DrainsAgain, ScopeOfMsg DEF Ask!Next
<1>5. ASSUME NEW j \in Msgs, FinishIdle(j) \/ FinishNext(j) PROVE Ask!Next
  BY <1>5, FinishLeaves, ScopeOfMsg DEF Ask!Next
<1>6. ASSUME NEW j \in Msgs, FinishForeign(j) PROVE FALSE
  BY <1>6, FinishForeignNever, PlaceInvSplit
<1> QED
  BY <1>1, <1>2, <1>3, <1>4, <1>5, <1>6 DEF Stutters, Next, RunJob, Finish

\* The queue keeps what the bot promises: jobs.Manager with the goroutines of
\* Handle and runJob implements AskService, every step of theirs a step of it
\* or none.
THEOREM PromiseKept ==
  ASSUME AllNamed
  PROVE  Spec => KeepsThePromise
<1>1. Init => Ask!Init
  BY InitAsk
<1>2. PlaceInv /\ [Next]_vars => [Ask!Next]_<<lineBar, stateBar>>
  BY NextAsk
<1> QED
  BY <1>1, <1>2, PlaceInvHolds, PTL DEF Spec, KeepsThePromise, Ask!Spec, Ask!vars
=============================================================================
