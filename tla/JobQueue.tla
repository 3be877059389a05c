------------------------------ MODULE JobQueue ------------------------------
(***************************************************************************)
(* The per-scope job queue of one bot: jobs.Manager together with the      *)
(* goroutines of inbound.Dispatcher that use it.  A chat message is        *)
(* handled by a goroutine of its own (Dispatcher.Handle, from TryAccept    *)
(* on); the goroutine that finds the scope idle starts a job               *)
(* (Dispatcher.runJob), and the deferred function of a job starts the job  *)
(* of the next waiter.  A job is named by the message it was started for   *)
(* (the queue item's payload).                                             *)
(*                                                                         *)
(* The text of a prompt is abstracted to the set of messages it contains.  *)
(* Every message has a non-empty text.  Read-only calls (Busy, Snapshot)   *)
(* and the names and texts kept only for them are left out.                *)
(***************************************************************************)
EXTENDS Naturals, Sequences, FiniteSets

CONSTANTS
  Msgs,         \* the chat messages that reach TryAccept, one goroutine each
  OpenIDs,      \* the users that have an openID
  NoID,         \* the empty openID: an idle slot, and a sender without one
  NoMsg,        \* no message: a nil context, or context.Background()
  Author,       \* [Msgs -> OpenIDs \cup {NoID}], Normalized.OpenID
  Channel,      \* the scope shared by the users of a channel queue
  SessionMode,  \* bot.Config.SessionMode
  QueueMode,    \* bot.Config.JobQueue
  Stoppers      \* the users who send --stop

Senders == OpenIDs \cup {NoID}

ASSUME JobQueueAssumption ==
  /\ NoID \notin OpenIDs
  /\ NoMsg \notin Msgs
  /\ Author \in [Msgs -> Senders]
  /\ SessionMode \in {"shared", "per_user", "oneshot"}
  /\ QueueMode \in {"", "user", "channel"}
  /\ Channel \notin Senders
  /\ Stoppers \subseteq Senders

VARIABLES
  slots,      \* Manager.slots; an absent slot is IdleSlot
  cancelled,  \* the contexts whose cancel function has been called
  result,     \* Result.Status of the message's TryAccept, "none" before it
  position,   \* Result.Position of the message's TryAccept
  acked,      \* the messages whose Handle has returned
  job,        \* the state of each runJob goroutine
  replied,    \* the messages covered by a reply that has been sent
  told        \* the last queue position sent to each user, 0 before the first

vars == <<slots, cancelled, result, position, acked, job, replied, told>>

-----------------------------------------------------------------------------
(* Scopes and slots *)

\* The default follows session_mode, job_queue overrides it.
UseChannelQueue ==
  \/ QueueMode = "channel"
  \/ QueueMode = "" /\ SessionMode = "shared"

Scope(u) == IF UseChannelQueue THEN Channel ELSE u

Scopes == {Scope(u) : u \in Senders}

Item == [openID : Senders, content : SUBSET Msgs, payload : Msgs]

NoItem == [openID |-> NoID, content |-> {}, payload |-> NoMsg]

Slot == [busy   : Senders,            \* busyOpenID
         extra  : SUBSET Msgs,
         queue  : Seq(Item),
         ctx    : Msgs \cup {NoMsg},  \* the job the context was made for
         cancel : BOOLEAN]            \* the cancel function is not nil

IdleSlot == [busy |-> NoID, extra |-> {}, queue |-> <<>>,
             ctx |-> NoMsg, cancel |-> FALSE]

Notice == [openID : Senders, position : Nat]

Job == [pc      : {"idle", "dispatch", "running", "reply", "drain", "finish",
                   "notify", "done"},
        content : SUBSET Msgs,
        ctx     : Msgs \cup {NoMsg},
        status  : {"ok", "interrupted"},
        notices : Seq(Notice),
        next    : Item \cup {NoItem}]

NoJob == [pc |-> "idle", content |-> {}, ctx |-> NoMsg, status |-> "ok",
          notices |-> <<>>, next |-> NoItem]

ScopeOf(m) == Scope(Author[m])
SlotOf(m) == slots[ScopeOf(m)]

Init ==
  /\ slots = [s \in Scopes |-> IdleSlot]
  /\ cancelled = {}
  /\ result = [m \in Msgs |-> "none"]
  /\ position = [m \in Msgs |-> 0]
  /\ acked = {}
  /\ job = [m \in Msgs |-> NoJob]
  /\ replied = {}
  /\ told = [u \in Senders |-> 0]

-----------------------------------------------------------------------------
(* Dispatcher.Handle: TryAccept under the manager's mutex, the answer to    *)
(* the user after it.                                                       *)

Decide(m, status, pos) ==
  /\ result' = [result EXCEPT ![m] = status]
  /\ position' = [position EXCEPT ![m] = pos]
  /\ UNCHANGED <<cancelled, acked, job, replied, told>>

\* The scope is idle: the message becomes its running job.
Accept(m) ==
  /\ result[m] = "none"
  /\ SlotOf(m).busy = NoID
  /\ slots' = [slots EXCEPT ![ScopeOf(m)].busy = Author[m],
                            ![ScopeOf(m)].ctx = m,
                            ![ScopeOf(m)].cancel = TRUE]
  /\ Decide(m, "accepted", 0)

\* The author's own job is running: the text joins its extra text.
Merge(m) ==
  /\ result[m] = "none"
  /\ SlotOf(m).busy # NoID
  /\ SlotOf(m).busy = Author[m]
  /\ slots' = [slots EXCEPT ![ScopeOf(m)].extra = @ \cup {m}]
  /\ Decide(m, "merged", 0)

\* Variant: the new text takes the place of the waiting one.
JoinedAnew(item, m) ==
  [item EXCEPT !.content = {m}, !.payload = m]

Joined(item, m) ==
  [item EXCEPT !.content = @ \cup {m}, !.payload = m]

\* The author is already waiting: the text joins the waiting item, and the
\* payload (message, attachments, commands) is replaced.
Rejoin(m) ==
  /\ result[m] = "none"
  /\ SlotOf(m).busy \notin {NoID, Author[m]}
  /\ \E i \in DOMAIN SlotOf(m).queue :
       /\ SlotOf(m).queue[i].openID = Author[m]
       /\ \A k \in 1 .. i - 1 : SlotOf(m).queue[k].openID # Author[m]
       /\ slots' = [slots EXCEPT ![ScopeOf(m)].queue[i] = Joined(@, m)]
       /\ Decide(m, "queued", i)

Enqueue(m) ==
  /\ result[m] = "none"
  /\ SlotOf(m).busy \notin {NoID, Author[m]}
  /\ \A i \in DOMAIN SlotOf(m).queue : SlotOf(m).queue[i].openID # Author[m]
  /\ slots' = [slots EXCEPT ![ScopeOf(m)].queue =
                 Append(@, [openID |-> Author[m], content |-> {m}, payload |-> m])]
  /\ Decide(m, "queued", Len(SlotOf(m).queue) + 1)

\* startJob, first half: the pending ack is sent, then `go runJob`.
Launch(m, content) ==
  job' = [job EXCEPT ![m] = [NoJob EXCEPT !.pc = "dispatch", !.content = content]]

AckAccepted(m) ==
  /\ result[m] = "accepted" /\ m \notin acked
  /\ Launch(m, {m})
  /\ acked' = acked \cup {m}
  /\ UNCHANGED <<slots, cancelled, result, position, replied, told>>

AckMerged(m) ==
  /\ result[m] = "merged" /\ m \notin acked
  /\ acked' = acked \cup {m}
  /\ UNCHANGED <<slots, cancelled, result, position, job, replied, told>>

AckQueued(m) ==
  /\ result[m] = "queued" /\ m \notin acked
  /\ told' = [told EXCEPT ![Author[m]] = position[m]]
  /\ acked' = acked \cup {m}
  /\ UNCHANGED <<slots, cancelled, result, position, job, replied>>

\* --stop: Manager.Cancel on the sender's scope.  It leaves the queue alone.
Stop(u) ==
  /\ slots[Scope(u)].cancel
  /\ cancelled' = cancelled \cup {slots[Scope(u)].ctx}
  /\ slots' = [slots EXCEPT ![Scope(u)].cancel = FALSE]
  /\ UNCHANGED <<result, position, acked, job, replied, told>>

-----------------------------------------------------------------------------
(* Dispatcher.runJob *)

\* The run takes the context the slot holds now.
Dispatch(j) ==
  /\ job[j].pc = "dispatch"
  /\ job' = [job EXCEPT ![j].pc = "running", ![j].ctx = SlotOf(j).ctx]
  /\ UNCHANGED <<slots, cancelled, result, position, acked, replied, told>>

\* DispatchWithContext returns: "interrupted" only under a cancelled context,
\* anything else ("ok" here: an answer, an error or a timeout text) at any time.
RunEnd(j) ==
  /\ job[j].pc = "running"
  /\ \E status \in {"ok", "interrupted"} :
       /\ status = "interrupted" => job[j].ctx \in cancelled
       /\ job' = [job EXCEPT ![j].pc = "reply", ![j].status = status]
  /\ UNCHANGED <<slots, cancelled, result, position, acked, replied, told>>

\* The reply is sent; an interrupted job leaves the loop.
Reply(j) ==
  /\ job[j].pc = "reply"
  /\ replied' = replied \cup job[j].content
  /\ job' = [job EXCEPT ![j].pc =
                IF job[j].status = "interrupted" THEN "finish" ELSE "drain"]
  /\ UNCHANGED <<slots, cancelled, result, position, acked, told>>

Drained(j) == IF SlotOf(j).busy = Author[j] THEN SlotOf(j).extra ELSE {}

\* Manager.DrainExtra: another round for the text merged meanwhile.
DrainExtra(j) ==
  /\ job[j].pc = "drain"
  /\ job' = [job EXCEPT ![j].content = Drained(j),
                        ![j].pc = IF Drained(j) = {} THEN "finish" ELSE "dispatch"]
  /\ slots' = IF SlotOf(j).busy = Author[j]
              THEN [slots EXCEPT ![ScopeOf(j)].extra = {}]
              ELSE slots
  /\ UNCHANGED <<cancelled, result, position, acked, replied, told>>

NoticesFor(queue) ==
  [i \in 1 .. Len(queue) |-> [openID |-> queue[i].openID, position |-> i]]

\* Manager.Finish when the slot has passed to somebody else: nothing to do.
FinishForeign(j) ==
  /\ job[j].pc = "finish"
  /\ SlotOf(j).busy \notin {NoID, Author[j]}
  /\ job' = [job EXCEPT ![j].pc = "done"]
  /\ UNCHANGED <<slots, cancelled, result, position, acked, replied, told>>

\* Manager.Finish with nobody waiting: the slot is deleted.
FinishIdle(j) ==
  /\ job[j].pc = "finish"
  /\ SlotOf(j).busy \in {NoID, Author[j]}
  /\ SlotOf(j).queue = <<>>
  /\ slots' = [slots EXCEPT ![ScopeOf(j)] = IdleSlot]
  /\ job' = [job EXCEPT ![j].pc = "done"]
  /\ UNCHANGED <<cancelled, result, position, acked, replied, told>>

\* Manager.Finish with waiters: the first of them occupies the slot at once,
\* under a context of its own; the others are to be told their new place.
FinishNext(j) ==
  /\ job[j].pc = "finish"
  /\ SlotOf(j).busy \in {NoID, Author[j]}
  /\ SlotOf(j).queue # <<>>
  /\ LET next == Head(SlotOf(j).queue)
         rest == Tail(SlotOf(j).queue)
     IN /\ slots' = [slots EXCEPT ![ScopeOf(j)] =
                       [busy |-> next.openID, extra |-> {}, queue |-> rest,
                        ctx |-> next.payload, cancel |-> TRUE]]
        /\ job' = [job EXCEPT ![j].pc = "notify", ![j].next = next,
                              ![j].notices = NoticesFor(rest)]
  /\ UNCHANGED <<cancelled, result, position, acked, replied, told>>

\* notifyQueue sends the notices one after the other.
Notify(j) ==
  /\ job[j].pc = "notify"
  /\ job[j].notices # <<>>
  /\ told' = [told EXCEPT ![Head(job[j].notices).openID] = Head(job[j].notices).position]
  /\ job' = [job EXCEPT ![j].notices = Tail(@)]
  /\ UNCHANGED <<slots, cancelled, result, position, acked, replied>>

\* startJob for the next waiter, from the deferred function of the old job.
HandOver(j) ==
  /\ job[j].pc = "notify"
  /\ job[j].notices = <<>>
  /\ job' = [job EXCEPT
       ![j] = [@ EXCEPT !.pc = "done", !.next = NoItem],
       ![job[j].next.payload] = [NoJob EXCEPT !.pc = "dispatch",
                                              !.content = job[j].next.content]]
  /\ UNCHANGED <<slots, cancelled, result, position, acked, replied, told>>

-----------------------------------------------------------------------------
(* Faulty variants of the code: each breaks a property below *)

\* TryAccept appends without looking for the user in the queue.
ArriveTwice(m) ==
  \/ Accept(m) \/ Merge(m)
  \/ /\ result[m] = "none"
     /\ SlotOf(m).busy \notin {NoID, Author[m]}
     /\ slots' = [slots EXCEPT ![ScopeOf(m)].queue =
                    Append(@, [openID |-> Author[m], content |-> {m}, payload |-> m])]
     /\ Decide(m, "queued", Len(SlotOf(m).queue) + 1)

\* Finish pops a waiter and leaves the slot to it in the given state.
PopTo(j, next, rest, slot) ==
  /\ job[j].pc = "finish"
  /\ SlotOf(j).busy \in {NoID, Author[j]}
  /\ slots' = [slots EXCEPT ![ScopeOf(j)] = slot]
  /\ job' = [job EXCEPT ![j].pc = "notify", ![j].next = next,
                        ![j].notices = NoticesFor(rest)]
  /\ UNCHANGED <<cancelled, result, position, acked, replied, told>>

\* Finish pops the next waiter but does not occupy the slot for it.
FinishUnoccupied(j) ==
  \/ FinishForeign(j) \/ FinishIdle(j)
  \/ /\ SlotOf(j).queue # <<>>
     /\ LET q == SlotOf(j).queue
        IN PopTo(j, Head(q), Tail(q), [IdleSlot EXCEPT !.queue = Tail(q)])

\* Finish does not arm a new context for the next waiter.
FinishUnarmed(j) ==
  \/ FinishForeign(j) \/ FinishIdle(j)
  \/ /\ SlotOf(j).queue # <<>>
     /\ LET q == SlotOf(j).queue
        IN PopTo(j, Head(q), Tail(q), [SlotOf(j) EXCEPT !.busy = Head(q).openID,
                                                        !.extra = {}, !.queue = Tail(q)])

\* Finish serves the waiter that came last.
FinishLast(j) ==
  \/ FinishForeign(j) \/ FinishIdle(j)
  \/ /\ SlotOf(j).queue # <<>>
     /\ LET q == SlotOf(j).queue
            next == q[Len(q)]
            rest == SubSeq(q, 1, Len(q) - 1)
        IN PopTo(j, next, rest, [busy |-> next.openID, extra |-> {}, queue |-> rest,
                                 ctx |-> next.payload, cancel |-> TRUE])

\* Finish deletes the slot whether or not somebody waits.
FinishAlone(j) ==
  /\ job[j].pc = "finish"
  /\ slots' = [slots EXCEPT ![ScopeOf(j)] = IdleSlot]
  /\ job' = [job EXCEPT ![j].pc = "done"]
  /\ UNCHANGED <<cancelled, result, position, acked, replied, told>>

\* DrainExtra returns the extra text without clearing it.
DrainExtraKept(j) ==
  /\ job[j].pc = "drain"
  /\ job' = [job EXCEPT ![j].content = Drained(j),
                        ![j].pc = IF Drained(j) = {} THEN "finish" ELSE "dispatch"]
  /\ UNCHANGED <<slots, cancelled, result, position, acked, replied, told>>

RunJobUndrained(j) ==
  \/ Dispatch(j) \/ RunEnd(j) \/ Reply(j) \/ DrainExtraKept(j)
  \/ FinishForeign(j) \/ FinishIdle(j) \/ FinishNext(j) \/ Notify(j) \/ HandOver(j)

\* An interrupted job returns without calling Finish.
RunJobUnfinished(j) ==
  \/ Dispatch(j) \/ RunEnd(j) \/ DrainExtra(j)
  \/ /\ job[j].pc = "reply"
     /\ replied' = replied \cup job[j].content
     /\ job' = [job EXCEPT ![j].pc =
                   IF job[j].status = "interrupted" THEN "done" ELSE "drain"]
     /\ UNCHANGED <<slots, cancelled, result, position, acked, told>>
  \/ FinishForeign(j) \/ FinishIdle(j) \/ FinishNext(j) \/ Notify(j) \/ HandOver(j)

\* The deferred function tells the waiters but does not start the next job.
RunJobUnstarted(j) ==
  \/ Dispatch(j) \/ RunEnd(j) \/ Reply(j) \/ DrainExtra(j)
  \/ FinishForeign(j) \/ FinishIdle(j) \/ FinishNext(j) \/ Notify(j)
  \/ /\ job[j].pc = "notify"
     /\ job[j].notices = <<>>
     /\ job' = [job EXCEPT ![j] = [@ EXCEPT !.pc = "done", !.next = NoItem]]
     /\ UNCHANGED <<slots, cancelled, result, position, acked, replied, told>>

-----------------------------------------------------------------------------
(* The next-state relation *)

Arrive(m) == Accept(m) \/ Merge(m) \/ Rejoin(m) \/ Enqueue(m)

Answer(m) == AckAccepted(m) \/ AckMerged(m) \/ AckQueued(m)

Finish(j) == FinishForeign(j) \/ FinishIdle(j) \/ FinishNext(j)

RunJob(j) == \/ Dispatch(j) \/ RunEnd(j) \/ Reply(j) \/ DrainExtra(j)
             \/ Finish(j) \/ Notify(j) \/ HandOver(j)

Next == \/ \E m \in Msgs : Arrive(m) \/ Answer(m) \/ RunJob(m)
        \/ \E u \in Stoppers : Stop(u)

Spec == Init /\ [][Next]_vars

\* The Go scheduler runs every goroutine that can run, every backend bounds a
\* run by its timeout and every send has an HTTP timeout.  Nobody has to write
\* a message or to stop a job.
FairSpec == Spec /\ \A m \in Msgs : WF_vars(Answer(m)) /\ WF_vars(RunJob(m))

-----------------------------------------------------------------------------
(* Where a message is *)

InLoop(m) == job[m].pc \in {"dispatch", "running", "reply", "drain", "finish"}

\* A goroutine answers for the scope from the TryAccept (or the Finish) that
\* took the slot to the Finish that gives it up.
Holds(m) ==
  \/ result[m] = "accepted" /\ m \notin acked
  \/ InLoop(m)
  \/ \E j \in Msgs : job[j].pc = "notify" /\ job[j].next.payload = m

Holders(s) == {m \in Msgs : ScopeOf(m) = s /\ Holds(m)}

\* m is in the prompt of a run that has not been replied to, or on its way to one.
InHand(m) ==
  \/ result[m] = "accepted" /\ m \notin acked
  \/ \E j \in Msgs : \/ /\ job[j].pc \in {"dispatch", "running", "reply"}
                        /\ m \in job[j].content
                     \/ /\ job[j].pc = "notify"
                        /\ m \in job[j].next.content

InQueue(m) == \E i \in DOMAIN SlotOf(m).queue : m \in SlotOf(m).queue[i].content

Ahead(s, u, v) == \E i, k \in DOMAIN slots[s].queue :
                    /\ i < k
                    /\ slots[s].queue[i].openID = u
                    /\ slots[s].queue[k].openID = v

-----------------------------------------------------------------------------
(* Properties *)

\* The type of the state: Manager.slots and the goroutines' locals.
TypeOK ==
  /\ slots \in [Scopes -> Slot]
  /\ cancelled \in SUBSET Msgs
  /\ result \in [Msgs -> {"none", "accepted", "merged", "queued"}]
  /\ position \in [Msgs -> Nat]
  /\ acked \in SUBSET Msgs
  /\ job \in [Msgs -> Job]
  /\ replied \in SUBSET Msgs
  /\ told \in [Senders -> Nat]

\* A scope is busy exactly while one goroutine answers for it, and that
\* goroutine works for the user the slot names: no second job beside the
\* first, and no slot left busy with nobody to finish it (jobs.go, busyOpenID).
OneRunnerPerScope ==
  \A s \in Scopes :
    IF slots[s].busy = NoID
    THEN Holders(s) = {}
    ELSE \E m \in Msgs : Holders(s) = {m} /\ Author[m] = slots[s].busy

\* "serialize the whole channel" (jobs.go, UseChannelQueue): two jobs of one
\* scope never run side by side.
ChannelSerialized ==
  \A a, b \in Msgs : InLoop(a) /\ InLoop(b) /\ ScopeOf(a) = ScopeOf(b) => a = b

\* A user has one place in a scope: running, or one item of the queue; and
\* nobody waits for an idle slot (TryAccept looks for the user before it appends).
OnePlacePerUser ==
  \A s \in Scopes :
    /\ \A i \in DOMAIN slots[s].queue :
         /\ slots[s].queue[i].openID # slots[s].busy
         /\ \A k \in DOMAIN slots[s].queue :
              slots[s].queue[i].openID = slots[s].queue[k].openID => i = k
    /\ slots[s].queue # <<>> => slots[s].busy # NoID

\* The slot's context is that of the job that holds it, and can be cancelled
\* until a stop has cancelled it: --stop reaches the job that runs now, never
\* its successor or one that has ended (armCancel, Cancel).
StopReachesTheRunner ==
  \A s \in Scopes : slots[s].busy # NoID =>
    /\ slots[s].ctx \in Holders(s)
    /\ slots[s].cancel <=> slots[s].ctx \notin cancelled

\* What was accepted or queued is in somebody's hands until it is replied to.
NothingQueuedIsLost ==
  \A m \in Msgs : result[m] \in {"accepted", "queued"} =>
    m \in replied \/ InHand(m) \/ InQueue(m)

\* The same for text merged into a running job, whose author is told it will
\* be handled later (inbound.go, the answer to StatusMerged).
MergedIsHandled ==
  \A m \in Msgs : result[m] = "merged" =>
    m \in replied \/ InHand(m) \/ m \in SlotOf(m).extra

\* No message gets into a second prompt once it has been replied to, and none
\* is in two prompts, the queue and the extra text at the same time.
NoSecondAnswer ==
  /\ \A m \in replied : ~InHand(m) /\ ~InQueue(m) /\ m \notin SlotOf(m).extra
  /\ \A m \in Msgs : ~(InHand(m) /\ InQueue(m)) /\ ~(InHand(m) /\ m \in SlotOf(m).extra)
  /\ \A a, b \in Msgs : InLoop(a) /\ InLoop(b) /\ a # b => job[a].content \cap job[b].content = {}

\* "After every answer the remaining places are brought up to date" (README,
\* job_queue): with no answer and no notice under way, the last place a
\* waiting user was told is the place the user has.
ToldTheTruth ==
  (/\ \A m \in Msgs : result[m] # "none" => m \in acked
   /\ \A j \in Msgs : job[j].notices = <<>>)
  => \A s \in Scopes : \A i \in DOMAIN slots[s].queue :
       told[slots[s].queue[i].openID] = i

\* A waiter is overtaken by nobody: whoever is ahead stays ahead until served.
NoOvertaking ==
  [][\A s \in Scopes, u, v \in Senders :
       Ahead(s, u, v) => Ahead(s, u, v)' \/ slots'[s].busy = u]_vars

\* Every message that was accepted or queued is eventually replied to.
EverybodyServed ==
  \A m \in Msgs : result[m] \in {"accepted", "queued"} ~> m \in replied

\* When the messages stop, every slot is eventually deleted.
SlotsDrain == <>[](\A s \in Scopes : slots[s] = IdleSlot)

-----------------------------------------------------------------------------
(* What makes the properties inductive *)

\* Only a context of a job can be cancelled.
ArmedSlots == \A s \in Scopes : slots[s].cancel => slots[s].ctx # NoMsg

TypeInv == TypeOK /\ ArmedSlots

(* The slots and the goroutines that hold them, for senders with an openID *)

AllNamed == \A m \in Msgs : Author[m] # NoID

\* A job that has begun was accepted (and acknowledged) or has been in the queue.
BegunJobs ==
  \A m \in Msgs : job[m].pc # "idle" =>
    result[m] = "queued" \/ (result[m] = "accepted" /\ m \in acked)

\* Only a message that has been decided on is acknowledged.
AckedDecided == \A m \in acked : result[m] # "none"

\* A queue item stands for a message of its user, of this scope, not begun.
QueueItems ==
  \A s \in Scopes : \A i \in DOMAIN slots[s].queue :
    LET it == slots[s].queue[i] IN
      /\ result[it.payload] = "queued"
      /\ Author[it.payload] = it.openID
      /\ ScopeOf(it.payload) = s
      /\ job[it.payload].pc = "idle"

\* A job about to be handed over has not begun, belongs to the scope of the
\* job that hands it over, and no other job hands it over too.
HandOvers ==
  \A j \in Msgs : job[j].pc = "notify" =>
    /\ job[j].next.payload \in Msgs
    /\ result[job[j].next.payload] = "queued"
    /\ job[job[j].next.payload].pc = "idle"
    /\ ScopeOf(job[j].next.payload) = ScopeOf(j)
    /\ \A k \in Msgs :
         job[k].pc = "notify" /\ job[k].next.payload = job[j].next.payload => k = j

\* Only contexts of jobs that have held a slot are cancelled.
CancelledContexts ==
  \A m \in cancelled : result[m] = "accepted" \/ job[m].pc # "idle" \/ Holds(m)

\* An idle slot has nothing to cancel.
IdleSlots == \A s \in Scopes : slots[s].busy = NoID => ~slots[s].cancel

\* The inductive invariant of the slots and the goroutines that hold them.
SlotInv ==
  /\ TypeInv
  /\ BegunJobs
  /\ AckedDecided
  /\ QueueItems
  /\ HandOvers
  /\ CancelledContexts
  /\ IdleSlots
  /\ OneRunnerPerScope
  /\ OnePlacePerUser
  /\ StopReachesTheRunner

(* Where the text of a message can be, on top of SlotInv *)

\* A message whose own goroutine no longer has to start its job.
Settled(m) == result[m] # "none" /\ (result[m] = "accepted" => m \in acked)

\* A prompt holds messages of its own scope; one under way is not empty.
Prompts ==
  \A j \in Msgs :
    /\ InLoop(j) => \A m \in job[j].content : Settled(m) /\ ScopeOf(m) = ScopeOf(j)
    /\ job[j].pc \in {"dispatch", "running", "reply"} => job[j].content # {}
    /\ job[j].pc = "notify" =>
         /\ job[j].next.content # {}
         /\ \A m \in job[j].next.content :
              result[m] = "queued" /\ ScopeOf(m) = ScopeOf(j)

\* A queue item holds messages its user was told to wait with.
QueuedTexts ==
  \A s \in Scopes : \A i \in DOMAIN slots[s].queue :
    /\ slots[s].queue[i].content # {}
    /\ \A m \in slots[s].queue[i].content :
         result[m] = "queued" /\ ScopeOf(m) = s /\ Author[m] = slots[s].queue[i].openID

\* The extra text of a slot holds merged messages of its scope.
ExtraTexts ==
  \A s \in Scopes : \A m \in slots[s].extra : result[m] = "merged" /\ ScopeOf(m) = s

RepliedTexts == \A m \in replied : Settled(m)

\* The inductive invariant of the places a message can be in.
PlaceInv ==
  /\ SlotInv
  /\ Prompts
  /\ QueuedTexts
  /\ ExtraTexts
  /\ RepliedTexts
  /\ NothingQueuedIsLost
  /\ NoSecondAnswer
=============================================================================
