------------------------- MODULE PollWatcherProofs -------------------------
(***************************************************************************)
(* Machine-checked proofs about PollWatcher: the state is well typed, an    *)
(* enabled watcher has exactly one live loop, the cursor never passes a     *)
(* message that was neither handled nor given up, and until somebody       *)
(* toggles the watcher only a crash makes the bots see a message again.    *)
(***************************************************************************)
EXTENDS PollWatcher, SequenceTheorems, TLAPS

LEMMA OffType == Off \in Loop /\ Empty \in State
<1>1. <<>> \in Seq(Nat)
  BY EmptySeq
<1> QED
  BY <1>1 DEF Off, Loop, Empty, State

LEMMA TopType ==
  ASSUME NEW l \in Loops, loop[l] \in Loop
  PROVE  Top(l) \in Loop
BY OffType DEF Top, Loop

LEMMA PageStartType ==
  ASSUME NEW n \in Nat
  PROVE  PageStart(n) \in Nat /\ PageStart(n) >= 1 /\ (n > 0 => PageStart(n) <= n)
BY PollWatcherAssumption DEF PageStart

\* The ring keeps its type, and its entries are old ones or the new one.
LEMMA RememberFacts ==
  ASSUME NEW ring \in Seq(Nat), NEW m \in Nat
  PROVE  /\ Remember(ring, m) \in Seq(Nat)
         /\ \A i \in DOMAIN Remember(ring, m) :
              \/ Remember(ring, m)[i] = m
              \/ \E k \in DOMAIN ring : Remember(ring, m)[i] = ring[k]
<1>1. CASE \E i \in DOMAIN ring : ring[i] = m
  BY <1>1 DEF Remember
<1>2. CASE ~\E i \in DOMAIN ring : ring[i] = m
  <2> DEFINE a == Append(ring, m)
             n == Len(a)
  <2>1. /\ a \in Seq(Nat) /\ n = Len(ring) + 1
        /\ \A i \in 1 .. Len(ring) : a[i] = ring[i]
        /\ a[Len(ring) + 1] = m
    BY AppendProperties
  <2>2. Len(ring) \in Nat /\ DOMAIN ring = 1 .. Len(ring) /\ DOMAIN a = 1 .. n
    BY <2>1, LenProperties
  <2>3. \A i \in DOMAIN a : a[i] \in Nat /\ (a[i] = m \/ \E k \in DOMAIN ring : a[i] = ring[k])
    BY <2>1, <2>2, ElementOfSeq
  <2>4. Remember(ring, m) = Latest(a)
    BY <1>2 DEF Remember
  <2> HIDE DEF a
  <2>5. CASE n > RingSize
    <3> DEFINE f == n - RingSize + 1
    <3>1. RingSize \in Nat /\ RingSize > 0 /\ n \in Nat /\ f \in Nat /\ f >= 1 /\ f <= n
      BY <2>1, <2>2, <2>5, PollWatcherAssumption
    <3>2. Latest(a) = SubSeq(a, f, n)
      BY <2>5 DEF Latest
    <3>3. \A i \in f .. n : a[i] \in Nat
      BY <2>2, <2>3, <3>1
    <3>4. /\ SubSeq(a, f, n) \in Seq(Nat)
          /\ Len(SubSeq(a, f, n)) = n - f + 1
          /\ \A i \in 1 .. n - f + 1 : SubSeq(a, f, n)[i] = a[f + i - 1]
      BY <3>1, <3>3, SubSeqProperties
    <3>5. DOMAIN SubSeq(a, f, n) = 1 .. n - f + 1
      BY <3>4, LenProperties
    <3>6. \A i \in 1 .. n - f + 1 : f + i - 1 \in DOMAIN a
      BY <2>2, <3>1
    <3> QED
      BY <2>3, <2>4, <3>2, <3>4, <3>5, <3>6
  <2>6. CASE ~(n > RingSize)
    BY <2>1, <2>3, <2>4, <2>6 DEF Latest
  <2> QED
    BY <2>5, <2>6
<1> QED
  BY <1>1, <1>2

-----------------------------------------------------------------------------
(* Type correctness *)

LEMMA InitTypeOK == Init => TypeOK
<1> SUFFICES ASSUME Init PROVE TypeOK
  OBVIOUS
<1>1. loop \in [Loops -> Loop]
  BY OffType DEF Init
<1>2. handled \in [Ids -> Nat]
  BY DEF Init
<1>3. sent \in Nat /\ sent <= MaxSent
  BY PollWatcherAssumption DEF Init
<1> QED
  BY <1>1, <1>2, <1>3, OffType DEF Init, TypeOK

LEMMA SwitchType ==
  ASSUME TypeOK, NEW lp \in [Loops -> Loop], Switch(lp)
  PROVE  loop' \in [Loops -> Loop] /\ live' \in Loops \cup {NoLoop} /\ enabled' \in BOOLEAN
<1>1. CASE enabled /\ live # NoLoop
  <2>1. live \in Loops /\ lp[live] \in Loop
    BY <1>1 DEF TypeOK
  <2>2. [lp[live] EXCEPT !.cancelled = TRUE] \in Loop
    BY <2>1 DEF Loop
  <2>3. loop' = [lp EXCEPT ![live] = [lp[live] EXCEPT !.cancelled = TRUE]]
    BY <1>1 DEF Switch
  <2> QED
    BY <1>1, <2>2, <2>3 DEF Switch
<1>2. CASE ~(enabled /\ live # NoLoop)
  BY <1>2 DEF Switch, TypeOK
<1> QED
  BY <1>1, <1>2

LEMMA EnvironmentTypeOK ==
  ASSUME TypeOK, Send \/ Enable \/ Disable \/ Crash
  PROVE  TypeOK'
<1>1. CASE Send
  BY <1>1, PollWatcherAssumption DEF Send, TypeOK, ghosts, bounded
<1>2. CASE Enable
  <2>1. [Off EXCEPT !.pc = "top"] \in Loop
    BY OffType DEF Loop
  <2> QED
    BY <1>2, <2>1 DEF Enable, TypeOK, ghosts, bounded
<1>3. CASE Disable
  BY <1>3, SwitchType DEF Disable, TypeOK, ghosts
<1>4. CASE Crash
  <2>1. torn' \in SUBSET Nat
    BY <1>4 DEF Crash, TypeOK, Loop
  <2>2. loop' \in [Loops -> Loop]
    BY <1>4, OffType DEF Crash
  <2>3. /\ sent' = sent /\ disk' = disk /\ store' = disk /\ handled' = handled
        /\ base' = base /\ skipped' = skipped /\ seen' = {}
        /\ live' = NoLoop /\ enabled' = FALSE /\ authFails' = 0
        /\ errors' = errors /\ toggles' = toggles /\ crashes' = crashes + 1
    BY <1>4 DEF Crash
  <2>4. crashes' \in Nat /\ authFails' \in Nat
    BY <2>3 DEF TypeOK
  <2>5. handled' \in [Ids -> Nat] /\ sent' \in Nat /\ sent' <= MaxSent
    BY <2>3 DEF TypeOK
  <2>6. store' \in State /\ disk' \in State
    BY <2>3 DEF TypeOK
  <2>7. base' \in Nat /\ skipped' \in SUBSET Nat /\ errors' \in Nat /\ toggles' \in Nat
    BY <2>3 DEF TypeOK
  <2> QED
    BY <2>1, <2>2, <2>3, <2>4, <2>5, <2>6, <2>7 DEF TypeOK
<1> QED
  BY <1>1, <1>2, <1>3, <1>4

LEMMA PollTypeOK ==
  ASSUME TypeOK, NEW l \in Loops, Poll(l)
  PROVE  TypeOK'
<1>0. loop[l] \in Loop /\ loop \in [Loops -> Loop] /\ Top(l) \in Loop
  BY TopType DEF TypeOK
<1>1. CASE Check(l)
  BY <1>0, <1>1, OffType DEF Check, Goto, TypeOK, Loop, ghosts, bounded
<1>2. CASE FetchNewest(l)
  <2>1. sent \in Nat /\ PageStart(sent) \in Nat
    BY PageStartType DEF TypeOK
  <2>2. loop' \in [Loops -> Loop]
    BY <1>0, <1>2, <2>1 DEF FetchNewest, Return, Loop
  <2> QED
    BY <1>2, <2>2 DEF FetchNewest, TypeOK, ghosts, bounded
<1>3. CASE FetchError(l)
  <2>1. loop' \in [Loops -> Loop]
    BY <1>0, <1>3 DEF FetchError, Return, Goto, Loop
  <2>2. authFails' \in Nat /\ errors' \in Nat
    BY <1>3 DEF FetchError, TypeOK
  <2> QED
    BY <1>3, <2>1, <2>2 DEF FetchError, TypeOK, ghosts
<1>4. CASE GiveUp(l)
  <2>1. [loop EXCEPT ![l] = Top(l)] \in [Loops -> Loop]
    BY <1>0
  <2> QED
    BY <1>4, <2>1, SwitchType DEF GiveUp, TypeOK, ghosts, bounded
<1>5. CASE ReadCursor(l)
  <2>1. store.cursor \in Nat
    BY DEF TypeOK, State
  <2>2. loop' \in [Loops -> Loop]
    BY <1>0, <1>5, <2>1 DEF ReadCursor, Goto, Return, Loop
  <2> QED
    BY <1>5, <2>2 DEF ReadCursor, TypeOK, ghosts, bounded
<1>6. CASE Baseline(l)
  <2>1. loop[l].newest \in Nat /\ loop[l].low \in Nat
    BY <1>0 DEF Loop
  <2>2. store' \in State
    BY <1>6, <2>1, OffType DEF Baseline, State
  <2>3. loop' \in [Loops -> Loop]
    BY <1>0, <1>6, <2>1 DEF Baseline, Return, Loop
  <2>4. base' \in Nat
    BY <1>6, <2>1 DEF Baseline, TypeOK
  <2> QED
    BY <1>6, <2>2, <2>3, <2>4 DEF Baseline, TypeOK, bounded
<1>7. CASE FetchOlder(l)
  <2> DEFINE low == loop[l].low
             first == PageStart(low - 1)
  <2>1. low \in Nat /\ loop[l].pages \in Nat /\ loop[l].cursor \in Nat
    BY <1>0 DEF Loop
  <2>2. low > 1 => first \in Nat
    BY <2>1, PageStartType
  <2>3. \/ Goto(l, "skip")
        \/ loop' = [loop EXCEPT ![l].pc = "dispatch", ![l].at = loop[l].cursor + 1]
        \/ /\ low > 1
           /\ \E pc \in {"skip", "gather"} :
                loop' = [loop EXCEPT ![l].low = first, ![l].pages = @ + 1, ![l].pc = pc]
    BY <1>7 DEF FetchOlder
  <2> HIDE DEF first
  <2>4. loop' \in [Loops -> Loop]
    BY <1>0, <2>1, <2>2, <2>3 DEF Goto, Loop
  <2> QED
    BY <1>7, <2>4 DEF FetchOlder, TypeOK, ghosts, bounded
<1>8. CASE Dispatch(l)
  <2>1. loop[l].at \in Nat
    BY <1>0 DEF Loop
  <2>2. loop' \in [Loops -> Loop]
    BY <1>0, <1>8, <2>1 DEF Dispatch, Goto, Return, Loop
  <2>3. handled' \in [Ids -> Nat] /\ seen' \in SUBSET Nat
    BY <1>8, <2>1 DEF Dispatch, TypeOK
  <2> QED
    BY <1>8, <2>2, <2>3 DEF Dispatch, TypeOK, ghosts, bounded
<1>9. CASE Record(l)
  <2>1. loop[l].at \in Nat /\ store.ring \in Seq(Nat)
    BY <1>0 DEF Loop, TypeOK, State
  <2>2. store' \in State
    BY <1>9, <2>1, RememberFacts DEF Record, State
  <2> DEFINE done == [loop[l] EXCEPT !.pc = "dispatch", !.at = loop[l].at + 1]
  <2>3. loop' \in [Loops -> Loop]
    <3>1. loop[l].at + 1 \in Nat /\ loop[l] \in Loop
      BY <1>0, <2>1
    <3>2. done \in Loop
      BY <3>1 DEF Loop
    <3>3. loop' = [loop EXCEPT ![l] = done]
      BY <1>9 DEF Record
    <3> QED
      BY <1>0, <3>2, <3>3
  <2>4. disk' = store' /\ UNCHANGED <<sent, live, enabled, authFails, seen, handled, ghosts, bounded>>
    BY <1>9 DEF Record
  <2> QED
    BY <2>2, <2>3, <2>4 DEF TypeOK, ghosts, bounded, Ids
<1>10. CASE Advance(l)
  <2>1. loop[l].newest \in Nat /\ loop[l].cursor \in Nat
    BY <1>0 DEF Loop
  <2>2. store' \in State
    BY <1>10, <2>1 DEF Advance, TypeOK, State
  <2>3. skipped' \in SUBSET Nat
    BY <1>10, <2>1 DEF Advance, TypeOK
  <2>4. loop' \in [Loops -> Loop]
    BY <1>0, <1>10 DEF Advance, Return
  <2> QED
    BY <1>10, <2>2, <2>3, <2>4 DEF Advance, TypeOK, bounded
<1> QED
  BY <1>1, <1>2, <1>3, <1>4, <1>5, <1>6, <1>7, <1>8, <1>9, <1>10 DEF Poll

LEMMA NextTypeOK == TypeOK /\ [Next]_vars => TypeOK'
<1> SUFFICES ASSUME TypeOK, [Next]_vars PROVE TypeOK'
  OBVIOUS
<1>1. CASE UNCHANGED vars
  BY <1>1 DEF vars, TypeOK
<1> QED
  BY <1>1, EnvironmentTypeOK, PollTypeOK DEF Next

\* The watcher's fields, its loops, the store and the file keep their types.
THEOREM TypeCorrect == Spec => []TypeOK
BY InitTypeOK, NextTypeOK, PTL DEF Spec

-----------------------------------------------------------------------------
(* The live loop *)

\* OneLiveLoop, loop by loop, and a disabled watcher has nothing to cancel.
LiveInv ==
  /\ enabled => live \in Loops
  /\ ~enabled => live = NoLoop
  /\ \A l \in Loops :
       (loop[l].pc # "off" /\ ~loop[l].cancelled) <=> (enabled /\ l = live)

LEMMA LiveInvImplies == TypeOK /\ LiveInv => OneLiveLoop
BY DEF LiveInv, OneLiveLoop

LEMMA InitLive == Init => LiveInv
BY PollWatcherAssumption DEF Init, LiveInv, Off

LEMMA SwitchLive ==
  ASSUME TypeOK, LiveInv, NEW lp \in [Loops -> Loop], Switch(lp),
         \A l \in Loops : /\ lp[l].cancelled = loop[l].cancelled
                          /\ lp[l].pc = "off" <=> loop[l].pc = "off"
  PROVE  LiveInv'
<1>1. /\ ~enabled' /\ live' = NoLoop
      /\ enabled => live \in Loops /\ live # NoLoop
  BY PollWatcherAssumption DEF Switch, LiveInv
<1>2. CASE enabled
  <2>1. loop' = [lp EXCEPT ![live].cancelled = TRUE]
    BY <1>1, <1>2 DEF Switch
  <2>2. \A l \in Loops : lp[l] \in Loop /\ (l # live => loop'[l] = lp[l])
    BY <2>1
  <2>3. loop'[live] = [lp[live] EXCEPT !.cancelled = TRUE] /\ lp[live] \in Loop
    BY <1>1, <1>2, <2>1
  <2>4. loop'[live].cancelled
    BY <2>3 DEF Loop
  <2> QED
    BY <1>1, <1>2, <2>2, <2>4 DEF LiveInv
<1>3. CASE ~enabled
  BY <1>1, <1>3 DEF Switch, LiveInv
<1> QED
  BY <1>2, <1>3

\* A loop that neither ends nor is cancelled leaves the matter as it is.
LEMMA SameLive ==
  ASSUME LiveInv, UNCHANGED <<live, enabled>>,
         \A l \in Loops : /\ loop'[l].cancelled = loop[l].cancelled
                          /\ loop'[l].pc = "off" <=> loop[l].pc = "off"
  PROVE  LiveInv'
BY DEF LiveInv

LEMMA EnvironmentLive ==
  ASSUME TypeOK, LiveInv, Send \/ Enable \/ Disable \/ Crash
  PROVE  LiveInv'
<1>1. CASE Send
  BY <1>1, SameLive DEF Send
<1>2. CASE Enable
  <2>1. ~enabled /\ enabled' /\ live = NoLoop
    BY <1>2 DEF Enable, LiveInv
  <2>2. PICK l \in Loops : /\ loop[l].pc = "off"
                           /\ loop' = [loop EXCEPT ![l] = [Off EXCEPT !.pc = "top"]]
                           /\ live' = l
    BY <1>2, <2>1 DEF Enable
  <2>3. loop'[l].pc = "top" /\ ~loop'[l].cancelled
    BY <2>2 DEF Off, TypeOK
  <2>4. \A k \in Loops : k # l => loop'[k] = loop[k]
    BY <2>2 DEF TypeOK
  <2> QED
    BY <2>1, <2>2, <2>3, <2>4 DEF LiveInv
<1>3. CASE Disable
  BY <1>3, SwitchLive DEF Disable, TypeOK
<1>4. CASE Crash
  BY <1>4 DEF Crash, LiveInv, Off
<1> QED
  BY <1>1, <1>2, <1>3, <1>4

LEMMA PollLive ==
  ASSUME TypeOK, LiveInv, NEW l \in Loops, Poll(l)
  PROVE  LiveInv'
<1>0. loop[l] \in Loop /\ loop \in [Loops -> Loop] /\ Top(l) \in Loop
  BY TopType DEF TypeOK
<1>1. Top(l).pc = "top" /\ Top(l).cancelled = loop[l].cancelled
  BY DEF Top, Off
<1>2. CASE Check(l)
  <2>1. CASE enabled /\ ~loop[l].cancelled
    BY <1>0, <1>2, <2>1, SameLive DEF Check, Goto, Loop
  <2>2. CASE ~(enabled /\ ~loop[l].cancelled)
    <3>1. loop' = [loop EXCEPT ![l] = Off] /\ UNCHANGED <<live, enabled>> /\ loop[l].pc = "top"
      BY <1>2, <2>2 DEF Check
    <3>2. loop'[l].pc = "off" /\ \A k \in Loops : k # l => loop'[k] = loop[k]
      BY <1>0, <3>1 DEF Off
    <3> QED
      BY <2>2, <3>1, <3>2 DEF LiveInv
  <2> QED
    BY <2>1, <2>2
<1>3. CASE GiveUp(l)
  <2> DEFINE lp == [loop EXCEPT ![l] = Top(l)]
  <2>1. lp \in [Loops -> Loop] /\ Switch(lp) /\ loop[l].pc = "giveup"
    BY <1>0, <1>3 DEF GiveUp
  <2>2. \A k \in Loops : /\ lp[k].cancelled = loop[k].cancelled
                         /\ lp[k].pc = "off" <=> loop[k].pc = "off"
    BY <1>0, <1>1, <2>1
  <2> HIDE DEF lp
  <2> QED
    BY <2>1, <2>2, SwitchLive
<1>4. CASE Poll(l) /\ ~Check(l) /\ ~GiveUp(l)
  <2>1. UNCHANGED <<live, enabled>> /\ loop[l].pc # "off" /\ \A k \in Loops : k # l => loop'[k] = loop[k]
    BY <1>0, <1>4 DEF Poll, FetchNewest, FetchError, ReadCursor, Baseline, FetchOlder,
                      Dispatch, Record, Advance, Goto, Return
  <2>2. loop'[l].cancelled = loop[l].cancelled /\ loop'[l].pc # "off"
    <3>1. CASE FetchNewest(l)
      BY <1>0, <1>1, <3>1 DEF FetchNewest, Return, Loop
    <3>2. CASE FetchError(l)
      BY <1>0, <1>1, <3>2 DEF FetchError, Return, Goto, Loop
    <3>3. CASE ReadCursor(l)
      BY <1>0, <1>1, <3>3 DEF ReadCursor, Return, Goto, Loop
    <3>4. CASE Baseline(l)
      BY <1>0, <1>1, <3>4 DEF Baseline, Return, Loop
    <3>5. CASE FetchOlder(l)
      BY <1>0, <1>1, <3>5 DEF FetchOlder, Goto, Loop
    <3>6. CASE Dispatch(l)
      BY <1>0, <1>1, <3>6 DEF Dispatch, Goto, Return, Loop
    <3>7. CASE Record(l)
      BY <1>0, <1>1, <3>7 DEF Record, Loop
    <3>8. CASE Advance(l)
      BY <1>0, <1>1, <3>8 DEF Advance, Return
    <3> QED
      BY <1>4, <3>1, <3>2, <3>3, <3>4, <3>5, <3>6, <3>7, <3>8 DEF Poll
  <2> QED
    BY <2>1, <2>2, SameLive
<1> QED
  BY <1>2, <1>3, <1>4

LEMMA NextLive == TypeOK /\ LiveInv /\ [Next]_vars => LiveInv'
<1> SUFFICES ASSUME TypeOK, LiveInv, [Next]_vars PROVE LiveInv'
  OBVIOUS
<1>1. CASE UNCHANGED vars
  BY <1>1 DEF vars, LiveInv
<1> QED
  BY <1>1, EnvironmentLive, PollLive DEF Next

\* Toggling the switch, giving up and restarting, in any order and with old
\* loops still at work, leaves an enabled watcher exactly one loop.
THEOREM OneLive == Spec => []OneLiveLoop
<1>1. Spec => []LiveInv
  BY InitLive, NextLive, TypeCorrect, PTL DEF Spec
<1> QED
  BY <1>1, LiveInvImplies, TypeCorrect, PTL

-----------------------------------------------------------------------------
(* The cursor *)

LEMMA InitCursor == Init => CursorInv
<1> SUFFICES ASSUME Init PROVE CursorInv
  OBVIOUS
<1>1. store.cursor = 0 /\ disk.cursor = 0 /\ store.ring = <<>> /\ disk.ring = <<>>
  BY DEF Init, Empty
<1>2. \A l \in Loops : loop[l].pc = "off" /\ loop[l].newest = 0
  BY DEF Init, Off
<1>3. seen = {} /\ sent = 0
  BY DEF Init
<1>4. DOMAIN store.ring = {} /\ DOMAIN disk.ring = {}
  BY <1>1
<1>5. \A l \in Loops : Knows(l)
  BY <1>2, <1>3 DEF Knows
<1> QED
  BY <1>1, <1>3, <1>4, <1>5 DEF CursorInv, NothingMissed

\* What has been dealt with stays so.
Growing == /\ sent' \in Nat /\ sent' >= sent
           /\ base' \in Nat /\ base' >= base
           /\ skipped \subseteq skipped'
           /\ \A m \in Ids : handled'[m] \in Nat /\ handled'[m] >= handled[m]

LEMMA NextGrows == TypeOK /\ [Next]_vars => Growing
<1> SUFFICES ASSUME TypeOK, [Next]_vars PROVE Growing
  OBVIOUS
<1>0. sent \in Nat /\ base \in Nat /\ handled \in [Ids -> Nat]
  BY DEF TypeOK
<1>1. CASE UNCHANGED <<sent, base, skipped, handled>>
  BY <1>0, <1>1 DEF Growing
<1>2. CASE Send
  BY <1>0, <1>2 DEF Send, ghosts, Growing
<1>3. ASSUME NEW l \in Loops, Baseline(l)
      PROVE  Growing
  <2>1. loop[l].newest \in Nat
    BY DEF TypeOK, Loop
  <2> QED
    BY <1>0, <1>3, <2>1 DEF Baseline, Growing
<1>4. ASSUME NEW l \in Loops, Dispatch(l)
      PROVE  Growing
  <2>1. UNCHANGED <<sent, base, skipped>>
    BY <1>4 DEF Dispatch, ghosts
  <2>2. handled' = handled \/ handled' = [handled EXCEPT ![loop[l].at] = @ + 1]
    BY <1>4 DEF Dispatch
  <2> QED
    BY <1>0, <2>1, <2>2 DEF Growing
<1>5. ASSUME NEW l \in Loops, Advance(l)
      PROVE  Growing
  BY <1>0, <1>5 DEF Advance, Growing
<1>6. Enable \/ Disable \/ Crash => UNCHANGED <<sent, base, skipped, handled>>
  BY DEF Enable, Disable, Crash, ghosts
<1>7. \A l \in Loops : Check(l) \/ FetchNewest(l) \/ FetchError(l) \/ GiveUp(l)
                         \/ ReadCursor(l) \/ FetchOlder(l) \/ Record(l)
                       => UNCHANGED <<sent, base, skipped, handled>>
  BY DEF Check, FetchNewest, FetchError, GiveUp, ReadCursor, FetchOlder, Record, ghosts
<1>8. UNCHANGED vars => UNCHANGED <<sent, base, skipped, handled>>
  BY DEF vars
<1> QED
  BY <1>1, <1>2, <1>3, <1>4, <1>5, <1>6, <1>7, <1>8 DEF Next, Poll

LEMMA DoneGrows ==
  ASSUME TypeOK, Growing, NEW m \in Nat, Done(m)
  PROVE  Done(m)'
BY DEF Done, Growing, TypeOK

LEMMA DoneUpToGrows ==
  ASSUME TypeOK, Growing, NEW n \in Nat, DoneUpTo(n)
  PROVE  DoneUpTo(n)'
BY DoneGrows DEF DoneUpTo

\* The loop is where it was, cancelled or not.
Stays(l) == /\ loop'[l].pc = loop[l].pc /\ loop'[l].newest = loop[l].newest
            /\ loop'[l].low = loop[l].low /\ loop'[l].cursor = loop[l].cursor
            /\ loop'[l].at = loop[l].at

\* A loop that does not move knows what it knew.
LEMMA KnowsGrows ==
  ASSUME TypeOK, Growing, NEW l \in Loops, Knows(l), Stays(l)
  PROVE  Knows(l)'
<1> PICK r \in Loop : r = loop[l]
  BY DEF TypeOK
<1>1. /\ r.newest \in Nat /\ r.cursor \in Nat /\ r.at \in Nat
      /\ r.at >= 1 => r.at - 1 \in Nat
  BY DEF Loop
<1>2. /\ r.newest <= sent'
      /\ r.pc \in {"read", "baseline"} => r.low \in 1 .. r.newest
      /\ r.pc \in {"gather", "skip"} => DoneUpTo(r.cursor)'
      /\ r.pc = "dispatch" => r.at >= 1 /\ DoneUpTo(r.at - 1)'
      /\ r.pc = "record" => r.at \in Ids /\ DoneUpTo(r.at)'
      /\ r.pc = "advance" => DoneUpTo(r.newest)'
  BY <1>1, DoneUpToGrows DEF Knows, Growing, TypeOK
<1> QED
  BY <1>2 DEF Knows, Ids, Stays

\* Nothing but a loop moves, or all of them are gone.
LEMMA RestKeepsCursor ==
  ASSUME TypeOK, CursorInv, Growing, UNCHANGED <<store, disk, seen>>,
         \A l \in Loops : Knows(l)'
  PROVE  CursorInv'
<1> PICK c \in Nat, d \in Nat, q \in Seq(Nat), r \in Seq(Nat) :
      c = store.cursor /\ d = disk.cursor /\ q = store.ring /\ r = disk.ring
  BY DEF TypeOK, State
<1>1. DoneUpTo(c) /\ DoneUpTo(d)
  BY DEF CursorInv, NothingMissed, DoneUpTo
<1>2. DoneUpTo(c)' /\ DoneUpTo(d)'
  BY <1>1, DoneUpToGrows
<1>3. \A i \in DOMAIN q : q[i] \in Nat /\ Done(q[i])
  BY ElementOfSeq, LenProperties DEF CursorInv
<1>4. \A i \in DOMAIN r : r[i] \in Nat /\ Done(r[i])
  BY ElementOfSeq, LenProperties DEF CursorInv
<1>5. (\A i \in DOMAIN q : Done(q[i])') /\ (\A i \in DOMAIN r : Done(r[i])')
  BY <1>3, <1>4, DoneGrows
<1>6. \A m \in seen' : m \in Ids /\ handled'[m] > 0
  BY DEF CursorInv, Growing, TypeOK
<1> QED
  BY <1>2, <1>5, <1>6 DEF CursorInv, NothingMissed, DoneUpTo, Ids

\* A loop at rest need not know anything.
LEMMA AtRest ==
  ASSUME TypeOK, Growing, NEW l \in Loops, loop'[l].pc \in {"off", "top"}, loop'[l].newest = 0
  PROVE  Knows(l)'
BY DEF Knows, Growing, TypeOK

LEMMA SwitchStays ==
  ASSUME NEW lp \in [Loops -> Loop], Switch(lp), NEW l \in Loops
  PROVE  /\ loop'[l].pc = lp[l].pc /\ loop'[l].newest = lp[l].newest
         /\ loop'[l].low = lp[l].low /\ loop'[l].cursor = lp[l].cursor
         /\ loop'[l].at = lp[l].at
<1>1. CASE enabled /\ live # NoLoop
  <2>1. loop' = [lp EXCEPT ![live].cancelled = TRUE]
    BY <1>1 DEF Switch
  <2>2. loop'[l] = lp[l] \/ loop'[l] = [lp[l] EXCEPT !.cancelled = TRUE]
    BY <2>1
  <2> QED
    BY <2>2 DEF Loop
<1>2. CASE ~(enabled /\ live # NoLoop)
  BY <1>2 DEF Switch
<1> QED
  BY <1>1, <1>2

LEMMA EnvironmentCursor ==
  ASSUME TypeOK, CursorInv, Growing, Send \/ Enable \/ Disable \/ Crash
  PROVE  CursorInv'
<1>0. loop \in [Loops -> Loop] /\ \A l \in Loops : Knows(l)
  BY DEF TypeOK, CursorInv
<1>1. CASE Send
  <2>1. \A l \in Loops : Knows(l)'
    BY <1>0, <1>1, KnowsGrows DEF Send, Stays
  <2> QED
    BY <1>1, <2>1, RestKeepsCursor DEF Send
<1>2. CASE Enable
  <2>1. ASSUME NEW l \in Loops
        PROVE  Knows(l)'
    <3>1. loop'[l] = loop[l] \/ loop'[l] = [Off EXCEPT !.pc = "top"]
      BY <1>0, <1>2 DEF Enable
    <3>2. CASE loop'[l] = loop[l]
      BY <1>0, <3>2, KnowsGrows DEF Stays
    <3>3. CASE loop'[l] = [Off EXCEPT !.pc = "top"]
      BY <3>3, AtRest DEF Off
    <3> QED
      BY <3>1, <3>2, <3>3
  <2> QED
    BY <1>2, <2>1, RestKeepsCursor DEF Enable
<1>3. CASE Disable
  <2>1. Switch(loop) /\ UNCHANGED <<store, disk, seen>>
    BY <1>3 DEF Disable
  <2>2. \A l \in Loops : Stays(l)
    BY <1>0, <2>1, SwitchStays DEF Stays
  <2>3. \A l \in Loops : Knows(l)'
    BY <1>0, <2>2, KnowsGrows
  <2> QED
    BY <2>1, <2>3, RestKeepsCursor
<1>4. CASE Crash
  <2>1. ASSUME NEW l \in Loops
        PROVE  Knows(l)'
    <3>1. loop'[l] = Off
      BY <1>4 DEF Crash
    <3> QED
      BY <3>1, AtRest DEF Off
  <2>2. store' = disk /\ disk' = disk /\ seen' = {}
    BY <1>4 DEF Crash
  <2> PICK d \in Nat, r \in Seq(Nat) : d = disk.cursor /\ r = disk.ring
    BY DEF TypeOK, State
  <2>3. DoneUpTo(d)'
    BY DoneUpToGrows DEF CursorInv, NothingMissed, DoneUpTo
  <2>4. \A i \in DOMAIN r : r[i] \in Nat /\ Done(r[i])
    BY ElementOfSeq, LenProperties DEF CursorInv
  <2>5. \A i \in DOMAIN r : Done(r[i])'
    BY <2>4, DoneGrows
  <2> QED
    BY <2>1, <2>2, <2>3, <2>5 DEF CursorInv, NothingMissed, DoneUpTo
<1> QED
  BY <1>1, <1>2, <1>3, <1>4

\* A loop that moves without touching the store.
LEMMA MoveKeepsCursor ==
  ASSUME TypeOK, CursorInv, Growing, NEW l \in Loops,
         \A k \in Loops : k # l => loop'[k] = loop[k],
         Knows(l)'
  PROVE  \A k \in Loops : Knows(k)'
<1>1. \A k \in Loops : Knows(k)
  BY DEF CursorInv
<1>2. ASSUME NEW k \in Loops, k # l
      PROVE  Knows(k)'
  <2>1. Stays(k)
    BY <1>2 DEF Stays
  <2> QED
    BY <1>1, <2>1, KnowsGrows
<1> QED
  BY <1>2

LEMMA ReadingCursor ==
  ASSUME TypeOK, CursorInv, Growing, NEW l \in Loops,
         Check(l) \/ FetchNewest(l) \/ FetchError(l) \/ GiveUp(l) \/ ReadCursor(l) \/ FetchOlder(l)
  PROVE  CursorInv'
<1>0. /\ loop[l] \in Loop /\ loop \in [Loops -> Loop] /\ Top(l) \in Loop
      /\ Knows(l) /\ sent \in Nat /\ sent' \in Nat /\ sent <= sent'
  BY TopType DEF TypeOK, CursorInv, Growing
<1>a. Top(l).pc = "top" /\ Top(l).newest = 0
  BY DEF Top, Off
<1>b. ASSUME Return(l)
      PROVE  Knows(l)'
  BY <1>0, <1>a, <1>b, AtRest DEF Return
<1>1. CASE Check(l)
  <2>1. CASE Goto(l, "fetch")
    <3>1. loop'[l] = [loop[l] EXCEPT !.pc = "fetch"]
      BY <1>0, <2>1 DEF Goto
    <3>2. loop'[l].pc = "fetch" /\ loop'[l].newest = loop[l].newest
      BY <1>0, <3>1 DEF Loop
    <3>3. loop[l].newest <= sent'
      BY <1>0 DEF Knows, Loop
    <3>4. Knows(l)'
      BY <3>2, <3>3 DEF Knows
    <3> QED
      BY <1>0, <1>1, <2>1, <3>4, MoveKeepsCursor, RestKeepsCursor DEF Check, Goto
  <2>2. CASE loop' = [loop EXCEPT ![l] = Off]
    <3>1. Knows(l)'
      BY <1>0, <2>2, AtRest DEF Off
    <3> QED
      BY <1>0, <1>1, <2>2, <3>1, MoveKeepsCursor, RestKeepsCursor DEF Check
  <2> QED
    BY <1>1, <2>1, <2>2 DEF Check
<1>2. CASE FetchNewest(l)
  <2>1. Knows(l)'
    <3>1. CASE sent = 0
      BY <1>b, <1>2, <3>1 DEF FetchNewest
    <3>2. CASE sent # 0
      <4>1. PageStart(sent) \in 1 .. sent
        BY <1>0, <3>2, PageStartType
      <4>2. loop'[l] = [loop[l] EXCEPT !.pc = "read", !.newest = sent, !.low = PageStart(sent)]
        BY <1>0, <1>2, <3>2 DEF FetchNewest
      <4>3. loop'[l].pc = "read" /\ loop'[l].newest = sent /\ loop'[l].low \in 1 .. sent
        BY <1>0, <4>1, <4>2 DEF Loop
      <4>4. sent' = sent
        BY <1>2 DEF FetchNewest
      <4> QED
        BY <1>0, <4>3, <4>4 DEF Knows
    <3> QED
      BY <3>1, <3>2
  <2>2. \A k \in Loops : k # l => loop'[k] = loop[k]
    BY <1>0, <1>2 DEF FetchNewest, Return
  <2> QED
    BY <1>2, <2>1, <2>2, MoveKeepsCursor, RestKeepsCursor DEF FetchNewest
<1>3. CASE FetchError(l)
  <2>1. CASE Return(l)
    BY <1>0, <1>3, <1>b, <2>1, MoveKeepsCursor, RestKeepsCursor DEF FetchError, Return
  <2>2. CASE Goto(l, "giveup")
    <3>1. loop'[l] = [loop[l] EXCEPT !.pc = "giveup"]
      BY <1>0, <2>2 DEF Goto
    <3>2. loop'[l].pc = "giveup" /\ loop'[l].newest = loop[l].newest
      BY <1>0, <3>1 DEF Loop
    <3>3. loop[l].newest <= sent'
      BY <1>0 DEF Knows, Loop
    <3>4. Knows(l)'
      BY <3>2, <3>3 DEF Knows
    <3> QED
      BY <1>0, <1>3, <2>2, <3>4, MoveKeepsCursor, RestKeepsCursor DEF FetchError, Goto
  <2> QED
    BY <1>3, <2>1, <2>2 DEF FetchError
<1>4. CASE GiveUp(l)
  <2> DEFINE lp == [loop EXCEPT ![l] = Top(l)]
  <2>1. lp \in [Loops -> Loop] /\ Switch(lp) /\ UNCHANGED <<store, disk, seen>>
    BY <1>0, <1>4 DEF GiveUp
  <2>2. lp[l] = Top(l) /\ \A k \in Loops : k # l => lp[k] = loop[k]
    BY <1>0
  <2> HIDE DEF lp
  <2>3. ASSUME NEW k \in Loops
        PROVE  Knows(k)'
    <3>1. /\ loop'[k].pc = lp[k].pc /\ loop'[k].newest = lp[k].newest
          /\ loop'[k].low = lp[k].low /\ loop'[k].cursor = lp[k].cursor
          /\ loop'[k].at = lp[k].at
      BY <2>1, SwitchStays
    <3>2. CASE k = l
      BY <1>a, <2>2, <3>1, <3>2, AtRest
    <3>3. CASE k # l
      <4>1. Stays(k) /\ Knows(k)
        BY <2>2, <3>1, <3>3 DEF Stays, CursorInv
      <4> QED
        BY <4>1, KnowsGrows
    <3> QED
      BY <3>2, <3>3
  <2> QED
    BY <2>1, <2>3, RestKeepsCursor
<1>5. CASE ReadCursor(l)
  <2> PICK c \in Nat, x \in Loop : c = store.cursor /\ x = loop[l]
    BY <1>0 DEF TypeOK, State
  <2>1. DoneUpTo(c)' /\ x.newest <= sent' /\ x.pc = "read" /\ x.low \in 1 .. x.newest
    BY <1>0, <1>5, DoneUpToGrows DEF CursorInv, NothingMissed, DoneUpTo, Knows, ReadCursor, Loop
  <2>2. Knows(l)'
    <3>1. CASE Return(l)
      BY <1>b, <3>1
    <3>2. CASE Goto(l, "baseline")
      <4>1. loop'[l] = [x EXCEPT !.pc = "baseline"]
        BY <1>0, <3>2 DEF Goto
      <4>2. loop'[l].pc = "baseline" /\ loop'[l].newest = x.newest /\ loop'[l].low = x.low
        BY <4>1 DEF Loop
      <4> QED
        BY <2>1, <4>2 DEF Knows
    <3>3. CASE loop'[l] = [x EXCEPT !.cursor = c, !.pc = "dispatch", !.at = c + 1]
      <4>1. /\ loop'[l].pc = "dispatch" /\ loop'[l].newest = x.newest
            /\ loop'[l].at = c + 1
        BY <3>3 DEF Loop
      <4>2. c + 1 >= 1 /\ (c + 1) - 1 = c
        OBVIOUS
      <4> QED
        BY <2>1, <4>1, <4>2 DEF Knows
    <3>4. CASE loop'[l] = [x EXCEPT !.cursor = c, !.pc = "gather", !.at = 0]
      <4>1. /\ loop'[l].pc = "gather" /\ loop'[l].newest = x.newest
            /\ loop'[l].cursor = c
        BY <3>4 DEF Loop
      <4> QED
        BY <2>1, <4>1 DEF Knows
    <3> QED
      BY <1>0, <1>5, <3>1, <3>2, <3>3, <3>4 DEF ReadCursor
  <2>3. \A k \in Loops : k # l => loop'[k] = loop[k]
    BY <1>0, <1>5 DEF ReadCursor, Goto, Return
  <2> QED
    BY <1>5, <2>2, <2>3, MoveKeepsCursor, RestKeepsCursor DEF ReadCursor
<1>6. CASE FetchOlder(l)
  <2> PICK x \in Loop : x = loop[l]
    BY <1>0
  <2>1. /\ x.cursor \in Nat /\ x.newest <= sent' /\ x.pc = "gather"
        /\ DoneUpTo(x.cursor)'
    BY <1>0, <1>6, DoneUpToGrows DEF Knows, FetchOlder, Loop
  <2>2. Knows(l)'
    <3>1. CASE loop'[l].pc \in {"gather", "skip"} /\ loop'[l].cursor = x.cursor
               /\ loop'[l].newest = x.newest
      BY <2>1, <3>1 DEF Knows
    <3>2. CASE loop'[l] = [x EXCEPT !.pc = "dispatch", !.at = x.cursor + 1]
      <4>1. /\ loop'[l].pc = "dispatch" /\ loop'[l].newest = x.newest
            /\ loop'[l].at = x.cursor + 1
        BY <3>2 DEF Loop
      <4>2. x.cursor + 1 >= 1 /\ (x.cursor + 1) - 1 = x.cursor
        BY <2>1
      <4> QED
        BY <2>1, <4>1, <4>2 DEF Knows
    <3>3. CASE Goto(l, "skip")
      BY <1>0, <3>1, <3>3 DEF Goto, Loop
    <3>4. CASE \E pc \in {"skip", "gather"}, first \in Nat :
                 loop' = [loop EXCEPT ![l].low = first, ![l].pages = @ + 1, ![l].pc = pc]
      BY <1>0, <3>1, <3>4 DEF Loop
    <3>5. x.low > 1 => PageStart(x.low - 1) \in Nat
      <4>1. x.low \in Nat
        BY DEF Loop
      <4> QED
        BY <4>1, PageStartType
    <3>6. \/ Goto(l, "skip")
          \/ loop'[l] = [x EXCEPT !.pc = "dispatch", !.at = x.cursor + 1]
          \/ \E pc \in {"skip", "gather"}, first \in Nat :
               loop' = [loop EXCEPT ![l].low = first, ![l].pages = @ + 1, ![l].pc = pc]
      BY <1>0, <1>6, <3>5 DEF FetchOlder
    <3> QED
      BY <3>2, <3>3, <3>4, <3>6
  <2>3. \A k \in Loops : k # l => loop'[k] = loop[k]
    BY <1>0, <1>6 DEF FetchOlder, Goto
  <2> QED
    BY <1>6, <2>2, <2>3, MoveKeepsCursor, RestKeepsCursor DEF FetchOlder
<1> QED
  BY <1>1, <1>2, <1>3, <1>4, <1>5, <1>6

\* A store, written to the file too, whose cursor and ring are dealt with.
LEMMA StoreKeepsCursor ==
  ASSUME TypeOK, CursorInv, Growing, NEW c \in Nat, NEW q \in Seq(Nat),
         store' = [cursor |-> c, ring |-> q], disk' = store',
         DoneUpTo(c)', \A i \in DOMAIN q : Done(q[i])',
         seen' = seen, \A l \in Loops : Knows(l)'
  PROVE  CursorInv'
<1>1. /\ store'.cursor = c /\ store'.ring = q
      /\ disk'.cursor = c /\ disk'.ring = q
  OBVIOUS
<1>2. \A m \in seen' : m \in Ids /\ handled'[m] > 0
  BY DEF CursorInv, Growing, TypeOK
<1> QED
  BY <1>1, <1>2 DEF CursorInv, NothingMissed, DoneUpTo, Ids

LEMMA BaselineCursor ==
  ASSUME TypeOK, CursorInv, Growing, NEW l \in Loops, Baseline(l)
  PROVE  CursorInv'
<1> PICK x \in Loop : x = loop[l]
  BY DEF TypeOK
<1>0. /\ loop \in [Loops -> Loop] /\ x.newest \in Nat /\ x.low \in Nat
      /\ base' \in Nat /\ base' >= x.newest
  BY DEF TypeOK, Loop, Baseline
<1>1. x.low \in 1 .. x.newest /\ x.newest <= sent'
  BY <1>0 DEF CursorInv, Knows, Baseline, Growing, TypeOK
<1>2. \A m \in 1 .. x.newest : Done(m)'
  BY <1>0 DEF Done
<1>3. ASSUME StartupMode = "replay"
      PROVE  \A k \in Loops : Knows(k)'
  <2>1. loop' = [loop EXCEPT ![l].pc = "dispatch", ![l].at = x.low, ![l].cursor = x.newest]
    BY <1>3 DEF Baseline
  <2>2. loop'[l] = [x EXCEPT !.pc = "dispatch", !.at = x.low, !.cursor = x.newest]
    BY <1>0, <2>1
  <2>3. loop'[l].pc = "dispatch" /\ loop'[l].at = x.low /\ loop'[l].newest = x.newest
    BY <2>2 DEF Loop
  <2>4. DoneUpTo(x.low - 1)'
    BY <1>0, <1>1, <1>2 DEF DoneUpTo
  <2>5. Knows(l)'
    BY <1>1, <2>3, <2>4 DEF Knows
  <2> QED
    BY <1>0, <2>1, <2>5, MoveKeepsCursor
<1>4. ASSUME StartupMode # "replay"
      PROVE  \A k \in Loops : Knows(k)'
  <2>1. loop' = [loop EXCEPT ![l] = Top(l)]
    BY <1>4 DEF Baseline, Return
  <2>2. loop'[l].pc = "top" /\ loop'[l].newest = 0
    BY <1>0, <2>1 DEF Top, Off
  <2> QED
    BY <1>0, <2>1, <2>2, AtRest, MoveKeepsCursor
<1>5. \A k \in Loops : Knows(k)'
  BY <1>3, <1>4
<1>6. /\ store' = [cursor |-> x.newest, ring |-> <<>>] /\ disk' = store' /\ seen' = seen
  BY DEF Baseline, Empty
<1>7. <<>> \in Seq(Nat) /\ DOMAIN <<>> = {}
  BY EmptySeq
<1> QED
  BY <1>0, <1>2, <1>5, <1>6, <1>7, StoreKeepsCursor DEF DoneUpTo

LEMMA DispatchCursor ==
  ASSUME TypeOK, CursorInv, Growing, NEW l \in Loops, Dispatch(l)
  PROVE  CursorInv'
<1> PICK x \in Loop : x = loop[l]
  BY DEF TypeOK
<1>0. /\ loop \in [Loops -> Loop] /\ x.newest \in Nat /\ x.at \in Nat
      /\ sent \in Nat /\ sent <= MaxSent /\ sent' = sent
  BY DEF TypeOK, Loop, Dispatch
<1>1. x.at >= 1 /\ DoneUpTo(x.at - 1) /\ x.newest <= sent
  BY DEF CursorInv, Knows, Dispatch
<1>2. x.at - 1 \in Nat /\ DoneUpTo(x.at - 1)'
  BY <1>0, <1>1, DoneUpToGrows
<1>3. CASE x.at > x.newest
  <2>1. UNCHANGED <<store, disk, seen>>
    BY <1>0, <1>3 DEF Dispatch
  <2>2. Knows(l)'
    <3>1. CASE Return(l)
      <4>1. loop'[l].pc = "top" /\ loop'[l].newest = 0
        BY <1>0, <3>1 DEF Return, Top, Off
      <4> QED
        BY <4>1, AtRest
    <3>2. CASE Goto(l, "advance")
      <4>1. loop'[l] = [x EXCEPT !.pc = "advance"]
        BY <1>0, <3>2 DEF Goto
      <4>2. loop'[l].pc = "advance" /\ loop'[l].newest = x.newest
        BY <4>1 DEF Loop
      <4>3. DoneUpTo(x.newest)'
        BY <1>0, <1>2, <1>3 DEF DoneUpTo
      <4> QED
        BY <1>0, <1>1, <4>2, <4>3 DEF Knows
    <3> QED
      BY <1>0, <1>3, <3>1, <3>2 DEF Dispatch
  <2>3. \A k \in Loops : k # l => loop'[k] = loop[k]
    BY <1>0, <1>3 DEF Dispatch, Goto, Return
  <2> QED
    BY <2>1, <2>2, <2>3, MoveKeepsCursor, RestKeepsCursor
<1>4. CASE x.at <= x.newest /\ (x.at \in Recalls \/ InRing(x.at))
  <2>1. UNCHANGED <<store, disk, seen>> /\ loop' = [loop EXCEPT ![l].at = x.at + 1]
    BY <1>0, <1>4 DEF Dispatch
  <2>2. Done(x.at)'
    <3>1. Done(x.at)
      <4>1. CASE x.at \in Recalls
        BY <4>1 DEF Done
      <4>2. CASE InRing(x.at)
        BY <4>2 DEF InRing, CursorInv
      <4> QED
        BY <1>4, <4>1, <4>2
    <3> QED
      BY <1>0, <3>1, DoneGrows
  <2>3. DoneUpTo(x.at)'
    BY <1>0, <1>2, <2>2 DEF DoneUpTo
  <2>4. loop'[l] = [x EXCEPT !.at = x.at + 1] /\ x.pc = "dispatch"
    BY <1>0, <1>4, <2>1 DEF Dispatch
  <2>5. loop'[l].pc = "dispatch" /\ loop'[l].at = x.at + 1 /\ loop'[l].newest = x.newest
    BY <2>4 DEF Loop
  <2>6. x.at + 1 >= 1 /\ (x.at + 1) - 1 = x.at
    BY <1>0
  <2>7. Knows(l)'
    BY <1>0, <1>1, <2>3, <2>5, <2>6 DEF Knows
  <2> QED
    BY <1>0, <2>1, <2>7, MoveKeepsCursor, RestKeepsCursor
<1>5. CASE x.at <= x.newest /\ ~(x.at \in Recalls \/ InRing(x.at))
  <2>1. /\ UNCHANGED <<store, disk>> /\ Goto(l, "record") /\ seen' = seen \cup {x.at}
        /\ handled' = IF x.at \in seen THEN handled ELSE [handled EXCEPT ![x.at] = @ + 1]
    BY <1>0, <1>5 DEF Dispatch
  <2>2. x.at \in Ids
    BY <1>0, <1>1, <1>5, PollWatcherAssumption DEF Ids
  <2>3. handled'[x.at] > 0
    <3>1. handled \in [Ids -> Nat]
      BY DEF TypeOK
    <3>2. CASE x.at \in seen
      BY <2>1, <3>2 DEF CursorInv
    <3>3. CASE x.at \notin seen
      BY <2>1, <2>2, <3>1, <3>3
    <3> QED
      BY <3>2, <3>3
  <2>4. Done(x.at)'
    BY <2>2, <2>3 DEF Done, Ids
  <2>5. DoneUpTo(x.at)'
    BY <1>0, <1>2, <2>4 DEF DoneUpTo
  <2>6. loop'[l] = [x EXCEPT !.pc = "record"] /\ \A k \in Loops : k # l => loop'[k] = loop[k]
    BY <1>0, <2>1 DEF Goto
  <2>7. loop'[l].pc = "record" /\ loop'[l].at = x.at /\ loop'[l].newest = x.newest
    BY <2>6 DEF Loop
  <2>8. Knows(l)'
    BY <1>0, <1>1, <2>2, <2>5, <2>7 DEF Knows, Ids
  <2>9. \A k \in Loops : Knows(k)'
    BY <2>6, <2>8, MoveKeepsCursor
  <2>10. \A m \in seen' : m \in Ids /\ handled'[m] > 0
    BY <2>1, <2>2, <2>3 DEF CursorInv, Growing, TypeOK
  <2> PICK c \in Nat, d \in Nat, q \in Seq(Nat), r \in Seq(Nat) :
        c = store.cursor /\ d = disk.cursor /\ q = store.ring /\ r = disk.ring
    BY DEF TypeOK, State
  <2>11. DoneUpTo(c)' /\ DoneUpTo(d)'
    BY DoneUpToGrows DEF CursorInv, NothingMissed, DoneUpTo
  <2>12. (\A i \in DOMAIN q : q[i] \in Nat /\ Done(q[i]))
         /\ (\A i \in DOMAIN r : r[i] \in Nat /\ Done(r[i]))
    BY ElementOfSeq, LenProperties DEF CursorInv
  <2>13. (\A i \in DOMAIN q : Done(q[i])') /\ (\A i \in DOMAIN r : Done(r[i])')
    BY <2>12, DoneGrows
  <2> QED
    BY <2>1, <2>9, <2>10, <2>11, <2>13 DEF CursorInv, NothingMissed, DoneUpTo, Ids
<1> QED
  BY <1>0, <1>3, <1>4, <1>5

LEMMA RecordCursor ==
  ASSUME TypeOK, CursorInv, Growing, NEW l \in Loops, Record(l)
  PROVE  CursorInv'
<1> PICK x \in Loop, q \in Seq(Nat) : x = loop[l] /\ q = store.ring
  BY DEF TypeOK, State
<1> DEFINE n == Remember(q, x.at)
<1>0. /\ loop \in [Loops -> Loop] /\ x.newest \in Nat /\ x.at \in Nat
      /\ sent \in Nat /\ sent' = sent /\ x.pc = "record"
  BY DEF TypeOK, Loop, Record
<1>1. x.at \in Ids /\ DoneUpTo(x.at) /\ x.newest <= sent
  BY <1>0 DEF CursorInv, Knows
<1>2. DoneUpTo(x.at)' /\ x.at >= 1
  BY <1>0, <1>1, DoneUpToGrows DEF Ids
<1>3. n \in Seq(Nat) /\ \A i \in DOMAIN n : n[i] = x.at \/ \E k \in DOMAIN q : n[i] = q[k]
  BY <1>0, RememberFacts
<1>4. /\ store' = [cursor |-> x.at, ring |-> n] /\ disk' = store' /\ seen' = seen
      /\ loop' = [loop EXCEPT ![l].pc = "dispatch", ![l].at = x.at + 1]
  BY DEF Record
<1> HIDE DEF n
<1>5. \A i \in DOMAIN n : n[i] \in Nat /\ Done(n[i])
  <2>1. \A k \in DOMAIN q : q[k] \in Nat /\ Done(q[k])
    BY ElementOfSeq, LenProperties DEF CursorInv
  <2>2. Done(x.at)
    BY <1>0, <1>1, <1>2 DEF DoneUpTo
  <2> QED
    BY <1>0, <1>3, <2>1, <2>2
<1>6. \A i \in DOMAIN n : Done(n[i])'
  BY <1>5, DoneGrows
<1>7. loop'[l] = [x EXCEPT !.pc = "dispatch", !.at = x.at + 1]
  BY <1>0, <1>4
<1>8. loop'[l].pc = "dispatch" /\ loop'[l].at = x.at + 1 /\ loop'[l].newest = x.newest
  BY <1>7 DEF Loop
<1>9. x.at + 1 >= 1 /\ (x.at + 1) - 1 = x.at
  BY <1>0
<1>10. Knows(l)'
  BY <1>0, <1>1, <1>2, <1>8, <1>9 DEF Knows
<1>11. \A k \in Loops : k # l => loop'[k] = loop[k]
  BY <1>0, <1>4
<1>12. \A k \in Loops : Knows(k)'
  BY <1>10, <1>11, MoveKeepsCursor
<1> QED
  BY <1>0, <1>2, <1>3, <1>4, <1>6, <1>12, StoreKeepsCursor

LEMMA AdvanceCursor ==
  ASSUME TypeOK, CursorInv, Growing, NEW l \in Loops, Advance(l)
  PROVE  CursorInv'
<1> PICK x \in Loop, c \in Nat, q \in Seq(Nat) :
      x = loop[l] /\ c = store.cursor /\ q = store.ring
  BY DEF TypeOK, State
<1>0. /\ loop \in [Loops -> Loop] /\ x.newest \in Nat /\ x.cursor \in Nat
      /\ x.pc \in {"advance", "skip"}
  BY DEF TypeOK, Loop, Advance
<1>1. DoneUpTo(x.newest)'
  <2>1. CASE x.pc = "advance"
    BY <1>0, <2>1, DoneUpToGrows DEF CursorInv, Knows
  <2>2. CASE x.pc = "skip"
    <3>1. DoneUpTo(x.cursor)'
      BY <1>0, <2>2, DoneUpToGrows DEF CursorInv, Knows
    <3>2. skipped' = skipped \cup (x.cursor + 1 .. x.newest)
      BY <2>2 DEF Advance
    <3>3. \A m \in x.cursor + 1 .. x.newest : Done(m)'
      BY <3>2 DEF Done
    <3> QED
      BY <1>0, <3>1, <3>3 DEF DoneUpTo
  <2> QED
    BY <1>0, <2>1, <2>2
<1>2. store' = [cursor |-> x.newest, ring |-> q]
  BY DEF Advance, TypeOK, State
<1>3. disk' = store' /\ seen' = seen /\ loop' = [loop EXCEPT ![l] = Top(l)]
  BY DEF Advance, Return
<1>4. loop'[l].pc = "top" /\ loop'[l].newest = 0
  BY <1>0, <1>3 DEF Top, Off
<1>5. \A k \in Loops : Knows(k)'
  BY <1>0, <1>3, <1>4, AtRest, MoveKeepsCursor
<1>6. \A i \in DOMAIN q : q[i] \in Nat /\ Done(q[i])
  BY ElementOfSeq, LenProperties DEF CursorInv
<1>7. \A i \in DOMAIN q : Done(q[i])'
  BY <1>6, DoneGrows
<1> QED
  BY <1>0, <1>1, <1>2, <1>3, <1>5, <1>7, StoreKeepsCursor

LEMMA NextCursor == TypeOK /\ CursorInv /\ [Next]_vars => CursorInv'
<1> SUFFICES ASSUME TypeOK, CursorInv, [Next]_vars PROVE CursorInv'
  OBVIOUS
<1>1. Growing
  BY NextGrows
<1>2. CASE UNCHANGED vars
  BY <1>2 DEF vars, CursorInv, NothingMissed, Done, DoneUpTo, Knows, Ids
<1> QED
  BY <1>1, <1>2, EnvironmentCursor, ReadingCursor, BaselineCursor, DispatchCursor,
     RecordCursor, AdvanceCursor DEF Next, Poll

\* Failed calls, toggles, crashes and two loops at work notwithstanding, the
\* cursor never passes a message that was neither handled nor given up.
THEOREM CursorSafe == Spec => []NothingMissed
<1>1. CursorInv => NothingMissed
  BY DEF CursorInv
<1>2. Spec => []CursorInv
  BY InitCursor, NextCursor, TypeCorrect, PTL DEF Spec
<1> QED
  BY <1>1, <1>2, PTL

-----------------------------------------------------------------------------
(* Repetitions *)

\* Where a loop has nothing ahead of it, and where it is not at work at all.
Idle == {"off", "top", "fetch", "giveup"}
Resting == {"off", "top"}

\* Until somebody toggles the watcher, no two loops are at work.
LEMMA OneAtWork ==
  ASSUME TypeOK, LiveInv, RepeatInv, toggles = 0,
         NEW k \in Loops, NEW l \in Loops,
         loop[k].pc \notin Resting, loop[l].pc \notin Resting
  PROVE  k = l /\ ~loop[l].cancelled /\ enabled /\ live = l
<1>1. ~loop[k].cancelled /\ ~loop[l].cancelled
  BY DEF RepeatInv, Resting
<1> QED
  BY <1>1 DEF LiveInv, Resting

LEMMA AheadIdle ==
  ASSUME NEW k \in Loops, loop'[k].pc \in Idle
  PROVE  Ahead(k)'
BY DEF Ahead, Idle

LEMMA AheadKept ==
  ASSUME NEW k \in Loops, Ahead(k), loop'[k] = loop[k], UNCHANGED <<handled, torn>>
  PROVE  Ahead(k)'
BY DEF Ahead, Spared

LEMMA InitRepeat == Init => RepeatInv
<1> SUFFICES ASSUME Init PROVE RepeatInv
  OBVIOUS
<1>1. \A m \in Ids : handled[m] = 0
  BY DEF Init
<1>2. \A l \in Loops : loop[l].pc = "off" /\ ~loop[l].cancelled
  BY DEF Init, Off
<1>3. \A l \in Loops : Ahead(l)
  BY <1>2 DEF Ahead
<1> QED
  BY <1>1, <1>2, <1>3 DEF Init, RepeatInv, Spared

\* A loop that is not recording moves, and nothing else does.
LEMMA MoveKeepsRepeat ==
  ASSUME TypeOK, RepeatInv, NEW l \in Loops, loop[l].pc # "record",
         UNCHANGED <<sent, store, disk, handled, seen, torn, crashes, toggles>>,
         \A k \in Loops : k # l => loop'[k] = loop[k],
         toggles = 0 => /\ Ahead(l)'
                        /\ loop'[l].cancelled => loop'[l].pc \in Resting
  PROVE  RepeatInv'
<1>1. Ids' = Ids /\ \A m \in Ids : Spared(m)' <=> Spared(m)
  BY DEF Spared, Ids
<1>2. ASSUME toggles = 0
      PROVE  /\ \A k \in Loops : loop'[k].cancelled => loop'[k].pc \in {"top", "off"}
             /\ \A k \in Loops : Ahead(k)'
             /\ \A m \in Ids : Spared(m) \/ m <= store.cursor
                               \/ \E k \in Loops : loop'[k].pc = "record" /\ loop'[k].at = m
  <2>1. \A k \in Loops : loop'[k].cancelled => loop'[k].pc \in {"top", "off"}
    BY <1>2 DEF RepeatInv, Resting
  <2>2. \A k \in Loops : Ahead(k)'
    BY <1>2, AheadKept DEF RepeatInv
  <2>3. \A k \in Loops : loop[k].pc = "record" => loop'[k] = loop[k]
    OBVIOUS
  <2>4. \A m \in Ids : Spared(m) \/ m <= store.cursor
                        \/ \E k \in Loops : loop[k].pc = "record" /\ loop[k].at = m
    BY <1>2 DEF RepeatInv
  <2> QED
    BY <2>1, <2>2, <2>3, <2>4
<1> QED
  BY <1>1, <1>2 DEF RepeatInv

\* A loop at rest, or one that has nothing to do with the switch, is cancelled
\* no more than before.
LEMMA WorkKeepsRepeat ==
  ASSUME TypeOK, LiveInv, RepeatInv, NEW l \in Loops,
         loop[l].pc \notin Resting, loop[l].pc # "record",
         UNCHANGED <<sent, store, disk, handled, seen, torn, crashes, toggles>>,
         \A k \in Loops : k # l => loop'[k] = loop[k],
         loop'[l].cancelled = loop[l].cancelled,
         toggles = 0 => Ahead(l)'
  PROVE  RepeatInv'
<1>1. toggles = 0 => ~loop'[l].cancelled
  BY OneAtWork
<1> QED
  BY <1>1, MoveKeepsRepeat

LEMMA EnvironmentRepeat ==
  ASSUME TypeOK, CursorInv, RepeatInv, Send \/ Enable \/ Disable \/ Crash
  PROVE  RepeatInv'
<1>0. /\ handled \in [Ids -> Nat] /\ crashes \in Nat /\ toggles \in Nat /\ sent \in Nat
      /\ loop \in [Loops -> Loop]
  BY DEF TypeOK
<1>1. CASE Send
  <2>1. /\ sent' = sent + 1
        /\ UNCHANGED <<store, disk, loop, handled, seen, torn, crashes, toggles>>
    BY <1>1 DEF Send, ghosts, bounded
  <2>2. \A k \in Loops : Ahead(k) => Ahead(k)'
    BY <2>1, AheadKept
  <2>3. \A m \in Ids : m \in Nat
    BY DEF Ids
  <2>4. \A m \in Ids : handled[m] > 0 => m <= sent'
    BY <1>0, <2>1, <2>3 DEF RepeatInv
  <2>5. Ids' = Ids /\ \A m \in Ids : Spared(m)' <=> Spared(m)
    BY <2>1 DEF Spared, Ids
  <2> QED
    BY <2>1, <2>2, <2>4, <2>5 DEF RepeatInv
<1>2. CASE Enable
  <2>1. UNCHANGED <<sent, store, disk, handled, seen, torn, crashes, toggles>>
    BY <1>2 DEF Enable, ghosts, bounded
  <2>2. ASSUME NEW l \in Loops, loop[l].pc = "off",
               loop' = [loop EXCEPT ![l] = [Off EXCEPT !.pc = "top"]]
        PROVE  RepeatInv'
    <3>1. loop'[l].pc = "top" /\ \A k \in Loops : k # l => loop'[k] = loop[k]
      BY <1>0, <2>2 DEF Off
    <3>2. Ahead(l)' /\ loop'[l].pc \in Resting
      BY <3>1, AheadIdle DEF Idle, Resting
    <3>3. loop[l].pc # "record"
      BY <2>2
    <3> QED
      BY <2>1, <3>1, <3>2, <3>3, MoveKeepsRepeat
  <2>3. ASSUME loop' = loop PROVE RepeatInv'
    BY <2>1, <2>3 DEF RepeatInv, Ahead, Spared, Ids
  <2> QED
    BY <1>2, <2>2, <2>3 DEF Enable
<1>3. CASE Disable
  <2>1. /\ UNCHANGED <<sent, store, disk, handled, seen, crashes>>
        /\ toggles' = toggles + 1
    BY <1>3 DEF Disable, ghosts
  <2>2. toggles' # 0
    BY <1>0, <2>1
  <2> QED
    BY <2>1, <2>2 DEF RepeatInv, Ids
<1>4. CASE Crash
  <2>1. /\ UNCHANGED <<sent, disk, handled, toggles>> /\ store' = disk
        /\ crashes' = crashes + 1 /\ seen' = {} /\ loop' = [l \in Loops |-> Off]
        /\ torn' = torn \cup {loop[l].at : l \in {k \in Loops : loop[k].pc = "record"}}
    BY <1>4 DEF Crash
  <2>2. \A l \in Loops : loop'[l].pc = "off"
    BY <2>1 DEF Off
  <2>3. \A k \in Loops : Ahead(k)'
    BY <2>2, AheadIdle DEF Idle
  <2>4. \A m \in Ids : handled[m] <= crashes' /\ handled[m] <= crashes' + 1
    BY <1>0, <2>1 DEF RepeatInv
  <2>5. \A m \in Ids : Spared(m) => Spared(m)'
    BY <2>1 DEF Spared
  <2>6. \A l \in Loops : loop[l].pc = "record" => loop[l].at \in torn'
    BY <2>1
  <2>7. \A m \in Ids : m \in torn' => Spared(m)'
    BY DEF Spared
  <2>8. ASSUME toggles = 0
        PROVE  /\ \A m \in Ids : handled[m] > 1 => m \in torn'
               /\ \A m \in Ids : Spared(m)' \/ m <= store'.cursor
    <3>1. store' = store
      BY <2>1 DEF RepeatInv
    <3>2. \A m \in Ids : Spared(m) \/ m <= store.cursor
                          \/ \E l \in Loops : loop[l].pc = "record" /\ loop[l].at = m
      BY <2>8 DEF RepeatInv
    <3>3. \A m \in Ids : handled[m] > 1 => m \in torn
      BY <2>8 DEF RepeatInv
    <3> QED
      BY <2>1, <2>5, <2>6, <2>7, <3>1, <3>2, <3>3
  <2>9. Ids' = Ids
    BY DEF Ids
  <2>10. \A m \in Ids : handled'[m] > 0 => m <= sent'
    BY <2>1 DEF RepeatInv
  <2>11. disk' = store'
    BY <2>1
  <2> QED
    BY <2>1, <2>2, <2>3, <2>4, <2>8, <2>9, <2>10, <2>11 DEF RepeatInv
<1> QED
  BY <1>1, <1>2, <1>3, <1>4

\* The loop looks around, fetches, fails, gives up or reads the cursor.
LEMMA LookingRepeat ==
  ASSUME TypeOK, LiveInv, RepeatInv, NEW l \in Loops,
         Check(l) \/ FetchNewest(l) \/ FetchError(l) \/ GiveUp(l)
  PROVE  RepeatInv'
<1> PICK x \in Loop : x = loop[l]
  BY DEF TypeOK
<1>0. loop \in [Loops -> Loop] /\ sent \in Nat /\ handled \in [Ids -> Nat]
  BY DEF TypeOK
<1>1. Top(l).pc = "top" /\ Top(l).cancelled = x.cancelled
  BY DEF Top, Off
<1>2. CASE Check(l)
  <2>1. /\ UNCHANGED <<sent, store, disk, handled, seen, torn, crashes, toggles>>
        /\ x.pc = "top" /\ \A k \in Loops : k # l => loop'[k] = loop[k]
    BY <1>0, <1>2 DEF Check, Goto, ghosts, bounded
  <2>2. \/ loop'[l].pc = "off"
        \/ loop'[l].pc = "fetch" /\ ~loop'[l].cancelled
    <3>1. CASE enabled /\ ~x.cancelled
      <4>1. loop'[l] = [x EXCEPT !.pc = "fetch"]
        BY <1>0, <1>2, <3>1 DEF Check, Goto
      <4> QED
        BY <3>1, <4>1 DEF Loop
    <3>2. CASE ~(enabled /\ ~x.cancelled)
      BY <1>0, <1>2, <3>2 DEF Check, Off
    <3> QED
      BY <3>1, <3>2
  <2>3. Ahead(l)' /\ (loop'[l].cancelled => loop'[l].pc \in Resting)
    BY <2>2, AheadIdle DEF Idle, Resting
  <2>4. loop[l].pc # "record"
    BY <2>1
  <2> QED
    BY <2>1, <2>3, <2>4, MoveKeepsRepeat
<1>3. CASE FetchNewest(l)
  <2>1. /\ UNCHANGED <<sent, store, disk, handled, seen, torn, crashes, toggles>>
        /\ x.pc = "fetch" /\ \A k \in Loops : k # l => loop'[k] = loop[k]
    BY <1>0, <1>3 DEF FetchNewest, Return, ghosts, bounded
  <2>2. CASE Return(l)
    <3>1. loop'[l] = Top(l)
      BY <1>0, <2>2 DEF Return
    <3> QED
      BY <1>1, <2>1, <3>1, AheadIdle, WorkKeepsRepeat DEF Idle, Resting
  <2>3. CASE ~Return(l)
    <3>1. loop' = [loop EXCEPT ![l].pc = "read", ![l].newest = sent,
                               ![l].low = PageStart(sent)]
      BY <1>3, <2>3 DEF FetchNewest
    <3>2. loop'[l] = [x EXCEPT !.pc = "read", !.newest = sent, !.low = PageStart(sent)]
      BY <1>0, <3>1
    <3>3. loop'[l].pc = "read" /\ loop'[l].newest = sent /\ loop'[l].cancelled = x.cancelled
      BY <3>2 DEF Loop
    <3>4. \A m \in Ids : handled'[m] > 0 => m <= loop'[l].newest
      BY <2>1, <3>3 DEF RepeatInv
    <3>5. Ahead(l)'
      BY <3>3, <3>4 DEF Ahead, Ids
    <3> QED
      BY <2>1, <3>3, <3>5, WorkKeepsRepeat DEF Resting
  <2> QED
    BY <2>2, <2>3
<1>4. CASE FetchError(l)
  <2>1. /\ UNCHANGED <<sent, store, disk, handled, seen, torn, crashes, toggles>>
        /\ x.pc \in {"fetch", "gather"} /\ (Return(l) \/ Goto(l, "giveup"))
    BY <1>4 DEF FetchError, ghosts
  <2>2. CASE Return(l)
    <3>1. loop'[l] = Top(l) /\ \A k \in Loops : k # l => loop'[k] = loop[k]
      BY <1>0, <2>2 DEF Return
    <3> QED
      BY <1>1, <2>1, <3>1, AheadIdle, WorkKeepsRepeat DEF Idle, Resting
  <2>3. CASE Goto(l, "giveup")
    <3>1. loop'[l] = [x EXCEPT !.pc = "giveup"] /\ \A k \in Loops : k # l => loop'[k] = loop[k]
      BY <1>0, <2>3 DEF Goto
    <3>2. loop'[l].pc = "giveup" /\ loop'[l].cancelled = x.cancelled
      BY <3>1 DEF Loop
    <3> QED
      BY <2>1, <3>1, <3>2, AheadIdle, WorkKeepsRepeat DEF Idle, Resting
  <2> QED
    BY <2>1, <2>2, <2>3
<1>5. CASE GiveUp(l)
  <2> DEFINE lp == [loop EXCEPT ![l] = Top(l)]
  <2>1. /\ UNCHANGED <<sent, store, disk, handled, seen, torn, crashes, toggles>>
        /\ x.pc = "giveup" /\ Switch(lp)
    BY <1>5 DEF GiveUp, ghosts, bounded
  <2>2. CASE toggles = 0
    <3>1. enabled /\ live = l /\ l # NoLoop
      BY <2>1, <2>2, OneAtWork, PollWatcherAssumption DEF Resting
    <3>2. loop' = [lp EXCEPT ![l].cancelled = TRUE]
      BY <2>1, <3>1 DEF Switch
    <3>3. loop'[l] = [Top(l) EXCEPT !.cancelled = TRUE] /\ \A k \in Loops : k # l => loop'[k] = loop[k]
      BY <1>0, <3>2
    <3>4. loop'[l].pc = "top"
      BY <1>1, <3>3, TopType DEF Loop
    <3>5. Ahead(l)' /\ loop'[l].pc \in Resting
      BY <3>4, AheadIdle DEF Idle, Resting
    <3>6. loop[l].pc # "record"
      BY <2>1
    <3> QED
      BY <2>1, <3>3, <3>5, <3>6, MoveKeepsRepeat
  <2>3. CASE toggles # 0
    BY <2>1, <2>3 DEF RepeatInv, Ids
  <2> QED
    BY <2>2, <2>3
<1> QED
  BY <1>2, <1>3, <1>4, <1>5

LEMMA ReadingRepeat ==
  ASSUME TypeOK, LiveInv, RepeatInv, NEW l \in Loops, ReadCursor(l) \/ FetchOlder(l)
  PROVE  RepeatInv'
<1> PICK x \in Loop : x = loop[l]
  BY DEF TypeOK
<1>0. loop \in [Loops -> Loop] /\ handled \in [Ids -> Nat] /\ x.cursor \in Nat
  BY DEF TypeOK, Loop
<1>1. Top(l).pc = "top" /\ Top(l).cancelled = x.cancelled
  BY DEF Top, Off
<1>2. CASE ReadCursor(l)
  <2> PICK c \in Nat : c = store.cursor
    BY DEF TypeOK, State
  <2>1. /\ UNCHANGED <<sent, store, disk, handled, seen, torn, crashes, toggles>>
        /\ x.pc = "read"
    BY <1>2 DEF ReadCursor, ghosts, bounded
  <2>2. ASSUME toggles = 0
        PROVE  \A m \in Ids : m > c => Spared(m)
    <3>1. \A k \in Loops : loop[k].pc # "record"
      BY <2>1, <2>2, OneAtWork DEF Resting
    <3>2. \A m \in Ids : m \in Nat
      BY DEF Ids
    <3> QED
      BY <2>2, <3>1, <3>2 DEF RepeatInv
  <2>3. ASSUME toggles = 0
        PROVE  \A m \in Ids : handled[m] > 0 => m <= x.newest
    BY <2>1, <2>3 DEF RepeatInv, Ahead
  <2>4. Ids' = Ids /\ \A m \in Ids : Spared(m)' <=> Spared(m)
    BY <2>1 DEF Spared, Ids
  <2>5. CASE c = 0 /\ Goto(l, "baseline")
    <3>1. loop'[l] = [x EXCEPT !.pc = "baseline"] /\ \A k \in Loops : k # l => loop'[k] = loop[k]
      BY <1>0, <2>5 DEF Goto
    <3>2. loop'[l].pc = "baseline" /\ loop'[l].cancelled = x.cancelled /\ loop'[l].newest = x.newest
      BY <3>1 DEF Loop
    <3>3. toggles = 0 => \A m \in Ids : Spared(m)
      BY <2>2, <2>5 DEF Ids
    <3>4. toggles = 0 => Ahead(l)'
      BY <2>1, <2>3, <2>4, <3>2, <3>3 DEF Ahead
    <3>5. loop[l].pc \notin Resting /\ loop[l].pc # "record"
      BY <2>1 DEF Resting
    <3> QED
      BY <2>1, <3>1, <3>2, <3>4, <3>5, WorkKeepsRepeat
  <2>6. CASE Return(l)
    <3>1. loop'[l] = Top(l) /\ \A k \in Loops : k # l => loop'[k] = loop[k]
      BY <1>0, <2>6 DEF Return
    <3> QED
      BY <1>1, <2>1, <3>1, AheadIdle, WorkKeepsRepeat DEF Idle, Resting
  <2>7. ASSUME NEW pc \in {"dispatch", "gather"}, NEW at \in Nat,
               pc = "gather" \/ at = c + 1,
               loop' = [loop EXCEPT ![l].cursor = c, ![l].pc = pc, ![l].at = at]
        PROVE  RepeatInv'
    <3>1. /\ loop'[l] = [x EXCEPT !.cursor = c, !.pc = pc, !.at = at]
          /\ \A k \in Loops : k # l => loop'[k] = loop[k]
      BY <1>0, <2>7
    <3>2. /\ loop'[l].pc = pc /\ loop'[l].cancelled = x.cancelled
          /\ loop'[l].newest = x.newest /\ loop'[l].cursor = c /\ loop'[l].at = at
      BY <3>1 DEF Loop
    <3>3. pc = "dispatch" /\ toggles = 0 => \A m \in Ids : m >= at => Spared(m)
      BY <2>2, <2>7 DEF Ids
    <3>4. toggles = 0 => Ahead(l)'
      BY <2>1, <2>2, <2>3, <2>4, <3>2, <3>3 DEF Ahead
    <3>5. loop[l].pc \notin Resting /\ loop[l].pc # "record"
      BY <2>1 DEF Resting
    <3> QED
      BY <2>1, <3>1, <3>2, <3>4, <3>5, WorkKeepsRepeat
  <2>8. \/ c = 0 /\ Goto(l, "baseline")
        \/ Return(l)
        \/ loop' = [loop EXCEPT ![l].cursor = c,
             ![l].pc = IF c \in x.low .. x.newest THEN "dispatch" ELSE "gather",
             ![l].at = IF c \in x.low .. x.newest THEN c + 1 ELSE 0]
    BY <1>2 DEF ReadCursor
  <2>9. CASE /\ loop' = [loop EXCEPT ![l].cursor = c,
                  ![l].pc = IF c \in x.low .. x.newest THEN "dispatch" ELSE "gather",
                  ![l].at = IF c \in x.low .. x.newest THEN c + 1 ELSE 0]
             /\ c \in x.low .. x.newest
    <3>1. loop' = [loop EXCEPT ![l].cursor = c, ![l].pc = "dispatch", ![l].at = c + 1]
      BY <2>9
    <3>2. c + 1 \in Nat
      OBVIOUS
    <3> QED
      BY <2>7, <3>1, <3>2
  <2>10. CASE /\ loop' = [loop EXCEPT ![l].cursor = c,
                   ![l].pc = IF c \in x.low .. x.newest THEN "dispatch" ELSE "gather",
                   ![l].at = IF c \in x.low .. x.newest THEN c + 1 ELSE 0]
              /\ c \notin x.low .. x.newest
    <3>1. loop' = [loop EXCEPT ![l].cursor = c, ![l].pc = "gather", ![l].at = 0]
      BY <2>10
    <3> QED
      BY <2>7, <3>1
  <2> QED
    BY <2>5, <2>6, <2>8, <2>9, <2>10
<1>3. CASE FetchOlder(l)
  <2>1. /\ UNCHANGED <<sent, store, disk, handled, seen, torn, crashes, toggles>>
        /\ x.pc = "gather" /\ \A k \in Loops : k # l => loop'[k] = loop[k]
    BY <1>0, <1>3 DEF FetchOlder, Goto, ghosts, bounded
  <2>2. ASSUME toggles = 0
        PROVE  \A m \in Ids : /\ handled[m] > 0 => m <= x.newest
                              /\ m > x.cursor => Spared(m)
    BY <2>1, <2>2 DEF RepeatInv, Ahead
  <2>3. Ids' = Ids /\ \A m \in Ids : Spared(m)' <=> Spared(m)
    BY <2>1 DEF Spared, Ids
  <2>4. ASSUME loop'[l].pc \in {"gather", "skip"} \/
                 (loop'[l].pc = "dispatch" /\ loop'[l].at = x.cursor + 1),
               loop'[l].cursor = x.cursor, loop'[l].newest = x.newest,
               loop'[l].cancelled = x.cancelled
        PROVE  RepeatInv'
    <3>1. toggles = 0 => \A m \in Ids : m >= x.cursor + 1 => Spared(m)
      BY <1>0, <2>2 DEF Ids
    <3>2. toggles = 0 => Ahead(l)'
      BY <2>1, <2>2, <2>3, <2>4, <3>1 DEF Ahead
    <3>3. loop[l].pc \notin Resting /\ loop[l].pc # "record"
      BY <2>1 DEF Resting
    <3> QED
      BY <2>1, <2>4, <3>2, <3>3, WorkKeepsRepeat
  <2>5. CASE Goto(l, "skip")
    <3>1. loop'[l] = [x EXCEPT !.pc = "skip"]
      BY <1>0, <2>5 DEF Goto
    <3> QED
      BY <2>4, <3>1 DEF Loop
  <2>6. CASE loop' = [loop EXCEPT ![l].pc = "dispatch", ![l].at = x.cursor + 1]
    <3>1. loop'[l] = [x EXCEPT !.pc = "dispatch", !.at = x.cursor + 1]
      BY <1>0, <2>6
    <3> QED
      BY <2>4, <3>1 DEF Loop
  <2>7. ASSUME NEW pc \in {"skip", "gather"}, NEW first,
               loop' = [loop EXCEPT ![l].low = first, ![l].pages = @ + 1, ![l].pc = pc]
        PROVE  RepeatInv'
    <3>1. loop'[l] = [x EXCEPT !.low = first, !.pages = x.pages + 1, !.pc = pc]
      BY <1>0, <2>7
    <3>2. /\ loop'[l].pc = pc /\ loop'[l].cursor = x.cursor
          /\ loop'[l].newest = x.newest /\ loop'[l].cancelled = x.cancelled
      BY <3>1 DEF Loop
    <3> QED
      BY <2>4, <3>2
  <2>8. \/ Goto(l, "skip")
        \/ loop' = [loop EXCEPT ![l].pc = "dispatch", ![l].at = x.cursor + 1]
        \/ loop' = [loop EXCEPT ![l].low = PageStart(x.low - 1), ![l].pages = @ + 1, ![l].pc = "skip"]
        \/ loop' = [loop EXCEPT ![l].low = PageStart(x.low - 1), ![l].pages = @ + 1, ![l].pc = "gather"]
    BY <1>3 DEF FetchOlder
  <2> HIDE DEF PageStart
  <2> QED
    BY <2>5, <2>6, <2>7, <2>8
<1> QED
  BY <1>2, <1>3

\* A loop writes the store: while nobody has toggled the watcher, it is the only
\* one at work, so only its own step decides what is ahead and on the way.
LEMMA WriteKeepsRepeat ==
  ASSUME TypeOK, LiveInv, RepeatInv, NEW l \in Loops,
         loop[l].pc \notin Resting, disk' = store',
         UNCHANGED <<sent, handled, seen, torn, crashes, toggles>>,
         \A k \in Loops : k # l => loop'[k] = loop[k],
         loop'[l].cancelled = loop[l].cancelled,
         toggles = 0 => Ahead(l)',
         toggles = 0 => \A m \in Ids : Spared(m) \/ m <= store'.cursor
  PROVE  RepeatInv'
<1>1. Ids' = Ids /\ \A m \in Ids : Spared(m)' <=> Spared(m)
  BY DEF Spared, Ids
<1>2. ASSUME toggles = 0
      PROVE  /\ \A k \in Loops : loop'[k].cancelled => loop'[k].pc \in {"top", "off"}
             /\ \A k \in Loops : Ahead(k)'
  <2>1. ~loop'[l].cancelled
    BY <1>2, OneAtWork
  <2>2. \A k \in Loops : loop'[k].cancelled => loop'[k].pc \in {"top", "off"}
    BY <1>2, <2>1 DEF RepeatInv
  <2>3. \A k \in Loops : Ahead(k)'
    BY <1>2, AheadKept DEF RepeatInv
  <2> QED
    BY <2>2, <2>3
<1> QED
  BY <1>1, <1>2 DEF RepeatInv

LEMMA WritingRepeat ==
  ASSUME TypeOK, LiveInv, CursorInv, RepeatInv, NEW l \in Loops,
         Baseline(l) \/ Record(l) \/ Advance(l)
  PROVE  RepeatInv'
<1> PICK x \in Loop : x = loop[l]
  BY DEF TypeOK
<1>0. /\ loop \in [Loops -> Loop] /\ handled \in [Ids -> Nat]
      /\ x.cursor \in Nat /\ x.at \in Nat /\ x.newest \in Nat
  BY DEF TypeOK, Loop
<1>1. Top(l).pc = "top" /\ Top(l).cancelled = x.cancelled
  BY DEF Top, Off
<1>2. \A m \in Ids : m \in Nat
  BY DEF Ids
<1>3. CASE Baseline(l)
  <2>1. /\ UNCHANGED <<sent, handled, seen, torn, crashes, toggles>>
        /\ x.pc = "baseline" /\ disk' = store'
    BY <1>3 DEF Baseline, bounded
  <2>2. ASSUME toggles = 0
        PROVE  \A m \in Ids : Spared(m) /\ (handled[m] > 0 => m <= x.newest)
    BY <2>1, <2>2 DEF RepeatInv, Ahead
  <2>3. Ids' = Ids /\ \A m \in Ids : Spared(m)' <=> Spared(m)
    BY <2>1 DEF Spared, Ids
  <2>4. loop[l].pc \notin Resting
    BY <2>1 DEF Resting
  <2>5. CASE Return(l)
    <3>1. loop'[l] = Top(l) /\ \A k \in Loops : k # l => loop'[k] = loop[k]
      BY <1>0, <2>5 DEF Return
    <3>2. Ahead(l)' /\ loop'[l].cancelled = x.cancelled
      BY <1>1, <3>1, AheadIdle DEF Idle
    <3> QED
      BY <2>1, <2>2, <2>4, <3>1, <3>2, WriteKeepsRepeat
  <2>6. CASE loop' = [loop EXCEPT ![l].pc = "dispatch", ![l].at = x.low, ![l].cursor = x.newest]
    <3>1. /\ loop'[l] = [x EXCEPT !.pc = "dispatch", !.at = x.low, !.cursor = x.newest]
          /\ \A k \in Loops : k # l => loop'[k] = loop[k]
      BY <1>0, <2>6
    <3>2. loop'[l].pc = "dispatch" /\ loop'[l].newest = x.newest /\ loop'[l].cancelled = x.cancelled
      BY <3>1 DEF Loop
    <3>3. toggles = 0 => Ahead(l)'
      BY <2>1, <2>2, <2>3, <3>2 DEF Ahead
    <3> QED
      BY <2>1, <2>2, <2>4, <3>1, <3>2, <3>3, WriteKeepsRepeat
  <2> QED
    BY <1>3, <2>5, <2>6 DEF Baseline
<1>4. CASE Record(l)
  <2>1. /\ UNCHANGED <<sent, handled, seen, torn, crashes, toggles>>
        /\ x.pc = "record" /\ disk' = store' /\ store'.cursor = x.at
        /\ loop' = [loop EXCEPT ![l].pc = "dispatch", ![l].at = x.at + 1]
    BY <1>4 DEF Record, ghosts, bounded
  <2>2. ASSUME toggles = 0
        PROVE  \A m \in Ids : (m > x.at => Spared(m)) /\ (handled[m] > 0 => m <= x.newest)
    BY <2>1, <2>2 DEF RepeatInv, Ahead
  <2>3. Ids' = Ids /\ \A m \in Ids : Spared(m)' <=> Spared(m)
    BY <2>1 DEF Spared, Ids
  <2>4. /\ loop'[l] = [x EXCEPT !.pc = "dispatch", !.at = x.at + 1]
        /\ \A k \in Loops : k # l => loop'[k] = loop[k]
    BY <1>0, <2>1
  <2>5. /\ loop'[l].pc = "dispatch" /\ loop'[l].newest = x.newest
        /\ loop'[l].cancelled = x.cancelled /\ loop'[l].at = x.at + 1
    BY <2>4 DEF Loop
  <2>6. \A m \in Ids : m >= x.at + 1 => m > x.at
    BY <1>0, <1>2
  <2>7. toggles = 0 => Ahead(l)'
    BY <2>1, <2>2, <2>3, <2>5, <2>6 DEF Ahead
  <2>8. toggles = 0 => \A m \in Ids : Spared(m) \/ m <= store'.cursor
    BY <1>0, <1>2, <2>1, <2>2
  <2>9. loop[l].pc \notin Resting
    BY <2>1 DEF Resting
  <2> QED
    BY <2>1, <2>4, <2>5, <2>7, <2>8, <2>9, WriteKeepsRepeat
<1>5. CASE Advance(l)
  <2>1. /\ UNCHANGED <<sent, handled, seen, torn, crashes, toggles>>
        /\ x.pc \in {"advance", "skip"} /\ disk' = store'
        /\ loop' = [loop EXCEPT ![l] = Top(l)]
    BY <1>5 DEF Advance, Return, bounded
  <2>2. store'.cursor = x.newest
    <3>1. store \in State /\ store' = [store EXCEPT !.cursor = x.newest]
      BY <1>5 DEF Advance, TypeOK
    <3> QED
      BY <3>1 DEF State
  <2>3. ASSUME toggles = 0
        PROVE  \A m \in Ids : handled[m] > 0 => m <= x.newest
    BY <2>1, <2>3 DEF RepeatInv, Ahead
  <2>4. \A m \in Ids : ~(handled[m] > 0) => Spared(m)
    BY <1>0 DEF Spared
  <2>5. loop'[l] = Top(l) /\ \A k \in Loops : k # l => loop'[k] = loop[k]
    BY <1>0, <2>1
  <2>6. Ahead(l)' /\ loop'[l].cancelled = x.cancelled
    BY <1>1, <2>5, AheadIdle DEF Idle
  <2>7. toggles = 0 => \A m \in Ids : Spared(m) \/ m <= store'.cursor
    BY <2>2, <2>3, <2>4
  <2>8. loop[l].pc \notin Resting
    BY <2>1 DEF Resting
  <2> QED
    BY <2>1, <2>5, <2>6, <2>7, <2>8, WriteKeepsRepeat
<1> QED
  BY <1>3, <1>4, <1>5

\* A message the dispatcher takes a second time is one a crash tore.
LEMMA DispatchRepeat ==
  ASSUME TypeOK, LiveInv, CursorInv, RepeatInv, NEW l \in Loops, Dispatch(l)
  PROVE  RepeatInv'
<1> PICK x \in Loop : x = loop[l]
  BY DEF TypeOK
<1>0. /\ loop \in [Loops -> Loop] /\ handled \in [Ids -> Nat] /\ crashes \in Nat
      /\ x.cursor \in Nat /\ x.at \in Nat /\ x.newest \in Nat
      /\ sent \in Nat /\ sent <= MaxSent
  BY DEF TypeOK, Loop
<1>1. /\ UNCHANGED <<sent, store, disk, torn, crashes, toggles>>
      /\ x.pc = "dispatch" /\ x.at >= 1 /\ x.newest <= sent
  BY DEF Dispatch, ghosts, bounded, CursorInv, Knows
<1>2. loop[l].pc \notin Resting /\ loop[l].pc # "record"
  BY <1>1 DEF Resting
<1>3. ASSUME toggles = 0
      PROVE  \A m \in Ids : (m >= x.at => Spared(m)) /\ (handled[m] > 0 => m <= x.newest)
  BY <1>1, <1>3 DEF RepeatInv, Ahead
<1>4. CASE x.at > x.newest
  <2>1. UNCHANGED <<handled, seen>> /\ (Return(l) \/ Goto(l, "advance"))
    BY <1>0, <1>4 DEF Dispatch
  <2>2. CASE Return(l)
    <3>1. loop'[l] = Top(l) /\ \A k \in Loops : k # l => loop'[k] = loop[k]
      BY <1>0, <2>2 DEF Return
    <3>2. loop'[l].pc = "top" /\ loop'[l].cancelled = x.cancelled
      BY <3>1 DEF Top, Off
    <3>3. Ahead(l)'
      BY <3>2, AheadIdle DEF Idle
    <3> QED
      BY <1>1, <1>2, <2>1, <3>1, <3>2, <3>3, WorkKeepsRepeat
  <2>3. CASE Goto(l, "advance")
    <3>1. loop'[l] = [x EXCEPT !.pc = "advance"] /\ \A k \in Loops : k # l => loop'[k] = loop[k]
      BY <1>0, <2>3 DEF Goto
    <3>2. loop'[l].pc = "advance" /\ loop'[l].cancelled = x.cancelled /\ loop'[l].newest = x.newest
      BY <3>1 DEF Loop
    <3>3. Ids' = Ids /\ handled' = handled
      BY <2>1 DEF Ids
    <3>4. toggles = 0 => Ahead(l)'
      BY <1>3, <3>2, <3>3 DEF Ahead
    <3> QED
      BY <1>1, <1>2, <2>1, <3>1, <3>2, <3>4, WorkKeepsRepeat
  <2> QED
    BY <2>1, <2>2, <2>3
<1>5. CASE x.at <= x.newest /\ (x.at \in Recalls \/ InRing(x.at))
  <2>1. UNCHANGED <<handled, seen>> /\ loop' = [loop EXCEPT ![l].at = x.at + 1]
    BY <1>0, <1>5 DEF Dispatch
  <2>2. loop'[l] = [x EXCEPT !.at = x.at + 1] /\ \A k \in Loops : k # l => loop'[k] = loop[k]
    BY <1>0, <2>1
  <2>3. /\ loop'[l].pc = "dispatch" /\ loop'[l].cancelled = x.cancelled
        /\ loop'[l].newest = x.newest /\ loop'[l].at = x.at + 1
    BY <1>1, <2>2 DEF Loop
  <2>4. Ids' = Ids /\ \A m \in Ids : Spared(m)' <=> Spared(m)
    BY <1>1, <2>1 DEF Spared, Ids
  <2>5. \A m \in Ids : m >= x.at + 1 => m >= x.at
    BY <1>0 DEF Ids
  <2>6. toggles = 0 => Ahead(l)'
    BY <1>3, <2>1, <2>3, <2>4, <2>5 DEF Ahead
  <2> QED
    BY <1>1, <1>2, <2>1, <2>2, <2>3, <2>6, WorkKeepsRepeat
<1>6. CASE x.at <= x.newest /\ ~(x.at \in Recalls \/ InRing(x.at))
  <2>1. /\ Goto(l, "record") /\ seen' = seen \cup {x.at}
        /\ handled' = IF x.at \in seen THEN handled ELSE [handled EXCEPT ![x.at] = @ + 1]
    BY <1>0, <1>6 DEF Dispatch
  <2>2. x.at \in Ids
    BY <1>0, <1>1, <1>6, PollWatcherAssumption DEF Ids
  <2>3. loop'[l] = [x EXCEPT !.pc = "record"] /\ \A k \in Loops : k # l => loop'[k] = loop[k]
    BY <1>0, <2>1 DEF Goto
  <2>4. /\ loop'[l].pc = "record" /\ loop'[l].cancelled = x.cancelled
        /\ loop'[l].newest = x.newest /\ loop'[l].at = x.at
    BY <2>3 DEF Loop
  <2>5. \A m \in Ids : m # x.at => handled'[m] = handled[m]
    BY <1>0, <2>1
  <2>6. /\ x.at \in seen => handled'[x.at] = handled[x.at]
        /\ x.at \notin seen => handled'[x.at] = handled[x.at] + 1
    BY <1>0, <2>1, <2>2
  <2>7. \A m \in Ids : handled[m] \in Nat /\ m \in Nat
    BY <1>0 DEF Ids
  <2>8. \A m \in Ids : /\ handled[m] > 0 => m <= sent
                       /\ handled[m] <= crashes + 1
                       /\ m \notin seen => handled[m] <= crashes
    BY DEF RepeatInv
  <2>9. \A m \in Ids : /\ handled'[m] > 0 => m <= sent
                       /\ handled'[m] <= crashes + 1
                       /\ m \notin seen' => handled'[m] <= crashes
    <3>1. x.at <= sent
      BY <1>0, <1>1, <1>6
    <3>2. handled'[x.at] <= crashes + 1
      BY <1>0, <2>2, <2>6, <2>7, <2>8
    <3>3. x.at \in seen' /\ \A m \in Ids : m \notin seen' => m \notin seen
      BY <2>1
    <3> QED
      BY <2>5, <2>8, <3>1, <3>2, <3>3
  <2>10. ASSUME toggles = 0
         PROVE  /\ \A k \in Loops : loop'[k].cancelled => loop'[k].pc \in {"top", "off"}
                /\ \A m \in Ids : handled'[m] > 1 => m \in torn
                /\ \A m \in Ids : \/ handled'[m] = 0 \/ m \in torn
                                  \/ m <= store.cursor
                                  \/ \E k \in Loops : loop'[k].pc = "record" /\ loop'[k].at = m
                /\ \A k \in Loops : Ahead(k)'
    <3>1. ~loop[l].cancelled
      BY <1>2, <2>10, OneAtWork
    <3>2. \A k \in Loops : loop'[k].cancelled => loop'[k].pc \in {"top", "off"}
      BY <2>3, <2>4, <2>10, <3>1 DEF RepeatInv
    <3>3. \A m \in Ids : handled'[m] > 1 => m \in torn
      <4>1. \A m \in Ids : handled[m] > 1 => m \in torn
        BY <2>10 DEF RepeatInv
      <4>2. handled[x.at] = 0 \/ x.at \in torn
        BY <1>0, <1>3, <2>2, <2>10 DEF Spared
      <4>3. handled'[x.at] > 1 => x.at \in torn
        BY <2>2, <2>6, <2>7, <4>1, <4>2
      <4> QED
        BY <2>5, <4>1, <4>3
    <3>4. \A m \in Ids : \/ handled'[m] = 0 \/ m \in torn
                         \/ m <= store.cursor
                         \/ \E k \in Loops : loop'[k].pc = "record" /\ loop'[k].at = m
      <4>1. \A k \in Loops : loop[k].pc = "record" => loop'[k] = loop[k]
        BY <1>2, <2>3
      <4>2. \A m \in Ids : \/ handled[m] = 0 \/ m \in torn
                           \/ m <= store.cursor
                           \/ \E k \in Loops : loop[k].pc = "record" /\ loop[k].at = m
        BY <2>10 DEF RepeatInv, Spared
      <4> QED
        BY <2>4, <2>5, <4>1, <4>2
    <3>5. Ahead(l)'
      <4>1. \A m \in Ids : handled'[m] > 0 => m <= x.newest
        BY <1>3, <1>6, <2>5, <2>10
      <4>2. \A m \in Ids : m > x.at => handled[m] = 0 \/ m \in torn
        BY <1>0, <1>3, <2>7, <2>10 DEF Spared
      <4>3. \A m \in Ids : m > x.at => m # x.at
        BY <1>0, <2>7
      <4>4. \A m \in Ids : m > x.at => Spared(m)'
        BY <1>1, <2>5, <4>2, <4>3 DEF Spared
      <4>5. Ids' = Ids
        BY DEF Ids
      <4> QED
        BY <2>4, <4>1, <4>4, <4>5 DEF Ahead
    <3>6. \A k \in Loops : k # l => Ahead(k)'
      <4>1. \A k \in Loops : k # l => loop[k].pc \in Resting
        BY <1>2, <2>10, OneAtWork
      <4> QED
        BY <2>3, <4>1, AheadIdle DEF Idle, Resting
    <3> QED
      BY <3>2, <3>3, <3>4, <3>5, <3>6
  <2>11. Ids' = Ids
    BY DEF Ids
  <2> QED
    BY <1>1, <2>9, <2>10, <2>11 DEF RepeatInv, Spared
<1> QED
  BY <1>0, <1>4, <1>5, <1>6

LEMMA NextRepeat == TypeOK /\ LiveInv /\ CursorInv /\ RepeatInv /\ [Next]_vars => RepeatInv'
<1> SUFFICES ASSUME TypeOK, LiveInv, CursorInv, RepeatInv, [Next]_vars PROVE RepeatInv'
  OBVIOUS
<1>1. CASE UNCHANGED vars
  BY <1>1 DEF vars, RepeatInv, Ahead, Spared, Ids
<1> QED
  BY <1>1, EnvironmentRepeat, LookingRepeat, ReadingRepeat, WritingRepeat, DispatchRepeat
     DEF Next, Poll

\* Whatever pages, failed calls, accounts that are switched off and rings that are
\* too short: until somebody toggles the watcher, a message reaches the bots a second
\* time only after a crash between its OnMessage and its Update, once per crash.
THEOREM SecondTimeTorn == Spec => []RepeatsAreTorn
<1>1. RepeatInv => RepeatsAreTorn
  BY DEF RepeatInv, RepeatsAreTorn
<1>2. Init => TypeOK /\ LiveInv /\ CursorInv /\ RepeatInv
  BY InitTypeOK, InitLive, InitCursor, InitRepeat
<1>3. TypeOK /\ LiveInv /\ CursorInv /\ RepeatInv /\ [Next]_vars
        => (TypeOK /\ LiveInv /\ CursorInv /\ RepeatInv)'
  BY NextTypeOK, NextLive, NextCursor, NextRepeat
<1> QED
  BY <1>1, <1>2, <1>3, PTL DEF Spec
=============================================================================
