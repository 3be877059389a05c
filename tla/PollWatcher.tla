---------------------------- MODULE PollWatcher ----------------------------
(***************************************************************************)
(* One yzjcli.Watcher: it polls a group chat, hands new messages to the    *)
(* bots and keeps a cursor and a ring of recent message IDs in StateStore, *)
(* in memory and on disk.  SetEnabled starts and cancels polling loops; a   *)
(* cancelled loop runs on until it looks at its context again, so two       *)
(* loops may be at work.  The process may crash and restart.                *)
(*                                                                         *)
(* The messages of the chat are numbered in platform order; a page is an   *)
(* interval, and so is what gather collects.  Update and the Save after it *)
(* are one step: until the file is written a crash has the same effect     *)
(* before and after the change in memory.  Waiting (jitter, backoff,       *)
(* cooldown) has no effect but time and is left out.                       *)
(***************************************************************************)
EXTENDS Naturals, Sequences, FiniteSets

CONSTANTS
  MaxSent,      \* bound: the messages sent to the chat
  Recalls,      \* the messages that are recall notices
  PageSize,     \* messages per page, 20 in the code
  CatchupPages, \* Watcher.CatchupPages
  RingSize,     \* length of the recent ring, 200 in the code
  AuthLimit,    \* auth failures in a row that disable the watcher, 3 in the code
  StartupMode,  \* Watcher.StartupMode
  Loops,        \* the polling loops that may be alive at a time
  NoLoop,
  MaxErrors,    \* bound: failed MessageList calls
  MaxToggles,   \* bound: SetEnabled(false) by a user
  MaxCrashes    \* bound: crashes of the process

ASSUME PollWatcherAssumption ==
  /\ MaxSent \in Nat /\ MaxErrors \in Nat /\ MaxToggles \in Nat /\ MaxCrashes \in Nat
  /\ PageSize \in Nat \ {0} /\ CatchupPages \in Nat \ {0}
  /\ RingSize \in Nat \ {0} /\ AuthLimit \in Nat \ {0}
  /\ Recalls \subseteq Nat
  /\ StartupMode \in {"baseline", "replay"}
  /\ NoLoop \notin Loops

VARIABLES
  sent,      \* messages sent to the chat so far
  store,     \* StateStore.data: the cursor (0 is "") and the recent ring
  disk,      \* the state file
  loop,      \* the state of each polling loop
  live,      \* the loop Watcher.cancel belongs to, NoLoop when it is nil
  enabled,   \* Watcher.enabled
  authFails, \* Watcher.authFails
  seen,      \* dedupe.Store: what the dispatcher has seen since the start
  handled,   \* how often the dispatcher has taken each message to a bot
  base,      \* the newest message that has served as a baseline
  skipped,   \* the messages given up because the cursor was out of reach
  torn,      \* the messages a crash found handed over and not yet recorded
  errors, toggles, crashes

bounded == <<errors, toggles, crashes>>
ghosts == <<base, skipped, torn>>
vars == <<sent, store, disk, loop, live, enabled, authFails, seen, handled,
          base, skipped, torn, errors, toggles, crashes>>

Ids == 1 .. MaxSent

State == [cursor : Nat, ring : Seq(Nat)]

Empty == [cursor |-> 0, ring |-> <<>>]

\* A loop at the top has no page; `low .. newest` is what it has collected,
\* `cursor` the cursor it read, `at` the next message to dispatch.
Loop == [pc : {"off", "top", "fetch", "read", "baseline", "gather", "dispatch",
               "record", "advance", "skip", "giveup"},
         cancelled : BOOLEAN, newest : Nat, low : Nat, cursor : Nat, at : Nat,
         pages : Nat]

Off == [pc |-> "off", cancelled |-> FALSE, newest |-> 0, low |-> 0, cursor |-> 0,
        at |-> 0, pages |-> 0]

Top(l) == [Off EXCEPT !.pc = "top", !.cancelled = loop[l].cancelled]

Init ==
  /\ sent = 0
  /\ store = Empty /\ disk = Empty
  /\ loop = [l \in Loops |-> Off]
  /\ live = NoLoop /\ enabled = FALSE
  /\ authFails = 0
  /\ seen = {}
  /\ handled = [m \in Ids |-> 0]
  /\ base = 0 /\ skipped = {} /\ torn = {}
  /\ errors = 0 /\ toggles = 0 /\ crashes = 0

-----------------------------------------------------------------------------
(* The chat and the switch *)

Send ==
  /\ sent < MaxSent
  /\ sent' = sent + 1
  /\ UNCHANGED <<store, disk, loop, live, enabled, authFails, seen, handled, ghosts, bounded>>

\* SetEnabled(true): a loop of its own, unless one is there to be cancelled.
Enable ==
  /\ ~enabled
  /\ enabled' = TRUE
  /\ \/ /\ live = NoLoop
        /\ \E l \in Loops : /\ loop[l].pc = "off"
                            /\ loop' = [loop EXCEPT ![l] = [Off EXCEPT !.pc = "top"]]
                            /\ live' = l
     \/ /\ live # NoLoop
        /\ UNCHANGED <<loop, live>>
  /\ UNCHANGED <<sent, store, disk, authFails, seen, handled, ghosts, bounded>>

\* A faulty Switch that forgets to cancel the loop.
SwitchForgetful(lp) ==
  /\ enabled' = FALSE
  /\ loop' = lp
  /\ live' = IF enabled THEN NoLoop ELSE live

\* SetEnabled(false), with `lp` for the loops: the live loop is cancelled.
Switch(lp) ==
  /\ enabled' = FALSE
  /\ IF enabled /\ live # NoLoop
     THEN /\ loop' = [lp EXCEPT ![live].cancelled = TRUE]
          /\ live' = NoLoop
     ELSE /\ loop' = lp
          /\ UNCHANGED live

Disable ==
  /\ enabled
  /\ toggles < MaxToggles /\ toggles' = toggles + 1
  /\ Switch(loop)
  /\ UNCHANGED <<sent, store, disk, authFails, seen, handled, ghosts, errors, crashes>>

\* The process dies and starts again: the file is all that is left.
Crash ==
  /\ crashes < MaxCrashes /\ crashes' = crashes + 1
  /\ torn' = torn \cup {loop[l].at : l \in {k \in Loops : loop[k].pc = "record"}}
  /\ store' = disk
  /\ loop' = [l \in Loops |-> Off]
  /\ live' = NoLoop /\ enabled' = FALSE /\ authFails' = 0
  /\ seen' = {}
  /\ UNCHANGED <<sent, disk, handled, base, skipped, errors, toggles>>

-----------------------------------------------------------------------------
(* The loop: pollOnce, gather and dispatch *)

Goto(l, pc) == loop' = [loop EXCEPT ![l].pc = pc]

Return(l) == loop' = [loop EXCEPT ![l] = Top(l)]

\* A faulty Check that looks at the switch and not at its context.
CheckUncancelled(l) ==
  /\ loop[l].pc = "top"
  /\ IF enabled THEN Goto(l, "fetch") ELSE loop' = [loop EXCEPT ![l] = Off]
  /\ UNCHANGED <<sent, store, disk, live, enabled, authFails, seen, handled, ghosts, bounded>>

\* The switch and the context are looked at between two polls.
Check(l) ==
  /\ loop[l].pc = "top"
  /\ IF enabled /\ ~loop[l].cancelled
     THEN Goto(l, "fetch")
     ELSE loop' = [loop EXCEPT ![l] = Off]
  /\ UNCHANGED <<sent, store, disk, live, enabled, authFails, seen, handled, ghosts, bounded>>

PageStart(last) == IF last > PageSize THEN last - PageSize + 1 ELSE 1

\* MessageList "newest".
FetchNewest(l) ==
  /\ loop[l].pc = "fetch"
  /\ authFails' = 0
  /\ IF sent = 0
     THEN Return(l)
     ELSE loop' = [loop EXCEPT ![l].pc = "read", ![l].newest = sent,
                               ![l].low = PageStart(sent)]
  /\ UNCHANGED <<sent, store, disk, live, enabled, seen, handled, ghosts, bounded>>

\* A faulty FetchError that advances the cursor although the page is missing.
FetchErrorAdvancing(l) ==
  /\ loop[l].pc = "gather"
  /\ errors < MaxErrors /\ errors' = errors + 1
  /\ Goto(l, "advance")
  /\ UNCHANGED <<sent, store, disk, live, enabled, authFails, seen, handled, ghosts, toggles, crashes>>

\* MessageList fails, for the newest page or an older one (noteError): the
\* cursor stays where it is.  A cancelled context may always be why.
FetchError(l) ==
  /\ loop[l].pc \in {"fetch", "gather"}
  /\ \/ /\ loop[l].cancelled
        /\ Return(l)
        /\ UNCHANGED <<authFails, errors>>
     \/ /\ errors < MaxErrors /\ errors' = errors + 1
        /\ \/ Return(l) /\ UNCHANGED authFails
           \/ /\ authFails' = authFails + 1
              /\ IF authFails + 1 >= AuthLimit THEN Goto(l, "giveup") ELSE Return(l)
  /\ UNCHANGED <<sent, store, disk, live, enabled, seen, handled, ghosts, toggles, crashes>>

\* Too many auth failures: the loop switches its own watcher off.
GiveUp(l) ==
  /\ loop[l].pc = "giveup"
  /\ Switch([loop EXCEPT ![l] = Top(l)])
  /\ UNCHANGED <<sent, store, disk, authFails, seen, handled, ghosts, bounded>>

\* Store.Get: no cursor yet, nothing new, the cursor on the newest page, or
\* further back.
ReadCursor(l) ==
  /\ loop[l].pc = "read"
  /\ LET c == store.cursor IN
       \/ c = 0 /\ Goto(l, "baseline")
       \/ c # 0 /\ c = loop[l].newest /\ Return(l)
       \/ /\ c # 0 /\ c # loop[l].newest
          /\ loop' = [loop EXCEPT ![l].cursor = c,
               ![l].pc = IF c \in loop[l].low .. loop[l].newest THEN "dispatch" ELSE "gather",
               ![l].at = IF c \in loop[l].low .. loop[l].newest THEN c + 1 ELSE 0]
  /\ UNCHANGED <<sent, store, disk, live, enabled, authFails, seen, handled, ghosts, bounded>>

\* First run: Put with the state read before.  Replay mode dispatches the page.
Baseline(l) ==
  /\ loop[l].pc = "baseline"
  /\ store' = [Empty EXCEPT !.cursor = loop[l].newest]
  /\ disk' = store'
  /\ base' = IF base > loop[l].newest THEN base ELSE loop[l].newest
  /\ IF StartupMode = "replay"
     THEN loop' = [loop EXCEPT ![l].pc = "dispatch", ![l].at = loop[l].low,
                               ![l].cursor = loop[l].newest]
     ELSE Return(l)
  /\ UNCHANGED <<sent, live, enabled, authFails, seen, handled, skipped, torn, bounded>>

\* A faulty FetchOlder that never gives up a cursor it cannot find.
FetchOlderStuck(l) ==
  LET first == PageStart(loop[l].low - 1) IN
  /\ loop[l].pc = "gather"
  /\ IF loop[l].low > 1 /\ loop[l].cursor \in first .. loop[l].low - 1
     THEN loop' = [loop EXCEPT ![l].pc = "dispatch", ![l].at = loop[l].cursor + 1]
     ELSE Return(l)
  /\ UNCHANGED <<sent, store, disk, live, enabled, authFails, seen, handled, ghosts, bounded>>

\* MessageList "old" from the oldest message collected, until the cursor turns
\* up, there is nothing older, or the pages are used up.
FetchOlder(l) ==
  /\ loop[l].pc = "gather"
  /\ LET low == loop[l].low
         first == PageStart(low - 1)
         c == loop[l].cursor
     IN \/ /\ low = 1
           /\ Goto(l, "skip")
        \/ /\ low > 1 /\ c \in first .. low - 1
           /\ loop' = [loop EXCEPT ![l].pc = "dispatch", ![l].at = c + 1]
        \/ /\ low > 1 /\ c \notin first .. low - 1
           /\ loop' = [loop EXCEPT ![l].low = first, ![l].pages = @ + 1,
                ![l].pc = IF low - first < PageSize \/ loop[l].pages + 1 = CatchupPages
                          THEN "skip" ELSE "gather"]
  /\ UNCHANGED <<sent, store, disk, live, enabled, authFails, seen, handled, ghosts, bounded>>

InRing(m) == \E i \in DOMAIN store.ring : store.ring[i] = m

\* dispatch: a recall notice or a recent message is passed over, any other is
\* handed to OnMessage, where the dispatcher drops what it has seen.
Dispatch(l) ==
  LET m == loop[l].at IN
  /\ loop[l].pc = "dispatch"
  /\ \/ /\ m > loop[l].newest
        /\ IF StartupMode = "replay" /\ loop[l].cursor = loop[l].newest
           THEN Return(l) ELSE Goto(l, "advance")
        /\ UNCHANGED <<seen, handled>>
     \/ /\ m <= loop[l].newest
        /\ m \in Recalls \/ InRing(m)
        /\ loop' = [loop EXCEPT ![l].at = m + 1]
        /\ UNCHANGED <<seen, handled>>
     \/ /\ m <= loop[l].newest
        /\ m \notin Recalls /\ ~InRing(m)
        /\ Goto(l, "record")
        /\ seen' = seen \cup {m}
        /\ handled' = IF m \in seen THEN handled ELSE [handled EXCEPT ![m] = @ + 1]
  /\ UNCHANGED <<sent, store, disk, live, enabled, authFails, ghosts, bounded>>

Latest(ring) ==
  IF Len(ring) > RingSize
  THEN SubSeq(ring, Len(ring) - RingSize + 1, Len(ring))
  ELSE ring

\* AppendRecent
Remember(ring, m) ==
  IF \E i \in DOMAIN ring : ring[i] = m THEN ring ELSE Latest(Append(ring, m))

\* A faulty Record: the file is not written.
RecordUnsaved(l) ==
  /\ loop[l].pc = "record"
  /\ store' = [cursor |-> loop[l].at, ring |-> Remember(store.ring, loop[l].at)]
  /\ loop' = [loop EXCEPT ![l].pc = "dispatch", ![l].at = @ + 1]
  /\ UNCHANGED <<sent, disk, live, enabled, authFails, seen, handled, ghosts, bounded>>

\* Update after OnMessage has returned.
Record(l) ==
  LET m == loop[l].at IN
  /\ loop[l].pc = "record"
  /\ store' = [cursor |-> m, ring |-> Remember(store.ring, m)]
  /\ disk' = store'
  /\ loop' = [loop EXCEPT ![l].pc = "dispatch", ![l].at = m + 1]
  /\ UNCHANGED <<sent, live, enabled, authFails, seen, handled, ghosts, bounded>>

\* The cursor advances to the newest message of the page, also past messages
\* that are given up because the cursor was not found.
Advance(l) ==
  /\ loop[l].pc \in {"advance", "skip"}
  /\ store' = [store EXCEPT !.cursor = loop[l].newest]
  /\ disk' = store'
  /\ skipped' = IF loop[l].pc = "skip"
                THEN skipped \cup (loop[l].cursor + 1 .. loop[l].newest)
                ELSE skipped
  /\ Return(l)
  /\ UNCHANGED <<sent, live, enabled, authFails, seen, handled, base, torn, bounded>>

-----------------------------------------------------------------------------

Poll(l) == \/ Check(l) \/ FetchNewest(l) \/ FetchError(l) \/ GiveUp(l) \/ ReadCursor(l)
           \/ Baseline(l) \/ FetchOlder(l) \/ Dispatch(l) \/ Record(l) \/ Advance(l)

Next == Send \/ Enable \/ Disable \/ Crash \/ \E l \in Loops : Poll(l)

Spec == Init /\ [][Next]_vars

\* A loop goes on as long as it is alive: every call it makes has a timeout.
\* Nobody has to switch the watcher on.
FairSpec == Spec /\ \A l \in Loops : WF_vars(Poll(l))

-----------------------------------------------------------------------------
(* Properties *)

\* The type of the state: the store and its file, the loops and the switch.
TypeOK ==
  /\ sent \in Nat /\ sent <= MaxSent
  /\ store \in State /\ disk \in State
  /\ loop \in [Loops -> Loop]
  /\ live \in Loops \cup {NoLoop} /\ enabled \in BOOLEAN
  /\ authFails \in Nat
  /\ seen \in SUBSET Nat
  /\ handled \in [Ids -> Nat]
  /\ base \in Nat /\ skipped \in SUBSET Nat /\ torn \in SUBSET Nat
  /\ errors \in Nat /\ toggles \in Nat /\ crashes \in Nat

\* Enabled means that exactly one loop works under a context that is not
\* cancelled, disabled that none does (SetEnabled): toggling neither leaves an
\* enabled watcher without a loop nor lets a second one go on for good.
OneLiveLoop ==
  {l \in Loops : loop[l].pc # "off" /\ ~loop[l].cancelled} =
    IF enabled THEN {live} ELSE {}

Done(m) == m <= base \/ m \in skipped \/ m \in Recalls \/ (m \in Ids /\ handled[m] > 0)

\* The cursor, in memory or on disk, never passes a message that has been
\* neither handled nor given up (watcher.go, "do not advance the cursor").
NothingMissed ==
  /\ \A m \in 1 .. store.cursor : Done(m)
  /\ \A m \in 1 .. disk.cursor : Done(m)

DoneUpTo(n) == \A m \in 1 .. n : Done(m)

\* What a loop knows at each point of a poll.
Knows(l) ==
  /\ loop[l].newest <= sent
  /\ loop[l].pc \in {"read", "baseline"} => loop[l].low \in 1 .. loop[l].newest
  /\ loop[l].pc \in {"gather", "skip"} => DoneUpTo(loop[l].cursor)
  /\ loop[l].pc = "dispatch" => loop[l].at >= 1 /\ DoneUpTo(loop[l].at - 1)
  /\ loop[l].pc = "record" => loop[l].at \in Ids /\ DoneUpTo(loop[l].at)
  /\ loop[l].pc = "advance" => DoneUpTo(loop[l].newest)

\* What the dispatcher has seen and what the ring holds has been dealt with,
\* and a loop writes only the cursor it knows to be safe: with this
\* NothingMissed is inductive.
CursorInv ==
  /\ NothingMissed
  /\ \A m \in seen : m \in Ids /\ handled[m] > 0
  /\ \A i \in DOMAIN store.ring : Done(store.ring[i])
  /\ \A i \in DOMAIN disk.ring : Done(disk.ring[i])
  /\ \A l \in Loops : Knows(l)

\* As long as nobody has toggled the watcher, a message is handled a second time only
\* if a crash came between its OnMessage and its Update, once per crash; also when the
\* ring is smaller than what one poll gathers.
RepeatsAreTorn ==
  toggles = 0 => \A m \in Ids : handled[m] > 1 => m \in torn /\ handled[m] <= crashes + 1

\* Handled never, or a second time only because a crash tore it.
Spared(m) == handled[m] = 0 \/ m \in torn

\* What a loop at work knows of the messages ahead of it.
Ahead(l) ==
  /\ loop[l].pc \in {"read", "baseline", "gather", "dispatch", "record", "advance", "skip"} =>
       \A m \in Ids : handled[m] > 0 => m <= loop[l].newest
  /\ loop[l].pc = "baseline" => \A m \in Ids : Spared(m)
  /\ loop[l].pc = "gather" => \A m \in Ids : m > loop[l].cursor => Spared(m)
  /\ loop[l].pc = "dispatch" => \A m \in Ids : m >= loop[l].at => Spared(m)
  /\ loop[l].pc = "record" => \A m \in Ids : m > loop[l].at => Spared(m)

\* A message is handled once in a process, and until somebody toggles the watcher only
\* one loop is at work, and what it has handled is behind the cursor or on its way
\* there: with this RepeatsAreTorn is inductive.
RepeatInv ==
  /\ disk = store
  /\ \A m \in Ids :
       /\ handled[m] > 0 => m <= sent
       /\ handled[m] <= crashes + 1
       /\ m \notin seen => handled[m] <= crashes
  /\ toggles = 0 =>
       /\ \A l \in Loops : loop[l].cancelled => loop[l].pc \in {"top", "off"}
       /\ \A m \in Ids : handled[m] > 1 => m \in torn
       /\ \A m \in Ids :
            \/ Spared(m)
            \/ m <= store.cursor
            \/ \E l \in Loops : loop[l].pc = "record" /\ loop[l].at = m
       /\ \A l \in Loops : Ahead(l)

\* "A crash loses at most one round, nothing is repeated" (the plan of the
\* polling source), "skip anything already handled" (watcher.go).
HandledOnce == \A m \in Ids : handled[m] <= 1

\* A watcher that stays switched on takes every message to the bots, or gives
\* it up because the cursor was out of reach.
EverythingHandled ==
  <>[]enabled => \A m \in Ids : (m <= sent) ~> Done(m)

\* A loop whose context is cancelled ends.
CancelledLoopsEnd == \A l \in Loops : loop[l].cancelled ~> loop[l].pc = "off"
=============================================================================
