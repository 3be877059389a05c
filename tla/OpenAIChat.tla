------------------------------ MODULE OpenAIChat ------------------------------
(***************************************************************************)
(* The calls of the openai backend, from the chats and from the GUI: the   *)
(* run lock, the conversation file, the window and the summary that stand  *)
(* for it in a request, the rounds of tools, and the sessions of the GUI   *)
(* that keep what was said.                                                *)
(*                                                                         *)
(* One bot, compaction on, one load of the configuration.  A turn is named *)
(* after its call, a summary is the turns it was made of, and a hash is    *)
(* what was hashed.                                                        *)
(***************************************************************************)
EXTENDS Naturals, Sequences, FiniteSets, SequencesExt

CONSTANTS
  Calls,        \* messages to the bot, numbered as they come
  Keys,         \* session keys
  Gui,          \* the keys of GUI sessions
  KeyOf,        \* the key of each call
  Clears,       \* the calls with --clear
  NoCall,
  Keep,         \* openai_compact_keep
  AfterTurns,   \* openai_compact_after_turns
  Long,         \* the calls whose turns each reach openai_compact_after_runes
  Window,       \* defaultHistoryLoadLimit
  MaxRounds,    \* openai_max_tool_rounds
  Cancellable,  \* bound: calls that may be cut off
  MaxGaps       \* bound: times that nobody writes for two days

ASSUME OpenAIChatAssumption ==
  /\ Gui \subseteq Keys /\ KeyOf \in [Calls -> Keys] /\ Clears \cup Cancellable \cup Long \subseteq Calls
  /\ Calls \subseteq Nat /\ NoCall \notin Calls
  /\ {Keep, AfterTurns, Window, MaxRounds} \subseteq Nat \ {0} /\ MaxGaps \in Nat

VARIABLES
  gaps,
  first,     \* the turns of each key that are older than yesterday
  conv,      \* the conversation file of each key
  compact,   \* Entry.OpenAICompact of each key
  lock,      \* the holder of the run lock of each key
  run,       \* the calls
  cancelled, \* the calls whose context is cancelled
  session,   \* the sessions of chatstore
  before     \* the length of conv at the last --clear

vars == <<gaps, first, conv, compact, lock, run, cancelled, session, before>>
clock == <<gaps, first, before>>

Role == {"user", "assistant"}
Turn == [call : Calls, role : Role, empty : BOOLEAN]

NoSummary == [text |-> <<>>, hash |-> <<>>, count |-> 0]

NoRun == [pc |-> "idle", hist |-> <<>>, summary |-> <<>>, recent |-> <<>>, rounds |-> 0,
          empty |-> FALSE, sess |-> <<>>]

Init ==
  /\ gaps = 0 /\ first = [k \in Keys |-> 0] /\ conv = [k \in Keys |-> <<>>] /\ compact = [k \in Keys |-> NoSummary]
  /\ lock = [k \in Keys |-> NoCall] /\ run = [c \in Calls |-> NoRun] /\ cancelled = {}
  /\ session = [k \in Gui |-> [exists |-> TRUE, messages |-> <<>>]]
  /\ before = [k \in Keys |-> 0]

Go(c, pc) == run' = [run EXCEPT ![c].pc = pc]
-----------------------------------------------------------------------------
(* Orchestrator.dispatch *)

\* chatSendMessage holds a copy of the session; one that is not there is an error.
Send(c) ==
  /\ run[c].pc = "idle" /\ \A d \in Calls : d < c => run[d].pc # "idle"
  /\ IF KeyOf[c] \notin Gui THEN Go(c, "wait")
     ELSE LET sess == session[KeyOf[c]] IN
          run' = [run EXCEPT ![c].pc = IF sess.exists THEN "wait" ELSE "done",
                             ![c].sess = sess.messages]
  /\ UNCHANGED <<conv, compact, lock, cancelled, session, clock>>

\* Faulty: the lock is not taken.
AcquireAnyway(c) ==
  /\ run[c].pc = "wait"
  /\ Go(c, "history")
  /\ UNCHANGED <<conv, compact, lock, cancelled, session, clock>>

\* --clear empties the summary; the GUI sends it to the model like any other text.
Acquire(c) ==
  LET k == KeyOf[c] IN
  /\ run[c].pc = "wait" /\ lock[k] = NoCall
  /\ lock' = [lock EXCEPT ![k] = c]
  /\ compact' = IF c \in Clears /\ k \notin Gui THEN [compact EXCEPT ![k] = NoSummary] ELSE compact
  /\ before' = IF c \in Clears THEN [before EXCEPT ![k] = Len(conv[k])] ELSE before
  /\ Go(c, "history")
  /\ UNCHANGED <<gaps, first, conv, cancelled, session>>

AbandonWait(c) ==
  /\ run[c].pc = "wait" /\ c \in cancelled
  /\ Go(c, "reply")
  /\ UNCHANGED <<conv, compact, lock, cancelled, session, clock>>

Release(c) ==
  /\ run[c].pc = "release"
  /\ lock' = [lock EXCEPT ![KeyOf[c]] = NoCall]
  /\ Go(c, "reply")
  /\ UNCHANGED <<conv, compact, cancelled, session, clock>>
-----------------------------------------------------------------------------
(* LoadRecentTurns and applyCompact *)

Latest(s, n) == IF Len(s) > n THEN SubSeq(s, Len(s) - n + 1, Len(s)) ELSE s

\* The turns that are not empty replies, in their order (proofs need the function itself,
\* which SelectSeq does not give them).
Said(turns) ==
  LET kept == {i \in DOMAIN turns : ~turns[i].empty} IN
  [n \in 1 .. Cardinality(kept) |->
     turns[CHOOSE i \in kept : Cardinality({j \in kept : j <= i}) = n]]

\* Today's turns and yesterday's.
History(k) == Latest(Said(SubSeq(conv[k], first[k] + 1, Len(conv[k]))), Window)

\* splitForCompact: there are enough turns, or enough text in them.
Splits(hist) ==
  /\ Len(hist) > Keep
  /\ Len(hist) >= AfterTurns \/ \E i \in DOMAIN hist : hist[i].call \in Long

\* The turns before the last Keep ones.
Prefix(hist) == IF Splits(hist) THEN SubSeq(hist, 1, Len(hist) - Keep) ELSE <<>>

\* Faulty: the hash of the summary is not compared.
ExtendsByCount(stored, prefix) == stored.count > 0 /\ stored.count < Len(prefix)

\* The stored summary is of the beginning of the prefix.
Extends(stored, prefix) ==
  /\ stored.count > 0 /\ stored.count < Len(prefix)
  /\ stored.hash = SubSeq(prefix, 1, stored.count)

LoadHistory(c) ==
  LET hist == History(KeyOf[c])
      prefix == Prefix(hist)
      recent == SubSeq(hist, Len(prefix) + 1, Len(hist))
      stored == compact[KeyOf[c]]
      found == stored.hash = prefix /\ stored.count = Len(prefix) IN
  /\ run[c].pc = "history"
  /\ run' = [run EXCEPT ![c].hist = hist, ![c].recent = recent,
                        ![c].summary = IF found THEN stored.text ELSE <<>>,
                        ![c].pc = IF prefix = <<>> \/ found THEN "ask" ELSE "summarize"]
  /\ UNCHANGED <<conv, compact, lock, cancelled, session, clock>>

\* The summary so far and the turns since, or the whole prefix anew.
Summarize(c) ==
  LET k == KeyOf[c]
      prefix == Prefix(run[c].hist)
      text == IF Extends(compact[k], prefix)
                THEN compact[k].text \o SubSeq(prefix, compact[k].count + 1, Len(prefix))
                ELSE prefix IN
  /\ run[c].pc = "summarize"
  /\ compact' = [compact EXCEPT ![k] = [text |-> text, hash |-> prefix, count |-> Len(prefix)]]
  /\ run' = [run EXCEPT ![c].summary = text, ![c].pc = "ask"]
  /\ UNCHANGED <<conv, lock, cancelled, session, clock>>

\* The model is not reached in time, or says nothing: the recent turns only.
SummarizeFails(c) ==
  /\ run[c].pc = "summarize"
  /\ Go(c, "ask")
  /\ UNCHANGED <<conv, compact, lock, cancelled, session, clock>>
-----------------------------------------------------------------------------
(* Run *)

InRun == UNCHANGED <<conv, compact, lock, cancelled, session, clock>>

\* The context is looked at before a round and when the request fails.
Interrupted(c) ==
  /\ run[c].pc \in {"ask", "finalize"} /\ c \in cancelled
  /\ Go(c, "release") /\ InRun

\* Faulty: the rounds are not counted.
UseToolsForever(c) ==
  /\ run[c].pc = "ask"
  /\ run' = [run EXCEPT ![c].rounds = (@ + 1) % 2]
  /\ InRun

\* The model calls tools; after the last round it is asked for a text, without tools.
UseTools(c) ==
  /\ run[c].pc = "ask"
  /\ run' = [run EXCEPT ![c].rounds = @ + 1,
                        ![c].pc = IF run[c].rounds + 1 = MaxRounds THEN "finalize" ELSE "ask"]
  /\ InRun

Answer(c) == run[c].pc \in {"ask", "finalize"} /\ Go(c, "user") /\ InRun

\* No text: "(空回复: ...)".  A request for the last text that fails counts as one.
AnswerEmpty(c) ==
  /\ run[c].pc \in {"ask", "finalize"}
  /\ run' = [run EXCEPT ![c].empty = TRUE, ![c].pc = "user"]
  /\ InRun

RequestFails(c) == run[c].pc = "ask" /\ Go(c, "release") /\ InRun

Append2(c, role, empty) ==
  conv' = [conv EXCEPT ![KeyOf[c]] =
             Append(@, [call |-> c, role |-> role, empty |-> empty])]

\* AppendConversation, twice.
AppendUser(c) ==
  /\ run[c].pc = "user"
  /\ Append2(c, "user", FALSE) /\ Go(c, "assistant")
  /\ UNCHANGED <<compact, lock, cancelled, session, clock>>

AppendAssistant(c) ==
  /\ run[c].pc = "assistant"
  /\ Append2(c, "assistant", run[c].empty) /\ Go(c, "release")
  /\ UNCHANGED <<compact, lock, cancelled, session, clock>>
-----------------------------------------------------------------------------
(* The control API *)

Finish(c) == run' = [run EXCEPT ![c] = [NoRun EXCEPT !.pc = "done"]]

\* Faulty: the session read before the dispatch is written back.
ReplyFromCopy(c) ==
  LET k == KeyOf[c] IN
  /\ run[c].pc = "reply"
  /\ session' = IF k \in Gui
                  THEN [session EXCEPT ![k].messages =
                          run[c].sess \o <<<<c, "user">>, <<c, "assistant">>>>]
                  ELSE session
  /\ Finish(c)
  /\ UNCHANGED <<conv, compact, lock, cancelled, clock>>

\* The pair is added to the session if it is still there; errors and interrupts too.
Reply(c) ==
  LET k == KeyOf[c] IN
  /\ run[c].pc = "reply"
  /\ session' = IF k \in Gui /\ session[k].exists
                  THEN [session EXCEPT ![k].messages = @ \o <<<<c, "user">>, <<c, "assistant">>>>]
                  ELSE session
  /\ Finish(c)
  /\ UNCHANGED <<conv, compact, lock, cancelled, clock>>

DeleteSession(k) ==
  /\ session[k].exists
  /\ session' = [session EXCEPT ![k] = [exists |-> FALSE, messages |-> <<>>]]
  /\ UNCHANGED <<conv, compact, lock, run, cancelled, clock>>
-----------------------------------------------------------------------------
\* The GUI goes away, --stop, or the timeout of the run.
Cancel(c) ==
  /\ run[c].pc \notin {"idle", "done"} /\ c \in Cancellable \ cancelled
  /\ cancelled' = cancelled \cup {c}
  /\ UNCHANGED <<conv, compact, lock, run, session, clock>>

\* Nobody writes for two days: the files of today and yesterday are new.
TwoDaysPass ==
  /\ gaps < MaxGaps /\ gaps' = gaps + 1
  /\ \A c \in Calls : run[c].pc \in {"idle", "done"}
  /\ first' = [k \in Keys |-> Len(conv[k])]
  /\ UNCHANGED <<conv, compact, lock, run, cancelled, session, before>>

RunStep(c) ==
  \/ Acquire(c) \/ AbandonWait(c) \/ LoadHistory(c) \/ Summarize(c) \/ SummarizeFails(c)
  \/ Interrupted(c) \/ UseTools(c) \/ Answer(c) \/ AnswerEmpty(c) \/ RequestFails(c)
  \/ AppendUser(c) \/ AppendAssistant(c) \/ Release(c) \/ Reply(c)

Next ==
  \/ \E c \in Calls : Send(c) \/ RunStep(c) \/ Cancel(c)
  \/ \E k \in Gui : DeleteSession(k)
  \/ TwoDaysPass

\* Every request has a timeout.
Fairness == \A c \in Calls : WF_vars(RunStep(c))

Spec == Init /\ [][Next]_vars /\ Fairness
-----------------------------------------------------------------------------
Asking(c) == run[c].pc \in {"ask", "finalize"}

\* A request carries the whole window, each turn once: what the summary was made of and
\* the recent turns are the history, although the window moves, days pass, summaries
\* fail and --clear empties the store (applyCompact).
SummaryFits ==
  \A c \in Calls : Asking(c) /\ run[c].summary # <<>> =>
    run[c].summary \o run[c].recent = run[c].hist

\* In the conversation of a key each question is followed by its answer, however its
\* calls wait, are cut off and fail (dispatch, AppendConversation).
TurnsPaired ==
  \A k \in Keys : \A i \in DOMAIN conv[k] :
    IF i % 2 = 1
      THEN conv[k][i].role = "user" /\ (i = Len(conv[k]) => run[conv[k][i].call].pc = "assistant")
      ELSE conv[k][i].role = "assistant" /\ conv[k][i].call = conv[k][i - 1].call

\* A run that began before a change of its session does not undo it: the session of the
\* GUI only grows, and one that was deleted does not come back (chatSendMessage).
SessionsOnlyGrow ==
  [][\A k \in Gui : /\ ~session[k].exists => ~session'[k].exists
                    /\ session'[k].exists => IsPrefix(session[k].messages, session'[k].messages)
    ]_session

\* Every message is answered, whatever the model does round after round.
EveryCallEnds == \A c \in Calls : run[c].pc = "wait" ~> run[c].pc = "done"

\* After --clear nothing said before reaches the model ("已清除会话"; docs/chat-test.md:41).
ClearForgets ==
  \A c \in Calls : Asking(c) =>
    \A i \in 1 .. before[KeyOf[c]] :
      conv[KeyOf[c]][i] \notin Range(run[c].summary) \cup Range(run[c].recent)
=============================================================================
