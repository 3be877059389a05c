----------------------------- MODULE AskService -----------------------------
(***************************************************************************)
(* What a bot promises the people who write to it, without goroutines,     *)
(* contexts, acknowledgements or locks.  Every scope has a line of users;  *)
(* the first of them is being served.  A user in the line may add to what  *)
(* was asked.  Every message a user came to the head of the line with is   *)
(* answered before the user leaves; what is added during the service is    *)
(* either answered in a further round or dropped when the user leaves.     *)
(***************************************************************************)
EXTENDS Naturals, Sequences

CONSTANTS
  Msgs,      \* the messages
  Scopes,    \* the lines
  Author,    \* the user of each message
  ScopeFor   \* the line each message belongs to

VARIABLES
  line,      \* the users of each scope, the first being served
  state      \* what has become of each message

vars == <<line, state>>

InState(s, st) == {m \in Msgs : ScopeFor[m] = s /\ state[m] = st}

\* The type of the state: a line of users per scope, a state per message.
TypeOK ==
  /\ line \in [Scopes -> Seq({Author[m] : m \in Msgs})]
  /\ state \in [Msgs -> {"unsent", "waiting", "owed", "added", "answered", "dropped"}]

Init ==
  /\ line = [s \in Scopes |-> <<>>]
  /\ state = [m \in Msgs |-> "unsent"]

\* A user writes: served at once, added to what is being served, or waiting
\* at the user's place in the line, a new one at its end if there is none.
Ask(m) ==
  LET s == ScopeFor[m]
      InLine == \E i \in DOMAIN line[s] : line[s][i] = Author[m]
  IN /\ state[m] = "unsent"
     /\ \/ /\ line[s] = <<>>
           /\ state' = [state EXCEPT ![m] = "owed"]
        \/ /\ line[s] # <<>>
           /\ Head(line[s]) = Author[m]
           /\ state' = [state EXCEPT ![m] = "added"]
        \/ /\ line[s] # <<>>
           /\ Head(line[s]) # Author[m]
           /\ state' = [state EXCEPT ![m] = "waiting"]
     /\ line' = IF InLine THEN line ELSE [line EXCEPT ![s] = Append(@, Author[m])]

\* One reply covers everything the user being served is owed.
Answer(s) ==
  /\ InState(s, "owed") # {}
  /\ state' = [m \in Msgs |-> IF m \in InState(s, "owed") THEN "answered" ELSE state[m]]
  /\ UNCHANGED line

\* A further round for what was added during the service.
Again(s) ==
  /\ InState(s, "owed") = {}
  /\ InState(s, "added") # {}
  /\ state' = [m \in Msgs |-> IF m \in InState(s, "added") THEN "owed" ELSE state[m]]
  /\ UNCHANGED line

\* The user served leaves, owed nothing; the next one is owed what was asked.
Leave(s) ==
  /\ line[s] # <<>>
  /\ InState(s, "owed") = {}
  /\ line' = [line EXCEPT ![s] = Tail(@)]
  /\ state' = [m \in Msgs |->
       CASE m \in InState(s, "added") -> "dropped"
         [] m \in InState(s, "waiting") /\ Author[m] = line[s][2] -> "owed"
         [] OTHER -> state[m]]

Next == (\E m \in Msgs : Ask(m)) \/ (\E s \in Scopes : Answer(s) \/ Again(s) \/ Leave(s))

Spec == Init /\ [][Next]_vars
=============================================================================
