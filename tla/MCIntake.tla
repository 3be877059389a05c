------------------------------- MODULE MCIntake -------------------------------
(***************************************************************************)
(* Small instances of Intake: the robot R in the chats A, B and C, in C    *)
(* without an ID, and P and Q, who are polled in the chat K.               *)
(***************************************************************************)
EXTENDS Intake

Channel(role, chat, mode) ==
  [role |-> role, group |-> chat, group_id |-> chat, mode |-> mode, aliases |-> {role},
   openids |-> {}, trigger |-> "mention", imageTrigger |-> "quote_bot", allow |-> {},
   commands |-> TRUE, secret |-> FALSE]

Channels ==
  [RA |-> [Channel("R", "A", "both") EXCEPT !.openids = {"BOT-RA"}, !.secret = TRUE],
   RB |-> [Channel("R", "B", "websocket") EXCEPT !.openids = {"BOT-RB"}],
   RC |-> Channel("R", "C", "websocket"),
   P |-> [Channel("P", "K", "yzj_cli") EXCEPT !.allow = {"ann"}],
   Q |-> [Channel("Q", "K", "yzj_cli") EXCEPT !.openids = {"BOT-Q"}]]

MCConfig == [b \in Bots |-> Channels[b]]

Message(chat, tokens, words) ==
  [chat |-> chat, tokens |-> tokens, words |-> words, from |-> "ann", robot |-> FALSE,
   private |-> FALSE, signed |-> TRUE, at |-> {}, media |-> {}, quoted |-> Nobody,
   quotedName |-> Nobody, robotId |-> Nobody, robotName |-> Nobody]

AllText ==
  << [Message("A", {"R"}, <<"text">>) EXCEPT !.robotId = "BOT-RA", !.robotName = "R"],
     [Message("K", {"P", "Q"}, <<"clear", "help">>) EXCEPT !.at = {"BOT-Q"}, !.from = "bob"],
     [Message("K", {}, <<"text">>) EXCEPT !.media = {"image"}, !.quoted = "BOT-Q"] >>

MCLoaded == [g \in 1 .. MaxLoads |-> IF g = 1 THEN Bots ELSE Bots \ {"P", "RC"}]
MCText == [m \in Messages |-> AllText[m]]
MCLabels == [g \in {"K"} |-> "K"]
OtherLabels == [g \in {"K"} |-> "our group"]
MCBegins == [t \in {"R", "P", "Q"} |-> {t}]
=============================================================================
