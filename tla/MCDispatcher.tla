---------------------------- MODULE MCDispatcher ----------------------------
(* One busy chat, or two chats that compete for one permit. *)
EXTENDS Dispatcher, TLC

CONSTANTS sa, sb

OneChat == {sa}
TwoChats == {sa, sb}

\* One chat: a job for each message; the bound never stops a message.
ThreeMsgs == 1..3
OneChatOf == [m \in ThreeMsgs |-> sa]

\* Two chats: two messages for one of them, and one, perhaps reported twice,
\* for the other, with two jobs for each.
TwoChatsOf == [m \in ThreeMsgs |-> IF m = 3 THEN sb ELSE sa]
FourJobs == 1..4
FourJobsOf == [i \in FourJobs |-> IF i > 2 THEN sb ELSE sa]
=============================================================================
