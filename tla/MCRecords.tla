----------------------------- MODULE MCRecords ------------------------------
(***************************************************************************)
(* The records of a conversation in one run: the history pages and the     *)
(* cards of the companion, the WeChat window a reply is posted in, and the *)
(* messages an answer is made of.  They share no state; `part' says which  *)
(* of them moves in a behaviour.                                           *)
(***************************************************************************)
EXTENDS CompanionHistory, CompanionEntries, ForegroundSend, ReplyParts

VARIABLE part

\* No directive, one, one of each outcome in both orders, one too many.
ImageDirectives == {<<>>, <<"image">>, <<"image", "refused">>,
                    <<"refused", "image", "image">>,
                    <<"image", "image", "image", "image">>}

\* Each module keeps to its types.
RecordsTypeOK ==
    HistoryTypeOK /\ EntriesTypeOK /\ ForegroundTypeOK /\ ReplyTypeOK

\* What does not move begins in one state only.
RecordsInit ==
    /\ part \in {"history", "cards", "window", "reply"}
    /\ EntriesInit
    /\ ReplyInit /\ (part # "reply" => answer = <<>> /\ accepted = <<>>)
    /\ HistoryInit
    /\ part # "history" =>
           db = {} /\ images = {} /\ loadPref = FALSE /\ limitPref = Page
    /\ ForegroundInit
    /\ part # "window" =>
           /\ kind = "text" /\ driver = "uia" /\ chat = "target"
           /\ draft["target"] = {} /\ banner["target"] = "none"

OfHistory(A) ==
    /\ part = "history" /\ A
    /\ UNCHANGED <<part, entriesVars, foregroundVars, replyVars>>
OfCards(A) ==
    /\ part = "cards" /\ A
    /\ UNCHANGED <<part, historyPageVars, foregroundVars, replyVars>>
OfWindow(A) ==
    /\ part = "window" /\ A
    /\ UNCHANGED <<part, historyPageVars, entriesVars, replyVars>>
OfReply(A) ==
    /\ part = "reply" /\ A
    /\ UNCHANGED <<part, historyPageVars, entriesVars, foregroundVars>>

RecordsNext ==
    \/ OfHistory(HistoryNext)
    \/ OfCards(EntriesNext)
    \/ OfWindow(ForegroundNext)
    \/ OfReply(ReplyNext)

RecordsSpec ==
    RecordsInit
    /\ [][RecordsNext]_<<part, historyPageVars, entriesVars,
                         foregroundVars, replyVars>>

\* The properties of the window are about runs in which the guard could tell
\* the user's input from the driver's: others are not followed further.
NotMistaken == ~mistaken
=============================================================================
