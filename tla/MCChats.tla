------------------------------ MODULE MCChats -------------------------------
(***************************************************************************)
(* The messages of chats in one run of TLC: which rows of a chat reach the *)
(* Agent, and what the dispatcher makes of the messages of two chats.      *)
(* They share no state; `part' says which of them moves in a behaviour.    *)
(***************************************************************************)
EXTENDS MCDispatcher, ChannelIntake

VARIABLE part

\* What does not move begins in one state only.
ChatsInit ==
    /\ part \in {"dispatcher", "intake"}
    /\ DispatcherInit
    /\ IntakeInit /\ (part = "dispatcher" => chatKind = "friend")

OfDispatcher(A) ==
    part = "dispatcher" /\ A /\ UNCHANGED <<part, intakeVars>>
OfIntake(A) ==
    part = "intake" /\ A /\ UNCHANGED <<part, dispatcherVars>>

ChatsNext == OfDispatcher(DispatcherNext) \/ OfIntake(IntakeNext)

ChatsSpec == ChatsInit /\ [][ChatsNext]_<<part, dispatcherVars, intakeVars>>
=============================================================================
