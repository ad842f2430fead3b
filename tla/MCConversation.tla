--------------------------- MODULE MCConversation ---------------------------
(***************************************************************************)
(* What an Agent is told and what is posted of its replies, in one run of  *)
(* TLC: the history with the native sessions, and the sender.  They share  *)
(* no state; `part' says which of them moves in a behaviour.               *)
(*                                                                         *)
(* Two replies, the second of them new or a copy of the first; of two      *)
(* Agents, one is the default and the other one bound.                     *)
(***************************************************************************)
EXTENDS MCIdleUiaSender, SessionContext

CONSTANTS codex, claude

VARIABLE part

Agents == {codex, claude}

\* Each module keeps to its types.
ConversationTypeOK == TypeOK /\ ContextTypeOK

ConversationInit ==
    part \in {"sender", "context"} /\ SenderInit /\ ContextInit

OfSender(A) == part = "sender" /\ A /\ UNCHANGED <<part, contextVars>>
OfContext(A) == part = "context" /\ A /\ UNCHANGED <<part, senderVars>>

ConversationNext == OfSender(SenderNext) \/ OfContext(ContextNext)

ConversationSpec ==
    ConversationInit /\ [][ConversationNext]_<<part, senderVars, contextVars>>
=============================================================================
