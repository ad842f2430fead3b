----------------------------- MODULE MCRestarts -----------------------------
(***************************************************************************)
(* What goes beyond one run of the bridge, in one run of TLC: the          *)
(* deliveries that an earlier run has left, and the manager that launches  *)
(* bridges and stops them.  They share no state; `part' says which of      *)
(* them moves in a behaviour.                                              *)
(*                                                                         *)
(* Two replies with an image, the second of them new or a copy of the      *)
(* first; of two bridges, somebody else than the manager may launch the    *)
(* second.                                                                 *)
(***************************************************************************)
EXTENDS IdleUiaSender, Manager

CONSTANT image

VARIABLE part

Nothing == {}
Pictures == {image}

RestartsInit == part \in {"sender", "manager"} /\ SenderInit /\ ManagerInit

OfSender(A) == part = "sender" /\ A /\ UNCHANGED <<part, allVars>>
OfManager(A) == part = "manager" /\ A /\ UNCHANGED <<part, senderVars>>

RestartsNext == OfSender(SenderNext) \/ OfManager(ManagerNext)

RestartsSpec == RestartsInit /\ [][RestartsNext]_<<part, senderVars, allVars>>
=============================================================================
