----------------------------- MODULE MCServices -----------------------------
(***************************************************************************)
(* The services around the conversation in one run: the Webhooks, the      *)
(* upload of a media file, the processes of the bridge, and its window     *)
(* beside WeChat's.  They share no state; `part' says which of them moves  *)
(* in a behaviour.                                                         *)
(*                                                                         *)
(* Of the Webhooks there is one endpoint, which uploads images and does    *)
(* not want the bridge's own replies.                                      *)
(***************************************************************************)
EXTENDS WebhookDelivery, MediaUpload, Workbench, CompanionFollow

CONSTANTS image, reply

VARIABLE part

OneEndpoint == {1}
NoEndpoint == {}
TwoEvents == {image, reply}
OnlyImage == {image}
OnlyReply == {reply}

allVars == <<part, webhookVars, uploadVars, workbenchVars, followVars>>

\* Each module keeps to its types.
ServicesTypeOK == TypeOK /\ UploadTypeOK /\ WorkbenchTypeOK /\ FollowTypeOK

ServicesInit ==
    /\ part \in {"webhooks", "upload", "workbench", "follow"}
    /\ WebhookInit /\ WorkbenchInit
    /\ UploadInit /\ (part # "upload" => protocol = "single")
    /\ FollowInit /\ (part # "follow" => wechat.handle = NoHandle /\ wechat.place = 1)

OfWebhooks(A) == /\ part = "webhooks" /\ A
                 /\ UNCHANGED <<part, uploadVars, workbenchVars, followVars>>
OfUpload(A) == /\ part = "upload" /\ A
               /\ UNCHANGED <<part, webhookVars, workbenchVars, followVars>>
OfWorkbench(A) == /\ part = "workbench" /\ A
                  /\ UNCHANGED <<part, webhookVars, uploadVars, followVars>>
OfFollow(A) == /\ part = "follow" /\ A
               /\ UNCHANGED <<part, webhookVars, uploadVars, workbenchVars>>

ServicesNext ==
    \/ OfWebhooks(WebhookNext)
    \/ OfUpload(UploadNext)
    \/ OfWorkbench(WorkbenchNext)
    \/ OfFollow(FollowNext)

\* The fairness of FollowSpec, and weaker than that of WebhookSpec and of
\* WorkbenchSpec: while threads of the part may go on, one of them does.
ServicesSpec ==
    /\ ServicesInit /\ [][ServicesNext]_allVars
    /\ WF_allVars(\/ OfWebhooks(StopStep \/ \E w \in Workers : WorkerStep(w))
                  \/ \E p \in Processes : OfWorkbench(Runs(p) \/ Initialize(p))
                  \/ OfFollow(FollowStep))
=============================================================================
