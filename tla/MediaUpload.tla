---------------------------- MODULE MediaUpload ----------------------------
(***************************************************************************)
(* webhook_uploads.py and evolutionary_uploads.py: one media file sent to  *)
(* an upload service, while another program may still write the file and   *)
(* the worker may be stopped.  The file is read in blocks, once for its    *)
(* digest and once for the request, as a whole or in parts.                *)
(*                                                                         *)
(* A block is abstracted to the version of the file it was read from, a    *)
(* digest to the sequence of these versions.                               *)
(*                                                                         *)
(* A definition whose name ends in Bug is a mutant of the one after it.    *)
(***************************************************************************)
EXTENDS Naturals, Sequences

CONSTANTS Blocks,     \* blocks of the file
          PartBlocks, \* blocks of a part
          MaxChanges  \* bound on the writes to the file

ASSUME UploadAssumption ==
    {Blocks, PartBlocks} \subseteq Nat \ {0} /\ MaxChanges \in Nat

VARIABLES
    protocol, \* "multipart", or of evolutionary: "single", "parts"
    version,  \* of the file; size and mtime are those of the first iff it is 0
    shorter,  \* the file has lost blocks
    halted,   \* the stopped event of the worker
    at,       \* where the upload is
    hashed,   \* the blocks of the digest
    body,     \* the blocks of the current request
    sentParts,    \* the part requests answered so far
    remote,   \* what the service has stored, its parts one after the other
    upload    \* "none", "ok" or "failed"

uploadVars == <<protocol, version, shorter, halted, at, hashed, body, sentParts,
                remote, upload>>
fileVars == <<protocol, version, shorter, halted>>

Corrupt == MaxChanges + 1
Digest == Seq(0..Corrupt)
PartCount == IF protocol = "parts"
             THEN (Blocks + PartBlocks - 1) \div PartBlocks ELSE 1

UploadTypeOK ==
    /\ protocol \in {"multipart", "single", "parts"}
    /\ version \in 0..MaxChanges
    /\ shorter \in BOOLEAN /\ halted \in BOOLEAN
    /\ at \in {"open", "hash", "init", "part", "send",
               "stream", "complete", "last", "end"}
    /\ hashed \in Digest /\ Len(hashed) <= Blocks
    /\ body \in Digest /\ Len(body) <= Blocks
    /\ sentParts \in 0..PartCount
    /\ remote \in Digest /\ Len(remote) <= Blocks
    /\ upload \in {"none", "ok", "failed"}

UploadInit ==
    /\ protocol \in {"multipart", "single", "parts"}
    /\ version = 0 /\ shorter = FALSE /\ halted = FALSE
    /\ at = "open" /\ hashed = <<>> /\ body = <<>>
    /\ sentParts = 0 /\ remote = <<>> /\ upload = "none"

-----------------------------------------------------------------------------

Fail == at' = "end" /\ upload' = "failed"

\* A step that goes on only if its condition holds, and fails otherwise.
GoOnIf(condition, place) ==
    IF condition THEN at' = place /\ UNCHANGED upload ELSE Fail

Unchanged == version = 0

\* No block is left in a file that was cut.
Readable == ~halted /\ ~shorter

\* upload_media: the file is not there, too large, or cancelled.
Refuse ==
    /\ at = "open"
    /\ Fail
    /\ UNCHANGED <<fileVars, hashed, body, sentParts, remote>>

\* Only the evolutionary protocol needs the digest first.
OpenMedia ==
    /\ at = "open" /\ Unchanged
    /\ GoOnIf(~halted, IF protocol = "multipart" THEN "send" ELSE "hash")
    /\ UNCHANGED <<fileVars, hashed, body, sentParts, remote>>

HashBlock ==
    /\ at = "hash" /\ Len(hashed) < Blocks
    /\ GoOnIf(Readable, "hash")
    /\ hashed' = IF Readable THEN Append(hashed, version) ELSE hashed
    /\ UNCHANGED <<fileVars, body, sentParts, remote>>

HashEnds ==
    /\ at = "hash" /\ Len(hashed) = Blocks
    /\ GoOnIf(Unchanged, IF protocol = "parts" THEN "init" ELSE "send")
    /\ UNCHANGED <<fileVars, hashed, body, sentParts, remote>>

\* The id, the status, the part size or the part count may be wrong.
InitUpload ==
    /\ at = "init"
    /\ \E valid \in BOOLEAN : GoOnIf(valid /\ ~halted, "part")
    /\ UNCHANGED <<fileVars, hashed, body, sentParts, remote>>

PartBegins ==
    /\ at = "part" /\ sentParts < PartCount
    /\ GoOnIf(Unchanged, "send")
    /\ UNCHANGED <<fileVars, hashed, body, sentParts, remote>>

\* _request looks at the event and opens the connection after that.
Check ==
    /\ at = "send"
    /\ GoOnIf(~halted, "stream")
    /\ body' = <<>>
    /\ UNCHANGED <<fileVars, hashed, sentParts, remote>>

\* The blocks of a request: the whole file, or one part of it.
BodyBlocks == IF protocol # "parts" THEN Blocks
              ELSE IF (sentParts + 1) * PartBlocks <= Blocks THEN PartBlocks
              ELSE Blocks - sentParts * PartBlocks

Stream ==
    /\ at = "stream" /\ Len(body) < BodyBlocks
    /\ GoOnIf(Readable, "stream")
    /\ body' = IF Readable THEN Append(body, version) ELSE body
    /\ UNCHANGED <<fileVars, hashed, sentParts, remote>>

MayEndBug == TRUE

\* multipart_upload ends its body only if the file is still what it was.
MayEnd == protocol = "multipart" => Unchanged

\* What arrives may be damaged; the service tells the digest of what it has.
Received == {body, [i \in DOMAIN body |-> Corrupt]}

Answers(stored) == protocol = "multipart" \/ (stored = body /\ ~halted)

Sent ==
    /\ at = "stream" /\ Len(body) = BodyBlocks
    /\ \/ \E stored \in Received :
            /\ remote' = IF MayEnd THEN remote \o stored ELSE remote
            /\ sentParts' = IF MayEnd THEN sentParts + 1 ELSE sentParts
            /\ GoOnIf(MayEnd /\ Answers(stored),
                      CASE protocol = "parts" -> "part"
                        [] protocol = "single" -> "last"
                        [] protocol = "multipart" -> "end")
       \/ \* An HTTP error, a large or an invalid answer.
          Fail /\ UNCHANGED <<remote, sentParts>>
    /\ UNCHANGED <<fileVars, hashed, body>>

MayComplete == GoOnIf(Unchanged /\ ~halted, "complete")

PartsEnd ==
    /\ at = "part" /\ sentParts = PartCount
    /\ MayComplete
    /\ UNCHANGED <<fileVars, hashed, body, sentParts, remote>>

Complete ==
    /\ at = "complete"
    /\ \E answered \in BOOLEAN : GoOnIf(answered /\ ~halted, "last")
    /\ UNCHANGED <<fileVars, hashed, body, sentParts, remote>>

\* The digest of the service is that of the first reading.
Verified == remote = hashed

Finish ==
    /\ at = "last"
    /\ GoOnIf(Unchanged /\ Verified, "end")
    /\ UNCHANGED <<fileVars, hashed, body, sentParts, remote>>

\* extract_file_id finds the id of the file in the answer, or does not.
FileId ==
    /\ at = "end" /\ upload = "none"
    /\ upload' \in {"ok", "failed"}
    /\ UNCHANGED <<fileVars, at, hashed, body, sentParts, remote>>

-----------------------------------------------------------------------------

Write ==
    /\ at # "end" /\ version < MaxChanges
    /\ version' = version + 1
    /\ shorter' \in {shorter, TRUE}
    /\ UNCHANGED <<protocol, halted, at, hashed, body, sentParts, remote, upload>>

Halt ==
    /\ at # "end" /\ ~halted /\ halted' = TRUE
    /\ UNCHANGED <<protocol, version, shorter, at, hashed, body, sentParts,
                   remote, upload>>

UploadStep ==
    \/ Refuse \/ OpenMedia \/ HashBlock \/ HashEnds \/ InitUpload \/ PartBegins
    \/ Check \/ Stream \/ Sent \/ PartsEnd \/ Complete \/ Finish \/ FileId

UploadNext == UploadStep \/ Write \/ Halt

UploadSpec == UploadInit /\ [][UploadNext]_uploadVars

-----------------------------------------------------------------------------
(* Properties. *)

AsItWas == [i \in 1..Blocks |-> 0]

\* An upload that succeeds has sent the file as it was when it was opened,
\* and with a digest the service has it like that: a file that is written
\* meanwhile never arrives as a mixture of its versions.
SucceedsWithOneVersion ==
    upload = "ok" => IF protocol = "multipart" THEN body = AsItWas
                     ELSE remote = AsItWas

\* The service is asked to put the parts together only when they are those
\* of one version, all of them and in their order.
CompletesOneVersion ==
    at = "complete" => remote = AsItWas

\* A file that changes meanwhile never arrives as a mixture of its versions.
OneVersion == SucceedsWithOneVersion /\ CompletesOneVersion
=============================================================================
