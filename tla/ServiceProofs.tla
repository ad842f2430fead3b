---------------------------- MODULE ServiceProofs ----------------------------
(***************************************************************************)
(* Proofs about the Webhooks and the upload of media files, for every      *)
(* number of endpoints, events, attempts and generations, and for files    *)
(* and parts of every size.                                                *)
(***************************************************************************)
EXTENDS WebhookDelivery, MediaUpload, WellFoundedInduction, TLAPS

-----------------------------------------------------------------------------
(* The upload. *)

\* The blocks of the parts answered so far.
SentBlocks == IF sentParts * PartBlocks <= Blocks THEN sentParts * PartBlocks
              ELSE Blocks

\* No block was read from a later version than the present one.
ReadBefore(q) == \A k \in DOMAIN q : q[k] <= version

\* The stages of a protocol.
StagesOK ==
    /\ at \in {"init", "part", "complete"} => protocol = "parts"
    /\ at \in {"hash", "last"} => protocol # "multipart"
    /\ upload # "none" => at = "end"

\* How much the service has at a stage.
LengthsOK ==
    /\ protocol = "parts" => Len(remote) = SentBlocks
    /\ protocol # "parts" /\ at \in {"open", "hash", "send", "stream"} =>
          remote = <<>> /\ sentParts = 0
    /\ protocol = "parts" /\ at \in {"send", "stream"} => sentParts < PartCount
    /\ at = "stream" => Len(body) <= BodyBlocks
    /\ at = "last" => Len(remote) = Blocks

\* And which versions of the blocks.
VersionsOK ==
    /\ ReadBefore(hashed) /\ ReadBefore(body)
    /\ protocol = "parts" /\ at # "end" => ReadBefore(remote)
    /\ at = "complete" => remote = AsItWas
    /\ at = "end" /\ upload # "failed" =>
          IF protocol = "multipart" THEN body = AsItWas ELSE remote = AsItWas

UploadIInv == UploadTypeOK /\ StagesOK /\ LengthsOK /\ VersionsOK

\* The parts cover the file, and the last of them is not empty.
LEMMA PartsCover ==
    ASSUME protocol = "parts"
    PROVE  /\ PartCount \in Nat \ {0}
           /\ PartCount * PartBlocks >= Blocks
           /\ (PartCount - 1) * PartBlocks < Blocks
<1>. DEFINE a == Blocks + PartBlocks - 1
            c == a \div PartBlocks
<1>1. Blocks \in Nat \ {0} /\ PartBlocks \in Nat \ {0}
  BY UploadAssumption
<1>2. a \in Nat /\ a >= PartBlocks
  BY <1>1
<1>3. c \in Nat /\ c * PartBlocks <= a /\ a < (c + 1) * PartBlocks
  BY <1>1, <1>2
<1>. QED  BY <1>1, <1>2, <1>3 DEF PartCount

\* A request carries what is missing of its part, and no more than is left.
LEMMA PartFits ==
    ASSUME protocol = "parts", sentParts \in Nat, sentParts < PartCount
    PROVE  /\ SentBlocks = sentParts * PartBlocks /\ SentBlocks \in Nat
           /\ BodyBlocks \in Nat \ {0} /\ SentBlocks + BodyBlocks <= Blocks
           /\ SentBlocks + BodyBlocks =
                IF (sentParts + 1) * PartBlocks <= Blocks
                THEN (sentParts + 1) * PartBlocks ELSE Blocks
<1>1. Blocks \in Nat \ {0} /\ PartBlocks \in Nat \ {0}
  BY UploadAssumption
<1>2. PartCount \in Nat \ {0} /\ (PartCount - 1) * PartBlocks < Blocks
  BY PartsCover
<1>3. sentParts * PartBlocks <= (PartCount - 1) * PartBlocks
  <2>. DEFINE d == PartCount - 1 - sentParts
  <2>1. d \in Nat /\ PartCount - 1 = sentParts + d
    BY <1>2
  <2>2. d * PartBlocks \in Nat /\ (sentParts + d) * PartBlocks = sentParts * PartBlocks + d * PartBlocks
    BY <1>1, <2>1
  <2>3. sentParts * PartBlocks \in Nat
    BY <1>1
  <2>. HIDE DEF d
  <2>. QED  BY <2>1, <2>2, <2>3
<1>4. sentParts * PartBlocks \in Nat /\ (PartCount - 1) * PartBlocks \in Nat
      /\ (sentParts + 1) * PartBlocks = sentParts * PartBlocks + PartBlocks
  BY <1>1, <1>2
<1>5. sentParts * PartBlocks < Blocks
  BY <1>1, <1>2, <1>3, <1>4
<1>. QED  BY <1>1, <1>4, <1>5 DEF SentBlocks, BodyBlocks

LEMMA AllSent ==
    ASSUME protocol = "parts", sentParts = PartCount
    PROVE  SentBlocks = Blocks
<1>1. Blocks \in Nat /\ PartBlocks \in Nat
  BY UploadAssumption
<1>2. PartCount \in Nat /\ PartCount * PartBlocks >= Blocks /\ PartCount * PartBlocks \in Nat
  BY <1>1, PartsCover
<1>. QED  BY <1>1, <1>2 DEF SentBlocks

\* Blocks read while the file was what it is at first are of that version.
LEMMA OneVersionRead ==
    ASSUME NEW q \in Digest, Len(q) = Blocks, \A k \in DOMAIN q : q[k] <= 0
    PROVE  q = AsItWas
<1>1. q \in [1..Blocks -> 0..Corrupt] /\ Corrupt \in Nat
  BY UploadAssumption DEF Digest, Corrupt
<1>2. \A k \in 1..Blocks : q[k] = 0
  BY <1>1
<1>. QED  BY <1>1, <1>2 DEF AsItWas

\* A sequence that gets one more block.
LEMMA ReadOne ==
    ASSUME NEW q \in Digest, version \in 0..MaxChanges, ReadBefore(q)
    PROVE  /\ Append(q, version) \in Digest
           /\ Len(Append(q, version)) = Len(q) + 1
           /\ ReadBefore(Append(q, version))
<1>1. MaxChanges \in Nat
  BY UploadAssumption
<1>2. version \in 0..Corrupt
  BY <1>1 DEF Corrupt
<1>3. \A k \in DOMAIN Append(q, version) :
         Append(q, version)[k] = version \/ (k \in DOMAIN q /\ Append(q, version)[k] = q[k])
  BY <1>2 DEF Digest
<1>. QED  BY <1>1, <1>2, <1>3 DEF Digest, ReadBefore

LEMMA ReadPart ==
    ASSUME NEW q \in Digest, NEW r \in Digest, ReadBefore(q), ReadBefore(r)
    PROVE  ReadBefore(q \o r)
<1>1. /\ Len(q) \in Nat /\ Len(r) \in Nat
      /\ DOMAIN q = 1..Len(q) /\ DOMAIN r = 1..Len(r)
      /\ DOMAIN (q \o r) = 1..(Len(q) + Len(r))
      /\ \A k \in 1..(Len(q) + Len(r)) :
            (q \o r)[k] = IF k <= Len(q) THEN q[k] ELSE r[k - Len(q)]
  BY DEF Digest
<1>. QED  BY <1>1 DEF ReadBefore

LEMMA ReceivedOK ==
    ASSUME NEW stored \in Received, body \in Digest
    PROVE  stored \in Digest /\ Len(stored) = Len(body)
<1>1. Corrupt \in 0..Corrupt
  BY UploadAssumption DEF Corrupt
<1>2. body \in Seq(0..Corrupt) /\ DOMAIN body = 1..Len(body) /\ Len(body) \in Nat
  BY DEF Digest
<1>. DEFINE damaged == [i \in DOMAIN body |-> Corrupt]
<1>3. damaged \in Digest /\ Len(damaged) = Len(body)
  BY <1>1, <1>2 DEF Digest
<1>. HIDE DEF damaged
<1>. QED  BY <1>3 DEF Received, damaged

\* What is known of digests as sequences.
LEMMA SeqFacts ==
    ASSUME NEW S, NEW q \in Seq(S), NEW r \in Seq(S)
    PROVE  /\ q \o r \in Seq(S) /\ Len(q \o r) = Len(q) + Len(r)
           /\ \A k \in DOMAIN q : q[k] \in S
OBVIOUS

LEMMA DigestFacts ==
    ASSUME NEW q \in Digest, NEW r \in Digest
    PROVE  /\ q \o r \in Digest /\ Len(q \o r) = Len(q) + Len(r)
           /\ \A k \in DOMAIN q : q[k] \in 0..Corrupt
BY SeqFacts DEF Digest

LEMMA UploadInitOK == UploadInit => UploadIInv
<1>. SUFFICES ASSUME UploadInit PROVE UploadIInv
  OBVIOUS
<1>. USE UploadAssumption DEF UploadInit
<1>1. <<>> \in Digest /\ Len(<<>>) = 0 /\ ReadBefore(<<>>)
  BY DEF Digest, ReadBefore
<1>2. PartCount \in Nat
  BY PartsCover DEF PartCount
<1>3. UploadTypeOK
  <2>1. Blocks \in Nat /\ version \in 0..MaxChanges /\ sentParts \in 0..PartCount
    BY <1>2
  <2>2. /\ hashed \in Digest /\ Len(hashed) <= Blocks
        /\ body \in Digest /\ Len(body) <= Blocks
        /\ remote \in Digest /\ Len(remote) <= Blocks
    BY <1>1, <2>1
  <2>3. /\ protocol \in {"multipart", "single", "parts"}
        /\ shorter \in BOOLEAN /\ halted \in BOOLEAN
        /\ at \in {"open", "hash", "init", "part", "send",
                   "stream", "complete", "last", "end"}
        /\ upload \in {"none", "ok", "failed"}
    OBVIOUS
  <2>. QED  BY <2>1, <2>2, <2>3 DEF UploadTypeOK
<1>4. LengthsOK
  BY <1>1 DEF LengthsOK, SentBlocks
<1>5. VersionsOK /\ StagesOK
  BY <1>1 DEF VersionsOK, StagesOK
<1>. QED  BY <1>3, <1>4, <1>5 DEF UploadIInv

\* A step that writes no file, reads nothing and gets no answer.
LEMMA StageMoves ==
    ASSUME UploadIInv, UNCHANGED <<fileVars, hashed, remote, sentParts>>,
           body' = body \/ (body' = <<>> /\ at # "end"),
           at' \in {"open", "hash", "init", "part", "send",
                    "stream", "complete", "last", "end"},
           upload' \in {"none", "ok", "failed"},
           StagesOK', LengthsOK',
           at' = "complete" => remote = AsItWas,
           at' = "end" /\ upload' # "failed" =>
              IF protocol = "multipart" THEN body' = AsItWas ELSE remote = AsItWas,
           at = "end" => at' = "end"
    PROVE  UploadIInv'
<1>. USE UploadAssumption DEF UploadIInv, fileVars
<1>1. <<>> \in Digest /\ Len(<<>>) = 0 /\ ReadBefore(<<>>)
  BY DEF Digest, ReadBefore
<1>2. UploadTypeOK'
  BY <1>1 DEF UploadTypeOK, PartCount
<1>3. ReadBefore(hashed)' /\ (ReadBefore(remote) => ReadBefore(remote)') /\ ReadBefore(body)'
  BY <1>1 DEF ReadBefore, VersionsOK
<1>4. VersionsOK'
  BY <1>3 DEF VersionsOK, AsItWas
<1>. QED  BY <1>2, <1>4

LEMMA UploadStepOK ==
    ASSUME UploadIInv, UploadNext
    PROVE  UploadIInv'
<1>. USE UploadAssumption DEF UploadIInv, Fail, GoOnIf, fileVars
<1>0. /\ body \in Digest /\ hashed \in Digest /\ remote \in Digest
      /\ sentParts \in Nat /\ version \in 0..MaxChanges
      /\ protocol = "parts" => PartCount \in Nat \ {0}
  BY PartsCover DEF UploadTypeOK, PartCount
<1>1. CASE Refuse
  BY <1>1, StageMoves DEF Refuse, StagesOK, LengthsOK, SentBlocks
<1>2. CASE OpenMedia
  BY <1>2, StageMoves DEF OpenMedia, StagesOK, LengthsOK, SentBlocks
<1>3. CASE HashEnds
  BY <1>3, StageMoves DEF HashEnds, StagesOK, LengthsOK, SentBlocks
<1>4. CASE InitUpload
  BY <1>4, StageMoves DEF InitUpload, StagesOK, LengthsOK, SentBlocks
<1>5. CASE PartBegins
  BY <1>5, StageMoves DEF PartBegins, StagesOK, LengthsOK, SentBlocks, PartCount
<1>6. CASE PartsEnd
  <2>1. at = "part" /\ Unchanged => remote = AsItWas
    <3>. SUFFICES ASSUME at = "part", Unchanged PROVE remote = AsItWas
      OBVIOUS
    <3>1. protocol = "parts" /\ Len(remote) = Blocks
      BY <1>6, AllSent DEF PartsEnd, StagesOK, LengthsOK
    <3>2. \A k \in DOMAIN remote : remote[k] <= 0
      BY <3>1 DEF VersionsOK, ReadBefore, Unchanged
    <3>. QED  BY <1>0, <3>1, <3>2, OneVersionRead
  <2>. QED
    BY <1>6, <2>1, StageMoves DEF PartsEnd, MayComplete, StagesOK, LengthsOK, SentBlocks
<1>7. CASE Complete
  <2>1. Len(AsItWas) = Blocks
    BY DEF AsItWas
  <2>. QED
    BY <1>7, <2>1, StageMoves DEF Complete, StagesOK, LengthsOK, SentBlocks, VersionsOK
<1>8. CASE Finish
  <2>1. Unchanged /\ Verified => remote = AsItWas
    BY <1>0, <1>8, OneVersionRead
    DEF Finish, Verified, Unchanged, LengthsOK, VersionsOK, ReadBefore
  <2>. QED
    BY <1>8, <2>1, StageMoves DEF Finish, StagesOK, LengthsOK, SentBlocks
<1>9. CASE FileId
  BY <1>9, StageMoves DEF FileId, StagesOK, LengthsOK, SentBlocks, VersionsOK
<1>10. CASE Check
  <2>1. at' = "stream" => Len(body') <= BodyBlocks'
    <3>1. BodyBlocks' = BodyBlocks /\ body' = <<>> /\ Len(<<>>) = 0
      BY <1>10 DEF Check, BodyBlocks
    <3>2. BodyBlocks \in Nat
      BY <1>0, <1>10, PartFits DEF Check, LengthsOK, BodyBlocks
    <3>. QED  BY <3>1, <3>2
  <2>. QED
    BY <1>10, <2>1, StageMoves DEF Check, StagesOK, LengthsOK, SentBlocks, PartCount
<1>11. CASE HashBlock
  <2>1. hashed' \in Digest /\ Len(hashed') <= Blocks /\ ReadBefore(hashed')
    BY <1>0, <1>11, ReadOne DEF HashBlock, UploadTypeOK, VersionsOK
  <2>. QED
    BY <1>0, <1>11, <2>1
    DEF HashBlock, UploadTypeOK, StagesOK, LengthsOK, VersionsOK, SentBlocks,
        PartCount, ReadBefore
<1>12. CASE Stream
  <2>1. BodyBlocks \in Nat /\ BodyBlocks <= Blocks
    BY <1>0, <1>12, PartFits DEF Stream, LengthsOK, BodyBlocks
  <2>2. /\ body' \in Digest /\ Len(body') <= BodyBlocks /\ ReadBefore(body')
        /\ Len(body') <= Blocks
    BY <1>0, <1>12, <2>1, ReadOne DEF Stream, VersionsOK, LengthsOK
  <2>. QED
    BY <1>0, <1>12, <2>2
    DEF Stream, UploadTypeOK, StagesOK, LengthsOK, VersionsOK, SentBlocks,
        PartCount, BodyBlocks, ReadBefore
<1>13. CASE Sent
  <2>1. /\ at = "stream" /\ Len(body) = BodyBlocks /\ UNCHANGED <<fileVars, hashed, body>>
        /\ upload = "none"
    BY <1>13 DEF Sent, StagesOK, UploadTypeOK
  <2>2. CASE Fail /\ UNCHANGED <<remote, sentParts>>
    BY <2>1, <2>2, StageMoves DEF StagesOK, LengthsOK, SentBlocks
  <2>3. ASSUME MayEnd, NEW stored \in Received, remote' = remote \o stored,
               sentParts' = sentParts + 1,
               GoOnIf(Answers(stored), CASE protocol = "parts" -> "part"
                                         [] protocol = "single" -> "last"
                                         [] protocol = "multipart" -> "end")
        PROVE  UploadIInv'
    <3>1. /\ stored \in Digest /\ Len(stored) = BodyBlocks
          /\ remote' \in Digest /\ Len(remote') = Len(remote) + BodyBlocks
      <4>1. stored \in Digest /\ Len(stored) = BodyBlocks
        BY <1>0, <2>1, <2>3, ReceivedOK
      <4>. QED  BY <1>0, <2>3, <4>1, DigestFacts
    <3>2. \A q : ReadBefore(q)' <=> ReadBefore(q)
      BY <2>1 DEF ReadBefore
    <3>3. CASE protocol = "parts"
      <4>1. /\ Len(remote') = SentBlocks' /\ Len(remote') <= Blocks
            /\ sentParts' \in 0..PartCount
        <5>1. sentParts < PartCount /\ Len(remote) = SentBlocks
          BY <2>1, <3>3 DEF LengthsOK
        <5>2. /\ SentBlocks + BodyBlocks <= Blocks
              /\ SentBlocks + BodyBlocks =
                   IF (sentParts + 1) * PartBlocks <= Blocks
                   THEN (sentParts + 1) * PartBlocks ELSE Blocks
          BY <1>0, <3>3, <5>1, PartFits
        <5>3. SentBlocks' = IF (sentParts + 1) * PartBlocks <= Blocks
                            THEN (sentParts + 1) * PartBlocks ELSE Blocks
          BY <2>3 DEF SentBlocks
        <5>4. sentParts' \in 0..PartCount
          BY <1>0, <2>3, <3>3, <5>1
        <5>. QED  BY <3>1, <5>1, <5>2, <5>3, <5>4
      <4>2. stored = body => ReadBefore(remote')
        BY <1>0, <2>1, <2>3, <3>3, ReadPart DEF VersionsOK
      <4>3. \/ at' = "part" /\ stored = body /\ upload' = "none"
            \/ at' = "end" /\ upload' = "failed"
        BY <2>1, <2>3, <3>3 DEF Answers
      <4>4. UploadTypeOK'
        BY <2>1, <3>1, <4>1, <4>3 DEF UploadTypeOK, PartCount
      <4>5. StagesOK' /\ LengthsOK'
        BY <2>1, <3>3, <4>1, <4>3 DEF StagesOK, LengthsOK
      <4>6. VersionsOK'
        BY <2>1, <3>2, <3>3, <4>2, <4>3 DEF VersionsOK, ReadBefore
      <4>. QED  BY <4>4, <4>5, <4>6
    <3>4. CASE protocol # "parts"
      <4>1. /\ remote = <<>> /\ sentParts = 0 /\ BodyBlocks = Blocks /\ PartCount = 1
        BY <2>1, <3>4 DEF LengthsOK, BodyBlocks, PartCount
      <4>2. Len(remote') = Blocks /\ sentParts' \in 0..PartCount
        BY <2>3, <3>1, <4>1
      <4>3. \/ at' = "last" /\ protocol = "single" /\ upload' = "none"
            \/ at' = "end" /\ protocol = "multipart" /\ upload' = "none"
            \/ at' = "end" /\ upload' = "failed"
        BY <2>1, <2>3, <3>4 DEF Answers, UploadTypeOK
      <4>4. protocol = "multipart" => body = AsItWas
        BY <1>0, <2>1, <2>3, <4>1, OneVersionRead
        DEF MayEnd, Unchanged, VersionsOK, ReadBefore
      <4>5. UploadTypeOK'
        BY <2>1, <3>1, <4>2, <4>3 DEF UploadTypeOK, PartCount
      <4>6. StagesOK' /\ LengthsOK'
        BY <2>1, <3>4, <4>2, <4>3 DEF StagesOK, LengthsOK
      <4>7. VersionsOK'
        BY <2>1, <3>2, <3>4, <4>3, <4>4 DEF VersionsOK, AsItWas, ReadBefore
      <4>. QED  BY <4>5, <4>6, <4>7
    <3>. QED  BY <3>3, <3>4
  <2>. QED  BY <1>13, <2>2, <2>3 DEF Sent
<1>14. CASE Write
  <2>1. ReadBefore(hashed)' /\ ReadBefore(body)' /\ (ReadBefore(remote) => ReadBefore(remote)')
    <3>1. version \in Nat /\ version' = version + 1 /\ UNCHANGED <<hashed, body, remote>>
          /\ \A k \in 0..Corrupt : k \in Nat
      BY <1>0, <1>14 DEF Write, Corrupt
    <3>2. \A k \in DOMAIN hashed : hashed[k] \in 0..Corrupt
      BY <1>0, DigestFacts
    <3>3. \A k \in DOMAIN body : body[k] \in 0..Corrupt
      BY <1>0, DigestFacts
    <3>4. \A k \in DOMAIN remote : remote[k] \in 0..Corrupt
      BY <1>0, DigestFacts
    <3>. QED  BY <3>1, <3>2, <3>3, <3>4 DEF ReadBefore, VersionsOK
  <2>2. UploadTypeOK'
    <3>1. version' \in 0..MaxChanges
      BY <1>0, <1>14 DEF Write
    <3>2. PartCount' = PartCount
      BY <1>14 DEF Write, PartCount
    <3>3. shorter' \in BOOLEAN
      BY <1>14, Zenon DEF Write, UploadTypeOK
    <3>. QED  BY <1>14, <3>1, <3>2, <3>3 DEF Write, UploadTypeOK
  <2>3. StagesOK'
    BY <1>14 DEF Write, StagesOK
  <2>4. LengthsOK'
    BY <1>14 DEF Write, LengthsOK, SentBlocks, PartCount, BodyBlocks
  <2>5. VersionsOK'
    BY <1>14, <2>1 DEF Write, VersionsOK, AsItWas
  <2>. QED  BY <2>2, <2>3, <2>4, <2>5
<1>15. CASE Halt
  BY <1>0, <1>15
  DEF Halt, UploadTypeOK, StagesOK, LengthsOK, VersionsOK, SentBlocks,
      PartCount, BodyBlocks, ReadBefore, AsItWas
<1>. QED
  BY <1>1, <1>2, <1>3, <1>4, <1>5, <1>6, <1>7, <1>8, <1>9, <1>10, <1>11, <1>12,
     <1>13, <1>14, <1>15 DEF UploadNext, UploadStep

THEOREM UploadInvariance == UploadSpec => []UploadIInv
<1>1. UploadIInv /\ UNCHANGED uploadVars => UploadIInv'
  BY DEF uploadVars, UploadIInv, UploadTypeOK, StagesOK, LengthsOK, VersionsOK,
         SentBlocks, PartCount, BodyBlocks, ReadBefore, AsItWas
<1>. QED  BY <1>1, UploadInitOK, UploadStepOK, PTL DEF UploadSpec

\* A file that is written, or cut, at any moment while it is hashed and sent
\* arrives as it was when it was opened, or the upload fails: for files of any
\* number of blocks, parts of any size and any number of writes (upload_media,
\* multipart_upload, EvolutionaryUploadClient.upload).
THEOREM FileArrivesWhole == UploadSpec => []OneVersion
<1>1. UploadIInv => OneVersion
  BY DEF UploadIInv, VersionsOK, StagesOK, OneVersion, SucceedsWithOneVersion,
         CompletesOneVersion
<1>. QED  BY <1>1, UploadInvariance, PTL

-----------------------------------------------------------------------------
(* The Webhooks. *)

\* _seen holds the latest of the events taken, as many as it may.
TakenOK ==
    /\ taken \in Seq(Events)
    /\ RepeatIgnored
    /\ running => /\ Len(seen) <= Len(taken)
                  /\ Len(seen) = Len(taken) \/ Len(seen) = SeenLimit
                  /\ \A k \in DOMAIN seen : seen[k] = taken[Len(taken) - Len(seen) + k]

\* stop() works on the workers of the running generation; whoever is to be
\* woken has nothing in its queue.
StopOK ==
    /\ running => starts # 0
    /\ stopPc # "none" => running
    /\ stopPc = "wake" => queue[Stopped] = <<>>

\* The workers of generations to come have nothing to do yet.
FreshOK == \A w \in Workers : w[2] > starts =>
              queue[w] = <<>> /\ item[w] = NoEvent /\ pc[w] = "none"

\* A worker uploads only what it has not uploaded, and has nothing in hand
\* that was accepted.
UploadsOK == \A w \in Workers : /\ uploads[w] <= 1
                                /\ pc[w] \in {"upload", "sendable"} => uploads[w] = 0
                                /\ pc[w] \in Busy => ~accepted[w]

WebhookIInv == TypeOK /\ TakenOK /\ StopOK /\ FreshOK /\ OnlyNew /\ UploadsOK

LEMMA FirstExists ==
    ASSUME NEW S, S \subseteq Endpoints, S # {}
    PROVE  (CHOOSE e \in S : \A f \in S : e <= f) \in S
<1>1. S \subseteq Nat
  BY WebhookAssumption
<1>. DEFINE Less == {p \in Nat \X Nat : p[1] < p[2]}
<1>2. IsWellFoundedOn(Less, Nat)
  BY NatLessThanWellFounded DEF OpToRel
<1>3. PICK n \in S : \A m \in S : <<m, n>> \notin Less
  BY <1>1, <1>2, WFMin
<1>4. ASSUME NEW m \in S PROVE n <= m
  <2>1. <<m, n>> \in Nat \X Nat /\ <<m, n>>[1] = m /\ <<m, n>>[2] = n
    BY <1>1
  <2>2. ~(m < n)
    BY <1>3, <2>1
  <2>. QED  BY <1>1, <2>2
<1>. QED  BY <1>4

LEMMA LimitFacts ==
    /\ QueueLimit \in Nat /\ QueueLimit >= 1 /\ SeenLimit \in Nat /\ SeenLimit >= 1
    /\ MaxAttempts \in Nat /\ MaxAttempts >= 1 /\ MaxStarts \in Nat /\ MaxStarts >= 1
    /\ MaxReports \in Nat
    /\ NoEvent \notin Events /\ Wake \notin Events /\ NoEvent # Wake
BY WebhookAssumption

LEMMA WebhookInitOK == WebhookInit => WebhookIInv
<1>. SUFFICES ASSUME WebhookInit PROVE WebhookIInv
  OBVIOUS
<1>. USE LimitFacts DEF WebhookInit
<1>1. FirstEndpoint \in Endpoints
  <2>1. Endpoints \subseteq Endpoints /\ Endpoints # {}
    BY WebhookAssumption
  <2>. QED  BY <2>1, FirstExists DEF FirstEndpoint
<1>2. /\ <<>> \in Seq(Events) /\ <<>> \in Seq(Events \cup {Wake}) /\ Len(<<>>) = 0
      /\ DOMAIN <<>> = {}
  OBVIOUS
<1>3. /\ queue \in [Workers -> Seq(Events \cup {Wake})]
      /\ \A w \in Workers : Len(queue[w]) <= QueueLimit
  BY <1>2
<1>4. /\ item \in [Workers -> Events \cup {NoEvent}]
      /\ attempt \in [Workers -> 1..MaxAttempts]
      /\ uploads \in [Workers -> Nat] /\ late \in [Workers -> Nat]
      /\ accepted \in [Workers -> BOOLEAN]
      /\ stopped \in [Workers -> BOOLEAN]
  OBVIOUS
<1>5. TypeOK
  <2>1. /\ starts \in 0..MaxStarts /\ reports \in 0..MaxReports /\ Len(seen) <= SeenLimit
        /\ seen \in Seq(Events) /\ stopAt \in Endpoints /\ running \in BOOLEAN
        /\ old \subseteq Events
        /\ stopPc \in {"none", "set", "drain", "wake"}
    <3>1. seen \in Seq(Events) /\ Len(seen) = 0
      BY <1>2
    <3>2. starts \in 0..MaxStarts /\ reports \in 0..MaxReports /\ 0 <= SeenLimit
      OBVIOUS
    <3>. QED  BY <1>1, <3>1, <3>2
  <2>2. hydrating \subseteq Events \X BOOLEAN
    OBVIOUS
  <2>3. pc \in [Workers -> {"none", "top", "get", "upload", "sendable",
                 "uploading", "attempt", "post", "posting", "backoff", "ended"}]
    OBVIOUS
  <2>. QED  BY <1>3, <1>4, <2>1, <2>2, <2>3, Zenon DEF TypeOK
<1>6. TakenOK /\ StopOK
  BY <1>2 DEF TakenOK, RepeatIgnored, StopOK
<1>7. FreshOK /\ UploadsOK /\ OnlyNew
  BY DEF FreshOK, UploadsOK, OnlyNew, Current, Busy
<1>. QED  BY <1>5, <1>6, <1>7 DEF WebhookIInv

LEMMA LateFits ==
    ASSUME NEW w \in Workers, late \in [Workers -> Nat], Begins(w)
    PROVE  late' \in [Workers -> Nat]
<1>1. late[w] + (IF stopped[w] THEN 1 ELSE 0) \in Nat
  OBVIOUS
<1>. QED  BY <1>1 DEF Begins

\* What the step of a worker does: it changes what is its own, and of its queue
\* it only takes the first.
LEMMA WorkerFacts ==
    ASSUME WebhookIInv, NEW w \in Workers, WorkerStep(w)
    PROVE  /\ UNCHANGED <<dispatcherVars, stopped>>
           /\ pc[w] # "none"
           /\ pc' \in [Workers -> {"none", "top", "get", "upload", "sendable",
                           "uploading", "attempt", "post", "posting", "backoff", "ended"}]
           /\ queue' \in [Workers -> Seq(Events \cup {Wake})]
           /\ item' \in [Workers -> Events \cup {NoEvent}]
           /\ attempt' \in [Workers -> 1..MaxAttempts]
           /\ uploads' \in [Workers -> Nat] /\ late' \in [Workers -> Nat]
           /\ accepted' \in [Workers -> BOOLEAN]
           /\ \A x \in Workers : x # w =>
                 UNCHANGED <<queue[x], item[x], pc[x], uploads[x], accepted[x]>>
           /\ \/ UNCHANGED queue /\ item'[w] \in {item[w], NoEvent}
              \/ /\ queue[w] # <<>> /\ queue'[w] = Tail(queue[w])
                 /\ item'[w] \in {item[w], Head(queue[w])}
           /\ uploads'[w] <= 1
           /\ pc'[w] \in {"upload", "sendable"} => uploads'[w] = 0
           /\ pc'[w] \in Busy => ~accepted'[w]
<1>. USE LimitFacts DEF WebhookIInv, TypeOK, UploadsOK, Go, GiveUp, Busy
<1>1. UNCHANGED <<dispatcherVars, stopped>>
  BY DEF WorkerStep
<1>2. CASE Loop(w)
  BY <1>1, <1>2 DEF Loop
<1>3. CASE Get(w)
  <2>1. /\ Tail(queue[w]) \in Seq(Events \cup {Wake})
        /\ Head(queue[w]) \in Events \cup {Wake}
    BY <1>3 DEF Get
  <2>2. CASE Head(queue[w]) = Wake \/ stopped[w]
    BY <1>1, <1>3, <2>1, <2>2 DEF Get
  <2>3. CASE ~(Head(queue[w]) = Wake \/ stopped[w])
    <3>1. PICK p \in {"upload", "attempt"} :
            /\ pc' = [pc EXCEPT ![w] = p]
            /\ queue' = [queue EXCEPT ![w] = Tail(@)]
            /\ item' = [item EXCEPT ![w] = Head(queue[w])]
            /\ attempt' = [attempt EXCEPT ![w] = 1]
            /\ uploads' = [uploads EXCEPT ![w] = 0]
            /\ accepted' = [accepted EXCEPT ![w] = FALSE]
            /\ late' = late /\ pc[w] = "get" /\ queue[w] # <<>>
      BY <1>3, <2>3 DEF Get
    <3>2. Head(queue[w]) \in Events
      BY <2>1, <2>3
    <3>. QED  BY <1>1, <2>1, <3>1, <3>2
  <2>. QED  BY <2>2, <2>3
<1>4. CASE UploadRefused(w)
  BY <1>1, <1>4 DEF UploadRefused
<1>5. CASE UploadAllowed(w)
  BY <1>1, <1>5 DEF UploadAllowed
<1>6. CASE Upload(w)
  BY <1>1, <1>6, LateFits, SMTT(20) DEF Upload
<1>7. CASE Uploaded(w)
  BY <1>1, <1>7 DEF Uploaded
<1>8. CASE TooLarge(w)
  BY <1>1, <1>8 DEF TooLarge
<1>9. CASE Attempt(w)
  BY <1>1, <1>9 DEF Attempt, MayPost
<1>10. CASE Post(w)
  BY <1>1, <1>10, LateFits DEF Post
<1>11. CASE Posted(w)
  BY <1>1, <1>11 DEF Posted
<1>12. CASE PostFails(w)
  BY <1>1, <1>12 DEF PostFails, RetryLater
<1>13. CASE Backoff(w)
  <2>1. attempt' \in [Workers -> 1..MaxAttempts]
    <3>1. attempt[w] \in 1..MaxAttempts
      OBVIOUS
    <3>2. (IF attempt[w] = MaxAttempts THEN attempt[w] ELSE attempt[w] + 1) \in 1..MaxAttempts
      BY <3>1
    <3>. QED  BY <1>13, <3>2 DEF Backoff
  <2>. QED  BY <1>1, <1>13, <2>1 DEF Backoff
<1>. QED
  BY <1>2, <1>3, <1>4, <1>5, <1>6, <1>7, <1>8, <1>9, <1>10, <1>11, <1>12, <1>13
  DEF WorkerStep

\* What is left of a sequence was in it.
LEMMA TailOnly ==
    ASSUME NEW S, NEW q \in Seq(S), q # <<>>
    PROVE  /\ Len(Tail(q)) <= Len(q)
           /\ {Tail(q)[i] : i \in DOMAIN Tail(q)} \subseteq {q[i] : i \in DOMAIN q}
           /\ Head(q) \in {q[i] : i \in DOMAIN q}
<1>1. /\ Len(q) \in Nat /\ Len(q) > 0 /\ DOMAIN q = 1..Len(q)
      /\ Len(Tail(q)) = Len(q) - 1 /\ DOMAIN Tail(q) = 1..(Len(q) - 1)
      /\ \A i \in 1..(Len(q) - 1) : Tail(q)[i] = q[i + 1] /\ i + 1 \in 1..Len(q)
      /\ Head(q) = q[1] /\ 1 \in 1..Len(q)
  OBVIOUS
<1>. QED  BY <1>1

LEMMA WorkerOK ==
    ASSUME WebhookIInv, NEW w \in Workers, WorkerStep(w)
    PROVE  WebhookIInv'
<1>. USE LimitFacts DEF WebhookIInv
<1>1. UNCHANGED <<dispatcherVars, stopped>>
  BY WorkerFacts
<1>2. \A x \in Workers : x # w => UNCHANGED <<queue[x], item[x], pc[x], uploads[x], accepted[x]>>
  BY WorkerFacts
<1>3. \/ UNCHANGED queue /\ item'[w] \in {item[w], NoEvent}
      \/ /\ queue[w] # <<>> /\ queue'[w] = Tail(queue[w])
         /\ item'[w] \in {item[w], Head(queue[w])}
  BY WorkerFacts
<1>4. /\ pc[w] # "none" /\ queue' \in [Workers -> Seq(Events \cup {Wake})]
      /\ uploads'[w] <= 1
      /\ pc'[w] \in {"upload", "sendable"} => uploads'[w] = 0
      /\ pc'[w] \in Busy => ~accepted'[w]
  BY WorkerFacts
<1>5. queue[w] \in Seq(Events \cup {Wake}) /\ Len(queue[w]) <= QueueLimit
  BY DEF TypeOK
<1>6. /\ Len(queue'[w]) <= Len(queue[w])
      /\ {queue'[w][i] : i \in DOMAIN queue'[w]} \subseteq {queue[w][i] : i \in DOMAIN queue[w]}
      /\ item'[w] \in {item[w], NoEvent} \cup {queue[w][i] : i \in DOMAIN queue[w]}
  <2>1. CASE UNCHANGED queue /\ item'[w] \in {item[w], NoEvent}
    BY <1>5, <2>1
  <2>2. CASE queue[w] # <<>> /\ queue'[w] = Tail(queue[w])
              /\ item'[w] \in {item[w], Head(queue[w])}
    BY <1>5, <2>2, TailOnly
  <2>. QED  BY <1>3, <2>1, <2>2
<1>7. TypeOK'
  <2>1. \A x \in Workers : Len(queue'[x]) <= QueueLimit
    <3>. SUFFICES ASSUME NEW x \in Workers PROVE Len(queue'[x]) <= QueueLimit
      OBVIOUS
    <3>1. CASE x = w
      <4>1. Len(queue[w]) \in Nat /\ Len(queue'[w]) \in Nat /\ QueueLimit \in Nat
        BY <1>4, <1>5, LimitFacts
      <4>. QED  BY <1>5, <1>6, <3>1, <4>1
    <3>2. CASE x # w
      BY <1>2, <3>2 DEF TypeOK
    <3>. QED  BY <3>1, <3>2
  <2>. QED  BY <1>1, <2>1, WorkerFacts DEF TypeOK, dispatcherVars
<1>8. TakenOK'
  BY <1>1 DEF TakenOK, RepeatIgnored, dispatcherVars
<1>9. StopOK'
  <2>1. UNCHANGED <<starts, running, stopPc, stopAt>>
    BY <1>1 DEF dispatcherVars
  <2>2. stopPc = "wake" => Stopped \in Workers
    BY DEF StopOK, TypeOK, Stopped, Workers
  <2>3. ASSUME stopPc = "wake" PROVE queue'[Stopped] = <<>>
    <3>1. queue[Stopped] = <<>> /\ Stopped \in Workers
      BY <2>2, <2>3 DEF StopOK
    <3>. QED  BY <1>2, <1>3, <3>1
  <2>4. Stopped' = Stopped
    BY <2>1 DEF Stopped
  <2>. QED  BY <2>1, <2>3, <2>4 DEF StopOK
<1>10. FreshOK'
  BY <1>1, <1>2, <1>4 DEF FreshOK, dispatcherVars
<1>11. OnlyNew'
  <2>1. old' = old /\ Current' = Current /\ NoEvent \notin old
    BY <1>1 DEF dispatcherVars, Current, TypeOK
  <2>2. ASSUME NEW x \in Current PROVE /\ old \cap {queue'[x][i] : i \in DOMAIN queue'[x]} = {}
                                      /\ item'[x] \notin old
    <3>1. /\ x \in Workers /\ old \cap {queue[x][i] : i \in DOMAIN queue[x]} = {}
          /\ item[x] \notin old
      BY DEF OnlyNew, Current
    <3>2. CASE x = w
      BY <1>6, <2>1, <3>1, <3>2
    <3>3. CASE x # w
      BY <1>2, <3>1, <3>3
    <3>. QED  BY <3>2, <3>3
  <2>. QED  BY <2>1, <2>2 DEF OnlyNew
<1>12. UploadsOK'
  BY <1>2, <1>4 DEF UploadsOK
<1>. QED  BY <1>7, <1>8, <1>9, <1>10, <1>11, <1>12

\* A start: a new generation, with nothing in its queues.
LEMMA StartOK == WebhookIInv /\ Start => WebhookIInv'
<1>. SUFFICES ASSUME WebhookIInv, Start PROVE WebhookIInv'
  OBVIOUS
<1>. USE DEF WebhookIInv, Start
<1>0. UNCHANGED <<queue, item, uploads, accepted>> /\ starts \in Nat /\ starts' = starts + 1
  BY LimitFacts DEF TypeOK
<1>1. <<>> \in Seq(Events) /\ Len(<<>>) = 0 /\ DOMAIN <<>> = {}
  OBVIOUS
<1>2. old' \subseteq Events
  BY DEF TypeOK
<1>3. pc' \in [Workers -> {"none", "top", "get", "upload", "sendable",
                 "uploading", "attempt", "post", "posting", "backoff", "ended"}]
  BY DEF TypeOK
<1>4. starts' \in 0..MaxStarts
  BY LimitFacts DEF TypeOK
<1>5. seen' \in Seq(Events) /\ Len(seen') <= SeenLimit
  BY <1>1, LimitFacts
<1>6. TypeOK'
  BY <1>2, <1>3, <1>4, <1>5 DEF TypeOK
<1>7. TakenOK'
  <2>1. taken' = <<>> /\ seen' = <<>>
    OBVIOUS
  <2>. QED  BY <1>1, <2>1 DEF TakenOK, RepeatIgnored
<1>8. StopOK'
  BY <1>0 DEF StopOK, LockFree
<1>. DEFINE New == {w \in Workers : w[2] = starts + 1}
<1>9. \A w \in Workers : w[2] \in Nat
  BY LimitFacts DEF Workers
<1>10. \A w \in New : queue[w] = <<>> /\ item[w] = NoEvent /\ uploads[w] <= 1
  BY <1>0, <1>9 DEF FreshOK, UploadsOK
<1>11. FreshOK'
  BY <1>0, <1>9 DEF FreshOK
<1>12. OnlyNew'
  <2>1. Current' = New
    BY DEF Current
  <2>2. NoEvent \notin old'
    BY <1>2, LimitFacts DEF TypeOK
  <2>3. ASSUME NEW w \in New
        PROVE  /\ old' \cap {queue'[w][i] : i \in DOMAIN queue'[w]} = {}
               /\ item'[w] \notin old'
    BY <1>0, <1>1, <1>10, <2>2
  <2>. QED  BY <2>1, <2>3 DEF OnlyNew
<1>13. UploadsOK'
  BY DEF UploadsOK, Busy, TypeOK
<1>. QED  BY <1>6, <1>7, <1>8, <1>11, <1>12, <1>13

\* stop(): the queue of one worker after the other is emptied, and the worker
\* woken, which is never refused for a full queue.
LEMMA StopsOK ==
    ASSUME WebhookIInv, StopBegins \/ StopStep
    PROVE  WebhookIInv'
<1>. USE DEF WebhookIInv
<1>1. stopPc # "none" => Stopped \in Workers /\ Stopped \in Current
  BY LimitFacts DEF TypeOK, StopOK, Stopped, Workers, Current
<1>2. FirstEndpoint \in Endpoints
  <2>1. Endpoints \subseteq Endpoints /\ Endpoints # {}
    BY WebhookAssumption
  <2>. QED  BY <2>1, FirstExists DEF FirstEndpoint
<1>3. CASE StopBegins
  <2>1. TypeOK'
    BY <1>2, <1>3 DEF StopBegins, TypeOK, workerVars
  <2>. QED
    BY <1>3, <2>1 DEF StopBegins, TakenOK, RepeatIgnored, StopOK, Stopped, FreshOK,
                      OnlyNew, Current, UploadsOK, workerVars
<1>4. CASE StopSets
  <2>1. TypeOK'
    BY <1>4 DEF StopSets, TypeOK, workerVars
  <2>. QED
    BY <1>4, <2>1 DEF StopSets, TakenOK, RepeatIgnored, StopOK, Stopped, FreshOK,
                      OnlyNew, Current, UploadsOK, workerVars
<1>5. CASE StopDrains
  <2>1. /\ queue' = [queue EXCEPT ![Stopped] = <<>>] /\ Stopped \in Workers
        /\ UNCHANGED <<starts, running, stopAt, old, seen, hydrating,
                        reports, taken, stopped, workerVars>>
        /\ stopPc' = "wake" /\ running
    BY <1>1, <1>5 DEF StopDrains, StopOK
  <2>2. /\ <<>> \in Seq(Events \cup {Wake}) /\ Len(<<>>) <= QueueLimit
        /\ DOMAIN <<>> = {}
    BY LimitFacts
  <2>3. /\ queue' \in [Workers -> Seq(Events \cup {Wake})]
        /\ \A w \in Workers : queue'[w] \in {queue[w], <<>>}
        /\ queue'[Stopped] = <<>>
    BY <2>1, <2>2 DEF TypeOK
  <2>4. TypeOK'
    BY <2>1, <2>2, <2>3 DEF TypeOK, workerVars
  <2>5. TakenOK' /\ StopOK' /\ FreshOK' /\ UploadsOK'
    BY <2>1, <2>3
    DEF TakenOK, RepeatIgnored, StopOK, Stopped, FreshOK, UploadsOK, workerVars
  <2>6. OnlyNew'
    BY <2>1, <2>2, <2>3 DEF OnlyNew, Current, workerVars
  <2>. QED  BY <2>4, <2>5, <2>6
<1>6. CASE StopWakes
  <2>1. /\ queue' = [queue EXCEPT ![Stopped] = <<Wake>>] /\ Stopped \in Workers
        /\ queue[Stopped] = <<>>
        /\ UNCHANGED <<starts, old, hydrating, reports, taken, stopped,
                        workerVars>>
    <3>1. queue[Stopped] = <<>> /\ Append(<<>>, Wake) = <<Wake>>
      BY <1>6 DEF StopWakes, StopOK
    <3>. QED  BY <1>1, <1>6, <3>1 DEF StopWakes, WakeUp
  <2>2. /\ <<Wake>> \in Seq(Events \cup {Wake}) /\ Len(<<Wake>>) <= QueueLimit
        /\ {<<Wake>>[i] : i \in DOMAIN <<Wake>>} = {Wake}
    BY LimitFacts
  <2>3. /\ queue' \in [Workers -> Seq(Events \cup {Wake})]
        /\ \A w \in Workers : w # Stopped => queue'[w] = queue[w]
        /\ queue'[Stopped] = <<Wake>>
    BY <2>1, <2>2 DEF TypeOK
  <2>4. \/ stopPc' = "none" /\ running' = FALSE /\ seen' = <<>> /\ UNCHANGED stopAt
        \/ stopPc' = "set" /\ stopAt' \in Endpoints /\ UNCHANGED <<running, seen>>
    <3>1. Later # {} => (CHOOSE e \in Later : \A f \in Later : e <= f) \in Later
      BY FirstExists DEF Later
    <3>. QED  BY <1>6, <3>1 DEF StopWakes, Later
  <2>5. seen' \in Seq(Events) /\ Len(seen') <= SeenLimit
    <3>1. <<>> \in Seq(Events) /\ Len(<<>>) <= SeenLimit
      BY LimitFacts
    <3>2. seen' = <<>> \/ seen' = seen
      BY <2>4
    <3>. QED  BY <3>1, <3>2 DEF TypeOK
  <2>6. TypeOK'
    <3>1. \A w \in Workers : Len(queue'[w]) <= QueueLimit
      BY <2>2, <2>3 DEF TypeOK
    <3>2. stopAt' \in Endpoints /\ running' \in BOOLEAN
          /\ stopPc' \in {"none", "set", "drain", "wake"}
      BY <2>4 DEF TypeOK
    <3>. QED  BY <2>1, <2>3, <2>5, <3>1, <3>2 DEF TypeOK, workerVars
  <2>7. TakenOK' /\ StopOK' /\ UploadsOK'
    BY <1>6, <2>1, <2>4
    DEF StopWakes, TakenOK, RepeatIgnored, StopOK, Stopped, UploadsOK, workerVars
  <2>8. FreshOK'
    <3>1. Stopped[2] = starts /\ starts \in Nat
      BY LimitFacts DEF Stopped, TypeOK
    <3>. QED  BY <2>1, <2>3, <3>1 DEF FreshOK, workerVars
  <2>9. OnlyNew'
    <3>1. Wake \notin old /\ old' = old
      BY <2>1, LimitFacts DEF TypeOK
    <3>2. Current' \subseteq Current
      BY <2>1, <2>4 DEF Current
    <3>. QED  BY <2>1, <2>2, <2>3, <3>1, <3>2 DEF OnlyNew, Current, workerVars
  <2>. QED  BY <2>6, <2>7, <2>8, <2>9
<1>. QED  BY <1>3, <1>4, <1>5, <1>6 DEF StopStep

\* Positions.
LEMMA LastOrBefore ==
    ASSUME NEW n \in Nat, NEW j \in 1..(n + 1)
    PROVE  j \in 1..n \/ j = n + 1
OBVIOUS

\* The latest of all, of which equal ones are more than SeenLimit apart.
IsLatest(last, all) ==
    /\ last \in Seq(Events) /\ all \in Seq(Events)
    /\ Len(last) <= SeenLimit /\ Len(last) <= Len(all)
    /\ Len(last) = Len(all) \/ Len(last) = SeenLimit
    /\ \A k \in DOMAIN last : last[k] = all[Len(all) - Len(last) + k]
    /\ \A i, j \in DOMAIN all : i < j /\ all[i] = all[j] => j - i > SeenLimit

\* One more event, which is not among the latest, keeps it so.
LEMMA OneMore ==
    ASSUME NEW last, NEW all, IsLatest(last, all),
           NEW v \in Events, \A k \in DOMAIN last : last[k] # v,
           NEW more, more = IF Len(Append(last, v)) > SeenLimit
                            THEN Tail(Append(last, v)) ELSE Append(last, v)
    PROVE  IsLatest(more, Append(all, v))
<1>. DEFINE n == Len(all)
            m == Len(last)
            all2 == Append(all, v)
<1>1. /\ SeenLimit \in Nat /\ SeenLimit >= 1
      /\ all \in Seq(Events) /\ n \in Nat /\ n = Len(all) /\ DOMAIN all = 1..n
      /\ last \in Seq(Events) /\ m \in Nat /\ m = Len(last) /\ DOMAIN last = 1..m
  BY LimitFacts DEF IsLatest
<1>2. /\ m <= SeenLimit /\ m <= n /\ (m = n \/ m = SeenLimit)
      /\ \A k \in 1..m : last[k] = all[n - m + k] /\ last[k] # v
      /\ \A i, j \in 1..n : i < j /\ all[i] = all[j] => j - i > SeenLimit
  BY <1>1 DEF IsLatest
<1>3. all2 = Append(all, v)
  OBVIOUS
<1>. HIDE DEF n, m, all2
<1>. USE <1>1, <1>2, <1>3
<1>4. /\ all2 \in Seq(Events) /\ Len(all2) = n + 1 /\ DOMAIN all2 = 1..(n + 1)
      /\ \A i \in 1..n : all2[i] = all[i]
      /\ all2[n + 1] = v
  OBVIOUS
<1>5. PICK s : s = Append(last, v)
  OBVIOUS
<1>6. /\ s \in Seq(Events) /\ Len(s) = m + 1 /\ DOMAIN s = 1..(m + 1)
      /\ s[m + 1] = v
      /\ \A k \in 1..m : s[k] = last[k]
  BY <1>5
<1>7. ASSUME NEW k \in 1..(m + 1) PROVE s[k] = all2[n - m + k]
  <2>1. CASE k \in 1..m
    <3>1. n - m + k \in 1..n
      BY <2>1
    <3>2. last[k] = all[n - m + k]
      BY <2>1
    <3>. QED  BY <1>4, <1>6, <2>1, <3>1, <3>2
  <2>2. CASE k = m + 1
    <3>1. n - m + k = n + 1
      BY <2>2
    <3>. QED  BY <1>4, <1>6, <2>2, <3>1
  <2>3. k \in 1..m \/ k = m + 1
    OBVIOUS
  <2>. QED  BY <2>1, <2>2, <2>3
<1>8. CASE m + 1 > SeenLimit
  <2>1. more = Tail(s) /\ m = SeenLimit
    BY <1>5, <1>6, <1>8
  <2>2. /\ Tail(s) \in Seq(Events) /\ Len(Tail(s)) = m /\ DOMAIN Tail(s) = 1..m
        /\ \A k \in 1..m : Tail(s)[k] = s[k + 1]
    BY <1>6
  <2>3. ASSUME NEW k \in 1..m PROVE more[k] = all2[(n + 1) - m + k]
    <3>1. k + 1 \in 1..(m + 1) /\ n - m + (k + 1) = (n + 1) - m + k
      OBVIOUS
    <3>2. s[k + 1] = all2[n - m + (k + 1)]
      BY <1>7, <3>1
    <3>3. more[k] = s[k + 1]
      BY <2>1, <2>2
    <3>. QED  BY <3>1, <3>2, <3>3
  <2>4. /\ more \in Seq(Events) /\ Len(more) = m /\ DOMAIN more = 1..m
    BY <2>1, <2>2
  <2>5. \A k \in DOMAIN more : more[k] = all2[Len(all2) - Len(more) + k]
    BY <1>4, <2>3, <2>4
  <2>6. Len(more) <= SeenLimit /\ Len(more) <= Len(all2) /\ Len(more) = SeenLimit
    BY <1>4, <2>1, <2>4
  <2>7. \A i, j \in DOMAIN all2 : i < j /\ all2[i] = all2[j] => j - i > SeenLimit
    <3>. SUFFICES ASSUME NEW i \in 1..(n + 1), NEW j \in 1..(n + 1), i < j,
                         all2[i] = all2[j]
                  PROVE  j - i > SeenLimit
      BY <1>4
    <3>1. CASE j \in 1..n
      <4>1. i \in 1..n
        BY <3>1
      <4>. QED  BY <1>4, <3>1, <4>1
    <3>2. CASE j = n + 1
      <4>. SUFFICES ASSUME i > n - m PROVE FALSE
        BY <2>1, <3>2
      <4>1. i \in 1..n /\ i - (n - m) \in 1..m /\ n - m + (i - (n - m)) = i
        BY <3>2
      <4>2. all[i] = v /\ last[i - (n - m)] = all[i]
        BY <1>4, <3>2, <4>1, ZenonT(30)
      <4>. QED  BY <4>1, <4>2
    <3>3. j \in 1..n \/ j = n + 1
      BY LastOrBefore
    <3>. QED  BY <3>1, <3>2, <3>3
  <2>. QED  BY <1>4, <2>4, <2>5, <2>6, <2>7 DEF IsLatest
<1>9. CASE ~(m + 1 > SeenLimit)
  <2>1. more = s /\ m = n
    BY <1>5, <1>6, <1>9
  <2>2. \A k \in DOMAIN more : more[k] = all2[Len(all2) - Len(more) + k]
    <3>1. Len(all2) - Len(more) = n - m /\ DOMAIN more = 1..(m + 1)
      BY <1>4, <1>6, <2>1
    <3>. QED  BY <1>7, <2>1, <3>1
  <2>3. \A i, j \in DOMAIN all2 : i < j /\ all2[i] = all2[j] => j - i > SeenLimit
    <3>. SUFFICES ASSUME NEW i \in 1..(n + 1), NEW j \in 1..(n + 1), i < j,
                         all2[i] = all2[j]
                  PROVE  j - i > SeenLimit
      BY <1>4
    <3>1. CASE j \in 1..n
      <4>1. i \in 1..n
        BY <3>1
      <4>. QED  BY <1>4, <3>1, <4>1
    <3>2. CASE j = n + 1
      <4>1. i \in 1..m /\ n - m + i = i
        BY <2>1, <3>2
      <4>2. all[i] = v /\ last[i] = all[i]
        BY <1>4, <2>1, <3>2, <4>1
      <4>. QED  BY <4>1, <4>2
    <3>3. j \in 1..n \/ j = n + 1
      BY LastOrBefore
    <3>. QED  BY <3>1, <3>2, <3>3
  <2>4. Len(more) <= SeenLimit /\ Len(more) = Len(all2) /\ more \in Seq(Events)
    BY <1>4, <1>6, <1>9, <2>1
  <2>5. Len(more) <= Len(all2)
    BY <1>4, <2>4
  <2>. QED  BY <1>4, <2>2, <2>3, <2>4, <2>5 DEF IsLatest
<1>. QED  BY <1>8, <1>9

\* What submit leaves: the event that it takes is no repeat of the latest
\* SeenLimit.
LEMMA SubmitTaken ==
    ASSUME WebhookIInv, NEW v \in Events, NEW ai \in BOOLEAN, Submit(v, ai),
           running' = running
    PROVE  seen' \in Seq(Events) /\ Len(seen') <= SeenLimit /\ TakenOK'
<1>1. CASE ~running \/ v \in old \/ v \in {seen[i] : i \in DOMAIN seen}
  BY <1>1 DEF Submit, WebhookIInv, TypeOK, TakenOK, RepeatIgnored
<1>2. CASE ~(~running \/ v \in old \/ v \in {seen[i] : i \in DOMAIN seen})
  <2>1. IsLatest(seen, taken) /\ \A k \in DOMAIN seen : seen[k] # v
    BY <1>2 DEF WebhookIInv, TypeOK, TakenOK, RepeatIgnored, IsLatest
  <2>2. /\ taken' = Append(taken, v)
        /\ seen' = IF Len(Append(seen, v)) > SeenLimit THEN Tail(Append(seen, v))
                   ELSE Append(seen, v)
    BY <1>2 DEF Submit, Remember
  <2>3. IsLatest(seen', taken')
    BY <2>1, <2>2, OneMore
  <2>. QED  BY <2>3 DEF IsLatest, TakenOK, RepeatIgnored
<1>. QED  BY <1>1, <1>2

\* What submit puts in a queue: a new event, in a queue of the generation that
\* runs, where there is room.
LEMMA SubmitQueue ==
    ASSUME WebhookIInv, NEW v \in Events, NEW ai \in BOOLEAN, Submit(v, ai)
    PROVE  /\ queue' \in [Workers -> Seq(Events \cup {Wake})]
           /\ \A w \in Workers :
                 \/ queue'[w] = queue[w]
                 \/ /\ w \in Current /\ v \notin old
                    /\ Len(queue'[w]) <= QueueLimit
                    /\ {queue'[w][i] : i \in DOMAIN queue'[w]}
                          \subseteq {queue[w][i] : i \in DOMAIN queue[w]} \cup {v}
<1>. USE LimitFacts DEF WebhookIInv
<1>1. CASE ~running \/ v \in old \/ v \in {seen[i] : i \in DOMAIN seen}
  BY <1>1 DEF Submit, TypeOK
<1>2. CASE ~(~running \/ v \in old \/ v \in {seen[i] : i \in DOMAIN seen})
  <2>1. queue' = Offered(v, ai) /\ v \notin old
    BY <1>2 DEF Submit
  <2>2. ASSUME NEW w \in Workers
        PROVE  /\ Append(queue[w], v) \in Seq(Events \cup {Wake})
               /\ Len(Append(queue[w], v)) = Len(queue[w]) + 1 /\ Len(queue[w]) \in Nat
               /\ {Append(queue[w], v)[i] : i \in DOMAIN Append(queue[w], v)}
                     \subseteq {queue[w][i] : i \in DOMAIN queue[w]} \cup {v}
    <3>1. queue[w] \in Seq(Events \cup {Wake})
      BY DEF TypeOK
    <3>. DEFINE q == queue[w]
    <3>2. q \in Seq(Events \cup {Wake})
      BY <3>1
    <3>. HIDE DEF q
    <3>3. /\ Append(q, v) \in Seq(Events \cup {Wake}) /\ Len(q) \in Nat
          /\ Len(Append(q, v)) = Len(q) + 1
          /\ DOMAIN Append(q, v) = 1..(Len(q) + 1) /\ DOMAIN q = 1..Len(q)
          /\ Append(q, v)[Len(q) + 1] = v
          /\ \A i \in 1..Len(q) : Append(q, v)[i] = q[i]
      BY <3>2
    <3>4. {Append(q, v)[i] : i \in DOMAIN Append(q, v)} \subseteq {q[i] : i \in DOMAIN q} \cup {v}
      BY <3>3
    <3>. QED  BY <3>3, <3>4 DEF q
  <2>3. ASSUME NEW w \in Workers
        PROVE  \/ Offered(v, ai)[w] = queue[w]
               \/ /\ Offered(v, ai)[w] = Append(queue[w], v)
                  /\ w \in Current /\ Len(queue[w]) < QueueLimit
    BY DEF Offered
  <2>4. queue' \in [Workers -> Seq(Events \cup {Wake})]
    BY <2>1, <2>2 DEF Offered, TypeOK
  <2>5. ASSUME NEW w \in Workers
        PROVE  \/ queue'[w] = queue[w]
               \/ /\ w \in Current /\ v \notin old
                  /\ Len(queue'[w]) <= QueueLimit
                  /\ {queue'[w][i] : i \in DOMAIN queue'[w]}
                        \subseteq {queue[w][i] : i \in DOMAIN queue[w]} \cup {v}
    <3>1. CASE Offered(v, ai)[w] = queue[w]
      BY <2>1, <3>1
    <3>2. CASE /\ Offered(v, ai)[w] = Append(queue[w], v)
               /\ w \in Current /\ Len(queue[w]) < QueueLimit
      <4>1. queue'[w] = Append(queue[w], v)
        BY <2>1, <3>2
      <4>2. Len(Append(queue[w], v)) <= QueueLimit
        BY <2>2, <3>2
      <4>. QED  BY <2>1, <2>2, <3>2, <4>1, <4>2
    <3>. QED  BY <2>3, <3>1, <3>2
  <2>. QED  BY <2>4, <2>5
<1>. QED  BY <1>1, <1>2

\* A message that is reported, or whose image is decrypted.
LEMMA MessageOK ==
    ASSUME WebhookIInv, NEW v \in Events, NEW ai \in BOOLEAN,
           Report(v, ai) \/ Hydrated(v, ai)
    PROVE  WebhookIInv'
<1>. USE DEF WebhookIInv
<1>1. /\ UNCHANGED <<starts, running, stopPc, stopAt, old, stopped, workerVars>>
      /\ reports' \in 0..MaxReports
      /\ hydrating' \subseteq Events \X BOOLEAN
      /\ \/ LockFree /\ Submit(v, ai)
         \/ UNCHANGED <<seen, taken, queue>>
  BY LimitFacts DEF Report, Hydrated, TypeOK
<1>2. CASE UNCHANGED <<seen, taken, queue>>
  <2>1. TypeOK'
    BY <1>1, <1>2 DEF TypeOK, workerVars
  <2>. QED
    BY <1>1, <1>2, <2>1 DEF TakenOK, RepeatIgnored, StopOK, Stopped, FreshOK, OnlyNew,
                            Current, UploadsOK, workerVars
<1>3. CASE LockFree /\ Submit(v, ai)
  <2>1. seen' \in Seq(Events) /\ Len(seen') <= SeenLimit /\ TakenOK'
    BY <1>1, <1>3, SubmitTaken
  <2>2. queue' \in [Workers -> Seq(Events \cup {Wake})]
    BY <1>3, SubmitQueue
  <2>3. \A w \in Workers :
           \/ queue'[w] = queue[w]
           \/ /\ w \in Current /\ v \notin old
              /\ Len(queue'[w]) <= QueueLimit
              /\ {queue'[w][i] : i \in DOMAIN queue'[w]}
                    \subseteq {queue[w][i] : i \in DOMAIN queue[w]} \cup {v}
    BY <1>3, SubmitQueue
  <2>4. \A w \in Workers : Len(queue'[w]) <= QueueLimit
    BY <2>3 DEF TypeOK
  <2>5. TypeOK'
    BY <1>1, <2>1, <2>2, <2>4 DEF TypeOK, workerVars
  <2>6. StopOK'
    BY <1>1, <1>3 DEF StopOK, LockFree
  <2>7. FreshOK'
    BY <1>1, <2>3, LimitFacts DEF FreshOK, Current, TypeOK, Workers, workerVars
  <2>8. OnlyNew'
    <3>1. Current' = Current /\ old' = old /\ item' = item
      BY <1>1 DEF Current, workerVars
    <3>2. ASSUME NEW w \in Current
          PROVE  /\ old \cap {queue'[w][i] : i \in DOMAIN queue'[w]} = {}
                 /\ item[w] \notin old
      <4>1. w \in Workers
        BY DEF Current
      <4>. QED  BY <2>3, <4>1 DEF OnlyNew
    <3>. QED  BY <3>1, <3>2 DEF OnlyNew
  <2>9. UploadsOK'
    BY <1>1 DEF UploadsOK, workerVars
  <2>. QED  BY <2>1, <2>5, <2>6, <2>7, <2>8, <2>9
<1>. QED  BY <1>1, <1>2, <1>3

THEOREM WebhookInvariance == WebhookSpec => []WebhookIInv
<1>1. WebhookIInv /\ WebhookNext => WebhookIInv'
  BY WorkerOK, StartOK, StopsOK, MessageOK DEF WebhookNext
<1>2. WebhookIInv /\ UNCHANGED webhookVars => WebhookIInv'
  BY DEF webhookVars, dispatcherVars, workerVars, WebhookIInv, TypeOK, TakenOK,
         RepeatIgnored, StopOK, Stopped, FreshOK, OnlyNew, Current, UploadsOK
<1>. QED  BY <1>1, <1>2, WebhookInitOK, PTL DEF WebhookSpec

\* Every endpoint is submitted a message once, however often it is reported
\* within SeenLimit others, none written before the start, however late it is
\* reported and however long its image took; its media are uploaded once, and
\* it is not posted again after a success: whenever the dispatcher is stopped
\* and started again in the middle of it (WebhookDispatcher.submit,
\* _EndpointWorker._run).
THEOREM ForwardsOnce == WebhookSpec => []ForwardedOnce
<1>1. WebhookIInv => ForwardedOnce
  BY DEF WebhookIInv, TakenOK, UploadsOK, ForwardedOnce, UploadedOnce,
         AcceptedIsDone
<1>. QED  BY <1>1, WebhookInvariance, PTL

=============================================================================
