------------------------------ MODULE ReplyParts ------------------------------
(***************************************************************************)
(* How the answer of an Agent becomes messages: the image directives are   *)
(* taken out of it, the rest is split at the longest message WeChat        *)
(* accepts, fences of code kept closed, the images join the texts and the  *)
(* parts are sent one after the other (runtime/dispatcher.py and           *)
(* runtime/image_directives.py).                                           *)
(*                                                                         *)
(* A character of line l is <<l, k>> with k its place in the line, a line  *)
(* break is <<l, 0>>; what the split inserts has line 0.  A line of code   *)
(* fence begins with characters 1 to 3.  Blanks within a line, the prefix  *)
(* of replies and the wording of labels are left out.                      *)
(*                                                                         *)
(* A definition whose name ends in Bug is a mutant of the one after it.    *)
(***************************************************************************)
EXTENDS Integers, SequencesExt, FiniteSets

CONSTANTS LineSizes,   \* characters of a line that is no fence
          FenceSizes,  \* characters of a line that begins with a fence
          MaxLines,
          Directives,  \* outcomes of the image directives of an answer
          MaxImages,   \* directives that are looked at
          NoticeSize,  \* characters of a line about a refused image
          ReplyLimit   \* max_reply_chars without the prefix

ASSUME ReplyAssumption ==
    /\ LineSizes \cup FenceSizes \subseteq Nat /\ \A n \in FenceSizes : n >= 3
    /\ \A ds \in Directives : ds \in Seq({"image", "refused"})
    /\ {MaxLines, MaxImages, NoticeSize} \subseteq Nat
    /\ ReplyLimit \in Nat \ {0}

VARIABLES
    answer,  \* the lines of reply_text
    accepted,\* the images of the directives, in order
    row,     \* the line split_reply is at
    current, fenced, chunks,
    outgoing,\* the deliveries that are still to be sent
    given,   \* what the channel took, in order
    replying \* "splitting", "sending", "done", "failed"

replyVars == <<answer, accepted, row, current, fenced, chunks, outgoing, given,
               replying>>

NoImage == 0
Break(l) == <<l, 0>>
Inserted(c) == c[1] = 0
Visible(c) == c[2] # 0
Backticks == <<<<0, 1>>, <<0, 2>>, <<0, 3>>>>

Line(fence, size) == [fence |-> fence, size |-> size]
Lines == [fence : {TRUE}, size : FenceSizes] \cup [fence : {FALSE}, size : LineSizes]

\* The characters of line l, with its break unless it is the last one.
Chars(l) ==
    [k \in 1..answer[l].size |-> <<l, k>>]
    \o IF l < Len(answer) THEN <<Break(l)>> ELSE <<>>

Text == FlattenSeq([l \in 1..Len(answer) |-> Chars(l)])

\* resolve_image_directives: of the first MaxImages directives each is an image
\* or is refused with a notice; one more notice stands for the rest.
Looked(ds, outcome) == {i \in 1..Len(ds) : i <= MaxImages /\ ds[i] = outcome}

\* The places of the images, the first one first: there is one such sequence.
Accepted(ds) ==
    LET images == Looked(ds, "image")
    IN {s \in [1..Cardinality(images) -> images] :
          \A i, k \in 1..Cardinality(images) : i < k => s[i] < s[k]}
Notices(ds) ==
    LET count == Cardinality(Looked(ds, "refused"))
                 + IF Len(ds) > MaxImages THEN 1 ELSE 0
    IN [i \in 1..count |-> Line(FALSE, NoticeSize)]

\* The notices follow the text after a blank line.
FullAnswer(text, notices) ==
    text \o (IF text # <<>> /\ notices # <<>> THEN <<Line(FALSE, 0)>> ELSE <<>>)
         \o notices

ReplyInit ==
    /\ \E n \in 0..MaxLines : \E text \in [1..n -> Lines] : \E ds \in Directives :
           /\ n > 0 => text[n].size # 0
           /\ answer = FullAnswer(text, Notices(ds))
           /\ accepted \in Accepted(ds)
    /\ row = 1 /\ current = <<>> /\ fenced = FALSE /\ chunks = <<>>
    /\ outgoing = <<>> /\ given = <<>> /\ replying = "splitting"

-----------------------------------------------------------------------------
\* split_reply, one line after the other

Stripped(s) == SubSeq(s, 1, Max({0} \cup {i \in 1..Len(s) : Visible(s[i])}))

EndsWithFence(s) ==
    LET end == SubSeq(s, Len(s) - 2, Len(s))
    IN /\ Len(s) >= 3
       /\ \A k \in 1..3 : end[k] = <<end[1][1], k>>
       /\ Inserted(end[1]) \/ answer[end[1][1]].fence

Fits == row = 1 /\ Len(Text) <= ReplyLimit

WholeText ==
    /\ replying = "splitting" /\ row <= Len(answer) /\ Fits
    /\ chunks' = <<Text>> /\ row' = Len(answer) + 1
    /\ UNCHANGED <<answer, accepted, current, fenced, outgoing, given, replying>>

\* Pieces of a line that is longer than a message; the rest stays.
Cuts(s) == (Len(s) - 1) \div ReplyLimit
Pieces(s) == [i \in 1..Cuts(s) |-> SubSeq(s, (i - 1) * ReplyLimit + 1, i * ReplyLimit)]
Rest(s) == SubSeq(s, Cuts(s) * ReplyLimit + 1, Len(s))

SplitLine ==
    /\ replying = "splitting" /\ row <= Len(answer) /\ ~Fits
    /\ row' = row + 1
    /\ fenced' = (fenced # answer[row].fence)
    /\ \/ /\ Len(current) + Len(Chars(row)) <= ReplyLimit
          /\ current' = current \o Chars(row) /\ UNCHANGED chunks
       \/ /\ Len(current) + Len(Chars(row)) > ReplyLimit
          /\ LET full == Stripped(current)
                 reopen == current # <<>> /\ fenced' /\ ~EndsWithFence(full)
                 next == (IF reopen THEN Append(Backticks, Break(0)) ELSE <<>>)
                         \o Chars(row)
             IN /\ chunks' = chunks
                             \o (IF current = <<>> THEN <<>>
                                 ELSE IF reopen
                                      THEN <<Append(full, Break(0)) \o Backticks>>
                                      ELSE <<full>>)
                             \o Pieces(next)
                /\ current' = Rest(next)
    /\ UNCHANGED <<answer, accepted, outgoing, given, replying>>

-----------------------------------------------------------------------------
\* The deliveries

Split == chunks \o IF current = <<>> THEN <<>> ELSE <<Stripped(current)>>

Part(text, image) == [text |-> text, image |-> image]

MessagesOfBug(texts) ==
    LET images == IF texts = <<>> \/ accepted = <<>> THEN accepted ELSE Tail(accepted)
    IN [i \in 1..Len(texts) |->
           Part(texts[i], IF i = 1 /\ accepted # <<>> THEN accepted[1] ELSE NoImage)]
       \o [i \in 1..Len(images) |-> Part(<<>>, images[i])]

\* The first image goes with the last text, each further one under a label.
MessagesOf(texts) ==
    LET images == IF texts = <<>> \/ accepted = <<>> THEN accepted ELSE Tail(accepted)
    IN [i \in 1..Len(texts) |->
           Part(texts[i], IF i = Len(texts) /\ accepted # <<>> THEN accepted[1]
                          ELSE NoImage)]
       \o [i \in 1..Len(images) |-> Part(<<>>, images[i])]

Deliver ==
    /\ replying = "splitting" /\ row > Len(answer)
    /\ outgoing' = MessagesOf(Split)
    /\ replying' = "sending"
    /\ UNCHANGED <<answer, accepted, row, current, fenced, chunks, given>>

\* _send, with its three attempts; an error of the last one ends the job.
SendPart ==
    /\ replying = "sending" /\ outgoing # <<>>
    /\ \/ /\ given' = Append(given, Head(outgoing)) /\ outgoing' = Tail(outgoing)
          /\ UNCHANGED replying
       \/ /\ replying' = "failed" /\ UNCHANGED <<given, outgoing>>
    /\ UNCHANGED <<answer, accepted, row, current, fenced, chunks>>

AllSent ==
    /\ replying = "sending" /\ outgoing = <<>> /\ replying' = "done"
    /\ UNCHANGED <<answer, accepted, row, current, fenced, chunks, outgoing, given>>

ReplyNext == WholeText \/ SplitLine \/ Deliver \/ SendPart \/ AllSent

ReplySpec == ReplyInit /\ [][ReplyNext]_replyVars

-----------------------------------------------------------------------------
\* Properties

ReplyTypeOK ==
    /\ \A i \in 1..Len(answer) : answer[i] \in Lines \cup {Line(FALSE, 0),
                                                         Line(FALSE, NoticeSize)}
    /\ row \in 1..(Len(answer) + 1) /\ fenced \in BOOLEAN
    /\ replying \in {"splitting", "sending", "done", "failed"}

\* What a reader sees of the answer, character by character.
Readable(c) == Visible(c) /\ ~Inserted(c)
Characters == UNION {{<<l, k>> : k \in 1..answer[l].size} : l \in 1..Len(answer)}

Precedes(c, d) == c[1] < d[1] \/ (c[1] = d[1] /\ c[2] < d[2])

\* The same of some texts, one after the other.
Tells(texts, c) ==
    \E i \in 1..Len(texts) : \E a \in 1..Len(texts[i]) : texts[i][a] = c

ReadInOrder(texts) ==
    \A i, k \in 1..Len(texts) : \A a \in 1..Len(texts[i]), b \in 1..Len(texts[k]) :
       /\ Readable(texts[i][a]) /\ Readable(texts[k][b])
       /\ Precedes(<<i, a>>, <<k, b>>)
       => Precedes(texts[i][a], texts[k][b])

NothingSkipped(texts) ==
    \A i \in 1..Len(texts) : \A a \in 1..Len(texts[i]) : Readable(texts[i][a]) =>
       /\ texts[i][a] \in Characters
       /\ \A c \in Characters : Precedes(c, texts[i][a]) => Tells(texts, c)

Complete(texts) == \A c \in Characters : Tells(texts, c)

GivenTexts == [i \in 1..Len(given) |-> given[i].text]

\* The images follow each other from some part on, with the last of the text.
ImagesInOrder ==
    \E n \in 0..Len(given) :
       /\ \A i \in 1..n : given[i].image = NoImage
       /\ Len(given) <= n + Len(accepted)
       /\ \A i \in (n + 1)..Len(given) : given[i].image = accepted[i - n]
       /\ n < Len(given) => Complete(GivenTexts)
       /\ replying = "done" => Len(given) = n + Len(accepted)

\* What WeChat is given of an answer is its text from the beginning, no
\* character lost, doubled or out of order, and its images in order, none
\* before the last of the text; a job that ends without an error gave all of
\* it.  No part is longer than the limit and an inserted closing fence
\* (dispatcher.py:1138-1164 and 790-830).
ReplyKept ==
    /\ ReadInOrder(GivenTexts) /\ NothingSkipped(GivenTexts)
    /\ replying = "done" => Complete(GivenTexts)
    /\ ImagesInOrder
    /\ \A i \in 1..Len(given) : Len(given[i].text) <= ReplyLimit + 4
=============================================================================
