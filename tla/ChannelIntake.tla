---------------------------- MODULE ChannelIntake ----------------------------
(***************************************************************************)
(* Who wrote a message of a chat, and whether the Agent gets it            *)
(* (channels/wechat.py normalize, _on_raw_message, _prepare_for_controller *)
(* and companion/controller.py handle).                                    *)
(*                                                                         *)
(* A row of WeChat's database tells its author by a numeric id and by a    *)
(* username that may be missing.  The account's own rows have the id 2, or *)
(* another one that the channel must learn: a row that equals a reply on   *)
(* its way is the echo of the reply, and its id and username are the       *)
(* account's from then on, also after a restart.  The sender's verification*)
(* of a reply teaches it identities too, from the rows it finds.           *)
(*                                                                         *)
(* Assumed of the rows: the numeric id of a member is no other's, and only *)
(* the account's rows carry its usernames.  WeChat puts the username of a  *)
(* member in front of a text in a group; a text may begin with a word and  *)
(* a colon as well.                                                        *)
(*                                                                         *)
(* A definition whose name ends in Bug is a mutant of the one after it.    *)
(***************************************************************************)
EXTENDS Naturals

CONSTANTS Members,  \* other authors: their numeric ids and usernames
          Replies,  \* numbered in the order the sender takes them
          Texts,
          WordTexts,  \* the texts that begin with a word and a colon
          Captions,   \* the texts that come with an image
          ChatKinds   \* kinds of chat: "group", "friend", "filehelper"

Me == "account"     \* the author, and _account_id
Alias == "alias"    \* another username of the account
NoName == ""
Word == "word"      \* what stands before a colon and is nobody's username
Picture == "picture"
Cut == "cut"        \* a text without its first word
Marker == "2"
OtherId == "other id"

ASSUME IntakeAssumption ==
    /\ Replies \subseteq Nat \ {0} /\ WordTexts \cup Captions \subseteq Texts
    /\ Texts \cap {Picture, Cut, NoName} = {}
    /\ Members \cap {Me, Alias, NoName, Word, Marker, OtherId} = {}
    /\ ChatKinds \subseteq {"group", "friend", "filehelper"}

\* The forms of a reply: a text, an image, or an image with a caption.
Forms == [kind : {"text"}, text : Texts] \cup [kind : {"both"}, text : Captions]
            \cup {[kind |-> "image", text |-> Picture]}
Nothing == 0
NotYet == [kind |-> "none", text |-> NoName]
PartsOf(form) == IF form.kind = "both" THEN {"text", "image"} ELSE {form.kind}

VARIABLES
    chatKind,    \* the kind of the chat
    sent,        \* the form of every reply, or NotYet
    sending,     \* the reply that the sender posts or verifies, or Nothing
    onWay,       \* parts of replies whose row the listener will still bring
    pending,     \* _pending_outbound: parts of replies
    old,         \* those of them that are older than 60 seconds
    onTimeline,  \* replies whose entry on the timeline may take an echo
    selfIds, selfNames,    \* _self_sender_ids, _self_sender_usernames
    savedIds, savedNames,  \* the channel state self_sender_identities
    owed,        \* history: parts on their way for less than 60 seconds
    mimics,      \* history: members whose row equalled a reply on its way, or
                 \* verified one
    learned,     \* history: ids and usernames the account's such rows had
    unconfirmed, \* history: parts whose row was owed and was taken for no echo
    looped,      \* history: replies the Agent got without an excuse
    overheard,   \* history: the account's learned identities the Agent heard
    silenced     \* history: members whose call the Agent did not get

identities == <<selfIds, selfNames, savedIds, savedNames>>
verdicts == <<mimics, learned, unconfirmed, looped, overheard, silenced>>
intakeVars == <<chatKind, sent, sending, onWay, pending, old, onTimeline,
                identities, owed, verdicts>>

IntakeInit ==
    /\ chatKind \in ChatKinds /\ sent = [r \in Replies |-> NotYet]
    /\ sending = Nothing /\ onWay = {} /\ pending = {} /\ old = {}
    /\ onTimeline = {} /\ owed = {}
    /\ selfIds = {Marker} /\ selfNames = {} /\ savedIds = {} /\ savedNames = {}
    /\ mimics = {} /\ learned = {Marker, Me} /\ unconfirmed = {}
    /\ looped = {} /\ overheard = {} /\ silenced = {}

\* The rows that may appear.  A text in a group begins with the username of
\* the member who wrote it; one of the account may begin with its own.
Row(author, id, name, head, text, kind) ==
    [author |-> author, id |-> id, name |-> name, head |-> head,
     text |-> text, kind |-> kind]
HeadsOf(author, text, kind) ==
    IF kind = "image" THEN {NoName}
    ELSE IF author # Me /\ chatKind = "group" THEN {author}
    ELSE IF text \in WordTexts THEN {Word}
    ELSE IF chatKind = "group" THEN {NoName, Me} ELSE {NoName}
IdentitiesOf(author) ==
    IF author = Me
    THEN {<<Marker, Me>>, <<Marker, Alias>>,
          <<OtherId, Alias>>, <<OtherId, NoName>>}
    ELSE {<<author, author>>, <<author, NoName>>}
RowsOf(author, text, kind) ==
    {Row(author, i[1], i[2], head, text, kind) :
        i \in IdentitiesOf(author), head \in HeadsOf(author, text, kind)}
TypedRows(author) ==
    RowsOf(author, Picture, "image")
        \cup UNION {RowsOf(author, t, "text") : t \in Texts}
Authors == IF chatKind = "filehelper" THEN {Me} ELSE {Me} \cup Members

\* _is_self_message: the id first, for a username may be stale.
IsSelfMessage(id, name) == id \in selfIds \/ name \in {Me} \cup selfNames

\* normalize: the username in front of the text may name the author.
RawIsSelf(row) ==
    \/ IsSelfMessage(row.id, row.name)
    \/ chatKind = "group" /\ row.head \in {Me} \cup selfNames
IsSelf(row) ==
    RawIsSelf(row)
    \/ IsSelfMessage(row.id, IF row.head # NoName THEN row.head ELSE row.name)
Content(row) ==
    CASE row.kind = "image" -> Picture
      [] chatKind = "group" /\ row.head = Word -> Cut
      [] OTHER -> row.text

\* _normalize_history_rows: a row without a username in front of it has the
\* one that another row of the page with the same id has.
HistoryRaw(row) == RawIsSelf(row)
HistoryIsSelf(row, other) ==
    LET hint == IF other.id = row.id /\ other.id \notin selfIds
                THEN other.head ELSE NoName
        name == IF chatKind # "group" THEN row.name
                ELSE IF HistoryRaw(row) THEN Me
                ELSE IF row.head # NoName THEN row.head
                ELSE IF hint # NoName THEN hint ELSE row.name
    IN IsSelf([row EXCEPT !.name = name])

\* _record_pending_outbound: an image with a caption will come as two rows.
PendingTypesBug(form) == {IF form.kind = "text" THEN "text" ELSE "image"}
PendingTypes(form) == PartsOf(form)
Record(r, form) ==
    /\ sending = Nothing /\ sent[r] = NotYet
    /\ \A q \in Replies : q < r => sent[q] # NotYet
    /\ sending' = r /\ sent' = [sent EXCEPT ![r] = form]
    /\ pending' = pending \cup ({r} \X PendingTypes(form))
    /\ onWay' = onWay \cup ({r} \X PartsOf(form))
    /\ owed' = owed \cup ({r} \X PartsOf(form))
    /\ onTimeline' = onTimeline \cup {r}
    /\ UNCHANGED <<chatKind, old, identities, verdicts>>

\* _remember_self_identity of rows, by their ids and usernames.
Remember(ids) ==
    /\ selfIds' = selfIds \cup {i[1] : i \in ids}
    /\ selfNames' = selfNames \cup ({i[2] : i \in ids} \ {NoName})
    /\ savedIds' = selfIds' /\ savedNames' = selfNames'

\* _delivery_matches_rows: what a verification learns identities from.  A text
\* is verified by a row that equals it as the database has it, whoever wrote it
\* and up to two seconds before the attempt; an image, and its caption, by rows
\* that are the account's to the channel.
Writers == IF chatKind = "group" THEN {Me} ELSE Authors
Verifying(form) ==
    IF form.kind = "text" THEN {{i} : i \in UNION {IdentitiesOf(a) : a \in Writers}}
    ELSE SUBSET {i \in UNION {IdentitiesOf(a) : a \in Authors} :
                    IsSelfMessage(i[1], i[2])} \ {{}}

\* The reply was posted, and verified unless that is switched off.
SendSucceeds ==
    /\ sending # Nothing /\ sending' = Nothing
    /\ \/ UNCHANGED <<identities, learned, mimics>>
       \/ \E ids \in Verifying(sent[sending]) :
             LET own == ids \cap IdentitiesOf(Me) IN
             /\ Remember(ids)
             /\ learned' = learned \cup {i[1] : i \in own}
                                   \cup ({i[2] : i \in own} \ {NoName})
             /\ mimics' = mimics \cup {i[1] : i \in ids \ own}
    /\ UNCHANGED <<chatKind, sent, onWay, pending, old, onTimeline, owed,
                   unconfirmed, looped, overheard, silenced>>

\* The sender gives the reply up; whether WeChat has it may be unknown.
\* _discard_pending_outbound drops every record with its text.
SenderGivesUp ==
    LET r == sending IN
    /\ r # Nothing /\ sending' = Nothing
    /\ pending' = {p \in pending : sent[p[1]].text # sent[r].text}
    /\ old' = old \cap pending'
    /\ onWay' \in {onWay, onWay \ ({r} \X PartsOf(sent[r]))}
    /\ owed' = {o \in owed : sent[o[1]].text # sent[r].text}
    /\ onTimeline' = onTimeline \ {r}
    /\ UNCHANGED <<chatKind, sent, identities, verdicts>>

\* A minute passes: what is pending is too old to match.
MinutePasses ==
    /\ pending # old /\ old' = pending
    /\ owed' = {}
    /\ UNCHANGED <<chatKind, sent, sending, onWay, pending, onTimeline, identities,
                   verdicts>>

\* _consume_pending_outbound: an image matches any image, a text its text; the
\* first that matches is taken.
MatchesBug(p, row) == p[2] = row.kind
Matches(p, row) ==
    p[2] = row.kind /\ (row.kind = "image" \/ sent[p[1]].text = Content(row))
Young == pending \ old
First(parts) == {p \in parts : \A q \in parts : p[1] <= q[1]}

\* _suppress_unmarked_delivery_echo: the entry of a reply takes a row of the
\* account that says the same.
Suppressed(row) ==
    IsSelf(row) /\ \E r \in onTimeline :
       \/ sent[r].kind # "text" /\ row.kind = "image"
       \/ sent[r].kind # "image" /\ Content(row) = sent[r].text

\* controller.handle: echoes, the account's own messages outside the file
\* helper, and messages of a group that do not call the Agent are only shown.
ToAgent(row, isEcho, called) ==
    /\ ~isEcho /\ ~Suppressed(row)
    /\ IsSelf(row) => chatKind = "filehelper"
    /\ chatKind = "group" => called

\* What the history notes: the owed parts that the row equals, and one of
\* them that it answers for.
Equals(o, row) ==
    o[2] = row.kind /\ (row.kind = "image" \/ sent[o[1]].text = Content(row))
KnownIdentity(row) ==
    \/ row.id \in learned
    \/ row.name \in learned
    \/ chatKind = "group" /\ row.head = Me

\* _on_raw_message hands one row over; `part' is the part of a reply whose row
\* it is, or <<>> for a row that somebody typed.
ReceiveRow(row, part, called) ==
    LET matching == {p \in Young : Matches(p, row)}
        isEcho == matching # {}
        equal == {o \in owed : Equals(o, row)}
        toAgent == ToAgent(row, isEcho, called)
    IN
    /\ onWay' = onWay \ {part}
    /\ pending' = Young \ First(matching) /\ old' = {}
    /\ IF isEcho THEN Remember({<<row.id, row.name>>}) ELSE UNCHANGED identities
    /\ owed' = owed \ (IF part \in equal THEN {part} ELSE First(equal))
    /\ learned' = IF equal # {} /\ row.author = Me
                  THEN learned \cup ({row.id, row.name} \ {NoName}) ELSE learned
    /\ mimics' = IF equal # {} THEN mimics \cup ({row.author} \ {Me}) ELSE mimics
    /\ unconfirmed' = IF part \in equal /\ ~isEcho
                      THEN unconfirmed \cup {part} ELSE unconfirmed
    /\ looped' = IF /\ part # <<>> /\ toAgent
                    /\ part[1] \in onTimeline /\ Content(row) # Cut
                    /\ KnownIdentity(row) \/ part \in equal
                 THEN looped \cup {part[1]} ELSE looped
    /\ overheard' = IF /\ toAgent /\ row.author = Me /\ chatKind # "filehelper"
                       /\ KnownIdentity(row)
                    THEN overheard \cup {<<row.id, row.name>>} ELSE overheard
    /\ silenced' = IF row.author # Me /\ called /\ ~toAgent
                   THEN silenced \cup {row.author} ELSE silenced
    /\ UNCHANGED <<chatKind, sent, sending, onTimeline>>

\* The listener brings the rows in the order of the database; those of an
\* image and its caption come in either order.  What somebody types calls the
\* Agent: what does not call it can go wrong in fewer ways.
Calls == IF chatKind = "group" THEN BOOLEAN ELSE {TRUE}
ReceiveEcho ==
    \E part \in onWay, called \in Calls :
       LET form == sent[part[1]] IN
       /\ \A other \in onWay : part[1] <= other[1]
       /\ \E row \in RowsOf(Me, IF part[2] = "image" THEN Picture ELSE form.text,
                            part[2]) : ReceiveRow(row, part, called)
ReceiveTyped ==
    \E author \in Authors : \E row \in TypedRows(author) : ReceiveRow(row, <<>>, TRUE)

\* The bridge ends, by a stop or a crash, and starts: _load_self_identities.
\* The rows of posted replies are still to come.
Loaded == savedIds
BridgeRestarts ==
    /\ selfIds' = {Marker} \cup Loaded /\ selfNames' = savedNames
    /\ sending' = Nothing /\ pending' = {} /\ old' = {} /\ onTimeline' = {}
    /\ owed' = {}
    /\ UNCHANGED <<chatKind, sent, onWay, savedIds, savedNames, verdicts>>

IntakeNext ==
    \/ \E r \in Replies, form \in Forms : Record(r, form)
    \/ SendSucceeds \/ SenderGivesUp \/ MinutePasses
    \/ ReceiveEcho \/ ReceiveTyped \/ BridgeRestarts

IntakeSpec == IntakeInit /\ [][IntakeNext]_intakeVars
-----------------------------------------------------------------------------
(* Properties.                                                             *)

\* The types, and what is saved is what is known.
IntakeTypeOK ==
    /\ chatKind \in ChatKinds
    /\ sent \in [Replies -> Forms \cup {NotYet}] /\ sending \in Replies \cup {Nothing}
    /\ UNION {onWay, pending, owed} \subseteq Replies \X {"text", "image"}
    /\ old \subseteq pending /\ onTimeline \subseteq Replies
    /\ selfIds \subseteq {Marker, OtherId} \cup Members
    /\ selfNames \subseteq {Me, Alias} \cup Members
    /\ savedIds \subseteq selfIds /\ savedNames \subseteq selfNames

\* A member is taken for the account only after sending what equals a reply:
\* one on its way (for an image: any image), or outside groups one whose
\* verification met the member's text, maybe from before the reply.  Everybody
\* else is heard when calling the Agent, now and after any restart.
MembersHeard == silenced \subseteq mimics

\* The row of a reply that comes within a minute is recognized as its echo,
\* whatever came before it and in whatever order the rows of an image and its
\* caption come; unless a reply with the same text failed, or the channel cut
\* the first word of the text off.
EchoConfirmed == unconfirmed = {}

\* README.md:200: the Agent does not get the bridge's own replies, not even in
\* the file helper or from an id the account is not known by, nor an hour
\* later from one it is known by.  It may get one that comes after a restart,
\* one given up, one whose first word was cut off, and a late one of an
\* unknown id.
NoReplyLoop == looped = {}

\* Once a row told an id or a username of the account, what the user types
\* with it never reaches the Agent as the message of a member, also after a
\* restart.
AccountNotOverheard == overheard = {}

\* The rows of one author that differ in what a page of history looks at.
PageRows(author) ==
    {Row(author, i[1], i[2], head, Picture, "text") : i \in IdentitiesOf(author),
        head \in {NoName, author, Word}}

\* Of two rows of a page of a group's history, one is shown as the user's if it
\* would be when it came; a page may know better, from the username in the
\* other row, but never takes a member for the user.
HistoryAgrees ==
    chatKind = "group" =>
        \A author \in Authors : \A row \in PageRows(author) :
          \A other \in {o \in PageRows(author) : o.id = row.id} :
            /\ IsSelf(row) => HistoryIsSelf(row, other)
            /\ HistoryIsSelf(row, other) /\ ~IsSelf(row) => author = Me

\* A row is taken for the one who wrote it.
AuthorsAreKnown == MembersHeard /\ AccountNotOverheard /\ HistoryAgrees

\* A reply that comes back is known for what it is.
RepliesAreKnown == EchoConfirmed /\ NoReplyLoop
=============================================================================
