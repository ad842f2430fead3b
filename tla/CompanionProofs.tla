-------------------------- MODULE CompanionProofs --------------------------
(***************************************************************************)
(* Proofs about the companion window: its pages of messages                *)
(* (CompanionHistory), for every page size, every set of limits and every  *)
(* number of messages, and its realtime cards (CompanionEntries), for      *)
(* every number of replies, parts, deliveries and clearings.               *)
(*                                                                         *)
(* PagesAreTrue is about what is shown; its inductive invariant says where *)
(* the next page begins: the local cursor is the oldest row of the pages,  *)
(* the offset of WeChat's pages skips only rows that are known, and a page *)
(* that is being loaded is the one that follows.                           *)
(*                                                                         *)
(* CardsAreTrue is about what the cards show; its inductive invariant says *)
(* how a delivery finds its card: the positions that are kept are those of *)
(* the right cards, and the card of a job has its parts in their order.    *)
(***************************************************************************)
EXTENDS CompanionHistory, CompanionEntries, FiniteSetTheorems,
        WellFoundedInduction, TLAPS

-----------------------------------------------------------------------------
(* Sets of messages.                                                       *)

\* A set of natural numbers has a least element.
LEMMA LeastNumber ==
    ASSUME NEW T, T \subseteq Nat, T # {}
    PROVE  \E x \in T : \A y \in T : x <= y
<1> DEFINE R == {p \in Nat \X Nat : p[1] < p[2]}
<1>1. OpToRel(<, Nat) = R
  BY DEF OpToRel
<1>2. IsWellFoundedOn(R, Nat)
  BY <1>1, NatLessThanWellFounded
<1> HIDE DEF R
<1>3. PICK x \in T : \A y \in T : ~(<<y, x>> \in R)
  BY <1>2, WFMin
<1>4. \A y \in T : ~(y < x)
  BY <1>3 DEF R
<1> QED BY <1>4

\* The minimum of a page.
LEMMA MinFacts ==
    ASSUME NEW T, T \subseteq Nat, T # {}
    PROVE  Min(T) \in T /\ \A y \in T : Min(T) <= y
<1>1. \E x \in T : \A y \in T : x <= y
  BY LeastNumber
<1> QED BY <1>1, Zenon DEF Min

\* A bounded set of numbers has a greatest element.
LEMMA GreatestNumber ==
    ASSUME NEW n \in Nat, NEW T, T \subseteq 1..n, T # {}
    PROVE  \E x \in T : \A y \in T : y <= x
<1> DEFINE D == {n - x : x \in T}
<1>1. D \subseteq Nat /\ D # {}
  <2>1. PICK t \in T : TRUE
    OBVIOUS
  <2>2. n - t \in D
    OBVIOUS
  <2>3. \A x \in T : n - x \in Nat
    OBVIOUS
  <2> QED BY <2>2, <2>3
<1>2. PICK d \in D : \A e \in D : d <= e
  <2> HIDE DEF D
  <2> QED BY <1>1, LeastNumber
<1>3. PICK x \in T : d = n - x
  OBVIOUS
<1>4. \A y \in T : n - x <= n - y
  BY <1>2, <1>3
<1> QED BY <1>4

\* Messages are finitely many.
LEMMA FiniteMessages ==
    ASSUME NEW n \in Nat, NEW S, S \subseteq 1..n
    PROVE  IsFiniteSet(S)
<1>1. 1 \in Int /\ n \in Int
  OBVIOUS
<1>2. IsFiniteSet(1..n)
  BY <1>1, FS_Interval
<1> QED BY <1>2, FS_Subset

\* The k newest of the messages: with one of them, all that are newer.
LEMMA NewestIsClosed ==
    ASSUME NEW n \in Nat, NEW S, S \subseteq 1..n, NEW k \in Nat,
           NEW m \in Newest(S, k), NEW x \in S, m <= x
    PROVE  x \in Newest(S, k)
<1>1. IsFiniteSet(S)
  BY FiniteMessages
<1> DEFINE Above(y) == {z \in S : z > y}
<1>2. Above(x) \subseteq Above(m) /\ Above(m) \subseteq S
  <2>1. m \in Nat /\ x \in Nat /\ \A z \in S : z \in Nat
    BY DEF Newest
  <2>2. \A z \in S : z > x => z > m
    BY <2>1
  <2> QED BY <2>2
<1>3. /\ IsFiniteSet(Above(m)) /\ IsFiniteSet(Above(x))
      /\ Cardinality(Above(x)) <= Cardinality(Above(m))
  <2> HIDE DEF Above
  <2>1. IsFiniteSet(Above(m))
    BY <1>1, <1>2, FS_Subset
  <2> QED BY <2>1, <1>2, FS_Subset
<1>4. Cardinality(Above(m)) < k
  BY DEF Newest
<1>5. Cardinality(Above(x)) < k
  <2>1. Cardinality(Above(m)) \in Nat /\ Cardinality(Above(x)) \in Nat
    BY <1>3, FS_CardinalityType
  <2> HIDE DEF Above
  <2> QED BY <2>1, <1>3, <1>4
<1> QED BY <1>5 DEF Newest

\* Fewer than were asked for are all there are.
LEMMA NewestOfFew ==
    ASSUME NEW n \in Nat, NEW S, S \subseteq 1..n, NEW k \in Nat,
           Cardinality(Newest(S, k + 1)) <= k
    PROVE  Newest(S, k + 1) = S
<1>0. Newest(S, k + 1) \subseteq S
  BY DEF Newest
<1> SUFFICES ASSUME S \ Newest(S, k + 1) # {} PROVE FALSE
  BY <1>0
<1>1. S \ Newest(S, k + 1) \subseteq 1..n
  OBVIOUS
<1>2. PICK m \in S \ Newest(S, k + 1) :
        \A y \in S \ Newest(S, k + 1) : y <= m
  BY <1>1, GreatestNumber
<1> DEFINE Above == {z \in S : z > m}
<1>3. \A z \in S : z > m => z \in Newest(S, k + 1)
  <2>1. S \subseteq Nat
    OBVIOUS
  <2> QED BY <1>2, <2>1
<1>4. Above \subseteq Newest(S, k + 1)
  BY <1>3
<1>5. IsFiniteSet(S)
  BY FiniteMessages
<1>6. IsFiniteSet(Newest(S, k + 1))
  BY <1>0, <1>5, FS_Subset
<1>7. Cardinality(Above) <= Cardinality(Newest(S, k + 1)) /\ IsFiniteSet(Above)
  <2> HIDE DEF Above
  <2> QED BY <1>4, <1>6, FS_Subset
<1>8. Cardinality(Above) \in Nat /\ Cardinality(Newest(S, k + 1)) \in Nat
  BY <1>6, <1>7, FS_CardinalityType
<1>9. Cardinality(Above) < k + 1
  <2> HIDE DEF Above
  <2> QED BY <1>7, <1>8
<1>10. m \in Newest(S, k + 1)
  BY <1>2, <1>9 DEF Newest
<1> QED BY <1>2, <1>10

\* Of no more than were asked for, none is left out.
LEMMA NewestIsAll ==
    ASSUME NEW n \in Nat, NEW S, S \subseteq 1..n, NEW k \in Nat,
           Cardinality(S) <= k
    PROVE  Newest(S, k) = S
<1>1. IsFiniteSet(S)
  BY FiniteMessages
<1>2. ASSUME NEW m \in S PROVE Cardinality({z \in S : z > m}) < k
  <2> DEFINE Above == {z \in S : z > m}
  <2>1. Above \subseteq S /\ m \notin Above
    <3>1. m \in Nat
      OBVIOUS
    <3> QED BY <3>1
  <2>2. Cardinality(Above) <= Cardinality(S) /\ Cardinality(Above) # Cardinality(S)
        /\ IsFiniteSet(Above)
    <3> HIDE DEF Above
    <3> QED BY <1>1, <2>1, FS_Subset
  <2>3. Cardinality(Above) \in Nat /\ Cardinality(S) \in Nat
    BY <1>1, <2>2, FS_CardinalityType
  <2> HIDE DEF Above
  <2>4. Cardinality(Above) < k
    BY <2>2, <2>3
  <2> QED BY <2>4 DEF Above
<1> QED BY <1>2 DEF Newest

\* Any that are asked for exist, as the newest one is among them.
LEMMA NewestIsSome ==
    ASSUME NEW n \in Nat, NEW S, S \subseteq 1..n, NEW k \in Nat \ {0}, S # {}
    PROVE  Newest(S, k) # {}
<1>1. PICK m \in S : \A y \in S : y <= m
  BY GreatestNumber
<1>2. {z \in S : z > m} = {}
  <2>1. \A z \in S : z \in Nat
    OBVIOUS
  <2>2. \A z \in S : ~(z > m)
    BY <1>1, <2>1
  <2> QED BY <2>2
<1>3. m \in Newest(S, k)
  BY <1>2, FS_EmptySet DEF Newest
<1> QED BY <1>3

\* The k newest of all messages.
LEMMA NewestOfAll ==
    ASSUME NEW n \in Nat, NEW k \in Nat
    PROVE  Newest(1..n, k) = {m \in 1..n : n - m < k}
<1>1. ASSUME NEW m \in 1..n PROVE Cardinality({z \in 1..n : z > m}) = n - m
  <2> DEFINE Above == {z \in 1..n : z > m}
  <2>1. Above = (m + 1)..n
    OBVIOUS
  <2>2. m + 1 \in Int /\ n \in Int
    OBVIOUS
  <2>3. Cardinality((m + 1)..n) = IF m + 1 > n THEN 0 ELSE n - (m + 1) + 1
    BY <2>2, FS_Interval
  <2>4. Cardinality((m + 1)..n) = n - m
    BY <2>3
  <2> HIDE DEF Above
  <2>5. Cardinality(Above) = n - m
    BY <2>1, <2>4
  <2> QED BY <2>5 DEF Above
<1> QED BY <1>1 DEF Newest

\* A page at an offset from the newest of c messages.
PageAt(c, from, size) == {m \in 1..c : c - from - size < m /\ m <= c - from}

\* A page holds the size newest of the messages that the offset leaves.
LEMMA PageFacts ==
    ASSUME NEW c \in Nat, NEW from \in Nat, NEW size \in Nat
    PROVE  LET rows == PageAt(c, from, size) IN
           /\ Newest(1..c, from + size) \ Newest(1..c, from) = rows
           /\ Cardinality(rows) \in 0..size
           /\ \A m \in 1..c : c - from - Cardinality(rows) < m /\ m <= c - from
                              => m \in rows
<1> DEFINE rows == PageAt(c, from, size)
           a == IF c - from - size < 0 THEN 1 ELSE c - from - size + 1
           b == c - from
<1>1. Newest(1..c, from + size) \ Newest(1..c, from) = rows
  <2>1. /\ Newest(1..c, from + size) = {m \in 1..c : c - m < from + size}
        /\ Newest(1..c, from) = {m \in 1..c : c - m < from}
    BY NewestOfAll
  <2>2. \A m \in 1..c : /\ c - m < from + size <=> c - from - size < m
                        /\ ~(c - m < from) <=> m <= c - from
    OBVIOUS
  <2> QED BY <2>1, <2>2 DEF PageAt
<1>2. rows = a..b
  BY DEF PageAt
<1>3. Cardinality(a..b) = IF a > b THEN 0 ELSE b - a + 1
  BY FS_Interval
<1>4. Cardinality(rows) = IF a > b THEN 0 ELSE b - a + 1
  BY <1>2, <1>3
<1>5. Cardinality(rows) \in 0..size
  <2> HIDE DEF rows
  <2> QED BY <1>4
<1>6. ASSUME NEW m \in 1..c, c - from - Cardinality(rows) < m, m <= c - from
      PROVE  m \in a..b
  <2> HIDE DEF rows
  <2> QED BY <1>4, <1>6
<1> QED BY <1>1, <1>2, <1>5, <1>6

-----------------------------------------------------------------------------
(* The pages of a conversation.                                            *)

\* The tasks of the two kinds of pages.
LocalTasks == [stage : {"read", "recover", "media"}, older : BOOLEAN,
               generation : Nat, rows : SUBSET Nat]
WechatTasks == [stage : {"read", "accept"}, older : BOOLEAN, offset : Nat,
                rows : SUBSET Nat, size : Nat, limit : Limits, generation : Nat]

\* The types, with those of the tasks.
HistoryTypes ==
    /\ HistoryTypeOK
    /\ generation \in Nat
    /\ localTask \in {NoTask} \cup LocalTasks
    /\ localTask # NoTask => localTask.rows \subseteq 1..count
    /\ wechatTask \in {NoTask} \cup WechatTasks
    /\ wechatTask # NoTask =>
          /\ wechatTask.rows \subseteq 1..count
          /\ wechatTask.offset + wechatTask.size <= wechatTask.limit

\* Until a clearing the cursor is at the oldest row of the pages, and every row
\* from there on is shown; after one nothing is loaded any more.
LocalPages ==
    IF generation = 0
    THEN /\ cleared = {}
         /\ local = {} => cursor = NoCursor
         /\ local # {} => cursor \in local /\ \A m \in local : cursor <= m
         /\ ~loaded => local = {}
         /\ \A m \in db : (local # {} /\ m >= cursor) \/ (loaded /\ ~localMore)
                          => m \in local \cup realtime
    ELSE local = {} /\ loaded /\ ~localMore

\* A page that is loaded has the newest of the rows there were, and those that
\* have come since are shown.
LocalTaskTrue ==
    localTask # NoTask =>
        /\ localTask.generation = 0
        /\ localTask.stage = "recover" => ~localTask.older
        /\ generation = 0 =>
             /\ ~localTask.older => ~loaded
             /\ localTask.stage # "read" =>
                  \E X \in SUBSET db :
                    /\ localTask.rows = Newest(X, Page + 1)
                    /\ \A m \in db \ X : m \in realtime
                                         \/ (localTask.older /\ m >= cursor)
                    /\ localTask.older => \A m \in X : m < cursor

\* What the window shows, or the user has cleared.
Known == wechat \cup realtime \cup cleared

\* The pages of WeChat and what came since the window was there have every
\* message from the oldest of them on, and as many as the offset counts.
WechatPages ==
    /\ MaxOld <= count /\ (MaxOld + 1)..count \subseteq realtime \cup cleared
    /\ ~dropped =>
          /\ \A m \in 1..count : count - offset < m => m \in Known
          /\ \A low \in wechat : low..count \subseteq Known

\* A page that is loaded was at its offset when there were c messages.
WechatTaskTrue ==
    wechatTask # NoTask =>
        /\ wechatTask.offset = IF wechatTask.older THEN offset ELSE 0
        /\ wechatTask.stage = "accept" =>
             \E c \in MaxOld..count :
               /\ wechatTask.rows = PageAt(c, wechatTask.offset, wechatTask.size)
               /\ wechatTask.older /\ ~dropped =>
                    \A m \in 1..c : c - offset < m => m \in Known

\* The inductive invariant: what was cleared is shown by no local page.
LocalInv == LocalPages /\ LocalTaskTrue /\ cleared \cap (local \cup realtime) = {}
WechatInv == WechatPages /\ WechatTaskTrue
HistoryInv == HistoryTypes /\ LocalInv /\ WechatInv

\* The assumptions on the constants.
LEMMA Numbers ==
    /\ Page \in Nat \ {0} /\ Limits \subseteq Nat \ {0} /\ Limits # {}
    /\ MaxOld \in Nat /\ MaxMessages \in Nat /\ MaxOld <= MaxMessages
    /\ MaxVisible \in Nat /\ MaxChanges \in Nat
BY HistoryAssumption

\* A task to load a local page is the one there is or a new one.
LEMMA LocalTaskIs ==
    ASSUME NEW task, NEW older \in BOOLEAN
    PROVE  \/ LocalTask(task, older) = task
           \/ /\ task = NoTask /\ (older \/ ~loaded)
              /\ LocalTask(task, older) =
                   [stage |-> "read", older |-> older, generation |-> generation,
                    rows |-> {}]
BY DEF LocalTask

\* And so is one to load a page of WeChat.
NewWechatTask(task, older, limit) ==
    \E from, size \in Nat :
       /\ from = (IF older THEN offset ELSE 0) /\ from + size <= limit
       /\ task = [stage |-> "read", older |-> older, offset |-> from,
                  rows |-> {}, size |-> size, limit |-> limit,
                  generation |-> generation]

\* _request_wechat_page starts a page only when none is loaded, and below the limit.
LEMMA WechatTaskIs ==
    ASSUME HistoryTypes, NEW task, NEW older \in BOOLEAN, NEW load \in BOOLEAN,
           NEW limit \in Limits
    PROVE  LET new == WechatTask(task, older, load, limit) IN
           \/ new = task
           \/ /\ task = NoTask /\ load /\ (older => wechatMore)
              /\ NewWechatTask(new, older, limit)
<1> DEFINE from == IF older THEN offset ELSE 0
           size == Least(Page, limit - from)
           new == WechatTask(task, older, load, limit)
<1>1. offset \in Nat /\ limit \in Nat /\ Page \in Nat
  BY Numbers DEF HistoryTypes, HistoryTypeOK
<1>2. CASE ~(from >= limit)
  <2>1. from \in Nat /\ size \in Nat /\ from + size <= limit
    BY <1>1, <1>2 DEF Least
  <2>2. \/ new = task
        \/ /\ task = NoTask /\ load /\ (older => wechatMore)
           /\ new = [stage |-> "read", older |-> older, offset |-> from,
                     rows |-> {}, size |-> size, limit |-> limit,
                     generation |-> generation]
    BY <1>1, <1>2, Zenon DEF WechatTask
  <2> HIDE DEF size, new, from
  <2>3. ASSUME new = [stage |-> "read", older |-> older, offset |-> from,
                      rows |-> {}, size |-> size, limit |-> limit,
                      generation |-> generation]
        PROVE  NewWechatTask(new, older, limit)
    BY <2>1, <2>3 DEF NewWechatTask, from
  <2> QED BY <2>2, <2>3 DEF new
<1>3. CASE from >= limit
  <2>1. new = task
    BY <1>3 DEF WechatTask
  <2> QED BY <2>1
<1> QED BY <1>2, <1>3

-----------------------------------------------------------------------------
(* Local pages.                                                            *)

\* Steps that load nothing leave the local pages as they are.
LEMMA LocalQuiet ==
    ASSUME HistoryTypes, LocalInv,
           UNCHANGED <<count, db, realtime, localVars, generation, cleared>>,
           NEW older \in BOOLEAN, older => localMore,
           \/ localTask' \in {localTask, NoTask}
           \/ localTask' = LocalTask(NoTask, older)
    PROVE  LocalInv'
<1>1. (LocalPages /\ cleared \cap (local \cup realtime) = {})'
  BY DEF LocalInv, LocalPages, localVars
<1>2. CASE localTask' \in {localTask, NoTask}
  <2>1. LocalTaskTrue'
    BY <1>2 DEF LocalInv, LocalTaskTrue, localVars, NoTask
  <2> QED BY <1>1, <2>1 DEF LocalInv
<1>3. CASE localTask' = LocalTask(NoTask, older) /\ localTask' # NoTask
  <2>1. /\ localTask'.stage = "read" /\ localTask'.older = older
        /\ localTask'.generation = generation /\ (older \/ ~loaded)
    BY <1>3, LocalTaskIs
  <2>2. generation = 0
    BY <2>1 DEF LocalInv, LocalPages, HistoryTypes, HistoryTypeOK
  <2>3. LocalTaskTrue'
    BY <2>1, <2>2 DEF LocalTaskTrue, localVars
  <2> QED BY <1>1, <2>3 DEF LocalInv
<1> QED BY <1>2, <1>3

\* The rows of a local page are read.
LEMMA ReadKeeps ==
    ASSUME HistoryTypes, LocalInv, LocalRead
    PROVE  LocalInv'
<1>1. /\ localTask \in LocalTasks /\ localTask # NoTask
      /\ UNCHANGED <<count, db, realtime, localVars, generation, cleared>>
  BY DEF LocalRead, HistoryTypes, NoTask, storeVars
<1>2. (LocalPages /\ cleared \cap (local \cup realtime) = {})'
  BY <1>1 DEF LocalInv, LocalPages, localVars
<1>3. /\ localTask'.older = localTask.older
      /\ localTask'.generation = localTask.generation
      /\ localTask'.rows = Rows(localTask.older)
      /\ localTask'.stage = "recover" => ~localTask.older
  BY <1>1 DEF LocalRead, LocalTasks
<1> DEFINE X == IF localTask.older THEN {m \in db : m < cursor} ELSE db
<1>4. Rows(localTask.older) = Newest(X, Page + 1)
  BY DEF Rows
<1>5. /\ X \subseteq db
      /\ \A m \in db \ X : localTask.older /\ m >= cursor
      /\ localTask.older => \A m \in X : m < cursor
  BY Numbers DEF HistoryTypes, HistoryTypeOK, NoCursor
<1> HIDE DEF X
<1>6. LocalTaskTrue'
  BY <1>1, <1>3, <1>4, <1>5 DEF LocalInv, LocalTaskTrue, localVars
<1> QED BY <1>2, <1>6 DEF LocalInv

\* Images are recovered while the first page is loaded, and are in it.
LEMMA RecoverKeeps ==
    ASSUME HistoryTypes, LocalInv, LocalRecover
    PROVE  LocalInv'
<1>1. /\ localTask \in LocalTasks /\ localTask # NoTask
      /\ localTask.stage = "recover" /\ db' = db \cup images
      /\ UNCHANGED <<count, realtime, localVars, generation, cleared>>
  BY DEF LocalRecover, HistoryTypes, NoTask
<1>2. /\ localTask'.older = localTask.older
      /\ localTask'.generation = localTask.generation
      /\ localTask'.stage = "media"
      /\ localTask'.rows = IF images \subseteq db THEN localTask.rows
                           ELSE Newest(db', Page + 1)
  BY <1>1 DEF LocalRecover, LocalTasks
<1>3. ~localTask.older /\ localTask.generation = 0
  BY <1>1 DEF LocalInv, LocalTaskTrue
<1>4. generation = 0 => ~loaded /\ local = {}
  BY <1>1, <1>3 DEF LocalInv, LocalTaskTrue, LocalPages
<1>5. (LocalPages /\ cleared \cap (local \cup realtime) = {})'
  BY <1>1, <1>4 DEF LocalInv, LocalPages, localVars
<1>6. ASSUME generation = 0
      PROVE  \E X \in SUBSET db' :
                /\ localTask'.rows = Newest(X, Page + 1)
                /\ \A m \in db' \ X : m \in realtime
  <2>1. CASE images \subseteq db
    <3>1. db' = db
      BY <1>1, <2>1
    <3>2. localTask'.rows = localTask.rows
      BY <1>2, <2>1
    <3> QED BY <1>1, <1>3, <1>6, <3>1, <3>2 DEF LocalInv, LocalTaskTrue
  <2>2. CASE ~(images \subseteq db)
    BY <1>2, <2>2
  <2> QED BY <2>1, <2>2
<1>7. LocalTaskTrue'
  BY <1>1, <1>2, <1>3, <1>4, <1>6 DEF LocalTaskTrue, localVars
<1> QED BY <1>5, <1>7 DEF LocalInv

\* A page that was asked for before no clearing is put in front of the others,
\* and its rows and theirs are all there are from the new cursor on.
LEMMA EndsKeeps ==
    ASSUME HistoryTypes, LocalInv, LocalEnds
    PROVE  LocalInv'
<1>1. /\ localTask \in LocalTasks /\ localTask # NoTask
      /\ localTask.stage = "media" /\ localTask' = NoTask
      /\ UNCHANGED <<count, db, realtime, generation, cleared>>
  BY DEF LocalEnds, HistoryTypes, NoTask, storeVars
<1>2. LocalTaskTrue'
  BY <1>1 DEF LocalTaskTrue
<1>3. CASE generation # 0
  <2>1. UNCHANGED localVars
    BY <1>1, <1>3 DEF LocalEnds, LocalCurrent, LocalInv, LocalTaskTrue
  <2> QED BY <1>1, <1>2, <1>3, <2>1 DEF LocalInv, LocalPages, localVars
<1>4. CASE generation = 0
  <2> DEFINE older == localTask.older
             page == Newest(localTask.rows, Page)
             more == Cardinality(localTask.rows) > Page
  <2>1. /\ localMore' = more /\ loaded' = TRUE
        /\ cursor' = IF page = {} THEN cursor ELSE Min(page)
        /\ local' = IF older THEN page \cup local ELSE page
    BY <1>1, <1>4 DEF LocalEnds, LocalCurrent, LocalAccept, Accept, LocalInv,
       LocalTaskTrue
  <2>2. PICK X \in SUBSET db :
          /\ localTask.rows = Newest(X, Page + 1)
          /\ \A m \in db \ X : m \in realtime \/ (older /\ m >= cursor)
          /\ older => \A m \in X : m < cursor
    BY <1>1, <1>4 DEF LocalInv, LocalTaskTrue
  <2>3. /\ ~older => local = {}
        /\ cleared = {}
        /\ local = {} => cursor = NoCursor
        /\ local # {} => cursor \in local /\ \A m \in local : cursor <= m
        /\ \A m \in db : local # {} /\ m >= cursor => m \in local \cup realtime
    BY <1>1, <1>4 DEF LocalInv, LocalTaskTrue, LocalPages
  <2>4. /\ count \in Nat /\ db \subseteq 1..count /\ local \subseteq 1..count
        /\ count < NoCursor /\ Page \in Nat \ {0} /\ Page + 1 \in Nat
        /\ cursor \in Nat
    BY Numbers DEF HistoryTypes, HistoryTypeOK, NoCursor
  <2>5. /\ X \subseteq 1..count
        /\ localTask.rows \subseteq X /\ page \subseteq localTask.rows
        /\ page \subseteq 1..count /\ localTask.rows \subseteq 1..count
    BY <2>2, <2>4 DEF Newest
  <2> HIDE DEF page, more, older
  <2>6. \A m \in X, x \in page : x <= m => m \in page
    <3> SUFFICES ASSUME NEW m \in X, NEW x \in page, x <= m PROVE m \in page
      OBVIOUS
    <3>1. x \in Newest(X, Page + 1)
      BY <2>2, <2>5
    <3>2. m \in Newest(X, Page + 1)
      BY <2>4, <2>5, <3>1, NewestIsClosed
    <3>3. m \in localTask.rows
      BY <2>2, <3>2
    <3> QED BY <2>4, <2>5, <3>3, NewestIsClosed DEF page
  <2>7. ~more => page = X
    <3> SUFFICES ASSUME ~more PROVE page = X
      OBVIOUS
    <3>1. IsFiniteSet(localTask.rows) /\ Cardinality(localTask.rows) \in Nat
      BY <2>4, <2>5, FiniteMessages, FS_CardinalityType
    <3>2. Cardinality(localTask.rows) <= Page
      BY <2>4, <3>1 DEF more
    <3>3. localTask.rows = X
      BY <2>2, <2>4, <2>5, <3>2, NewestOfFew
    <3> QED BY <2>4, <2>5, <3>2, <3>3, NewestIsAll DEF page
  <2>8. page # {} => cursor' \in page /\ \A m \in page : cursor' <= m
    <3>1. page \subseteq Nat
      BY <2>5
    <3> QED BY <2>1, <3>1, MinFacts
  <2>9. older => \A m \in page : m < cursor
    BY <2>2, <2>5
  <2>10. /\ local' = {} => cursor' = NoCursor
         /\ local' # {} => cursor' \in local' /\ \A m \in local' : cursor' <= m
    <3>1. CASE page = {}
      BY <2>1, <2>3, <3>1
    <3>2. CASE page # {}
      <4>1. local' = page \cup local
        BY <2>1, <2>3
      <4>2. \A m \in local : cursor' <= m
        <5> SUFFICES ASSUME NEW m \in local PROVE cursor' <= m
          OBVIOUS
        <5>1. older /\ cursor <= m /\ cursor' < cursor
          BY <2>3, <2>8, <2>9, <3>2
        <5>2. cursor' \in page /\ page \subseteq 1..count
          BY <2>5, <2>8, <3>2
        <5>3. cursor' \in 1..count /\ m \in 1..count
          BY <2>4, <5>2, Zenon
        <5>4. \A i \in 1..count : i \in Nat
          BY <2>4
        <5> QED BY <2>4, <5>1, <5>3, <5>4
      <4> QED BY <2>8, <3>2, <4>1, <4>2
    <3> QED BY <3>1, <3>2
  <2>11. ASSUME NEW m \in db, (local' # {} /\ m >= cursor') \/ ~more
         PROVE  m \in local' \cup realtime
    <3>1. local' = page \cup local
      BY <2>1, <2>3
    <3>2. CASE m \notin X
      <4>1. CASE local = {}
        BY <2>2, <2>3, <2>4, <3>2, <4>1
      <4>2. CASE local # {}
        BY <2>2, <2>3, <3>1, <3>2, <4>2
      <4> QED BY <4>1, <4>2
    <3>3. CASE m \in X /\ ~more
      BY <2>7, <3>1, <3>3
    <3>4. CASE m \in X /\ page # {} /\ m >= cursor'
      <4>1. cursor' \in page
        BY <2>8, <3>4
      <4>2. m \in page
        BY <2>4, <2>5, <2>6, <3>4, <4>1
      <4> QED BY <3>1, <4>2
    <3>5. CASE m \in X /\ page = {}
      <4>1. localTask.rows = {}
        BY <2>4, <2>5, <3>5, NewestIsSome DEF page
      <4>2. Page + 1 \in Nat \ {0} /\ X # {}
        BY <2>4, <3>5
      <4>3. Newest(X, Page + 1) # {}
        BY <2>4, <2>5, <4>2, NewestIsSome
      <4> QED BY <2>2, <4>1, <4>3
    <3> QED BY <2>11, <3>2, <3>3, <3>4, <3>5
  <2>12. LocalPages'
    <3>1. \A m \in db : (local' # {} /\ m >= cursor') \/ ~more
                        => m \in local' \cup realtime
      BY <2>11
    <3> QED BY <1>1, <1>4, <2>1, <2>3, <2>10, <3>1 DEF LocalPages
  <2>13. cleared' = {}
    BY <1>1, <2>3
  <2> QED BY <1>2, <2>12, <2>13 DEF LocalInv
<1> QED BY <1>3, <1>4

\* A clearing leaves nothing to load and nothing to show.
LEMMA ClearKeeps ==
    ASSUME HistoryTypes, LocalInv, ClearMessages
    PROVE  LocalInv'
<1>1. /\ generation' = generation + 1 /\ generation' # 0
      /\ local' = {} /\ realtime' = {} /\ loaded' = TRUE /\ localMore' = FALSE
      /\ localTask' \in {localTask, NoTask}
  BY DEF ClearMessages, HistoryTypes, Kept
<1>2. LocalTaskTrue'
  BY <1>1 DEF LocalInv, LocalTaskTrue, NoTask
<1> QED BY <1>1, <1>2 DEF LocalInv, LocalPages

\* A message that arrives is shown.
LEMMA ArriveKeeps ==
    ASSUME HistoryTypes, LocalInv, NEW stored \in BOOLEAN, NEW image \in BOOLEAN,
           Arrive(stored, image)
    PROVE  LocalInv'
<1>1. /\ realtime' = realtime \cup {count'} /\ count' = count + 1
      /\ db' \in {db, db \cup {count'}}
      /\ UNCHANGED <<localVars, generation, localTask, cleared>>
  BY DEF Arrive, taskVars
<1>2. count' \notin cleared
  BY <1>1 DEF HistoryTypes, HistoryTypeOK
<1>3. (LocalPages /\ cleared \cap (local \cup realtime) = {})'
  BY <1>1, <1>2 DEF LocalInv, LocalPages, localVars
<1>4. ASSUME localTask # NoTask, generation = 0, localTask.stage # "read"
      PROVE  \E X \in SUBSET db' :
               /\ localTask.rows = Newest(X, Page + 1)
               /\ \A m \in db' \ X : m \in realtime'
                                     \/ (localTask.older /\ m >= cursor)
               /\ localTask.older => \A m \in X : m < cursor
  <2>1. PICK X \in SUBSET db :
               /\ localTask.rows = Newest(X, Page + 1)
               /\ \A m \in db \ X : m \in realtime
                                     \/ (localTask.older /\ m >= cursor)
               /\ localTask.older => \A m \in X : m < cursor
    BY <1>4 DEF LocalInv, LocalTaskTrue
  <2> QED BY <1>1, <2>1
<1>5. LocalTaskTrue'
  BY <1>1, <1>4 DEF LocalInv, LocalTaskTrue, localVars
<1> QED BY <1>3, <1>5 DEF LocalInv

-----------------------------------------------------------------------------
(* Pages of WeChat.                                                        *)

\* Steps that bring no page of WeChat, and lose nothing that is known.
LEMMA WechatQuiet ==
    ASSUME HistoryTypes, WechatInv,
           UNCHANGED <<count, wechat, offset, dropped>>,
           realtime \cup cleared \subseteq (realtime \cup cleared)',
           \/ wechatTask' \in {wechatTask, NoTask}
           \/ \E older \in BOOLEAN, limit \in Limits :
                 NewWechatTask(wechatTask', older, limit)
    PROVE  WechatInv'
<1>1. Known \subseteq Known'
  BY DEF Known
<1>2. WechatPages'
  BY <1>1 DEF WechatInv, WechatPages
<1>3. CASE wechatTask' = wechatTask
  <2>1. WechatTaskTrue'
    BY <1>1, <1>3 DEF WechatInv, WechatTaskTrue
  <2> QED BY <1>2, <2>1 DEF WechatInv
<1>4. CASE wechatTask' = NoTask
  BY <1>2, <1>4 DEF WechatInv, WechatTaskTrue
<1>5. CASE \E older \in BOOLEAN, limit \in Limits :
              NewWechatTask(wechatTask', older, limit)
  <2>1. /\ wechatTask'.stage = "read"
        /\ wechatTask'.offset = IF wechatTask'.older THEN offset ELSE 0
    BY <1>5 DEF NewWechatTask
  <2>2. WechatTaskTrue'
    BY <2>1 DEF WechatTaskTrue
  <2> QED BY <1>2, <2>2 DEF WechatInv
<1> QED BY <1>3, <1>4, <1>5

\* The page at the offset is read.
LEMMA WechatReadKeeps ==
    ASSUME HistoryTypes, WechatInv, WechatRead
    PROVE  WechatInv'
<1>1. /\ wechatTask \in WechatTasks /\ wechatTask # NoTask
      /\ UNCHANGED <<count, realtime, wechat, offset, dropped, cleared>>
  BY DEF WechatRead, HistoryTypes, NoTask, storeVars, wechatVars
<1>2. WechatPages' /\ Known' = Known
  BY <1>1 DEF WechatInv, WechatPages, Known
<1>3. /\ wechatTask'.older = wechatTask.older
      /\ wechatTask'.offset = wechatTask.offset
      /\ wechatTask'.size = wechatTask.size
      /\ wechatTask'.rows = Newest(1..count, wechatTask.offset + wechatTask.size)
                            \ Newest(1..count, wechatTask.offset)
  BY <1>1 DEF WechatRead, WechatTasks
<1>4. /\ count \in Nat /\ wechatTask.offset \in Nat /\ wechatTask.size \in Nat
  BY <1>1, Numbers DEF HistoryTypes, HistoryTypeOK, WechatTasks
<1>5. wechatTask'.rows = PageAt(count, wechatTask.offset, wechatTask.size)
  <2>1. Newest(1..count, wechatTask.offset + wechatTask.size)
           \ Newest(1..count, wechatTask.offset)
        = PageAt(count, wechatTask.offset, wechatTask.size)
    BY <1>4, PageFacts
  <2> QED BY <1>3, <2>1
<1>6. count \in MaxOld..count
  BY <1>4, Numbers DEF WechatInv, WechatPages
<1>7. wechatTask.offset = IF wechatTask.older THEN offset ELSE 0
  BY <1>1 DEF WechatInv, WechatTaskTrue
<1>8. ~dropped => \A m \in 1..count : count - offset < m => m \in Known
  BY DEF WechatInv, WechatPages
<1>9. WechatTaskTrue'
  BY <1>1, <1>2, <1>3, <1>5, <1>6, <1>7, <1>8 DEF WechatTaskTrue
<1> QED BY <1>2, <1>9 DEF WechatInv

\* Switching the pages off drops them.
LEMMA PreferencesKeep ==
    ASSUME HistoryTypes, WechatInv, NEW load \in BOOLEAN, NEW limit \in Limits,
           SetPreferences(load, limit)
    PROVE  WechatInv'
<1>1. /\ UNCHANGED <<count, realtime, offset, cleared>>
      /\ wechat' = (IF load THEN wechat ELSE {})
      /\ dropped' = (dropped \/ ~load)
      /\ wechatTask' = WechatTask(wechatTask, FALSE, load, limit)
  BY DEF SetPreferences, storeVars
<1>2. \/ wechatTask' = wechatTask
      \/ NewWechatTask(wechatTask', FALSE, limit)
  BY <1>1, WechatTaskIs
<1>3. CASE load
  <2>1. wechat' = wechat /\ dropped' = dropped
    BY <1>1, <1>3 DEF HistoryTypes, HistoryTypeOK
  <2> QED BY <1>1, <1>2, <2>1, WechatQuiet
<1>4. CASE ~load
  <2>1. dropped'
    BY <1>1, <1>4
  <2>2. WechatPages'
    BY <1>1, <2>1 DEF WechatInv, WechatPages
  <2>3. CASE wechatTask' = wechatTask
    BY <1>1, <2>1, <2>2, <2>3 DEF WechatInv, WechatTaskTrue
  <2>4. CASE NewWechatTask(wechatTask', FALSE, limit)
    <3>1. /\ wechatTask'.stage = "read" /\ ~wechatTask'.older
          /\ wechatTask'.offset = 0
      BY <2>4 DEF NewWechatTask
    <3> QED BY <2>2, <3>1 DEF WechatInv, WechatTaskTrue
  <2> QED BY <1>2, <2>3, <2>4
<1> QED BY <1>3, <1>4

\* A message that arrives is known.
LEMMA WechatArriveKeeps ==
    ASSUME HistoryTypes, WechatInv, NEW stored \in BOOLEAN, NEW image \in BOOLEAN,
           Arrive(stored, image)
    PROVE  WechatInv'
<1>1. /\ count' = count + 1 /\ realtime' = realtime \cup {count'}
      /\ UNCHANGED <<wechat, offset, dropped, wechatTask, cleared>>
      /\ count \in Nat /\ MaxOld \in Nat /\ offset \in Nat
      /\ wechat \subseteq 1..count
  BY Numbers DEF Arrive, taskVars, wechatVars, HistoryTypes, HistoryTypeOK
<1>2. Known' = Known \cup {count'}
  BY <1>1 DEF Known
<1>3. /\ MaxOld <= count' /\ (MaxOld + 1)..count' \subseteq (realtime \cup cleared)'
  BY <1>1 DEF WechatInv, WechatPages
<1>4. ASSUME ~dropped
      PROVE  /\ \A m \in 1..count' : count' - offset < m => m \in Known'
             /\ \A low \in wechat : low..count' \subseteq Known'
  <2>1. /\ \A m \in 1..count : count - offset < m => m \in Known
        /\ \A low \in wechat : low..count \subseteq Known
    BY <1>4 DEF WechatInv, WechatPages
  <2>2. \A m \in 1..count' : m \in 1..count \/ m = count'
    BY <1>1
  <2>3. \A low \in wechat : \A m \in low..count' : m \in low..count \/ m = count'
    BY <1>1
  <2>4. \A m \in 1..count : count' - offset < m => count - offset < m
    BY <1>1
  <2> QED BY <1>2, <2>1, <2>2, <2>3, <2>4
<1>5. WechatPages'
  BY <1>1, <1>3, <1>4 DEF WechatPages
<1>6. MaxOld..count \subseteq MaxOld..count'
  BY <1>1
<1>7. WechatTaskTrue'
  BY <1>1, <1>2, <1>6 DEF WechatInv, WechatTaskTrue
<1> QED BY <1>5, <1>7 DEF WechatInv

\* A page that is still wanted is put in front of the others, or begins anew.
LEMMA WechatEndsKeeps ==
    ASSUME HistoryTypes, WechatInv, WechatEnds
    PROVE  WechatInv'
<1>1. /\ wechatTask \in WechatTasks /\ wechatTask # NoTask
      /\ wechatTask.stage = "accept" /\ wechatTask' = NoTask
      /\ UNCHANGED <<count, realtime, cleared>>
  BY DEF WechatEnds, HistoryTypes, NoTask, storeVars
<1>2. CASE ~WechatWanted
  <2>1. UNCHANGED <<wechat, offset, dropped>>
    BY <1>2 DEF WechatEnds, wechatVars
  <2> QED BY <1>1, <2>1, WechatQuiet
<1>3. CASE WechatWanted
  <2> DEFINE older == wechatTask.older
             from == wechatTask.offset
             size == wechatTask.size
             rows == wechatTask.rows
  <2>1. /\ wechat' = IF older THEN rows \cup wechat ELSE rows
        /\ offset' = from + Cardinality(rows)
        /\ dropped' = (dropped /\ older)
    BY <1>3 DEF WechatEnds, WechatPage, NextOffset
  <2>2. PICK c \in MaxOld..count :
          /\ rows = PageAt(c, from, size)
          /\ older /\ ~dropped => \A m \in 1..c : c - offset < m => m \in Known
    BY <1>1 DEF WechatInv, WechatTaskTrue
  <2>3. /\ from = IF older THEN offset ELSE 0
        /\ MaxOld <= count /\ (MaxOld + 1)..count \subseteq realtime \cup cleared
        /\ ~dropped => \A low \in wechat : low..count \subseteq Known
    BY <1>1 DEF WechatInv, WechatTaskTrue, WechatPages
  <2>4. /\ count \in Nat /\ c \in Nat /\ c <= count /\ MaxOld <= c /\ MaxOld \in Nat
        /\ from \in Nat /\ size \in Nat /\ offset \in Nat /\ offset' = from + Cardinality(rows)
        /\ wechat \subseteq 1..count /\ older \in BOOLEAN
    BY <1>1, <2>1, Numbers DEF HistoryTypes, HistoryTypeOK, WechatTasks
  <2> HIDE DEF older, from, size, rows
  <2>5. /\ Cardinality(rows) \in 0..size
        /\ \A m \in 1..c : c - from - Cardinality(rows) < m /\ m <= c - from
                           => m \in rows
    <3>1. LET page == PageAt(c, from, size) IN
          /\ Cardinality(page) \in 0..size
          /\ \A m \in 1..c : c - from - Cardinality(page) < m /\ m <= c - from
                             => m \in page
      BY <2>4, PageFacts
    <3> QED BY <2>2, <3>1
  <2> DEFINE k == Cardinality(rows)
  <2> HIDE DEF k
  <2>6. ASSUME NEW m \in 1..count, m > c
        PROVE  m \in Known'
    <3>1. m \in (MaxOld + 1)..count
      BY <2>4, <2>6
    <3> QED BY <1>1, <2>3, <3>1 DEF Known
  <2>7. ASSUME ~dropped', NEW m \in 1..c, c - from < m
        PROVE  m \in Known'
    <3>1. older
      BY <2>3, <2>4, <2>7
    <3>2. ~dropped
      BY <2>1, <2>7, <3>1
    <3>3. m \in Known
      BY <2>2, <2>3, <2>7, <3>1, <3>2
    <3> QED BY <1>1, <2>1, <3>1, <3>3 DEF Known
  <2>8. rows \subseteq Known'
    BY <2>1 DEF Known
  <2>9. ASSUME ~dropped', NEW m \in 1..count, count - offset' < m
        PROVE  m \in Known'
    <3>1. CASE m > c
      BY <2>6, <3>1
    <3>2. CASE m <= c /\ c - from < m
      <4>1. m \in 1..c
        BY <2>4, <3>2
      <4> QED BY <2>7, <2>9, <3>2, <4>1
    <3>3. CASE m <= c /\ m <= c - from
      <4>1. k \in Nat /\ offset' = from + k
        BY <2>4, <2>5 DEF k
      <4>2. m \in 1..c /\ c - from - k < m
        BY <2>4, <2>9, <3>3, <4>1
      <4>3. m \in rows
        BY <2>5, <3>3, <4>2 DEF k
      <4> QED BY <2>8, <4>3
    <3> QED BY <2>4, <3>1, <3>2, <3>3
  <2>10. ASSUME ~dropped', NEW low \in wechat', NEW m \in low..count
         PROVE  m \in Known'
    <3>1. CASE low \in rows
      <4>1. low \in 1..c /\ c - from - size < low
        BY <2>2, <3>1 DEF PageAt
      <4>2. m \in 1..count /\ low <= m
        BY <2>4, <4>1
      <4>3. CASE m > c
        BY <2>6, <4>2, <4>3
      <4>4. CASE m <= c /\ c - from < m
        <5>1. m \in 1..c
          BY <2>4, <4>2, <4>4
        <5> QED BY <2>7, <2>10, <4>4, <5>1
      <4>5. CASE m <= c /\ m <= c - from
        <5>1. m \in 1..c /\ c - from - size < m
          BY <2>4, <4>1, <4>2, <4>5
        <5>2. m \in rows
          BY <2>2, <4>5, <5>1 DEF PageAt
        <5> QED BY <2>8, <5>2
      <4> QED BY <2>4, <4>2, <4>3, <4>4, <4>5
    <3>2. CASE low \notin rows
      <4>1. older /\ low \in wechat
        BY <2>1, <3>2
      <4>2. ~dropped
        BY <2>1, <2>10, <4>1
      <4>3. m \in Known
        BY <2>3, <4>1, <4>2
      <4> QED BY <1>1, <2>1, <4>1, <4>3 DEF Known
    <3> QED BY <3>1, <3>2
  <2>11. WechatPages'
    BY <1>1, <2>3, <2>9, <2>10 DEF WechatPages
  <2>12. WechatTaskTrue'
    BY <1>1 DEF WechatTaskTrue
  <2> QED BY <2>11, <2>12 DEF WechatInv
<1> QED BY <1>2, <1>3

-----------------------------------------------------------------------------
(* The types.                                                              *)

\* The types hold when the companion starts.
LEMMA HistoryTypesInit == HistoryInit => HistoryTypes
<1> SUFFICES ASSUME HistoryInit PROVE HistoryTypes
  OBVIOUS
<1>1. /\ count \in 0..MaxMessages /\ NoCursor \in 1..NoCursor
      /\ \E limit \in Limits : 0 <= limit
  BY Numbers DEF HistoryInit, NoCursor
<1>2. /\ {loaded, localMore, wechatMore, loadPref, dropped} \subseteq BOOLEAN
      /\ UNION {db, images, realtime, local, wechat, cleared} \subseteq 1..count
  BY DEF HistoryInit
<1>3. HistoryTypeOK
  BY <1>1, <1>2 DEF HistoryInit, HistoryTypeOK
<1> QED BY <1>3 DEF HistoryInit, HistoryTypes

\* The tasks after a step that may end or begin one.
TasksOK ==
    /\ localTask \in {NoTask} \cup LocalTasks
    /\ localTask # NoTask =>
          localTask.rows \subseteq 1..count /\ (localTask.older => pageTask = "local")
    /\ wechatTask \in {NoTask} \cup WechatTasks
    /\ wechatTask # NoTask =>
          /\ wechatTask.rows \subseteq 1..count
          /\ wechatTask.offset + wechatTask.size <= wechatTask.limit
          /\ wechatTask.older => pageTask = "wechat"
    /\ pageTask \in {"none", "local", "wechat"}

\* The tasks' part of the types.
LEMMA TasksAre ==
    HistoryTypes => TasksOK
BY DEF HistoryTypes, HistoryTypeOK, TasksOK

\* The rest of the types, one conjunct for each variable.
ValuesOK ==
    /\ count \in 0..MaxMessages /\ db \subseteq 1..count /\ images \subseteq 1..count
    /\ realtime \subseteq 1..count /\ local \subseteq 1..count
    /\ wechat \subseteq 1..count /\ cleared \subseteq 1..count
    /\ loaded \in BOOLEAN /\ localMore \in BOOLEAN /\ wechatMore \in BOOLEAN
    /\ loadPref \in BOOLEAN /\ dropped \in BOOLEAN
    /\ cursor \in 1..NoCursor /\ limitPref \in Limits
    /\ offset \in Nat /\ \E limit \in Limits : offset <= limit
    /\ generation \in Nat

\* The types are those of the tasks and of the values.
LEMMA TypesAre ==
    HistoryTypes <=> ValuesOK /\ TasksOK
<1>1. HistoryTypes => ValuesOK /\ TasksOK
  BY DEF HistoryTypes, HistoryTypeOK, ValuesOK, TasksOK
<1>2. ASSUME ValuesOK, TasksOK PROVE HistoryTypes
  <2>1. /\ {loaded, localMore, wechatMore, loadPref, dropped} \subseteq BOOLEAN
        /\ UNION {db, images, realtime, local, wechat, cleared} \subseteq 1..count
    BY <1>2 DEF ValuesOK
  <2>2. /\ localTask = NoTask \/ localTask.stage \in {"read", "recover", "media"}
        /\ wechatTask = NoTask \/ wechatTask.stage \in {"read", "accept"}
    BY <1>2 DEF TasksOK, LocalTasks, WechatTasks
  <2>3. HistoryTypeOK
    BY <1>2, <2>1, <2>2 DEF ValuesOK, TasksOK, HistoryTypeOK
  <2> QED BY <1>2, <2>3 DEF ValuesOK, TasksOK, HistoryTypes
<1> QED BY <1>1, <1>2

\* A local page, first or older.
LEMMA NewLocalTask ==
    ASSUME HistoryTypes, NEW older \in BOOLEAN, NEW task \in {NoTask, localTask},
           task # NoTask => ~task.older
    PROVE  LET new == LocalTask(task, older) IN
           /\ new \in {NoTask} \cup LocalTasks
           /\ new # NoTask => /\ new.rows \subseteq 1..count
                              /\ new.older => older
<1>1. generation \in Nat /\ task \in {NoTask} \cup LocalTasks
      /\ (task # NoTask => task.rows \subseteq 1..count)
  BY DEF HistoryTypes
<1> DEFINE new == LocalTask(task, older)
<1>2. CASE new = task
  BY <1>1, <1>2
<1>3. CASE new = [stage |-> "read", older |-> older, generation |-> generation,
                  rows |-> {}]
  <2> HIDE DEF new
  <2>1. new \in LocalTasks /\ new.rows = {} /\ new.older = older
    BY <1>1, <1>3 DEF LocalTasks
  <2> QED BY <2>1 DEF new
<1> QED BY <1>2, <1>3, LocalTaskIs

\* A page of WeChat, first or older.
LEMMA NewWechatIs ==
    ASSUME HistoryTypes, NEW older \in BOOLEAN, NEW load \in BOOLEAN,
           NEW limit \in Limits, NEW task \in {NoTask, wechatTask},
           NEW new, new = WechatTask(task, older, load, limit)
    PROVE  /\ new \in {NoTask} \cup WechatTasks
           /\ new # NoTask => /\ new.rows \subseteq 1..count
                              /\ new.offset + new.size <= new.limit
           /\ new = task \/ (task = NoTask /\ new # NoTask /\ new.older = older)
<1>1. /\ generation \in Nat /\ task \in {NoTask} \cup WechatTasks
      /\ task # NoTask => /\ task.rows \subseteq 1..count
                          /\ task.offset + task.size <= task.limit
  BY DEF HistoryTypes
<1>2. CASE new = task
  BY <1>1, <1>2
<1>3. CASE task = NoTask /\ NewWechatTask(new, older, limit)
  <2>1. PICK from, size \in Nat :
          /\ from + size <= limit
          /\ new = [stage |-> "read", older |-> older, offset |-> from,
                    rows |-> {}, size |-> size, limit |-> limit,
                    generation |-> generation]
    BY <1>3 DEF NewWechatTask
  <2>2. /\ new \in WechatTasks /\ new.rows = {} /\ new.older = older
        /\ new.offset + new.size <= new.limit /\ new # NoTask
    BY <1>1, <2>1 DEF WechatTasks, NoTask
  <2> QED BY <1>3, <2>2
<1>4. \/ new = task
      \/ task = NoTask /\ NewWechatTask(new, older, limit)
  BY WechatTaskIs
<1> QED BY <1>2, <1>3, <1>4

\* A task built by _request_wechat_page holds what it was built from.
LEMMA BuiltTask ==
    ASSUME NEW older \in BOOLEAN, NEW from \in Nat, NEW size \in Nat,
           NEW limit \in Limits, NEW gen \in Nat, NEW new,
           new = [stage |-> "read", older |-> older, offset |-> from,
                  rows |-> {}, size |-> size, limit |-> limit,
                  generation |-> gen]
    PROVE  /\ new \in WechatTasks /\ new # NoTask
           /\ new.rows = {} /\ new.older = older /\ new.offset = from
           /\ new.size = size /\ new.limit = limit
<1>1. /\ new.stage = "read" /\ new.generation = gen /\ new.rows = {}
      /\ new.older = older /\ new.offset = from /\ new.size = size
      /\ new.limit = limit
  OBVIOUS
<1>2. new \in WechatTasks
  <2>1. {} \in SUBSET Nat
    OBVIOUS
  <2>2. "read" \in {"read", "ready"}
    OBVIOUS
  <2> QED BY <2>1, <2>2 DEF WechatTasks
<1>3. new # NoTask
  BY <1>1 DEF NoTask
<1> QED BY <1>1, <1>2, <1>3

\* The first page of WeChat starts at offset 0, whatever the counted offset is.
LEMMA FirstPageTask ==
    ASSUME HistoryTypes, NEW task \in {NoTask, wechatTask},
           NEW load \in BOOLEAN, NEW limit \in Limits, NEW older \in BOOLEAN,
           ~older, NEW new, new = WechatTask(task, older, load, limit)
    PROVE  /\ new \in {NoTask} \cup WechatTasks
           /\ new # NoTask => /\ new.rows \subseteq 1..count
                              /\ new.offset + new.size <= new.limit
           /\ new = task \/ (new # NoTask /\ ~new.older)
<1>1. /\ generation \in Nat /\ limit \in Nat /\ Page \in Nat
      /\ task \in {NoTask} \cup WechatTasks
      /\ task # NoTask => /\ task.rows \subseteq 1..count
                          /\ task.offset + task.size <= task.limit
  BY Numbers DEF HistoryTypes
<1>2. CASE new = task
  BY <1>1, <1>2
<1>3. CASE task = NoTask /\ new # task
  <2> DEFINE from == 0
             size == Least(Page, limit - from)
  <2>1. ~(from >= limit)
    BY <1>3 DEF WechatTask
  <2>2. new = [stage |-> "read", older |-> older, offset |-> from, rows |-> {},
               size |-> size, limit |-> limit, generation |-> generation]
    BY <1>3 DEF WechatTask
  <2>3. from \in Nat /\ size \in Nat /\ from + size <= limit
    BY <1>1, <2>1 DEF Least
  <2> HIDE DEF size, from
  <2>4. /\ new \in WechatTasks /\ new # NoTask
        /\ new.rows = {} /\ new.older = older /\ new.offset = from
        /\ new.size = size /\ new.limit = limit
    BY <1>1, <2>2, <2>3, BuiltTask
  <2>5. new.offset + new.size <= new.limit /\ new.rows \subseteq 1..count
    BY <2>3, <2>4
  <2> QED BY <1>3, <2>4, <2>5
<1>4. task = NoTask \/ new = task
  BY DEF WechatTask
<1> QED BY <1>2, <1>3, <1>4

\* The page of WeChat that a page task asks for.
LEMMA PageAsks ==
    ASSUME HistoryTypes, PageAsksWechat, wechatTask # NoTask => ~wechatTask.older
    PROVE  /\ wechatTask' \in {NoTask} \cup WechatTasks
           /\ wechatTask' # NoTask =>
                /\ wechatTask'.rows \subseteq 1..count
                /\ wechatTask'.offset + wechatTask'.size <= wechatTask'.limit
                /\ wechatTask'.older => pageTask' = "wechat"
           /\ pageTask' \in {"none", "wechat"}
<1>1. wechatTask' = WechatTask(wechatTask, TRUE, loadPref, limitPref)
      /\ loadPref \in BOOLEAN /\ limitPref \in Limits
  BY DEF PageAsksWechat, HistoryTypes, HistoryTypeOK
<1>2. \/ wechatTask' = wechatTask /\ pageTask' = "none"
      \/ wechatTask' # wechatTask /\ pageTask' = "wechat"
  BY DEF PageAsksWechat, Rendered
<1>3. /\ wechatTask' \in {NoTask} \cup WechatTasks
      /\ wechatTask' # NoTask =>
           /\ wechatTask'.rows \subseteq 1..count
           /\ wechatTask'.offset + wechatTask'.size <= wechatTask'.limit
  BY <1>1, NewWechatIs
<1> QED BY <1>2, <1>3

\* Every step keeps the types of the tasks.
LEMMA TasksStep ==
    ASSUME HistoryTypes, HistoryNext
    PROVE  TasksOK'
<1>0. TasksOK
  BY TasksAre
<1>1. CASE LocalRead
  <2>1. /\ localTask \in LocalTasks /\ db \subseteq 1..count
        /\ UNCHANGED <<count, wechatTask, pageTask>>
    BY <1>1 DEF LocalRead, HistoryTypes, HistoryTypeOK, NoTask, storeVars
  <2> DEFINE rows == Rows(localTask.older)
  <2>2. /\ rows \subseteq 1..count /\ \A m \in 1..count : m \in Nat
        /\ localTask # NoTask
    BY <1>1, <2>1 DEF Rows, Newest, LocalRead, NoTask
  <2> HIDE DEF rows
  <2>3. \E stage \in {"media", "recover"} :
          localTask' = [localTask EXCEPT !.rows = rows, !.stage = stage]
    BY <1>1 DEF LocalRead, rows
  <2>4. rows \in SUBSET Nat
    BY <2>2
  <2>5. /\ localTask' \in LocalTasks /\ localTask'.older = localTask.older
        /\ localTask'.rows = rows
    BY <2>1, <2>3, <2>4 DEF LocalTasks
  <2> QED BY <1>0, <2>1, <2>2, <2>5 DEF TasksOK
<1>2. CASE LocalRecover
  <2>1. /\ localTask \in LocalTasks /\ db' \subseteq 1..count
        /\ localTask.rows \subseteq 1..count
        /\ UNCHANGED <<count, wechatTask, pageTask>>
    BY <1>2 DEF LocalRecover, HistoryTypes, HistoryTypeOK, NoTask
  <2> DEFINE rows == IF images \subseteq db THEN localTask.rows
                     ELSE Newest(db', Page + 1)
  <2>2. /\ rows \subseteq 1..count /\ \A m \in 1..count : m \in Nat
    <3>1. Newest(db', Page + 1) \subseteq db'
      BY DEF Newest
    <3>2. count \in Nat
      BY Numbers DEF HistoryTypes, HistoryTypeOK
    <3>3. Newest(db', Page + 1) \subseteq 1..count
      BY <2>1, <3>1
    <3>4. rows \subseteq 1..count
      BY <2>1, <3>3
    <3> QED BY <3>2, <3>4
  <2>3. localTask' = [localTask EXCEPT !.rows = rows, !.stage = "media"]
    BY <1>2, <2>1 DEF LocalRecover, LocalTasks
  <2> HIDE DEF rows
  <2>4. rows \in SUBSET Nat
    BY <2>2
  <2>5. /\ localTask' \in LocalTasks /\ localTask'.older = localTask.older
        /\ localTask'.rows = rows
    BY <2>1, <2>3, <2>4 DEF LocalTasks
  <2>6. localTask # NoTask
    BY <1>2 DEF LocalRecover, NoTask
  <2> QED BY <1>0, <2>1, <2>2, <2>5, <2>6 DEF TasksOK
<1>3. CASE LocalEnds
  <2>1. localTask' = NoTask /\ count' = count /\ localTask # NoTask
    BY <1>3 DEF LocalEnds, storeVars, NoTask
  <2>2. CASE localTask.older
    <3>1. wechatTask # NoTask => ~wechatTask.older
      BY <1>0, <2>1, <2>2 DEF TasksOK
    <3>2. PageAsksWechat
      BY <1>3, <2>2 DEF LocalEnds
    <3> QED BY <2>1, <3>1, <3>2, PageAsks DEF TasksOK
  <2>3. CASE ~localTask.older
    BY <1>0, <1>3, <2>1, <2>3 DEF TasksOK, LocalEnds
  <2> QED BY <2>2, <2>3
<1>4. CASE WechatRead
  <2> DEFINE rows == Newest(1..count, wechatTask.offset + wechatTask.size)
                     \ Newest(1..count, wechatTask.offset)
  <2>1. /\ wechatTask \in WechatTasks /\ wechatTask # NoTask
        /\ UNCHANGED <<count, localTask, pageTask>>
    BY <1>4 DEF WechatRead, HistoryTypes, NoTask, storeVars
  <2>2. /\ rows \subseteq 1..count /\ \A m \in 1..count : m \in Nat
    BY DEF Newest
  <2>3. wechatTask' = [wechatTask EXCEPT !.stage = "accept", !.rows = rows]
    BY <1>4 DEF WechatRead
  <2> HIDE DEF rows
  <2>4. rows \in SUBSET Nat
    BY <2>2
  <2>5. /\ wechatTask' \in WechatTasks /\ wechatTask'.older = wechatTask.older
        /\ wechatTask'.rows = rows
        /\ wechatTask'.offset = wechatTask.offset
        /\ wechatTask'.size = wechatTask.size
        /\ wechatTask'.limit = wechatTask.limit
    BY <2>1, <2>3, <2>4 DEF WechatTasks
  <2> QED BY <1>0, <2>1, <2>2, <2>5 DEF TasksOK
<1>5. CASE WechatFails \/ WechatEnds
  <2>1. wechatTask # NoTask
    <3>1. NoTask.stage = "none"
      BY DEF NoTask
    <3>2. wechatTask.stage \in {"read", "accept"}
      BY <1>5 DEF WechatFails, WechatEnds
    <3> QED BY <3>1, <3>2
  <2>2. /\ wechatTask' = NoTask /\ UNCHANGED <<count, localTask>>
        /\ wechatTask.older => pageTask' = "none"
        /\ ~wechatTask.older => pageTask' = pageTask
    <3>1. CASE WechatFails
      BY <3>1 DEF WechatFails, storeVars
    <3>2. CASE WechatEnds
      BY <3>2 DEF WechatEnds, Rendered, storeVars
    <3> QED BY <1>5, <3>1, <3>2
  <2> QED BY <1>0, <2>1, <2>2 DEF TasksOK
<1>6. CASE RequestOlder
  <2>1. pageTask = "none" /\ count' = count
    BY <1>6 DEF RequestOlder, storeVars
  <2>2. /\ localTask # NoTask => ~localTask.older
        /\ wechatTask # NoTask => ~wechatTask.older
    BY <1>0, <2>1 DEF TasksOK
  <2>3. CASE localMore /\ localTask = NoTask
    <3>1. /\ localTask' = LocalTask(NoTask, TRUE) /\ pageTask' = "local"
          /\ wechatTask' = wechatTask
      BY <1>6, <2>3 DEF RequestOlder
    <3>2. /\ localTask' \in {NoTask} \cup LocalTasks
          /\ localTask' # NoTask => localTask'.rows \subseteq 1..count
      BY <3>1, NewLocalTask
    <3> QED BY <1>0, <2>1, <2>2, <3>1, <3>2 DEF TasksOK
  <2>4. CASE ~(localMore /\ localTask = NoTask)
    <3>1. PageAsksWechat /\ localTask' = localTask
      BY <1>6, <2>4 DEF RequestOlder
    <3> QED BY <1>0, <2>1, <2>2, <3>1, PageAsks DEF TasksOK
  <2> QED BY <2>3, <2>4
<1>7. CASE Select
  <2>1. /\ pageTask' = "none" /\ count' = count
        /\ localTask' = LocalTask(Kept(localTask), FALSE)
        /\ wechatTask' = WechatTask(Kept(wechatTask), FALSE, loadPref, limitPref)
    BY <1>7 DEF Select, CancelPage, storeVars
  <2>2. /\ Kept(localTask) \in {NoTask, localTask}
        /\ Kept(localTask) # NoTask => ~Kept(localTask).older
        /\ Kept(wechatTask) \in {NoTask, wechatTask}
        /\ Kept(wechatTask) # NoTask => ~Kept(wechatTask).older
        /\ loadPref \in BOOLEAN /\ limitPref \in Limits
    BY DEF Kept, HistoryTypes, HistoryTypeOK
  <2>3. /\ localTask' \in {NoTask} \cup LocalTasks
        /\ localTask' # NoTask => /\ localTask'.rows \subseteq 1..count
                                  /\ ~localTask'.older
    BY <2>1, <2>2, NewLocalTask
  <2>4. /\ wechatTask' \in {NoTask} \cup WechatTasks
        /\ wechatTask' # NoTask =>
             /\ wechatTask'.rows \subseteq 1..count
             /\ wechatTask'.offset + wechatTask'.size <= wechatTask'.limit
        /\ \/ wechatTask' = Kept(wechatTask)
           \/ wechatTask' # NoTask /\ ~wechatTask'.older
    <3> DEFINE older == FALSE
    <3>1. older \in BOOLEAN /\ ~older
      OBVIOUS
    <3>2. wechatTask' = WechatTask(Kept(wechatTask), older, loadPref, limitPref)
      BY <2>1
    <3> HIDE DEF older
    <3> QED BY <2>2, <3>1, <3>2, FirstPageTask
  <2>5. wechatTask' # NoTask => ~wechatTask'.older
    BY <2>2, <2>4
  <2> QED BY <2>1, <2>3, <2>4, <2>5 DEF TasksOK
<1>8. CASE ReturnToLatest \/ ClearMessages
  <2>1. /\ pageTask' = "none" /\ count' = count
        /\ localTask' = Kept(localTask) /\ wechatTask' = Kept(wechatTask)
    BY <1>8 DEF ReturnToLatest, ClearMessages, CancelPage, storeVars
  <2> QED BY <1>0, <2>1 DEF TasksOK, Kept
<1>9. CASE \E load \in BOOLEAN, limit \in Limits : SetPreferences(load, limit)
  <2>1. PICK load \in BOOLEAN, limit \in Limits :
          /\ wechatTask' = WechatTask(wechatTask, FALSE, load, limit)
          /\ UNCHANGED <<count, localTask, pageTask>>
    BY <1>9 DEF SetPreferences, storeVars
  <2>2. /\ wechatTask' \in {NoTask} \cup WechatTasks
        /\ wechatTask' # NoTask =>
             /\ wechatTask'.rows \subseteq 1..count
             /\ wechatTask'.offset + wechatTask'.size <= wechatTask'.limit
        /\ \/ wechatTask' = wechatTask
           \/ wechatTask' # NoTask /\ ~wechatTask'.older
    <3> DEFINE older == FALSE
    <3>1. older \in BOOLEAN /\ ~older
      OBVIOUS
    <3>2. /\ wechatTask' = WechatTask(wechatTask, older, load, limit)
          /\ wechatTask \in {NoTask, wechatTask}
      BY <2>1
    <3> HIDE DEF older
    <3> QED BY <3>1, <3>2, FirstPageTask
  <2> QED BY <1>0, <2>1, <2>2 DEF TasksOK
<1>10. CASE \E stored, image \in BOOLEAN : Arrive(stored, image)
  <2>1. /\ count' = count + 1 /\ UNCHANGED taskVars /\ count \in Nat
    BY <1>10, Numbers DEF Arrive, HistoryTypes, HistoryTypeOK
  <2>2. 1..count \subseteq 1..count'
    BY <2>1
  <2> QED BY <1>0, <2>1, <2>2 DEF TasksOK, taskVars
<1> QED BY <1>1, <1>2, <1>3, <1>4, <1>5, <1>6, <1>7, <1>8, <1>9, <1>10
     DEF HistoryNext

\* Every step keeps the types of the values.
LEMMA ValuesStep ==
    ASSUME HistoryTypes, WechatInv, HistoryNext
    PROVE  ValuesOK'
<1>0. ValuesOK /\ TasksOK
  BY TypesAre
<1>1. CASE LocalRead \/ WechatRead \/ WechatFails \/ RequestOlder \/ Select
           \/ ReturnToLatest
  <2>1. /\ UNCHANGED <<storeVars, realtime, localVars, wechat, offset, dropped,
                       prefVars, generation, cleared>>
        /\ wechatMore' \in {wechatMore, TRUE}
    <3>1. CASE LocalRead
      BY <3>1 DEF LocalRead, wechatVars
    <3>2. CASE WechatRead
      BY <3>2 DEF WechatRead, wechatVars
    <3>3. CASE WechatFails
      BY <3>3 DEF WechatFails
    <3>4. CASE RequestOlder
      BY <3>4 DEF RequestOlder, wechatVars
    <3>5. CASE Select
      BY <3>5 DEF Select, wechatVars
    <3>6. CASE ReturnToLatest
      BY <3>6 DEF ReturnToLatest, wechatVars
    <3> QED BY <1>1, <3>1, <3>2, <3>3, <3>4, <3>5, <3>6
  <2> QED BY <1>0, <2>1 DEF ValuesOK, storeVars, localVars, prefVars
<1>2. CASE LocalRecover
  BY <1>0, <1>2 DEF LocalRecover, ValuesOK, localVars, wechatVars, prefVars
<1>3. CASE LocalEnds
  <2> DEFINE page == Newest(localTask.rows, Page)
  <2>1. UNCHANGED <<storeVars, realtime, wechatVars, prefVars, generation, cleared>>
    BY <1>3 DEF LocalEnds
  <2>2. CASE UNCHANGED localVars
    BY <1>0, <2>1, <2>2 DEF ValuesOK, storeVars, wechatVars, prefVars, localVars
  <2>3. CASE ~UNCHANGED localVars
    <3>1. /\ localMore' = (Cardinality(localTask.rows) > Page) /\ loaded' = TRUE
          /\ cursor' = IF page = {} THEN cursor ELSE Min(page)
          /\ local' \in {page \cup local, page}
      BY <1>3, <2>3 DEF LocalEnds, LocalAccept, Accept
    <3>2. page \subseteq 1..count /\ count \in 0..MaxMessages
      BY <1>0, <1>3 DEF LocalEnds, Newest, TasksOK, NoTask, ValuesOK
    <3> HIDE DEF page
    <3>3. cursor' \in 1..NoCursor
      <4>1. page \subseteq Nat
        BY <3>2
      <4>2. CASE page # {}
        <5>1. cursor' \in page
          BY <3>1, <4>1, <4>2, MinFacts
        <5> QED BY <3>2, <5>1, Numbers DEF NoCursor
      <4>3. CASE page = {}
        BY <1>0, <3>1, <4>3 DEF ValuesOK
      <4> QED BY <4>2, <4>3
    <3>4. localMore' \in BOOLEAN /\ loaded' \in BOOLEAN
      BY <3>1
    <3> QED BY <1>0, <2>1, <3>1, <3>2, <3>3, <3>4
            DEF ValuesOK, storeVars, wechatVars, prefVars
  <2> QED BY <2>2, <2>3
<1>4. CASE WechatEnds
  <2>1. UNCHANGED <<storeVars, realtime, localVars, prefVars, generation, cleared>>
    BY <1>4 DEF WechatEnds
  <2>2. CASE ~WechatWanted
    <3>1. UNCHANGED wechatVars
      BY <1>4, <2>2 DEF WechatEnds
    <3> QED BY <1>0, <2>1, <3>1 DEF ValuesOK, storeVars, localVars, prefVars, wechatVars
  <2>3. CASE WechatWanted
    <3>1. wechatTask \in WechatTasks /\ wechatTask # NoTask
      BY <1>0, <1>4 DEF TasksOK, WechatEnds, NoTask
    <3>2. /\ wechat' \in {wechatTask.rows \cup wechat, wechatTask.rows}
          /\ offset' = wechatTask.offset + Cardinality(wechatTask.rows)
          /\ dropped' \in BOOLEAN /\ wechatMore' \in BOOLEAN
      BY <1>4, <2>3 DEF WechatEnds, WechatPage, NextOffset
    <3>3. wechat' \subseteq 1..count
      BY <1>0, <3>1, <3>2 DEF TasksOK, ValuesOK
    <3>4. offset' \in Nat /\ \E limit \in Limits : offset' <= limit
      <4>1. /\ wechatTask.offset \in Nat /\ wechatTask.size \in Nat
            /\ wechatTask.limit \in Limits /\ Limits \subseteq Nat
            /\ wechatTask.offset + wechatTask.size <= wechatTask.limit
            /\ count \in Nat /\ MaxOld \in Nat
        BY <1>0, <3>1, Numbers DEF TasksOK, ValuesOK, WechatTasks
      <4>2. PICK c \in MaxOld..count :
              wechatTask.rows = PageAt(c, wechatTask.offset, wechatTask.size)
        BY <1>4, <3>1 DEF WechatEnds, WechatInv, WechatTaskTrue
      <4>3. c \in Nat
        BY <4>1
      <4>4. Cardinality(PageAt(c, wechatTask.offset, wechatTask.size))
               \in 0..wechatTask.size
        BY <4>1, <4>3, PageFacts
      <4>5. Cardinality(wechatTask.rows) \in 0..wechatTask.size
        BY <4>2, <4>4
      <4>6. offset' \in Nat /\ offset' <= wechatTask.limit
        <5> DEFINE k == Cardinality(wechatTask.rows)
                   limit == wechatTask.limit
        <5>1. k \in Nat /\ k <= wechatTask.size /\ limit \in Nat
          <6>1. Cardinality(wechatTask.rows) \in Nat
                /\ Cardinality(wechatTask.rows) <= wechatTask.size
            BY <4>1, <4>5
          <6>2. limit \in Nat
            BY <4>1
          <6> QED BY <6>1, <6>2
        <5>2. offset' = wechatTask.offset + k
          BY <3>2
        <5> HIDE DEF k, limit
        <5>3. wechatTask.offset + wechatTask.size <= limit
          BY <4>1 DEF limit
        <5>4. offset' \in Nat /\ offset' <= limit
          BY <4>1, <5>1, <5>2, <5>3
        <5> QED BY <5>4 DEF limit
      <4> QED BY <4>1, <4>6
    <3> QED BY <1>0, <2>1, <3>2, <3>3, <3>4
            DEF ValuesOK, storeVars, localVars, prefVars
  <2> QED BY <2>2, <2>3
<1>5. CASE \E load \in BOOLEAN, limit \in Limits : SetPreferences(load, limit)
  <2>1. PICK load \in BOOLEAN, limit \in Limits : SetPreferences(load, limit)
    BY <1>5
  <2>2. /\ UNCHANGED <<storeVars, realtime, localVars, wechatMore, offset,
                       generation, cleared>>
        /\ loadPref' = load /\ limitPref' = limit /\ wechat' \in {wechat, {}}
        /\ dropped' \in BOOLEAN
    BY <2>1 DEF SetPreferences
  <2> QED BY <1>0, <2>2 DEF ValuesOK, storeVars, localVars
<1>6. CASE ClearMessages
  <2>1. NoCursor \in 1..NoCursor
    BY Numbers DEF NoCursor
  <2>2. /\ UNCHANGED <<count, images, wechatVars, loadPref, limitPref>>
        /\ cleared' = cleared \cup db \cup realtime \cup local
        /\ db' = {} /\ local' = {} /\ realtime' = {}
        /\ generation' = generation + 1
        /\ loaded' = TRUE /\ localMore' = FALSE /\ cursor' = NoCursor
    BY <1>6 DEF ClearMessages
  <2>3. cleared' \subseteq 1..count
    BY <1>0, <2>2 DEF ValuesOK
  <2>4. generation' \in Nat /\ cursor' \in 1..NoCursor
    BY <1>0, <2>1, <2>2 DEF ValuesOK
  <2> QED BY <1>0, <2>2, <2>3, <2>4 DEF ValuesOK, wechatVars
<1>7. CASE \E stored, image \in BOOLEAN : Arrive(stored, image)
  <2>1. /\ count' = count + 1 /\ count' \in 0..MaxMessages
        /\ UNCHANGED <<localVars, wechatVars, prefVars, generation, cleared>>
        /\ realtime' = realtime \cup {count'}
        /\ db' \subseteq db \cup {count'} /\ images' \subseteq images \cup {count'}
    BY <1>0, <1>7, Numbers DEF Arrive, ValuesOK
  <2>2. 1..count \subseteq 1..count' /\ count' \in 1..count'
    BY <1>0, <2>1 DEF ValuesOK
  <2> QED BY <1>0, <2>1, <2>2 DEF ValuesOK, localVars, wechatVars, prefVars
<1> QED BY <1>1, <1>2, <1>3, <1>4, <1>5, <1>6, <1>7 DEF HistoryNext

-----------------------------------------------------------------------------
(* The invariant.                                                          *)

\* What a page task asks of WeChat.
LEMMA AskedTask ==
    ASSUME HistoryTypes
    PROVE  LET new == WechatTask(wechatTask, TRUE, loadPref, limitPref) IN
           new = wechatTask \/ NewWechatTask(new, TRUE, limitPref)
<1>1. loadPref \in BOOLEAN /\ limitPref \in Limits /\ TRUE \in BOOLEAN
  BY DEF HistoryTypes, HistoryTypeOK
<1>2. \A load \in BOOLEAN, limit \in Limits :
        LET new == WechatTask(wechatTask, TRUE, load, limit) IN
        new = wechatTask \/ NewWechatTask(new, TRUE, limit)
  BY WechatTaskIs
<1> QED BY <1>1, <1>2

\* The invariant holds when the companion starts.
LEMMA HistoryInvInit == HistoryInit => HistoryInv
<1> SUFFICES ASSUME HistoryInit PROVE HistoryInv
  OBVIOUS
<1>1. HistoryTypes
  BY HistoryTypesInit
<1>2. LocalInv
  BY DEF HistoryInit, LocalInv, LocalPages, LocalTaskTrue
<1>3. (MaxOld + 1)..count = {} /\ MaxOld <= count
  BY Numbers DEF HistoryInit
<1>4. \A m \in 1..count : ~(count - offset < m)
  BY Numbers DEF HistoryInit
<1>5. WechatInv
  BY <1>3, <1>4 DEF HistoryInit, WechatInv, WechatPages, WechatTaskTrue
<1> QED BY <1>1, <1>2, <1>5 DEF HistoryInv

\* Every step of the window and of its threads keeps the invariant.
LEMMA HistoryInvStep == HistoryInv /\ [HistoryNext]_historyPageVars => HistoryInv'
<1> SUFFICES ASSUME HistoryInv, [HistoryNext]_historyPageVars PROVE HistoryInv'
  OBVIOUS
<1>0. HistoryTypes /\ LocalInv /\ WechatInv
  BY DEF HistoryInv
<1>1. CASE UNCHANGED historyPageVars
  <2>1. /\ UNCHANGED <<count, db, images, realtime, cleared, generation, pageTask>>
        /\ UNCHANGED <<local, loaded, localMore, cursor, loadPref, limitPref>>
        /\ UNCHANGED <<wechat, wechatMore, offset, dropped, localTask, wechatTask>>
    BY <1>1 DEF historyPageVars, storeVars, localVars, wechatVars, prefVars, taskVars
  <2>2. HistoryTypes'
    <3>1. ValuesOK' /\ TasksOK'
      BY <1>0, <2>1, TypesAre DEF ValuesOK, TasksOK
    <3>2. (HistoryTypes <=> ValuesOK /\ TasksOK)'
      BY TypesAre, PTL
    <3> QED BY <3>1, <3>2
  <2>3. LocalInv'
    BY <1>0, <2>1 DEF LocalInv, LocalPages, LocalTaskTrue
  <2>4. WechatInv'
    BY <1>0, <2>1, WechatQuiet
  <2> QED BY <2>2, <2>3, <2>4 DEF HistoryInv
<1>2. CASE HistoryNext
  <2>1. HistoryTypes'
    <3>1. ValuesOK' /\ TasksOK'
      BY <1>0, <1>2, ValuesStep, TasksStep
    <3>2. (HistoryTypes <=> ValuesOK /\ TasksOK)'
      BY TypesAre, PTL
    <3> QED BY <3>1, <3>2
  <2>2. LocalInv' /\ WechatInv'
    <3>1. CASE LocalRead
      <4>1. LocalInv'
        BY <1>0, <3>1, ReadKeeps
      <4>2. WechatInv'
        BY <1>0, <3>1, WechatQuiet DEF LocalRead, storeVars, wechatVars
      <4> QED BY <4>1, <4>2
    <3>2. CASE LocalRecover
      <4>1. LocalInv'
        BY <1>0, <3>2, RecoverKeeps
      <4>2. WechatInv'
        BY <1>0, <3>2, WechatQuiet DEF LocalRecover, wechatVars
      <4> QED BY <4>1, <4>2
    <3>3. CASE LocalEnds
      <4>1. LocalInv'
        BY <1>0, <3>3, EndsKeeps
      <4>2. \/ wechatTask' = wechatTask
            \/ wechatTask' = WechatTask(wechatTask, TRUE, loadPref, limitPref)
        BY <3>3 DEF LocalEnds, PageAsksWechat
      <4>3. loadPref \in BOOLEAN /\ limitPref \in Limits
        BY <1>0 DEF HistoryTypes, HistoryTypeOK
      <4>4. \/ wechatTask' = wechatTask
            \/ NewWechatTask(wechatTask', TRUE, limitPref)
        BY <1>0, <4>2, <4>3, AskedTask
      <4>5. UNCHANGED <<count, wechat, offset, dropped, realtime, cleared>>
        BY <3>3 DEF LocalEnds, storeVars, wechatVars
      <4>6. WechatInv'
        BY <1>0, <4>3, <4>4, <4>5, WechatQuiet
      <4> QED BY <4>1, <4>6
    <3>4. CASE WechatRead
      <4>1. WechatInv'
        BY <1>0, <3>4, WechatReadKeeps
      <4>2. LocalInv'
        BY <1>0, <3>4, LocalQuiet DEF WechatRead, storeVars
      <4> QED BY <4>1, <4>2
    <3>5. CASE WechatFails
      <4>1. WechatInv'
        BY <1>0, <3>5, WechatQuiet DEF WechatFails, storeVars
      <4>2. LocalInv'
        BY <1>0, <3>5, LocalQuiet DEF WechatFails, storeVars
      <4> QED BY <4>1, <4>2
    <3>6. CASE WechatEnds
      <4>1. WechatInv'
        BY <1>0, <3>6, WechatEndsKeeps
      <4>2. LocalInv'
        BY <1>0, <3>6, LocalQuiet DEF WechatEnds, storeVars
      <4> QED BY <4>1, <4>2
    <3>7. CASE RequestOlder
      <4>1. UNCHANGED <<count, db, realtime, localVars, generation, cleared,
                        wechat, offset, dropped>>
        BY <3>7 DEF RequestOlder, storeVars, wechatVars
      <4>2. \/ localTask' = localTask
            \/ localMore /\ localTask' = LocalTask(NoTask, TRUE)
        BY <3>7 DEF RequestOlder
      <4>3. \/ wechatTask' = wechatTask
            \/ wechatTask' = WechatTask(wechatTask, TRUE, loadPref, limitPref)
        BY <3>7 DEF RequestOlder, PageAsksWechat
      <4>4. loadPref \in BOOLEAN /\ limitPref \in Limits
        BY <1>0 DEF HistoryTypes, HistoryTypeOK
      <4>5. \/ wechatTask' = wechatTask
            \/ NewWechatTask(wechatTask', TRUE, limitPref)
        BY <1>0, <4>3, <4>4, AskedTask
      <4>6. LocalInv'
        BY <1>0, <4>1, <4>2, LocalQuiet
      <4>7. WechatInv'
        BY <1>0, <4>1, <4>4, <4>5, WechatQuiet
      <4> QED BY <4>6, <4>7
    <3>8. CASE Select
      <4>1. /\ UNCHANGED <<count, db, realtime, localVars, generation, cleared,
                           wechat, offset, dropped>>
            /\ localTask' = LocalTask(Kept(localTask), FALSE)
            /\ wechatTask' = WechatTask(Kept(wechatTask), FALSE, loadPref, limitPref)
        BY <3>8 DEF Select, storeVars, wechatVars
      <4>2. /\ Kept(localTask) \in {localTask, NoTask}
            /\ Kept(wechatTask) \in {wechatTask, NoTask}
        BY DEF Kept
      <4>3. \/ localTask' \in {localTask, NoTask}
            \/ localTask' = LocalTask(NoTask, FALSE)
        BY <4>1, <4>2, LocalTaskIs
      <4>4. loadPref \in BOOLEAN /\ limitPref \in Limits
        BY <1>0 DEF HistoryTypes, HistoryTypeOK
      <4>5. \/ wechatTask' \in {wechatTask, NoTask}
            \/ NewWechatTask(wechatTask', FALSE, limitPref)
        BY <1>0, <4>1, <4>2, <4>4, WechatTaskIs
      <4>6. LocalInv'
        BY <1>0, <4>1, <4>3, LocalQuiet
      <4>7. WechatInv'
        BY <1>0, <4>1, <4>4, <4>5, WechatQuiet
      <4> QED BY <4>6, <4>7
    <3>9. CASE ReturnToLatest
      <4>1. LocalInv'
        BY <1>0, <3>9, LocalQuiet DEF ReturnToLatest, storeVars, Kept
      <4>2. WechatInv'
        BY <1>0, <3>9, WechatQuiet DEF ReturnToLatest, storeVars, wechatVars, Kept
      <4> QED BY <4>1, <4>2
    <3>10. CASE \E load \in BOOLEAN, limit \in Limits : SetPreferences(load, limit)
      <4>1. WechatInv'
        BY <1>0, <3>10, PreferencesKeep
      <4>2. LocalInv'
        BY <1>0, <3>10, LocalQuiet DEF SetPreferences, storeVars
      <4> QED BY <4>1, <4>2
    <3>11. CASE ClearMessages
      <4>1. LocalInv'
        BY <1>0, <3>11, ClearKeeps
      <4>2. WechatInv'
        BY <1>0, <3>11, WechatQuiet DEF ClearMessages, wechatVars, Kept
      <4> QED BY <4>1, <4>2
    <3>12. CASE \E stored, image \in BOOLEAN : Arrive(stored, image)
      BY <1>0, <3>12, ArriveKeeps, WechatArriveKeeps
    <3> QED BY <1>2, <3>1, <3>2, <3>3, <3>4, <3>5, <3>6, <3>7, <3>8, <3>9, <3>10,
               <3>11, <3>12 DEF HistoryNext
  <2> QED BY <2>1, <2>2 DEF HistoryInv
<1> QED BY <1>1, <1>2

\* What the pages hold, in every reachable state.
THEOREM HistoryInvariance == HistorySpec => []HistoryInv
<1> QED BY HistoryInvInit, HistoryInvStep, PTL DEF HistorySpec

\* The pages of the companion window (controller.py load_local_history_async,
\* _load_wechat_page and clear_local_messages) have no hole and show nothing
\* that was cleared, for any page size, limits and numbers of messages.
THEOREM PagesAlwaysTrue == HistorySpec => []PagesAreTrue
<1>1. ASSUME HistoryInv PROVE PagesAreTrue
  <2>1. /\ local \subseteq Nat /\ wechat \subseteq Nat
        /\ {loaded, localMore} \subseteq BOOLEAN /\ cursor \in Nat
        /\ db \subseteq Nat
    BY <1>1, Numbers DEF HistoryInv, HistoryTypes, HistoryTypeOK, NoCursor
  <2>2. NoHole
    <3>1. ASSUME NEW m \in db, local # {}, m >= Min(local)
          PROVE  m \in local \cup realtime
      <4>1. /\ generation = 0 /\ cursor \in local /\ \A x \in local : cursor <= x
        BY <1>1, <3>1 DEF HistoryInv, LocalInv, LocalPages
      <4>2. Min(local) \in local /\ \A x \in local : Min(local) <= x
        BY <2>1, <3>1, MinFacts
      <4>3. m >= cursor
        <5>1. /\ Min(local) \in Nat /\ m \in Nat
              /\ cursor <= Min(local)
          BY <2>1, <4>1, <4>2
        <5> QED BY <2>1, <3>1, <5>1
      <4> QED BY <1>1, <3>1, <4>1, <4>3 DEF HistoryInv, LocalInv, LocalPages
    <3>2. ASSUME NEW m \in db, loaded, ~localMore, generation = 0
          PROVE  m \in local \cup realtime
      BY <1>1, <3>2 DEF HistoryInv, LocalInv, LocalPages
    <3> QED BY <3>1, <3>2 DEF NoHole
  <2>3. WechatNoHole
    <3>1. wechat # {} => Min(wechat) \in wechat
      BY <2>1, MinFacts
    <3> QED BY <1>1, <3>1 DEF HistoryInv, WechatInv, WechatPages, WechatNoHole, Known
  <2>4. ClearedStaysCleared
    BY <1>1 DEF HistoryInv, LocalInv, ClearedStaysCleared
  <2> QED BY <2>2, <2>3, <2>4 DEF PagesAreTrue
<1> QED BY <1>1, HistoryInvariance, PTL

-----------------------------------------------------------------------------
(* The cards of a conversation.                                            *)

\* The values of the variables.
JobTypes == [stage : {"new", "running", "replying", "done"},
             parts : 0..MaxParts, sent : 0..MaxParts]
RowTypes == [says : Jobs \X Parts, key : (Jobs \X Parts) \cup {NoKey},
             status : RowStatus]
CardStatus == RowStatus \cup {"generating", "generated", "generation_failed"}
CardTypes == [job : Jobs \cup {NoReply}, status : CardStatus, expected : Nat,
              ids : Seq(Nat), states : Seq(RowStatus)]

EntriesTypes ==
    /\ job \in [Jobs -> JobTypes]
    /\ outbox \in Seq(RowTypes) /\ Len(outbox) <= MaxDeliveries
    /\ worker \in {0} \cup Deliveries
    /\ toldCards \in [Deliveries -> RowStatus]
    /\ cards \in Seq(CardTypes)
    /\ agentEntries \in [Jobs -> 0..Len(cards)]
    /\ sourceEntries \in [Jobs \X Parts -> 0..Len(cards)]
    /\ deliveryEntries \in [1..MaxDeliveries -> 0..Len(cards)]

\* A reply is sent part by part.
JobsOK ==
    \A j \in Jobs : /\ job[j].sent <= job[j].parts
                    /\ job[j].stage \in {"new", "running"} => job[j].parts = 0
                    /\ job[j].stage = "replying" => job[j].parts > 0

\* The companion was told of every row, but for its expiry; a part of a reply
\* that has lost its card has lost the card of the reply.
RowOK(d) ==
    /\ \/ toldCards[d] = outbox[d].status
       \/ outbox[d].status = "expired" /\ toldCards[d] \in Waiting
    /\ outbox[d].key # NoKey =>
         /\ outbox[d].key[2] <= job[outbox[d].key[1]].sent
         /\ deliveryEntries[d] = 0 => sourceEntries[outbox[d].key] = 0
\* The rows of the table.
RowsOK == \A d \in Deliveries : RowOK(d)

\* The card of a job has its parts in their order, and is found by its job
\* while that runs, by its parts when it has been answered.
ReplyCardOK(i) ==
    LET j == cards[i].job
        n == job[j].parts
    IN /\ Len(cards[i].ids) = job[j].sent
       /\ \A k \in 1..Len(cards[i].ids) : outbox[cards[i].ids[k]].key = <<j, k>>
       /\ \/ job[j].stage = "running" /\ agentEntries[j] = i
          \/ job[j].stage = "done" /\ n = 0
          \/ /\ job[j].stage \in {"replying", "done"} /\ n > 0
             /\ cards[i].expected = n
             /\ \A p \in 1..n : sourceEntries[<<j, p>>] = i

\* A card has what the companion was told last of each of its deliveries.
CardOK(i) ==
    /\ Len(cards[i].states) = Len(cards[i].ids)
    /\ \A k \in 1..Len(cards[i].ids) :
         /\ cards[i].ids[k] \in Deliveries
         /\ cards[i].states[k] = toldCards[cards[i].ids[k]]
         /\ deliveryEntries[cards[i].ids[k]] = i
    /\ cards[i].status = "sent" =>
         /\ Len(cards[i].ids) >= cards[i].expected /\ Len(cards[i].ids) > 0
         /\ \A k \in 1..Len(cards[i].ids) : cards[i].states[k] = "sent"
    /\ cards[i].job # NoReply => ReplyCardOK(i)
\* The cards of the conversation.
CardsOK == \A i \in 1..Len(cards) : CardOK(i)

\* The positions that are kept are those of the right cards.
PositionsOK ==
    /\ \A j \in Jobs : agentEntries[j] # 0 =>
         cards[agentEntries[j]].job = j /\ job[j].stage = "running"
    /\ \A key \in Jobs \X Parts : sourceEntries[key] # 0 =>
         /\ cards[sourceEntries[key]].job = key[1]
         /\ job[key[1]].stage \in {"replying", "done"} /\ key[2] <= job[key[1]].parts
    /\ \A d \in 1..MaxDeliveries : deliveryEntries[d] # 0 =>
         /\ d \in Deliveries
         /\ \E k \in 1..Len(cards[deliveryEntries[d]].ids) :
              cards[deliveryEntries[d]].ids[k] = d

\* All of it.
EntriesInv == EntriesTypes /\ JobsOK /\ RowsOK /\ CardsOK /\ PositionsOK

-----------------------------------------------------------------------------
(* The status of a card.                                                   *)

\* The assumption on the constants.
LEMMA Bounds ==
    /\ MaxReplies \in Nat /\ MaxParts \in Nat /\ MaxDeliveries \in Nat
    /\ MaxCardClears \in Nat
  BY EntriesAssumption

\* What is found in a list of statuses is one of them, or "queued".
LEMMA FirstIsListed ==
    ASSUME NEW order \in Seq(RowStatus), NEW shown
    PROVE  FirstOf(order, shown) \in {"queued"} \cup {order[i] : i \in 1..Len(order)}
<1> DEFINE hits == {i \in DOMAIN order : order[i] \in shown}
<1>1. DOMAIN order = 1..Len(order) /\ Len(order) \in Nat
  OBVIOUS
<1>2. CASE hits = {}
  BY <1>2 DEF FirstOf
<1>3. CASE hits # {}
  <2>1. hits \subseteq Nat
    BY <1>1
  <2>2. Min(hits) \in hits
    <3> HIDE DEF hits
    <3> QED BY <1>3, <2>1, MinFacts
  <2>3. FirstOf(order, shown) = order[Min(hits)]
    BY <1>3 DEF FirstOf
  <2> QED BY <1>1, <2>2, <2>3
<1> QED BY <1>2, <1>3

\* The aggregate is "sent" only when all that is expected was sent.
LEMMA AggregateFacts ==
    ASSUME NEW states \in Seq(RowStatus), NEW expected \in Nat
    PROVE  /\ Aggregate(states, expected) \in RowStatus
           /\ Aggregate(states, expected) = "sent" =>
                /\ Len(states) >= expected /\ Len(states) > 0
                /\ \A k \in 1..Len(states) : states[k] = "sent"
<1> DEFINE shown == Range(states)
           failed == <<"failed", "expired", "cancelled">>
           active == <<"sending", "retrying">>
<1>1. failed \in Seq(RowStatus) /\ active \in Seq(RowStatus)
  BY DEF RowStatus, Failures, Waiting
<1>2. FirstOf(failed, shown) \in {"queued", "failed", "expired", "cancelled"}
  <2>1. {failed[i] : i \in 1..Len(failed)} \subseteq {"failed", "expired", "cancelled"}
    OBVIOUS
  <2> HIDE DEF failed, shown
  <2> QED BY <1>1, <2>1, FirstIsListed
<1>3. FirstOf(active, shown) \in {"queued", "sending", "retrying"}
  <2>1. {active[i] : i \in 1..Len(active)} \subseteq {"sending", "retrying"}
    OBVIOUS
  <2> HIDE DEF active, shown
  <2> QED BY <1>1, <2>1, FirstIsListed
<1>4. \/ Aggregate(states, expected) = FirstOf(failed, shown)
      \/ Aggregate(states, expected) = FirstOf(active, shown)
      \/ /\ Aggregate(states, expected) = "sent"
         /\ Len(states) >= expected /\ shown = {"sent"}
  BY DEF Aggregate
<1>5. ASSUME shown = {"sent"}
      PROVE  Len(states) > 0 /\ \A k \in 1..Len(states) : states[k] = "sent"
  <2>1. Len(states) \in Nat /\ DOMAIN states = 1..Len(states)
    OBVIOUS
  <2>2. \A k \in 1..Len(states) : states[k] \in shown
    BY <2>1 DEF Range
  <2>3. PICK k \in 1..Len(states) : states[k] = "sent"
    BY <1>5, <2>1 DEF Range
  <2> HIDE DEF shown
  <2> QED BY <1>5, <2>1, <2>2, <2>3
<1> HIDE DEF shown, failed, active
<1>6. Aggregate(states, expected) \in RowStatus
  BY <1>2, <1>3, <1>4 DEF RowStatus, Failures, Waiting
<1> QED BY <1>2, <1>3, <1>4, <1>5, <1>6

\* _updated_delivery_entry: one delivery more, or a new state of one it has.
Holds(card, d) == \E k \in 1..Len(card.ids) : card.ids[k] = d

\* What becomes of it, as a card y.
UpdatedIs(card, d, status, y) ==
    /\ y \in CardTypes /\ y.job = card.job
    /\ y.expected = card.expected /\ Len(y.states) = Len(y.ids)
    /\ y.status = "sent" => /\ Len(y.ids) >= y.expected /\ Len(y.ids) > 0
                            /\ \A k \in 1..Len(y.ids) : y.states[k] = "sent"
    /\ Holds(card, d) =>
         /\ y.ids = card.ids
         /\ \A k \in 1..Len(card.ids) :
              y.states[k] = IF card.ids[k] = d THEN status ELSE card.states[k]
    /\ ~Holds(card, d) =>
         /\ Len(y.ids) = Len(card.ids) + 1
         /\ \A k \in 1..Len(card.ids) : /\ y.ids[k] = card.ids[k]
                                        /\ y.states[k] = card.states[k]
         /\ y.ids[Len(card.ids) + 1] = d /\ y.states[Len(card.ids) + 1] = status

\* An updated card is a card, and shows "sent" only when all that it expects
\* was sent.
LEMMA UpdatedFacts ==
    ASSUME NEW card \in CardTypes, NEW d \in Nat, NEW status \in RowStatus,
           NEW new, new = Updated(card, d, status),
           Len(card.states) = Len(card.ids)
    PROVE  UpdatedIs(card, d, status, new)
<1> DEFINE n == Len(card.ids)
           ids == IF Holds(card, d) THEN card.ids ELSE Append(card.ids, d)
           states == IF Holds(card, d)
                     THEN [i \in DOMAIN ids |-> IF ids[i] = d THEN status
                                                ELSE card.states[i]]
                     ELSE Append(card.states, status)
<1>1. /\ card.ids \in Seq(Nat) /\ card.states \in Seq(RowStatus)
      /\ card.expected \in Nat /\ n \in Nat
      /\ DOMAIN card.ids = 1..n /\ DOMAIN card.states = 1..n
      /\ \A k \in 1..n : card.states[k] \in RowStatus
  BY DEF CardTypes
<1>2. Contains(card.ids, d) <=> Holds(card, d)
  BY DEF Contains, Holds
<1>3. new = [card EXCEPT !.ids = ids, !.states = states,
                         !.status = Aggregate(states, card.expected)]
  BY <1>2 DEF Updated
<1>4. /\ ids \in Seq(Nat) /\ states \in Seq(RowStatus) /\ Len(states) = Len(ids)
      /\ Holds(card, d) =>
           /\ ids = card.ids
           /\ \A k \in 1..n :
                states[k] = IF card.ids[k] = d THEN status ELSE card.states[k]
      /\ ~Holds(card, d) =>
           /\ Len(ids) = n + 1
           /\ \A k \in 1..n : ids[k] = card.ids[k] /\ states[k] = card.states[k]
           /\ ids[n + 1] = d /\ states[n + 1] = status
  <2>1. CASE Holds(card, d)
    <3>1. ids = card.ids /\ DOMAIN ids = 1..n
      BY <1>1, <2>1
    <3>2. states = [i \in 1..n |-> IF card.ids[i] = d THEN status ELSE card.states[i]]
      BY <2>1, <3>1
    <3>3. states \in Seq(RowStatus) /\ Len(states) = n
      BY <1>1, <3>2
    <3> HIDE DEF ids, states
    <3> QED BY <1>1, <2>1, <3>1, <3>2, <3>3
  <2>2. CASE ~Holds(card, d)
    <3>1. ids = Append(card.ids, d) /\ states = Append(card.states, status)
      BY <2>2
    <3> HIDE DEF ids, states
    <3> QED BY <1>1, <2>2, <3>1
  <2> QED BY <2>1, <2>2
<1>5. /\ Aggregate(states, card.expected) \in RowStatus
      /\ Aggregate(states, card.expected) = "sent" =>
           /\ Len(states) >= card.expected /\ Len(states) > 0
           /\ \A k \in 1..Len(states) : states[k] = "sent"
  <2> HIDE DEF states
  <2> QED BY <1>1, <1>4, AggregateFacts
<1> HIDE DEF ids, states
<1>6. /\ new.ids = ids /\ new.states = states /\ new.job = card.job
      /\ new.expected = card.expected
      /\ new.status = Aggregate(states, card.expected)
  BY <1>3 DEF CardTypes
<1>7. new \in CardTypes
  <2>1. Aggregate(states, card.expected) \in CardStatus
    BY <1>5 DEF CardStatus
  <2> QED BY <1>3, <1>4, <2>1 DEF CardTypes
<1> QED BY <1>4, <1>5, <1>6, <1>7 DEF UpdatedIs

-----------------------------------------------------------------------------
(* What the companion is told.                                             *)

\* A row changes its status only.
WithStatus(d, status) == [outbox EXCEPT ![d].status = status]

\* The rows keep their keys, and all but one their status.
LEMMA RowChanges ==
    ASSUME outbox \in Seq(RowTypes), NEW d \in Deliveries,
           NEW status \in RowStatus, NEW table, table = WithStatus(d, status)
    PROVE  /\ table \in Seq(RowTypes) /\ Len(table) = Len(outbox)
           /\ DOMAIN table = Deliveries
           /\ \A e \in Deliveries :
                /\ table[e].key = outbox[e].key
                /\ table[e].status = IF e = d THEN status ELSE outbox[e].status
<1>1. /\ Deliveries = 1..Len(outbox) /\ Len(outbox) \in Nat
      /\ \A e \in Deliveries : outbox[e] \in RowTypes
  BY DEF Deliveries
<1>2. table = [outbox EXCEPT ![d] = [outbox[d] EXCEPT !.status = status]]
  BY DEF WithStatus
<1> DEFINE row == [outbox[d] EXCEPT !.status = status]
<1>3. row \in RowTypes /\ row.key = outbox[d].key /\ row.status = status
  BY <1>1 DEF RowTypes
<1> HIDE DEF row
<1>4. table = [outbox EXCEPT ![d] = row]
  BY <1>2 DEF row
<1>5. /\ table \in Seq(RowTypes) /\ Len(table) = Len(outbox)
      /\ \A e \in Deliveries : table[e] = IF e = d THEN row ELSE outbox[e]
  BY <1>1, <1>3, <1>4
<1> QED BY <1>1, <1>3, <1>5

\* The parts of the types, the rows, the cards and the positions by themselves.
LEMMA EntriesFacts ==
    ASSUME EntriesInv
    PROVE  /\ Len(outbox) \in Nat /\ Deliveries = 1..Len(outbox)
           /\ Deliveries \subseteq 1..MaxDeliveries
           /\ \A d \in Deliveries :
                /\ outbox[d] \in RowTypes /\ outbox[d].status \in RowStatus
                /\ outbox[d].key \in (Jobs \X Parts) \cup {NoKey}
           /\ Len(cards) \in Nat
           /\ \A i \in 1..Len(cards) :
                /\ cards[i] \in CardTypes /\ cards[i].job \in Jobs \cup {NoReply}
                /\ Len(cards[i].ids) \in Nat /\ CardOK(i)
           /\ \A j \in Jobs : /\ job[j] \in JobTypes /\ agentEntries[j] \in 0..Len(cards)
                              /\ job[j].parts \in Nat /\ job[j].sent \in Nat
           /\ \A d \in 1..MaxDeliveries : deliveryEntries[d] \in 0..Len(cards)
           /\ \A key \in Jobs \X Parts : sourceEntries[key] \in 0..Len(cards)
<1>1. EntriesTypes /\ CardsOK
  BY DEF EntriesInv
<1>2. /\ Len(outbox) \in Nat /\ Deliveries = 1..Len(outbox)
      /\ Deliveries \subseteq 1..MaxDeliveries
      /\ \A d \in Deliveries : outbox[d] \in RowTypes
  BY <1>1, Bounds DEF EntriesTypes, Deliveries
<1>3. ASSUME NEW d \in Deliveries
      PROVE  /\ outbox[d].status \in RowStatus
             /\ outbox[d].key \in (Jobs \X Parts) \cup {NoKey}
  BY <1>2 DEF RowTypes
<1>4. Len(cards) \in Nat /\ \A i \in 1..Len(cards) : cards[i] \in CardTypes
  BY <1>1 DEF EntriesTypes
<1>5. ASSUME NEW i \in 1..Len(cards)
      PROVE  /\ cards[i].job \in Jobs \cup {NoReply} /\ Len(cards[i].ids) \in Nat
             /\ CardOK(i)
  <2>1. cards[i].ids \in Seq(Nat) /\ cards[i].job \in Jobs \cup {NoReply}
    BY <1>4 DEF CardTypes
  <2> QED BY <1>1, <2>1 DEF CardsOK
<1>6. ASSUME NEW j \in Jobs
      PROVE  /\ job[j] \in JobTypes /\ agentEntries[j] \in 0..Len(cards)
             /\ job[j].parts \in Nat /\ job[j].sent \in Nat
  BY <1>1, Bounds DEF EntriesTypes, JobTypes
<1>7. /\ \A d \in 1..MaxDeliveries : deliveryEntries[d] \in 0..Len(cards)
      /\ \A key \in Jobs \X Parts : sourceEntries[key] \in 0..Len(cards)
  BY <1>1 DEF EntriesTypes
<1> QED BY <1>2, <1>3, <1>4, <1>5, <1>6, <1>7

\* The card a reply has got depends on its job, its rows and their positions.
LEMMA ReplyCardStays ==
    ASSUME NEW i, cards[i].job # NoReply => ReplyCardOK(i),
           cards'[i].job = cards[i].job, cards'[i].ids = cards[i].ids,
           cards'[i].expected = cards[i].expected,
           cards[i].job # NoReply =>
             /\ job'[cards[i].job] = job[cards[i].job]
             /\ agentEntries'[cards[i].job] = agentEntries[cards[i].job],
           sourceEntries' = sourceEntries,
           \A k \in 1..Len(cards[i].ids) :
             outbox'[cards[i].ids[k]].key = outbox[cards[i].ids[k]].key
    PROVE  cards'[i].job # NoReply => ReplyCardOK(i)'
  BY DEF ReplyCardOK

\* A delivery that has a card is told anew.
ToldAnew(d, status) ==
    /\ outbox' = WithStatus(d, status)
    /\ toldCards' = [i \in DOMAIN outbox' |-> IF i = d THEN status ELSE toldCards[i]]
    /\ cards' = [cards EXCEPT ![deliveryEntries[d]] = Updated(@, d, status)]
    /\ worker' \in {0} \cup Deliveries
    /\ UNCHANGED <<job, agentEntries, sourceEntries, deliveryEntries>>

\* The card of a delivery that is told anew is the only one that changes.
LEMMA Retold ==
    ASSUME EntriesInv, NEW d \in Deliveries, NEW status \in RowStatus,
           deliveryEntries[d] # 0, ToldAnew(d, status)
    PROVE  EntriesInv'
<1>0. /\ job' = job /\ agentEntries' = agentEntries
      /\ sourceEntries' = sourceEntries /\ deliveryEntries' = deliveryEntries
      /\ worker' \in {0} \cup Deliveries
  BY DEF ToldAnew
<1> DEFINE at == deliveryEntries[d]
           new == Updated(cards[at], d, status)
<1>1. /\ outbox' \in Seq(RowTypes) /\ Len(outbox') = Len(outbox)
      /\ Deliveries' = Deliveries
      /\ \A e \in Deliveries :
           /\ outbox'[e].key = outbox[e].key
           /\ outbox'[e].status = IF e = d THEN status ELSE outbox[e].status
  <2>1. outbox \in Seq(RowTypes)
    BY DEF EntriesInv, EntriesTypes
  <2>2. outbox' \in Seq(RowTypes) /\ Len(outbox') = Len(outbox)
        /\ DOMAIN outbox' = Deliveries
        /\ \A e \in Deliveries :
             /\ outbox'[e].key = outbox[e].key
             /\ outbox'[e].status = IF e = d THEN status ELSE outbox[e].status
    BY <2>1, RowChanges DEF ToldAnew
  <2> QED BY <2>2 DEF Deliveries
<1>2. /\ at \in 1..Len(cards) /\ Holds(cards[at], d) /\ cards[at] \in CardTypes
      /\ Len(cards[at].states) = Len(cards[at].ids)
  <2>1. d \in 1..MaxDeliveries /\ at \in 0..Len(cards) /\ Len(cards) \in Nat
    BY EntriesFacts
  <2>2. at \in 1..Len(cards)
    BY <2>1
  <2>3. CardOK(at) /\ cards[at] \in CardTypes
    BY <2>2, EntriesFacts
  <2> QED BY <2>1, <2>2, <2>3 DEF EntriesInv, PositionsOK, CardOK, Holds
<1>3. /\ new \in CardTypes /\ new.job = cards[at].job /\ new.ids = cards[at].ids
      /\ new.expected = cards[at].expected /\ Len(new.states) = Len(new.ids)
      /\ new.status = "sent" =>
           /\ Len(new.ids) >= new.expected /\ Len(new.ids) > 0
           /\ \A k \in 1..Len(new.ids) : new.states[k] = "sent"
      /\ \A k \in 1..Len(new.ids) :
           new.states[k] = IF new.ids[k] = d THEN status ELSE cards[at].states[k]
  <2>1. d \in Nat
    BY EntriesFacts
  <2>2. new = Updated(cards[at], d, status)
    OBVIOUS
  <2> DEFINE card == cards[at]
  <2>3. /\ new = Updated(card, d, status) /\ card \in CardTypes /\ Holds(card, d)
        /\ Len(card.states) = Len(card.ids)
    BY <1>2
  <2> HIDE DEF new, card
  <2>4. \A x, y : x \in CardTypes /\ y = Updated(x, d, status)
                  /\ Len(x.states) = Len(x.ids) => UpdatedIs(x, d, status, y)
    BY <2>1, UpdatedFacts
  <2>5. UpdatedIs(card, d, status, new)
    BY <2>3, <2>4
  <2> QED BY <2>3, <2>5 DEF card, UpdatedIs
<1> HIDE DEF new
<1>4. /\ cards' \in Seq(CardTypes) /\ Len(cards') = Len(cards)
      /\ \A i \in 1..Len(cards) : cards'[i] = IF i = at THEN new ELSE cards[i]
  <2>1. cards \in Seq(CardTypes) /\ new \in CardTypes
    BY <1>3 DEF EntriesInv, EntriesTypes
  <2>2. cards' = [cards EXCEPT ![at] = new]
    BY DEF new, ToldAnew
  <2> HIDE DEF at
  <2> QED BY <1>2, <2>1, <2>2
<1>5. toldCards' \in [Deliveries -> RowStatus]
      /\ \A e \in Deliveries : toldCards'[e] = IF e = d THEN status ELSE toldCards[e]
  BY <1>1 DEF Deliveries, EntriesInv, EntriesTypes, ToldAnew
<1>6. EntriesTypes'
  BY <1>0, <1>1, <1>4, <1>5 DEF EntriesInv, EntriesTypes
<1>7. RowsOK'
  <2> SUFFICES ASSUME NEW e \in Deliveries PROVE RowOK(e)'
    BY <1>1 DEF RowsOK
  <2>1. RowOK(e)
    BY DEF EntriesInv, RowsOK
  <2> QED BY <1>0, <1>1, <1>5, <2>1 DEF RowOK
<1>8. CardsOK'
  <2> SUFFICES ASSUME NEW i \in 1..Len(cards) PROVE CardOK(i)'
    BY <1>4 DEF CardsOK
  <2>1. CardOK(i) /\ cards'[i].ids = cards[i].ids /\ cards'[i].job = cards[i].job
        /\ cards'[i].expected = cards[i].expected
    BY <1>3, <1>4, EntriesFacts
  <2>2. cards[i].job # NoReply => ReplyCardOK(i)'
    <3>1. \A k \in 1..Len(cards[i].ids) : cards[i].ids[k] \in Deliveries
      BY <2>1 DEF CardOK
    <3>2. \A k \in 1..Len(cards[i].ids) :
            outbox'[cards[i].ids[k]].key = outbox[cards[i].ids[k]].key
      BY <1>1, <3>1
    <3>3. cards[i].job # NoReply => ReplyCardOK(i)
      BY <2>1 DEF CardOK
    <3>4. cards[i].job # NoReply =>
            /\ job'[cards[i].job] = job[cards[i].job]
            /\ agentEntries'[cards[i].job] = agentEntries[cards[i].job]
      BY <1>0
    <3>5. cards'[i].job # NoReply => ReplyCardOK(i)'
      BY <1>0, <2>1, <3>2, <3>3, <3>4, ReplyCardStays
    <3> QED BY <2>1, <3>5
  <2>3. CASE i = at
    <3>1. cards'[i] = new /\ deliveryEntries' = deliveryEntries
      BY <1>0, <1>4, <2>3
    <3>2. \A k \in 1..Len(new.ids) :
            /\ new.ids[k] \in Deliveries /\ deliveryEntries[new.ids[k]] = i
            /\ new.states[k] = toldCards'[new.ids[k]]
      <4>1. \A k \in 1..Len(cards[i].ids) :
              /\ cards[i].ids[k] \in Deliveries
              /\ cards[i].states[k] = toldCards[cards[i].ids[k]]
              /\ deliveryEntries[cards[i].ids[k]] = i
        BY <2>1 DEF CardOK
      <4>2. new.ids = cards[i].ids
        BY <1>3, <2>3
      <4>3. \A k \in 1..Len(new.ids) :
              new.states[k] = IF new.ids[k] = d THEN status ELSE cards[i].states[k]
        BY <1>3, <2>3
      <4> QED BY <1>5, <4>1, <4>2, <4>3
    <3>3. cards'[i].job # NoReply => ReplyCardOK(i)'
      BY <2>1, <2>2
    <3>4. \A k \in 1..Len(cards'[i].ids) :
            /\ cards'[i].ids[k] \in Deliveries'
            /\ cards'[i].states[k] = toldCards'[cards'[i].ids[k]]
            /\ deliveryEntries'[cards'[i].ids[k]] = i
      BY <1>1, <3>1, <3>2
    <3> QED BY <1>3, <3>1, <3>3, <3>4 DEF CardOK
  <2>4. CASE i # at
    <3>1. cards'[i] = cards[i] /\ \A k \in 1..Len(cards[i].ids) : cards[i].ids[k] # d
      BY <1>4, <2>1, <2>4 DEF CardOK
    <3> QED BY <1>0, <1>1, <1>5, <2>1, <2>2, <3>1 DEF CardOK
  <2> QED BY <2>3, <2>4
<1>9. PositionsOK'
  <2>1. \A i \in 1..Len(cards) : /\ cards'[i].ids = cards[i].ids
                                 /\ cards'[i].job = cards[i].job
    BY <1>3, <1>4
  <2>3. /\ \A j \in Jobs : agentEntries[j] # 0 => agentEntries[j] \in 1..Len(cards)
        /\ \A key \in Jobs \X Parts :
             sourceEntries[key] # 0 => sourceEntries[key] \in 1..Len(cards)
        /\ \A e \in 1..MaxDeliveries :
             deliveryEntries[e] # 0 => deliveryEntries[e] \in 1..Len(cards)
    BY EntriesFacts
  <2>4. PositionsOK
    BY DEF EntriesInv
  <2>5. \A j \in Jobs : agentEntries'[j] # 0 =>
          cards'[agentEntries'[j]].job = j /\ job'[j].stage = "running"
    BY <1>0, <2>1, <2>3, <2>4 DEF PositionsOK
  <2>6. \A key \in Jobs \X Parts : sourceEntries'[key] # 0 =>
          /\ cards'[sourceEntries'[key]].job = key[1]
          /\ job'[key[1]].stage \in {"replying", "done"}
          /\ key[2] <= job'[key[1]].parts
    BY <1>0, <2>1, <2>3, <2>4 DEF PositionsOK
  <2>7. \A e \in 1..MaxDeliveries : deliveryEntries'[e] # 0 =>
          /\ e \in Deliveries'
          /\ \E k \in 1..Len(cards'[deliveryEntries'[e]].ids) :
               cards'[deliveryEntries'[e]].ids[k] = e
    <3>1. \A e \in 1..MaxDeliveries : deliveryEntries[e] # 0 =>
            /\ e \in Deliveries
            /\ \E k \in 1..Len(cards[deliveryEntries[e]].ids) :
                 cards[deliveryEntries[e]].ids[k] = e
      BY <2>4 DEF PositionsOK
    <3>2. \A e \in 1..MaxDeliveries : deliveryEntries[e] # 0 =>
            cards'[deliveryEntries[e]].ids = cards[deliveryEntries[e]].ids
      BY <2>1, <2>3
    <3> QED BY <1>0, <1>1, <3>1, <3>2
  <2> QED BY <2>5, <2>6, <2>7 DEF PositionsOK
<1>10. JobsOK'
  BY <1>0 DEF EntriesInv, JobsOK
<1> QED BY <1>6, <1>7, <1>8, <1>9, <1>10 DEF EntriesInv

\* The table has the row of d, new or changed; replies have sent more parts.
TableGains(d, status) ==
    /\ outbox' \in Seq(RowTypes) /\ Len(outbox') <= MaxDeliveries
    /\ Deliveries' = Deliveries \cup {d}
    /\ \A e \in Deliveries : /\ outbox'[e].key = outbox[e].key
                             /\ e # d => outbox'[e].status = outbox[e].status
    /\ outbox'[d].status = status
    /\ outbox'[d].key # NoKey =>
         outbox'[d].key[2] <= job'[outbox'[d].key[1]].sent
    /\ toldCards' = [i \in DOMAIN outbox' |-> IF i = d THEN status ELSE toldCards[i]]

\* Jobs send parts of their replies, no more than there are.
JobsGain ==
    /\ job' \in [Jobs -> JobTypes]
    /\ \A j \in Jobs : /\ job'[j].stage = job[j].stage
                       /\ job'[j].parts = job[j].parts
                       /\ job[j].sent <= job'[j].sent
                       /\ job'[j].sent <= job[j].parts

\* What holds of the rows and jobs after that.
LEMMA GainKeeps ==
    ASSUME EntriesInv, NEW d \in Nat, NEW status \in RowStatus,
           TableGains(d, status), JobsGain, sourceEntries' = sourceEntries,
           deliveryEntries'[d] # 0,
           \A e \in Deliveries : e # d => deliveryEntries'[e] = deliveryEntries[e]
    PROVE  /\ RowsOK' /\ JobsOK'
           /\ toldCards' \in [Deliveries' -> RowStatus]
           /\ \A e \in Deliveries' :
                toldCards'[e] = IF e = d THEN status ELSE toldCards[e]
<1>1. /\ toldCards' \in [Deliveries' -> RowStatus]
      /\ \A e \in Deliveries' :
           toldCards'[e] = IF e = d THEN status ELSE toldCards[e]
  <2>1. DOMAIN outbox' = Deliveries' /\ Deliveries' = Deliveries \cup {d}
    BY DEF Deliveries, TableGains
  <2>2. \A e \in Deliveries : toldCards[e] \in RowStatus
    BY DEF EntriesInv, EntriesTypes
  <2>3. toldCards' = [i \in Deliveries' |-> IF i = d THEN status ELSE toldCards[i]]
    BY <2>1 DEF TableGains
  <2> QED BY <2>1, <2>2, <2>3
<1>2. JobsOK'
  <2>1. JobsOK /\ \A j \in Jobs : job[j].parts \in Nat /\ job[j].sent \in Nat
    BY EntriesFacts DEF EntriesInv
  <2> QED BY <2>1 DEF JobsOK, JobsGain
<1>3. ASSUME NEW e \in Deliveries' PROVE RowOK(e)'
  <2>1. CASE e = d
    <3>1. toldCards'[e] = outbox'[e].status
      BY <1>1, <2>1 DEF TableGains
    <3>2. outbox'[e].key # NoKey => outbox'[e].key[2] <= job'[outbox'[e].key[1]].sent
      BY <2>1 DEF TableGains
    <3> QED BY <2>1, <3>1, <3>2 DEF RowOK
  <2>2. CASE e # d
    <3>1. e \in Deliveries /\ toldCards'[e] = toldCards[e]
          /\ outbox'[e].key = outbox[e].key /\ outbox'[e].status = outbox[e].status
          /\ deliveryEntries'[e] = deliveryEntries[e]
      BY <1>1, <2>2 DEF TableGains
    <3>2. RowOK(e) /\ outbox[e].key \in (Jobs \X Parts) \cup {NoKey}
      BY <3>1, EntriesFacts DEF EntriesInv, RowsOK
    <3>3. ASSUME outbox[e].key # NoKey
          PROVE  outbox[e].key[2] <= job'[outbox[e].key[1]].sent
      <4>1. PICK j \in Jobs, p \in Parts : outbox[e].key = <<j, p>>
        BY <3>2, <3>3
      <4>2. p <= job[j].sent /\ p \in Nat
        BY <3>2, <3>3, <4>1 DEF RowOK, Parts
      <4>3. job[j].sent <= job'[j].sent /\ job[j].sent \in Nat /\ job'[j].sent \in Nat
        BY EntriesFacts, Bounds DEF JobsGain, JobTypes
      <4> QED BY <4>1, <4>2, <4>3
    <3> QED BY <3>1, <3>2, <3>3 DEF RowOK
  <2> QED BY <2>1, <2>2
<1> QED BY <1>1, <1>2, <1>3 DEF RowsOK

\* A card of one delivery.
LEMMA SingleCard ==
    ASSUME NEW d \in Nat, NEW status \in RowStatus, NEW new,
           new = Updated(NewCard(NoReply, status), d, status)
    PROVE  /\ new \in CardTypes /\ new.job = NoReply
           /\ Len(new.ids) = 1 /\ Len(new.states) = 1
           /\ new.ids[1] = d /\ new.states[1] = status
           /\ new.status = "sent" => status = "sent" /\ new.expected <= 1
<1> DEFINE card == NewCard(NoReply, status)
<1>1. card \in CardTypes /\ card.ids = <<>> /\ card.states = <<>> /\ card.job = NoReply
  BY DEF NewCard, CardTypes, CardStatus
<1>2. new = Updated(card, d, status)
  OBVIOUS
<1> HIDE DEF card
<1>3. UpdatedIs(card, d, status, new) /\ ~Holds(card, d)
  BY <1>1, <1>2, UpdatedFacts DEF Holds
<1>4. new \in CardTypes /\ new.job = NoReply /\ Len(new.ids) = 1
      /\ Len(new.states) = 1 /\ new.ids[1] = d /\ new.states[1] = status
  BY <1>1, <1>3 DEF UpdatedIs
<1>5. new.status = "sent" => status = "sent" /\ new.expected <= 1
  BY <1>3, <1>4 DEF UpdatedIs, CardTypes
<1> QED BY <1>4, <1>5

\* A card whose deliveries the step does not touch.
LEMMA CardStays ==
    ASSUME EntriesInv, NEW i \in 1..Len(cards), cards'[i].ids = cards[i].ids,
           cards'[i].states = cards[i].states,
           cards'[i].status = "sent" => cards'[i] = cards[i],
           cards'[i].job # NoReply => ReplyCardOK(i)',
           Deliveries \subseteq Deliveries',
           \A k \in 1..Len(cards[i].ids) :
             /\ toldCards'[cards[i].ids[k]] = toldCards[cards[i].ids[k]]
             /\ deliveryEntries'[cards[i].ids[k]] = deliveryEntries[cards[i].ids[k]]
    PROVE  CardOK(i)'
<1>1. CardOK(i)
  BY EntriesFacts
<1>2. \A k \in 1..Len(cards[i].ids) :
        /\ cards[i].ids[k] \in Deliveries'
        /\ cards[i].states[k] = toldCards'[cards[i].ids[k]]
        /\ deliveryEntries'[cards[i].ids[k]] = i
  BY <1>1 DEF CardOK
<1> QED BY <1>1, <1>2 DEF CardOK

\* The positions, when there are more cards.
LEMMA PositionsStay ==
    ASSUME EntriesInv, Len(cards') \in Nat, Len(cards) <= Len(cards'),
           \A i \in 1..Len(cards) : cards'[i].job = cards[i].job,
           \A j \in Jobs : /\ agentEntries'[j] = agentEntries[j]
                           /\ job'[j].stage = job[j].stage
                           /\ job'[j].parts = job[j].parts,
           sourceEntries' = sourceEntries
    PROVE  /\ \A j \in Jobs : agentEntries'[j] # 0 =>
                cards'[agentEntries'[j]].job = j /\ job'[j].stage = "running"
           /\ \A key \in Jobs \X Parts : sourceEntries'[key] # 0 =>
                /\ cards'[sourceEntries'[key]].job = key[1]
                /\ job'[key[1]].stage \in {"replying", "done"}
                /\ key[2] <= job'[key[1]].parts
<1>1. /\ \A j \in Jobs : agentEntries[j] # 0 => agentEntries[j] \in 1..Len(cards)
      /\ \A key \in Jobs \X Parts :
           sourceEntries[key] # 0 => sourceEntries[key] \in 1..Len(cards)
  BY EntriesFacts
<1>2. PositionsOK
  BY DEF EntriesInv
<1>3. \A j \in Jobs : agentEntries'[j] # 0 =>
        cards'[agentEntries'[j]].job = j /\ job'[j].stage = "running"
  BY <1>1, <1>2 DEF PositionsOK
<1>4. ASSUME NEW key \in Jobs \X Parts, sourceEntries'[key] # 0
      PROVE  /\ cards'[sourceEntries'[key]].job = key[1]
             /\ job'[key[1]].stage \in {"replying", "done"}
             /\ key[2] <= job'[key[1]].parts
  <2>1. sourceEntries'[key] = sourceEntries[key] /\ sourceEntries[key] \in 1..Len(cards)
        /\ key[1] \in Jobs
    BY <1>1, <1>4
  <2>2. /\ cards[sourceEntries[key]].job = key[1]
        /\ job[key[1]].stage \in {"replying", "done"}
        /\ key[2] <= job[key[1]].parts
    BY <1>2, <1>4, <2>1 DEF PositionsOK
  <2> QED BY <2>1, <2>2
<1> QED BY <1>3, <1>4

\* A delivery without a card gets a card of its own.
ToldApart(d, status) ==
    /\ cards' = Append(cards, Updated(NewCard(NoReply, status), d, status))
    /\ deliveryEntries' = [deliveryEntries EXCEPT ![d] = Len(cards) + 1]
    /\ worker' \in {0} \cup Deliveries'
    /\ UNCHANGED <<agentEntries, sourceEntries>>

\* The new card is of no job, so that no card of a reply loses a part.
LEMMA Apart ==
    ASSUME EntriesInv, NEW d \in 1..MaxDeliveries, NEW status \in RowStatus,
           deliveryEntries[d] = 0, TableGains(d, status), JobsGain,
           ToldApart(d, status),
           \A i \in 1..Len(cards) : cards[i].job # NoReply =>
             job'[cards[i].job] = job[cards[i].job]
    PROVE  EntriesInv'
<1> DEFINE n == Len(cards)
           new == Updated(NewCard(NoReply, status), d, status)
<1>0. /\ agentEntries' = agentEntries /\ sourceEntries' = sourceEntries
      /\ worker' \in {0} \cup Deliveries'
  BY DEF ToldApart
<1>1. /\ new \in CardTypes /\ new.job = NoReply
      /\ Len(new.ids) = 1 /\ Len(new.states) = 1
      /\ new.ids[1] = d /\ new.states[1] = status
      /\ new.status = "sent" => status = "sent" /\ new.expected <= 1
  <2>1. new = Updated(NewCard(NoReply, status), d, status) /\ d \in Nat
    BY Bounds
  <2> HIDE DEF new
  <2> QED BY <2>1, SingleCard
<1>2. cards' = Append(cards, new)
  BY DEF ToldApart
<1> HIDE DEF new
<1>3. /\ cards' \in Seq(CardTypes) /\ Len(cards') = n + 1 /\ cards'[n + 1] = new
      /\ n \in Nat /\ \A i \in 1..n : cards'[i] = cards[i]
  BY <1>1, <1>2 DEF EntriesInv, EntriesTypes
<1>4. /\ deliveryEntries' \in [1..MaxDeliveries -> 0..Len(cards')]
      /\ deliveryEntries'[d] = n + 1
      /\ \A e \in 1..MaxDeliveries : e # d => deliveryEntries'[e] = deliveryEntries[e]
  <2>1. deliveryEntries \in [1..MaxDeliveries -> 0..n]
    BY DEF EntriesInv, EntriesTypes
  <2>2. deliveryEntries' = [deliveryEntries EXCEPT ![d] = n + 1]
    BY DEF ToldApart
  <2> QED BY <1>3, <2>1, <2>2
<1>5. /\ RowsOK' /\ JobsOK'
      /\ toldCards' \in [Deliveries' -> RowStatus]
      /\ \A e \in Deliveries' :
           toldCards'[e] = IF e = d THEN status ELSE toldCards[e]
  <2>1. deliveryEntries'[d] # 0 /\ d \in Nat /\ Deliveries \subseteq 1..MaxDeliveries
    BY <1>3, <1>4, Bounds, EntriesFacts
  <2> QED BY <1>0, <1>4, <2>1, GainKeeps
<1>6. EntriesTypes'
  <2>1. /\ agentEntries' \in [Jobs -> 0..Len(cards')]
        /\ sourceEntries' \in [Jobs \X Parts -> 0..Len(cards')]
    BY <1>0, <1>3 DEF EntriesInv, EntriesTypes
  <2> QED BY <1>0, <1>3, <1>4, <1>5, <2>1 DEF EntriesTypes, TableGains, JobsGain
<1>7. CardsOK'
  <2>1. ASSUME NEW i \in 1..n PROVE CardOK(i)'
    <3>1. CardOK(i) /\ cards'[i] = cards[i]
      BY <1>3, EntriesFacts
    <3>2. \A k \in 1..Len(cards[i].ids) :
            /\ cards[i].ids[k] \in Deliveries /\ cards[i].ids[k] # d
            /\ cards[i].ids[k] \in 1..MaxDeliveries
      <4>1. \A k \in 1..Len(cards[i].ids) :
              /\ cards[i].ids[k] \in Deliveries
              /\ deliveryEntries[cards[i].ids[k]] = i
        BY <3>1 DEF CardOK
      <4>2. Deliveries \subseteq 1..MaxDeliveries
        BY EntriesFacts
      <4>3. i # 0
        OBVIOUS
      <4> QED BY <4>1, <4>2, <4>3
    <3>3. \A k \in 1..Len(cards[i].ids) :
            /\ outbox'[cards[i].ids[k]].key = outbox[cards[i].ids[k]].key
            /\ toldCards'[cards[i].ids[k]] = toldCards[cards[i].ids[k]]
            /\ deliveryEntries'[cards[i].ids[k]] = deliveryEntries[cards[i].ids[k]]
      BY <1>4, <1>5, <3>2 DEF TableGains
    <3>4. cards'[i].job # NoReply => ReplyCardOK(i)'
      BY <1>0, <3>1, <3>3, ReplyCardStays DEF CardOK
    <3>5. Deliveries \subseteq Deliveries'
      BY DEF TableGains
    <3> QED BY <3>1, <3>3, <3>4, <3>5, CardStays
  <2>2. ASSUME NEW i, i = n + 1 PROVE CardOK(i)'
    <3>1. d \in Deliveries' /\ toldCards'[d] = status /\ deliveryEntries'[d] = i
      BY <1>4, <1>5, <2>2 DEF TableGains
    <3>2. cards'[i] = new /\ \A k \in 1..Len(new.ids) :
            /\ new.ids[k] = d /\ new.states[k] = status
      BY <1>1, <1>3, <2>2
    <3>3. \A k \in 1..Len(cards'[i].ids) :
            /\ cards'[i].ids[k] \in Deliveries'
            /\ cards'[i].states[k] = toldCards'[cards'[i].ids[k]]
            /\ deliveryEntries'[cards'[i].ids[k]] = i
      BY <3>1, <3>2
    <3>4. cards'[i].status = "sent" =>
            /\ Len(cards'[i].ids) >= cards'[i].expected
            /\ Len(cards'[i].ids) > 0
            /\ \A k \in 1..Len(cards'[i].ids) : cards'[i].states[k] = "sent"
      BY <1>1, <3>2 DEF CardTypes
    <3>5. /\ Len(cards'[i].states) = Len(cards'[i].ids)
          /\ ~(cards'[i].job # NoReply)
      BY <1>1, <3>2
    <3> QED BY <3>3, <3>4, <3>5 DEF CardOK
  <2>3. \A i \in 1..Len(cards') : i \in 1..n \/ i = n + 1
    BY <1>3
  <2> QED BY <2>1, <2>2, <2>3 DEF CardsOK
<1>8. PositionsOK'
  <2>1. ASSUME NEW e \in 1..MaxDeliveries, deliveryEntries'[e] # 0
        PROVE  /\ e \in Deliveries'
               /\ \E k \in 1..Len(cards'[deliveryEntries'[e]].ids) :
                    cards'[deliveryEntries'[e]].ids[k] = e
    <3>1. CASE e = d
      <4>1. 1 \in 1..Len(new.ids)
        BY <1>1
      <4> QED BY <1>1, <1>3, <1>4, <3>1, <4>1 DEF TableGains
    <3>2. CASE e # d
      <4>1. deliveryEntries'[e] = deliveryEntries[e] /\ deliveryEntries[e] \in 1..n
        BY <1>4, <2>1, <3>2, EntriesFacts
      <4>2. /\ e \in Deliveries
            /\ \E k \in 1..Len(cards[deliveryEntries[e]].ids) :
                 cards[deliveryEntries[e]].ids[k] = e
        BY <4>1 DEF EntriesInv, PositionsOK
      <4>3. cards'[deliveryEntries'[e]] = cards[deliveryEntries[e]]
        BY <1>3, <4>1
      <4> QED BY <4>2, <4>3 DEF TableGains
    <3> QED BY <3>1, <3>2
  <2>2. \A j \in Jobs : /\ agentEntries'[j] = agentEntries[j]
                        /\ job'[j].stage = job[j].stage
                        /\ job'[j].parts = job[j].parts
    BY <1>0 DEF JobsGain
  <2>3. /\ Len(cards') \in Nat /\ Len(cards) <= Len(cards')
        /\ \A i \in 1..Len(cards) : cards'[i].job = cards[i].job
    BY <1>3
  <2> QED BY <1>0, <2>1, <2>2, <2>3, PositionsStay DEF PositionsOK
<1> QED BY <1>5, <1>6, <1>7, <1>8 DEF EntriesInv

\* The next part of a reply joins the card of the reply.
Joins(j, d) ==
    LET at == sourceEntries[<<j, job[j].sent + 1>>] IN
    /\ outbox'[d].key = <<j, job[j].sent + 1>>
    /\ job'[j].sent = job[j].sent + 1
    /\ \A i \in Jobs : i # j => job'[i] = job[i]
    /\ cards' = [cards EXCEPT ![at] = Updated(@, d, "queued")]
    /\ deliveryEntries' = [deliveryEntries EXCEPT ![d] = at]
    /\ UNCHANGED <<worker, agentEntries, sourceEntries>>

\* The parts of a reply join its card in their order.
LEMMA Joined ==
    ASSUME EntriesInv, NEW j \in Jobs, NEW d \in 1..MaxDeliveries,
           d \notin Deliveries, job[j].stage = "replying",
           job[j].sent < job[j].parts, NEW at \in Nat,
           at = sourceEntries[<<j, job[j].sent + 1>>], at # 0,
           TableGains(d, "queued"), JobsGain, Joins(j, d)
    PROVE  EntriesInv'
<1> DEFINE p == job[j].sent + 1
           new == Updated(cards[at], d, "queued")
<1>0. /\ agentEntries' = agentEntries /\ sourceEntries' = sourceEntries
      /\ worker' \in {0} \cup Deliveries' /\ Deliveries \subseteq Deliveries'
  BY DEF Joins, EntriesInv, EntriesTypes, TableGains
<1>1. /\ job[j].sent \in Nat /\ job[j].parts \in Nat
      /\ p \in 1..job[j].parts /\ <<j, p>> \in Jobs \X Parts
  <2>1. job[j].sent \in Nat /\ job[j].parts \in Nat /\ job[j].parts <= MaxParts
    BY EntriesFacts, Bounds DEF JobTypes
  <2> QED BY <2>1, Bounds DEF Parts
<1>2. at \in 1..Len(cards) /\ cards[at].job = j /\ j # NoReply
  <2>1. sourceEntries[<<j, p>>] \in 0..Len(cards) /\ Len(cards) \in Nat
    BY <1>1, EntriesFacts
  <2>2. PositionsOK
    BY DEF EntriesInv
  <2>3. cards[at].job = <<j, p>>[1]
    BY <1>1, <2>2 DEF PositionsOK
  <2>4. j # NoReply
    BY DEF Jobs, NoReply
  <2> QED BY <2>1, <2>3, <2>4
<1>3. /\ cards[at] \in CardTypes /\ CardOK(at) /\ Len(cards[at].ids) = job[j].sent
      /\ cards[at].expected = job[j].parts
      /\ \A q \in 1..job[j].parts : sourceEntries[<<j, q>>] = at
      /\ \A k \in 1..Len(cards[at].ids) : outbox[cards[at].ids[k]].key = <<j, k>>
  <2>1. cards[at] \in CardTypes /\ CardOK(at)
    BY <1>2, EntriesFacts
  <2>2. ReplyCardOK(at)
    BY <1>2, <2>1 DEF CardOK
  <2> QED BY <1>2, <2>1, <2>2 DEF ReplyCardOK
<1>4. ~Holds(cards[at], d)
  BY <1>3 DEF CardOK, Holds
<1>5. UpdatedIs(cards[at], d, "queued", new)
  <2>1. new = Updated(cards[at], d, "queued") /\ d \in Nat
    BY Bounds
  <2>2. "queued" \in RowStatus /\ Len(cards[at].states) = Len(cards[at].ids)
    BY <1>3 DEF RowStatus, Waiting, CardOK
  <2> HIDE DEF new
  <2> QED BY <1>3, <2>1, <2>2, UpdatedFacts
<1>6. cards' = [cards EXCEPT ![at] = new]
  BY DEF Joins
<1> HIDE DEF new
<1>7. /\ cards' \in Seq(CardTypes) /\ Len(cards') = Len(cards) /\ Len(cards) \in Nat
      /\ \A i \in 1..Len(cards) : cards'[i] = IF i = at THEN new ELSE cards[i]
  <2>1. new \in CardTypes
    BY <1>5 DEF UpdatedIs
  <2>2. cards \in Seq(CardTypes)
    BY DEF EntriesInv, EntriesTypes
  <2> QED BY <1>2, <1>6, <2>1, <2>2
<1>8. /\ deliveryEntries' \in [1..MaxDeliveries -> 0..Len(cards')]
      /\ deliveryEntries'[d] = at
      /\ \A e \in 1..MaxDeliveries : e # d => deliveryEntries'[e] = deliveryEntries[e]
  <2>1. deliveryEntries \in [1..MaxDeliveries -> 0..Len(cards)]
    BY DEF EntriesInv, EntriesTypes
  <2>2. deliveryEntries' = [deliveryEntries EXCEPT ![d] = at]
    BY DEF Joins
  <2> QED BY <1>2, <1>7, <2>1, <2>2
<1>9. /\ RowsOK' /\ JobsOK'
      /\ toldCards' \in [Deliveries' -> RowStatus]
      /\ \A e \in Deliveries' :
           toldCards'[e] = IF e = d THEN "queued" ELSE toldCards[e]
  <2>1. deliveryEntries'[d] # 0 /\ d \in Nat /\ Deliveries \subseteq 1..MaxDeliveries
    BY <1>8, Bounds, EntriesFacts
  <2>2. "queued" \in RowStatus
    BY DEF RowStatus, Waiting
  <2> QED BY <1>0, <1>8, <2>1, <2>2, GainKeeps
<1>10. EntriesTypes'
  <2>1. /\ agentEntries' \in [Jobs -> 0..Len(cards')]
        /\ sourceEntries' \in [Jobs \X Parts -> 0..Len(cards')]
    BY <1>0, <1>7 DEF EntriesInv, EntriesTypes
  <2> QED BY <1>0, <1>7, <1>8, <1>9, <2>1 DEF EntriesTypes, TableGains, JobsGain
<1>11. ASSUME NEW i \in 1..Len(cards)
       PROVE  \A k \in 1..Len(cards[i].ids) :
                /\ cards[i].ids[k] \in Deliveries /\ cards[i].ids[k] # d
                /\ outbox'[cards[i].ids[k]].key = outbox[cards[i].ids[k]].key
                /\ toldCards'[cards[i].ids[k]] = toldCards[cards[i].ids[k]]
                /\ deliveryEntries'[cards[i].ids[k]] = deliveryEntries[cards[i].ids[k]]
  <2>1. \A k \in 1..Len(cards[i].ids) :
          cards[i].ids[k] \in Deliveries /\ cards[i].ids[k] # d
    BY EntriesFacts DEF CardOK
  <2>2. Deliveries \subseteq 1..MaxDeliveries
    BY EntriesFacts
  <2> QED BY <1>8, <1>9, <2>1, <2>2 DEF TableGains
<1>12. ASSUME NEW i \in 1..Len(cards), i # at PROVE CardOK(i)'
  <2>1. CardOK(i) /\ cards'[i] = cards[i]
    BY <1>7, <1>12, EntriesFacts
  <2>2. cards[i].job # j
    <3>1. ASSUME cards[i].job = j PROVE FALSE
      <4>1. sourceEntries[<<j, p>>] = i
        BY <1>1, <1>2, <2>1, <3>1 DEF CardOK, ReplyCardOK
      <4> QED BY <1>12, <4>1
    <3> QED BY <3>1
  <2>3. cards[i].job # NoReply => job'[cards[i].job] = job[cards[i].job]
    BY <2>2, EntriesFacts DEF Joins
  <2>4. cards'[i].job # NoReply => ReplyCardOK(i)'
    BY <1>0, <1>11, <2>1, <2>3, ReplyCardStays DEF CardOK
  <2> QED BY <1>0, <1>11, <2>1, <2>4, CardStays
<1>13. ASSUME NEW i, i = at PROVE CardOK(i)'
  <2> DEFINE n == Len(cards[at].ids)
  <2>1. /\ cards'[i] = new /\ new.job = j /\ new.expected = job[j].parts
        /\ Len(new.ids) = n + 1 /\ Len(new.states) = n + 1 /\ n = job[j].sent
        /\ \A k \in 1..n : /\ new.ids[k] = cards[at].ids[k]
                           /\ new.states[k] = cards[at].states[k]
        /\ new.ids[n + 1] = d /\ new.states[n + 1] = "queued"
    BY <1>2, <1>3, <1>4, <1>5, <1>7, <1>13 DEF UpdatedIs
  <2> HIDE DEF n
  <2>2. \A k \in 1..(n + 1) : k \in 1..n \/ k = n + 1
    BY <1>1, <2>1
  <2>3. \A k \in 1..(n + 1) :
          /\ new.ids[k] \in Deliveries' /\ new.states[k] = toldCards'[new.ids[k]]
          /\ deliveryEntries'[new.ids[k]] = i
          /\ outbox'[new.ids[k]].key = <<j, k>>
    <3>1. ASSUME NEW k \in 1..n
          PROVE  /\ new.ids[k] \in Deliveries' /\ new.states[k] = toldCards'[new.ids[k]]
                 /\ deliveryEntries'[new.ids[k]] = i
                 /\ outbox'[new.ids[k]].key = <<j, k>>
      <4>1. /\ cards[at].ids[k] \in Deliveries
            /\ cards[at].states[k] = toldCards[cards[at].ids[k]]
            /\ deliveryEntries[cards[at].ids[k]] = at
            /\ outbox[cards[at].ids[k]].key = <<j, k>>
        BY <1>3, <3>1 DEF CardOK, n
      <4>2. /\ outbox'[cards[at].ids[k]].key = outbox[cards[at].ids[k]].key
            /\ toldCards'[cards[at].ids[k]] = toldCards[cards[at].ids[k]]
            /\ deliveryEntries'[cards[at].ids[k]] = deliveryEntries[cards[at].ids[k]]
        BY <1>2, <1>11, <3>1 DEF n
      <4>3. new.ids[k] = cards[at].ids[k] /\ new.states[k] = cards[at].states[k]
        BY <2>1, <3>1
      <4> QED BY <1>0, <1>13, <4>1, <4>2, <4>3
    <3>2. /\ d \in Deliveries' /\ toldCards'[d] = "queued"
          /\ deliveryEntries'[d] = i /\ outbox'[d].key = <<j, n + 1>>
      <4>1. d \in Deliveries'
        BY DEF TableGains
      <4>2. outbox'[d].key = <<j, n + 1>>
        BY <2>1 DEF Joins
      <4> QED BY <1>8, <1>9, <1>13, <4>1, <4>2
    <3>3. ASSUME NEW k \in 1..(n + 1)
          PROVE  /\ new.ids[k] \in Deliveries' /\ new.states[k] = toldCards'[new.ids[k]]
                 /\ deliveryEntries'[new.ids[k]] = i
                 /\ outbox'[new.ids[k]].key = <<j, k>>
      <4>1. CASE k \in 1..n
        BY <3>1, <4>1
      <4>2. CASE k = n + 1
        <5>1. new.ids[k] = d /\ new.states[k] = "queued"
          BY <2>1, <4>2
        <5> QED BY <3>2, <4>2, <5>1
      <4> QED BY <2>2, <4>1, <4>2
    <3> QED BY <3>3
  <2>4. new.status = "sent" =>
          /\ Len(new.ids) >= new.expected /\ Len(new.ids) > 0
          /\ \A k \in 1..Len(new.ids) : new.states[k] = "sent"
    BY <1>5 DEF UpdatedIs
  <2>5. ReplyCardOK(i)'
    <3>1. /\ job'[j].stage = "replying" /\ job'[j].parts = job[j].parts
          /\ job'[j].sent = n + 1 /\ job[j].parts > 0
      BY <1>1, <2>1 DEF JobsGain, Joins
    <3>2. cards'[i].job = j /\ cards'[i].expected = job[j].parts
          /\ Len(cards'[i].ids) = n + 1
      BY <2>1
    <3>3. \A k \in 1..(n + 1) : outbox'[cards'[i].ids[k]].key = <<j, k>>
      BY <2>1, <2>3
    <3>4. \A q \in 1..job[j].parts : sourceEntries'[<<j, q>>] = i
      BY <1>0, <1>3, <1>13
    <3> QED BY <3>1, <3>2, <3>3, <3>4 DEF ReplyCardOK
  <2> QED BY <2>1, <2>3, <2>4, <2>5 DEF CardOK
<1>14. CardsOK'
  BY <1>7, <1>12, <1>13 DEF CardsOK
<1>15. PositionsOK'
  <2>1. ASSUME NEW e \in 1..MaxDeliveries, deliveryEntries'[e] # 0
        PROVE  /\ e \in Deliveries'
               /\ \E k \in 1..Len(cards'[deliveryEntries'[e]].ids) :
                    cards'[deliveryEntries'[e]].ids[k] = e
    <3> DEFINE n == Len(cards[at].ids)
    <3>1. /\ n \in Nat /\ cards'[at] = new /\ Len(new.ids) = n + 1
          /\ new.ids[n + 1] = d /\ \A k \in 1..n : new.ids[k] = cards[at].ids[k]
      BY <1>1, <1>2, <1>3, <1>4, <1>5, <1>7 DEF UpdatedIs
    <3>2. CASE e = d
      <4>1. n + 1 \in 1..Len(new.ids) /\ e \in Deliveries'
        BY <3>1, <3>2 DEF TableGains
      <4> HIDE DEF n
      <4> QED BY <1>8, <3>1, <3>2, <4>1
    <3>3. CASE e # d
      <4>1. deliveryEntries'[e] = deliveryEntries[e] /\ deliveryEntries[e] \in 1..Len(cards)
        BY <1>8, <2>1, <3>3, EntriesFacts
      <4>2. e \in Deliveries
        BY <4>1 DEF EntriesInv, PositionsOK
      <4>3. PICK k \in 1..Len(cards[deliveryEntries[e]].ids) :
              cards[deliveryEntries[e]].ids[k] = e
        BY <4>1 DEF EntriesInv, PositionsOK
      <4> HIDE DEF n
      <4>4. CASE deliveryEntries[e] = at
        <5>1. k \in 1..Len(new.ids) /\ new.ids[k] = e
          <6>1. k \in 1..n /\ cards[at].ids[k] = e
            BY <4>3, <4>4 DEF n
          <6>2. k \in 1..Len(new.ids)
            BY <3>1, <6>1
          <6>3. new.ids[k] = cards[at].ids[k]
            BY <3>1, <6>1
          <6> QED BY <6>1, <6>2, <6>3
        <5> QED BY <1>0, <3>1, <4>1, <4>2, <4>4, <5>1
      <4>5. CASE deliveryEntries[e] # at
        <5>1. cards'[deliveryEntries'[e]] = cards[deliveryEntries[e]]
          BY <1>7, <4>1, <4>5
        <5> QED BY <1>0, <4>2, <4>3, <5>1
      <4> QED BY <4>4, <4>5
    <3> QED BY <3>2, <3>3
  <2>2. \A i \in Jobs : /\ agentEntries'[i] = agentEntries[i]
                        /\ job'[i].stage = job[i].stage
                        /\ job'[i].parts = job[i].parts
    BY <1>0 DEF JobsGain
  <2>3. /\ Len(cards') \in Nat /\ Len(cards) <= Len(cards')
        /\ \A i \in 1..Len(cards) : cards'[i].job = cards[i].job
    <3>1. new.job = cards[at].job
      BY <1>5 DEF UpdatedIs
    <3>2. \A i \in 1..Len(cards) : cards'[i].job = cards[i].job
      <4> SUFFICES ASSUME NEW i \in 1..Len(cards) PROVE cards'[i].job = cards[i].job
        OBVIOUS
      <4>1. CASE i = at
        BY <1>7, <3>1, <4>1
      <4>2. CASE i # at
        BY <1>7, <4>2
      <4> QED BY <4>1, <4>2
    <3> QED BY <1>7, <3>2
  <2> QED BY <1>0, <2>1, <2>2, <2>3, PositionsStay DEF PositionsOK
<1> QED BY <1>9, <1>10, <1>14, <1>15 DEF EntriesInv

-----------------------------------------------------------------------------
(* What the Agent does.                                                    *)

\* The job j moves on, its card with it; the deliveries stay as they are.
JobMoves(j) ==
    /\ job' \in [Jobs -> JobTypes] /\ JobsOK'
    /\ \A i \in Jobs : i # j => job'[i] = job[i] /\ agentEntries'[i] = agentEntries[i]
    /\ job'[j].sent = job[j].sent
    /\ outbox' = outbox /\ toldCards' = toldCards /\ worker' = worker
    /\ deliveryEntries' = deliveryEntries
    /\ cards' \in Seq(CardTypes) /\ Len(cards) <= Len(cards')
    /\ \A i \in 1..Len(cards) :
         /\ cards'[i].job = cards[i].job /\ cards'[i].ids = cards[i].ids
         /\ cards'[i].states = cards[i].states
         /\ cards[i].job # j \/ cards'[i].status = "sent" => cards'[i] = cards[i]
         /\ cards[i].job = j => ReplyCardOK(i)'
    /\ \A i \in 1..Len(cards') : i > Len(cards) => CardOK(i)'
    /\ agentEntries' \in [Jobs -> 0..Len(cards')]
    /\ agentEntries'[j] # 0 =>
         cards'[agentEntries'[j]].job = j /\ job'[j].stage = "running"
    /\ sourceEntries' \in [Jobs \X Parts -> 0..Len(cards')]
    /\ \A i \in Jobs, p \in Parts :
         i # j \/ p <= job[j].sent => sourceEntries'[<<i, p>>] = sourceEntries[<<i, p>>]
    /\ \A p \in Parts : sourceEntries'[<<j, p>>] # 0 =>
         /\ cards'[sourceEntries'[<<j, p>>]].job = j
         /\ job'[j].stage \in {"replying", "done"} /\ p <= job'[j].parts

\* When a job moves on, the cards of the other jobs stay.
LEMMA JobStep ==
    ASSUME EntriesInv, NEW j \in Jobs, JobMoves(j)
    PROVE  EntriesInv'
<1>1. /\ outbox' = outbox /\ toldCards' = toldCards /\ Deliveries' = Deliveries
      /\ deliveryEntries' = deliveryEntries /\ worker' = worker
      /\ Len(cards) \in Nat /\ Len(cards') \in Nat /\ Len(cards) <= Len(cards')
  BY EntriesFacts DEF JobMoves, Deliveries
<1>2. EntriesTypes'
  <2>1. EntriesTypes
    BY DEF EntriesInv
  <2>2. deliveryEntries' \in [1..MaxDeliveries -> 0..Len(cards')]
    BY <1>1, <2>1 DEF EntriesTypes
  <2> QED BY <1>1, <2>1, <2>2 DEF EntriesTypes, JobMoves
<1>3. RowsOK'
  <2> SUFFICES ASSUME NEW d \in Deliveries PROVE RowOK(d)'
    BY <1>1 DEF RowsOK
  <2>1. RowOK(d) /\ outbox[d].key \in (Jobs \X Parts) \cup {NoKey}
    BY EntriesFacts DEF EntriesInv, RowsOK
  <2>2. ASSUME outbox[d].key # NoKey
        PROVE  /\ outbox[d].key[2] <= job'[outbox[d].key[1]].sent
               /\ sourceEntries'[outbox[d].key] = sourceEntries[outbox[d].key]
    <3>1. PICK i \in Jobs, p \in Parts : outbox[d].key = <<i, p>>
      BY <2>1, <2>2
    <3>2. p <= job[i].sent
      BY <2>1, <2>2, <3>1 DEF RowOK
    <3>3. job'[i].sent = job[i].sent
      BY DEF JobMoves
    <3>4. sourceEntries'[<<i, p>>] = sourceEntries[<<i, p>>]
      BY <3>2 DEF JobMoves
    <3> QED BY <3>1, <3>2, <3>3, <3>4
  <2> QED BY <1>1, <2>1, <2>2 DEF RowOK
<1>4. CardsOK'
  <2>1. ASSUME NEW i \in 1..Len(cards) PROVE CardOK(i)'
    <3>1. CardOK(i) /\ cards[i].job \in Jobs \cup {NoReply}
      BY EntriesFacts
    <3>2. /\ cards'[i].job = cards[i].job /\ cards'[i].ids = cards[i].ids
          /\ cards'[i].states = cards[i].states
          /\ cards[i].job # j => cards'[i] = cards[i]
          /\ cards'[i].status = "sent" => cards'[i] = cards[i]
          /\ cards[i].job = j => ReplyCardOK(i)'
      BY DEF JobMoves
    <3>3. ASSUME cards[i].job # NoReply, cards[i].job # j PROVE ReplyCardOK(i)'
      <4> DEFINE k == cards[i].job
      <4>1. ReplyCardOK(i) /\ k \in Jobs
        BY <3>1, <3>3 DEF CardOK
      <4>2. job'[k] = job[k] /\ agentEntries'[k] = agentEntries[k]
        BY <3>3, <4>1 DEF JobMoves
      <4>3. \A p \in 1..job[k].parts : sourceEntries'[<<k, p>>] = sourceEntries[<<k, p>>]
        <5>1. 1..job[k].parts \subseteq Parts
          BY <4>1, EntriesFacts, Bounds DEF JobTypes, Parts
        <5> QED BY <3>3, <4>1, <5>1 DEF JobMoves
      <4>4. cards'[i] = cards[i]
        BY <3>2, <3>3
      <4> HIDE DEF k
      <4>5. cards[i].job = k
        BY DEF k
      <4> QED BY <1>1, <4>1, <4>2, <4>3, <4>4, <4>5 DEF ReplyCardOK
    <3>4. cards'[i].job # NoReply => ReplyCardOK(i)'
      BY <3>2, <3>3
    <3> QED BY <1>1, <3>2, <3>4, CardStays
  <2>2. \A i \in 1..Len(cards') : i \in 1..Len(cards) \/ i > Len(cards)
    BY <1>1
  <2>3. \A i \in 1..Len(cards') : i > Len(cards) => CardOK(i)'
    BY DEF JobMoves
  <2> QED BY <2>1, <2>2, <2>3 DEF CardsOK
<1>5. PositionsOK'
  <2>0. /\ PositionsOK
        /\ \A i \in Jobs : agentEntries[i] # 0 => agentEntries[i] \in 1..Len(cards)
        /\ \A i \in Jobs, p \in Parts :
             sourceEntries[<<i, p>>] # 0 => sourceEntries[<<i, p>>] \in 1..Len(cards)
        /\ \A d \in 1..MaxDeliveries :
             deliveryEntries[d] # 0 => deliveryEntries[d] \in 1..Len(cards)
        /\ \A i \in 1..Len(cards) : /\ cards'[i].job = cards[i].job
                                    /\ cards'[i].ids = cards[i].ids
    BY EntriesFacts DEF EntriesInv, JobMoves
  <2>1. ASSUME NEW i \in Jobs, agentEntries'[i] # 0
        PROVE  cards'[agentEntries'[i]].job = i /\ job'[i].stage = "running"
    <3>1. CASE i = j
      BY <2>1, <3>1 DEF JobMoves
    <3>2. CASE i # j
      <4>1. job'[i] = job[i] /\ agentEntries'[i] = agentEntries[i]
        BY <3>2 DEF JobMoves
      <4> QED BY <2>0, <2>1, <4>1 DEF PositionsOK
    <3> QED BY <3>1, <3>2
  <2>2. ASSUME NEW i \in Jobs, NEW p \in Parts, sourceEntries'[<<i, p>>] # 0
        PROVE  /\ cards'[sourceEntries'[<<i, p>>]].job = i
               /\ job'[i].stage \in {"replying", "done"} /\ p <= job'[i].parts
    <3>1. CASE i = j
      BY <2>2, <3>1 DEF JobMoves
    <3>2. CASE i # j
      <4>1. job'[i] = job[i] /\ sourceEntries'[<<i, p>>] = sourceEntries[<<i, p>>]
        BY <3>2 DEF JobMoves
      <4>2. <<i, p>> \in Jobs \X Parts /\ <<i, p>>[1] = i /\ <<i, p>>[2] = p
        OBVIOUS
      <4>3. /\ cards[sourceEntries[<<i, p>>]].job = i
            /\ job[i].stage \in {"replying", "done"} /\ p <= job[i].parts
        BY <2>0, <2>2, <4>1, <4>2 DEF PositionsOK
      <4> QED BY <2>0, <2>2, <4>1, <4>3
    <3> QED BY <3>1, <3>2
  <2>3. ASSUME NEW key \in Jobs \X Parts, sourceEntries'[key] # 0
        PROVE  /\ cards'[sourceEntries'[key]].job = key[1]
               /\ job'[key[1]].stage \in {"replying", "done"}
               /\ key[2] <= job'[key[1]].parts
    <3>1. PICK i \in Jobs, p \in Parts : key = <<i, p>>
      OBVIOUS
    <3> QED BY <2>2, <2>3, <3>1
  <2>4. \A d \in 1..MaxDeliveries : deliveryEntries'[d] # 0 =>
          /\ d \in Deliveries'
          /\ \E k \in 1..Len(cards'[deliveryEntries'[d]].ids) :
               cards'[deliveryEntries'[d]].ids[k] = d
    <3> SUFFICES ASSUME NEW d \in 1..MaxDeliveries, deliveryEntries'[d] # 0
                 PROVE  /\ d \in Deliveries'
                        /\ \E k \in 1..Len(cards'[deliveryEntries'[d]].ids) :
                             cards'[deliveryEntries'[d]].ids[k] = d
      OBVIOUS
    <3>1. deliveryEntries[d] \in 1..Len(cards) /\ deliveryEntries'[d] = deliveryEntries[d]
      BY <1>1, <2>0
    <3>2. cards'[deliveryEntries[d]].ids = cards[deliveryEntries[d]].ids
      BY <2>0, <3>1
    <3>3. /\ d \in Deliveries
          /\ \E k \in 1..Len(cards[deliveryEntries[d]].ids) :
               cards[deliveryEntries[d]].ids[k] = d
      BY <2>0, <3>1 DEF PositionsOK
    <3> QED BY <1>1, <3>1, <3>2, <3>3
  <2> QED BY <2>1, <2>3, <2>4 DEF PositionsOK
<1> QED BY <1>2, <1>3, <1>4, <1>5 DEF EntriesInv, JobMoves

\* A job that has not been answered has sent nothing, and the only card it can
\* have is the one known by it.
LEMMA Unanswered ==
    ASSUME EntriesInv, NEW j \in Jobs, job[j].stage \in {"new", "running"}
    PROVE  /\ job[j].parts = 0 /\ job[j].sent = 0
           /\ \A p \in Parts : sourceEntries[<<j, p>>] = 0
           /\ \A i \in 1..Len(cards) : cards[i].job = j =>
                /\ job[j].stage = "running" /\ agentEntries[j] = i
                /\ Len(cards[i].ids) = 0
           /\ agentEntries[j] # 0 =>
                /\ agentEntries[j] \in 1..Len(cards)
                /\ cards[agentEntries[j]].job = j /\ job[j].stage = "running"
<1>1. job[j].parts = 0 /\ job[j].sent = 0
  <2>1. job[j].sent <= job[j].parts /\ job[j].parts = 0 /\ job[j].sent \in Nat
    BY EntriesFacts DEF EntriesInv, JobsOK
  <2> QED BY <2>1
<1>2. ASSUME NEW p \in Parts PROVE sourceEntries[<<j, p>>] = 0
  <2>1. <<j, p>> \in Jobs \X Parts /\ <<j, p>>[1] = j
    OBVIOUS
  <2> QED BY <2>1 DEF EntriesInv, PositionsOK
<1>3. ASSUME NEW i \in 1..Len(cards), cards[i].job = j
      PROVE  /\ job[j].stage = "running" /\ agentEntries[j] = i
             /\ Len(cards[i].ids) = 0
  <2>1. j # NoReply
    BY DEF Jobs, NoReply
  <2>2. ReplyCardOK(i)
    BY <1>3, <2>1, EntriesFacts DEF CardOK
  <2> QED BY <1>1, <1>3, <2>2 DEF ReplyCardOK
<1>4. ASSUME agentEntries[j] # 0
      PROVE  /\ agentEntries[j] \in 1..Len(cards)
             /\ cards[agentEntries[j]].job = j /\ job[j].stage = "running"
  <2>1. agentEntries[j] \in 0..Len(cards) /\ Len(cards) \in Nat
    BY EntriesFacts
  <2> QED BY <1>4, <2>1 DEF EntriesInv, PositionsOK
<1> QED BY <1>1, <1>2, <1>3, <1>4

\* A new value of a job.
JobBecomes(j, y) == job' = [job EXCEPT ![j] = y]

\* The jobs after that.
LEMMA JobChanges ==
    ASSUME EntriesInv, NEW j \in Jobs, NEW y \in JobTypes,
           JobBecomes(j, y), y.sent <= y.parts,
           y.stage \in {"new", "running"} => y.parts = 0,
           y.stage = "replying" => y.parts > 0
    PROVE  /\ job' \in [Jobs -> JobTypes] /\ JobsOK' /\ job'[j] = y
           /\ \A i \in Jobs : i # j => job'[i] = job[i]
<1>1. job \in [Jobs -> JobTypes] /\ JobsOK
  BY DEF EntriesInv, EntriesTypes
<1>2. /\ job' \in [Jobs -> JobTypes] /\ job'[j] = y
      /\ \A i \in Jobs : i # j => job'[i] = job[i]
  BY <1>1 DEF JobBecomes
<1> QED BY <1>1, <1>2 DEF JobsOK

\* A reply starts with a card of its own.
LEMMA StartKeeps ==
    ASSUME EntriesInv, NEW j \in Jobs, ReplyStarts(j)
    PROVE  EntriesInv'
<1> DEFINE n == Len(cards)
           y == [job[j] EXCEPT !.stage = "running"]
           new == NewCard(j, "generating")
<1>1. /\ outbox' = outbox /\ toldCards' = toldCards /\ worker' = worker
      /\ deliveryEntries' = deliveryEntries /\ sourceEntries' = sourceEntries
      /\ job[j].stage = "new"
  BY DEF ReplyStarts
<1>2. /\ job[j].parts = 0 /\ job[j].sent = 0
      /\ \A p \in Parts : sourceEntries[<<j, p>>] = 0
      /\ \A i \in 1..n : cards[i].job # j
  BY <1>1, Unanswered
<1>3. y \in JobTypes /\ y.stage = "running" /\ y.parts = 0 /\ y.sent = 0
  BY <1>2, EntriesFacts DEF JobTypes
<1>4. /\ job' \in [Jobs -> JobTypes] /\ JobsOK' /\ job'[j] = y
      /\ \A i \in Jobs : i # j => job'[i] = job[i]
  <2>1. JobBecomes(j, y)
    BY DEF ReplyStarts, JobBecomes
  <2> HIDE DEF y
  <2> QED BY <1>3, <2>1, JobChanges
<1>5. /\ new \in CardTypes /\ new.job = j /\ new.status = "generating"
      /\ new.ids = <<>> /\ new.states = <<>>
  BY DEF NewCard, CardTypes, CardStatus
<1>6. /\ cards' \in Seq(CardTypes) /\ Len(cards') = n + 1 /\ n \in Nat
      /\ cards'[n + 1] = new /\ \A i \in 1..n : cards'[i] = cards[i]
  <2>1. cards' = Append(cards, new) /\ cards \in Seq(CardTypes)
    BY DEF ReplyStarts, EntriesInv, EntriesTypes
  <2> HIDE DEF new
  <2> QED BY <1>5, <2>1
<1>7. /\ agentEntries' \in [Jobs -> 0..(n + 1)] /\ agentEntries'[j] = n + 1
      /\ \A i \in Jobs : i # j => agentEntries'[i] = agentEntries[i]
  <2>1. agentEntries' = [agentEntries EXCEPT ![j] = n + 1]
        /\ agentEntries \in [Jobs -> 0..n]
    BY DEF ReplyStarts, EntriesInv, EntriesTypes
  <2> HIDE DEF n
  <2> QED BY <1>6, <2>1
<1>8. sourceEntries' \in [Jobs \X Parts -> 0..(n + 1)]
  <2>1. sourceEntries \in [Jobs \X Parts -> 0..n]
    BY DEF EntriesInv, EntriesTypes
  <2> QED BY <1>1, <1>6, <2>1
<1> HIDE DEF new, y
<1>9. ASSUME NEW i, i = n + 1 PROVE CardOK(i)'
  <2>1. cards'[i] = new
    BY <1>6, <1>9
  <2>2. ReplyCardOK(i)'
    BY <1>3, <1>4, <1>5, <1>7, <1>9, <2>1 DEF ReplyCardOK
  <2> QED BY <1>5, <2>1, <2>2 DEF CardOK
<1>10. \A i \in 1..Len(cards') : i > n => CardOK(i)'
  <2>1. \A i \in 1..Len(cards') : i > n => i = n + 1
    BY <1>6
  <2> QED BY <1>9, <2>1
<1>11. JobMoves(j)
  <2>1. job'[j].sent = job[j].sent
    BY <1>2, <1>3, <1>4
  <2>2. \A i \in 1..n : /\ cards'[i] = cards[i] /\ cards[i].job # j
    BY <1>2, <1>6
  <2>3. cards'[agentEntries'[j]].job = j /\ job'[j].stage = "running"
    BY <1>3, <1>4, <1>5, <1>6, <1>7
  <2>4. \A p \in Parts : sourceEntries'[<<j, p>>] = 0
    BY <1>1, <1>2
  <2>5. Len(cards) <= Len(cards')
    BY <1>6
  <2> QED BY <1>1, <1>4, <1>6, <1>7, <1>8, <1>10, <2>1, <2>2, <2>3, <2>4, <2>5
       DEF JobMoves
<1> QED BY <1>11, JobStep

\* What becomes of the board when a running job ends, which is known by it.
CardBecomes(j, y) ==
    /\ cards' = [cards EXCEPT ![agentEntries[j]] = y]
    /\ agentEntries' = [agentEntries EXCEPT ![j] = 0]

\* That card is the only one that changes, and its job no longer leads to it.
LEMMA OwnCard ==
    ASSUME EntriesInv, NEW j \in Jobs, job[j].stage = "running",
           agentEntries[j] # 0, NEW y \in CardTypes,
           y.job = j, y.ids = cards[agentEntries[j]].ids,
           y.states = cards[agentEntries[j]].states, y.status # "sent",
           CardBecomes(j, y)
    PROVE  /\ cards' \in Seq(CardTypes) /\ Len(cards') = Len(cards)
           /\ cards'[agentEntries[j]] = y
           /\ \A i \in 1..Len(cards) :
                /\ cards'[i].job = cards[i].job /\ cards'[i].ids = cards[i].ids
                /\ cards'[i].states = cards[i].states
                /\ cards[i].job # j \/ cards'[i].status = "sent" => cards'[i] = cards[i]
                /\ cards[i].job = j => i = agentEntries[j] /\ Len(cards[i].ids) = 0
           /\ agentEntries' \in [Jobs -> 0..Len(cards')] /\ agentEntries'[j] = 0
           /\ \A i \in Jobs : i # j => agentEntries'[i] = agentEntries[i]
<1> DEFINE at == agentEntries[j]
<1>1. /\ at \in 1..Len(cards) /\ cards[at].job = j
      /\ \A i \in 1..Len(cards) : cards[i].job = j => i = at /\ Len(cards[i].ids) = 0
  BY Unanswered
<1>2. cards \in Seq(CardTypes) /\ agentEntries \in [Jobs -> 0..Len(cards)]
  BY DEF EntriesInv, EntriesTypes
<1>3. /\ cards' \in Seq(CardTypes) /\ Len(cards') = Len(cards)
      /\ \A i \in 1..Len(cards) : cards'[i] = IF i = at THEN y ELSE cards[i]
  <2>1. cards' = [cards EXCEPT ![at] = y]
    BY DEF CardBecomes
  <2> HIDE DEF at
  <2> QED BY <1>1, <1>2, <2>1
<1>4. /\ agentEntries' \in [Jobs -> 0..Len(cards)] /\ agentEntries'[j] = 0
      /\ \A i \in Jobs : i # j => agentEntries'[i] = agentEntries[i]
  <2>1. Len(cards) \in Nat /\ agentEntries' = [agentEntries EXCEPT ![j] = 0]
    BY <1>2 DEF CardBecomes
  <2> QED BY <1>2, <2>1
<1>5. y.job = j /\ y.ids = cards[at].ids /\ y.states = cards[at].states /\ y.status # "sent"
  OBVIOUS
<1> HIDE DEF at
<1>6. ASSUME NEW i \in 1..Len(cards)
      PROVE  /\ cards'[i].job = cards[i].job /\ cards'[i].ids = cards[i].ids
             /\ cards'[i].states = cards[i].states
             /\ cards[i].job # j \/ cards'[i].status = "sent" => cards'[i] = cards[i]
             /\ cards[i].job = j => i = at /\ Len(cards[i].ids) = 0
  <2>1. CASE i = at
    BY <1>1, <1>3, <1>5, <2>1
  <2>2. CASE i # at
    BY <1>1, <1>3, <2>2
  <2> QED BY <2>1, <2>2
<1> QED BY <1>1, <1>3, <1>4, <1>6 DEF at

\* The reply is there: its card is known by its parts from now on.
LEMMA CompletionKeeps ==
    ASSUME EntriesInv, NEW j \in Jobs, NEW n \in Parts, ReplyCompletes(j, n)
    PROVE  EntriesInv'
<1> DEFINE at == agentEntries[j]
           y == [stage |-> "replying", parts |-> n, sent |-> 0]
<1>1. /\ outbox' = outbox /\ toldCards' = toldCards /\ worker' = worker
      /\ deliveryEntries' = deliveryEntries /\ job[j].stage = "running"
  BY DEF ReplyCompletes, boardVars
<1>2. /\ job[j].parts = 0 /\ job[j].sent = 0
      /\ \A p \in Parts : sourceEntries[<<j, p>>] = 0
      /\ \A i \in 1..Len(cards) : cards[i].job = j => at = i
      /\ at # 0 => at \in 1..Len(cards) /\ cards[at].job = j
  BY <1>1, Unanswered
<1>3. n \in Nat /\ n > 0 /\ n <= MaxParts
  BY Bounds DEF Parts
<1>4. y \in JobTypes /\ y.stage = "replying" /\ y.parts = n /\ y.sent = 0
  BY <1>3, Bounds DEF JobTypes
<1>5. /\ job' \in [Jobs -> JobTypes] /\ JobsOK' /\ job'[j] = y
      /\ \A i \in Jobs : i # j => job'[i] = job[i]
  <2>1. JobBecomes(j, y)
    BY DEF ReplyCompletes, JobBecomes
  <2> HIDE DEF y
  <2> QED BY <1>3, <1>4, <2>1, JobChanges
<1>6. /\ cards \in Seq(CardTypes) /\ Len(cards) \in Nat
      /\ sourceEntries \in [Jobs \X Parts -> 0..Len(cards)]
      /\ agentEntries \in [Jobs -> 0..Len(cards)]
  BY DEF EntriesInv, EntriesTypes
<1> HIDE DEF y
<1>7. job'[j].sent = job[j].sent
  BY <1>2, <1>4, <1>5
<1>8. CASE at = 0
  <2>1. /\ cards' = cards /\ agentEntries' = agentEntries
        /\ sourceEntries' = sourceEntries
    BY <1>8 DEF ReplyCompletes, boardVars
  <2>2. \A i \in 1..Len(cards) : cards[i].job # j
    BY <1>2, <1>8
  <2>3. JobMoves(j)
    BY <1>1, <1>2, <1>5, <1>6, <1>7, <1>8, <2>1, <2>2 DEF JobMoves
  <2> QED BY <2>3, JobStep
<1>9. CASE at # 0
  <2> DEFINE card == [cards[at] EXCEPT !.status = "generated", !.expected = n]
  <2>1. /\ cards[at] \in CardTypes /\ at \in 1..Len(cards) /\ cards[at].job = j
    BY <1>2, <1>6, <1>9
  <2>2. /\ card \in CardTypes /\ card.job = j /\ card.ids = cards[at].ids
        /\ card.states = cards[at].states /\ card.status = "generated"
        /\ card.expected = n
    BY <1>3, <2>1 DEF CardTypes, CardStatus
  <2>3. CardBecomes(j, card)
    <3>1. /\ cards' = [cards EXCEPT ![at].status = "generated", ![at].expected = n]
          /\ agentEntries' = [agentEntries EXCEPT ![j] = 0]
      BY <1>9 DEF ReplyCompletes
    <3>2. cards' = [cards EXCEPT ![at] = card]
      <4>1. DOMAIN cards = 1..Len(cards)
        BY <1>6
      <4> QED BY <2>1, <3>1, <4>1 DEF CardTypes
    <3> QED BY <3>1, <3>2 DEF CardBecomes
  <2> HIDE DEF card
  <2>4. card.status # "sent"
    BY <2>2
  <2>5. /\ cards' \in Seq(CardTypes) /\ Len(cards') = Len(cards)
        /\ cards'[at] = card
        /\ \A i \in 1..Len(cards) :
             /\ cards'[i].job = cards[i].job /\ cards'[i].ids = cards[i].ids
             /\ cards'[i].states = cards[i].states
             /\ cards[i].job # j \/ cards'[i].status = "sent" => cards'[i] = cards[i]
             /\ cards[i].job = j => i = at /\ Len(cards[i].ids) = 0
        /\ agentEntries' \in [Jobs -> 0..Len(cards')] /\ agentEntries'[j] = 0
        /\ \A i \in Jobs : i # j => agentEntries'[i] = agentEntries[i]
    BY <1>1, <1>9, <2>2, <2>3, <2>4, OwnCard
  <2>6. /\ sourceEntries' \in [Jobs \X Parts -> 0..Len(cards')]
        /\ \A i \in Jobs, p \in Parts :
             sourceEntries'[<<i, p>>] = IF i = j /\ p <= n THEN at
                                        ELSE sourceEntries[<<i, p>>]
    <3>1. sourceEntries' = [k \in Jobs \X Parts |->
                              IF k[1] = j /\ k[2] <= n THEN at ELSE sourceEntries[k]]
      BY <1>6, <1>9 DEF ReplyCompletes
    <3>2. at \in 0..Len(cards') /\ Len(cards') = Len(cards)
      BY <1>6, <2>1, <2>5
    <3> HIDE DEF at
    <3> QED BY <1>6, <3>1, <3>2
  <2>7. ASSUME NEW i, i = at PROVE ReplyCardOK(i)'
    <3>1. cards'[at].job = j /\ Len(cards'[at].ids) = 0 /\ cards'[at].expected = n
      BY <2>1, <2>2, <2>5
    <3>2. \A p \in 1..n : sourceEntries'[<<j, p>>] = at
      <4>1. \A p \in 1..n : p \in Parts /\ p <= n
        BY <1>3, Bounds DEF Parts
      <4> QED BY <2>6, <4>1
    <3> HIDE DEF at
    <3> QED BY <1>3, <1>4, <1>5, <2>7, <3>1, <3>2 DEF ReplyCardOK
  <2>8. JobMoves(j)
    <3>1. \A i \in Jobs, p \in Parts :
            i # j \/ p <= job[j].sent => sourceEntries'[<<i, p>>] = sourceEntries[<<i, p>>]
      <4>1. \A p \in Parts : ~(p <= job[j].sent)
        BY <1>2, Bounds DEF Parts
      <4> QED BY <2>6, <4>1
    <3>2. \A p \in Parts : sourceEntries'[<<j, p>>] # 0 =>
            sourceEntries'[<<j, p>>] = at /\ p <= n
      BY <1>2, <2>6
    <3>3. cards'[at].job = j
      BY <2>2, <2>5
    <3>4. \A i \in 1..Len(cards) : cards[i].job = j => ReplyCardOK(i)'
      BY <2>5, <2>7
    <3>5. Len(cards) <= Len(cards') /\ \A i \in 1..Len(cards') : ~(i > Len(cards))
      BY <1>6, <2>5
    <3> HIDE DEF at
    <3> QED BY <1>1, <1>4, <1>5, <1>7, <2>5, <2>6, <3>1, <3>2, <3>3, <3>4, <3>5
         DEF JobMoves
  <2> QED BY <2>8, JobStep
<1> QED BY <1>8, <1>9

\* A job that fails or is cancelled leaves its card as it is.
LEMMA EndKeeps ==
    ASSUME EntriesInv, NEW j \in Jobs,
           NEW status \in {"generation_failed", "cancelled"}, JobEnds(j, status)
    PROVE  EntriesInv'
<1> DEFINE at == agentEntries[j]
           y == [job[j] EXCEPT !.stage = "done"]
<1>1. /\ outbox' = outbox /\ toldCards' = toldCards /\ worker' = worker
      /\ deliveryEntries' = deliveryEntries /\ sourceEntries' = sourceEntries
      /\ job[j].stage = "running"
  BY DEF JobEnds, boardVars
<1>2. /\ job[j].parts = 0 /\ job[j].sent = 0
      /\ \A p \in Parts : sourceEntries[<<j, p>>] = 0
      /\ \A i \in 1..Len(cards) : cards[i].job = j => at = i
      /\ at # 0 => at \in 1..Len(cards) /\ cards[at].job = j
  BY <1>1, Unanswered
<1>3. y \in JobTypes /\ y.stage = "done" /\ y.parts = 0 /\ y.sent = 0
  BY <1>2, EntriesFacts DEF JobTypes
<1>4. /\ job' \in [Jobs -> JobTypes] /\ JobsOK' /\ job'[j] = y
      /\ \A i \in Jobs : i # j => job'[i] = job[i]
  <2>1. JobBecomes(j, y)
    BY DEF JobEnds, JobBecomes
  <2> HIDE DEF y
  <2> QED BY <1>3, <2>1, JobChanges
<1>5. /\ cards \in Seq(CardTypes) /\ Len(cards) \in Nat
      /\ sourceEntries \in [Jobs \X Parts -> 0..Len(cards)]
      /\ agentEntries \in [Jobs -> 0..Len(cards)]
  BY DEF EntriesInv, EntriesTypes
<1> HIDE DEF y
<1>6. job'[j].sent = job[j].sent
  BY <1>2, <1>3, <1>4
<1>7. CASE at = 0
  <2>1. cards' = cards /\ agentEntries' = agentEntries
    BY <1>7 DEF JobEnds, boardVars
  <2>2. \A i \in 1..Len(cards) : cards[i].job # j
    BY <1>2, <1>7
  <2>3. JobMoves(j)
    BY <1>1, <1>2, <1>4, <1>5, <1>6, <1>7, <2>1, <2>2 DEF JobMoves
  <2> QED BY <2>3, JobStep
<1>8. CASE at # 0
  <2> DEFINE card == [cards[at] EXCEPT !.status = status]
  <2>1. /\ cards[at] \in CardTypes /\ at \in 1..Len(cards) /\ cards[at].job = j
    BY <1>2, <1>5, <1>8
  <2>2. /\ card \in CardTypes /\ card.job = j /\ card.ids = cards[at].ids
        /\ card.states = cards[at].states /\ card.status # "sent"
    BY <2>1 DEF CardTypes, CardStatus, RowStatus, Failures
  <2>3. CardBecomes(j, card)
    <3>1. /\ cards' = [cards EXCEPT ![at].status = status]
          /\ agentEntries' = [agentEntries EXCEPT ![j] = 0]
      BY <1>8 DEF JobEnds
    <3>2. cards' = [cards EXCEPT ![at] = card]
      BY <3>1
    <3> QED BY <3>1, <3>2 DEF CardBecomes
  <2> HIDE DEF card
  <2>4. /\ cards' \in Seq(CardTypes) /\ Len(cards') = Len(cards)
        /\ cards'[at] = card
        /\ \A i \in 1..Len(cards) :
             /\ cards'[i].job = cards[i].job /\ cards'[i].ids = cards[i].ids
             /\ cards'[i].states = cards[i].states
             /\ cards[i].job # j \/ cards'[i].status = "sent" => cards'[i] = cards[i]
             /\ cards[i].job = j => i = at /\ Len(cards[i].ids) = 0
        /\ agentEntries' \in [Jobs -> 0..Len(cards')] /\ agentEntries'[j] = 0
        /\ \A i \in Jobs : i # j => agentEntries'[i] = agentEntries[i]
    BY <1>1, <1>8, <2>2, <2>3, OwnCard
  <2>5. \A i \in 1..Len(cards) : cards[i].job = j => ReplyCardOK(i)'
    <3>1. ASSUME NEW i \in 1..Len(cards), cards[i].job = j PROVE ReplyCardOK(i)'
      <4>1. cards'[i].job = j /\ Len(cards'[i].ids) = 0
        BY <2>4, <3>1
      <4> QED BY <1>3, <1>4, <4>1 DEF ReplyCardOK
    <3> QED BY <3>1
  <2>6. JobMoves(j)
    <3>1. Len(cards) <= Len(cards') /\ \A i \in 1..Len(cards') : ~(i > Len(cards))
      BY <1>5, <2>4
    <3> HIDE DEF at
    <3> QED BY <1>1, <1>2, <1>4, <1>5, <1>6, <2>4, <2>5, <3>1 DEF JobMoves
  <2> QED BY <2>6, JobStep
<1> QED BY <1>7, <1>8

\* A reply that is given up: its card is no longer expected to be complete.
LEMMA StopKeeps ==
    ASSUME EntriesInv, NEW j \in Jobs, JobStops(j)
    PROVE  EntriesInv'
<1> DEFINE y == [job[j] EXCEPT !.stage = "done"]
<1>1. /\ outbox' = outbox /\ toldCards' = toldCards /\ worker' = worker
      /\ deliveryEntries' = deliveryEntries /\ sourceEntries' = sourceEntries
      /\ cards' = cards /\ agentEntries' = agentEntries
      /\ job[j].stage = "replying"
  BY DEF JobStops, boardVars
<1>2. job[j].sent <= job[j].parts /\ job[j].parts > 0 /\ agentEntries[j] = 0
  BY <1>1 DEF EntriesInv, JobsOK, PositionsOK
<1>3. /\ y \in JobTypes /\ y.stage = "done" /\ y.parts = job[j].parts
      /\ y.sent = job[j].sent
  BY EntriesFacts DEF JobTypes
<1>4. /\ job' \in [Jobs -> JobTypes] /\ JobsOK' /\ job'[j] = y
      /\ \A i \in Jobs : i # j => job'[i] = job[i]
  <2>1. JobBecomes(j, y)
    BY DEF JobStops, JobBecomes
  <2> HIDE DEF y
  <2> QED BY <1>2, <1>3, <2>1, JobChanges
<1>5. /\ cards \in Seq(CardTypes) /\ Len(cards) \in Nat
      /\ sourceEntries \in [Jobs \X Parts -> 0..Len(cards)]
      /\ agentEntries \in [Jobs -> 0..Len(cards)]
  BY DEF EntriesInv, EntriesTypes
<1> HIDE DEF y
<1>6. ASSUME NEW i \in 1..Len(cards), cards[i].job = j PROVE ReplyCardOK(i)'
  <2>1. j # NoReply
    BY DEF Jobs, NoReply
  <2>2. ReplyCardOK(i)
    BY <1>6, <2>1, EntriesFacts DEF CardOK
  <2>3. /\ Len(cards[i].ids) = job[j].sent /\ cards[i].expected = job[j].parts
        /\ \A k \in 1..Len(cards[i].ids) : outbox[cards[i].ids[k]].key = <<j, k>>
        /\ \A p \in 1..job[j].parts : sourceEntries[<<j, p>>] = i
    BY <1>1, <1>6, <2>2 DEF ReplyCardOK
  <2> QED BY <1>1, <1>2, <1>3, <1>4, <1>6, <2>3 DEF ReplyCardOK
<1>7. \A p \in Parts : sourceEntries[<<j, p>>] # 0 =>
        cards[sourceEntries[<<j, p>>]].job = j /\ p <= job[j].parts
  <2>1. \A p \in Parts : /\ <<j, p>> \in Jobs \X Parts
                         /\ <<j, p>>[1] = j /\ <<j, p>>[2] = p
    OBVIOUS
  <2> QED BY <2>1 DEF EntriesInv, PositionsOK
<1>8. JobMoves(j)
  <2>1. \A i \in 1..Len(cards) : cards[i].job = j => ReplyCardOK(i)'
    BY <1>6
  <2> QED BY <1>1, <1>2, <1>3, <1>4, <1>5, <1>7, <2>1 DEF JobMoves
<1> QED BY <1>8, JobStep

-----------------------------------------------------------------------------
(* What the sender, the table and the user do.                             *)

\* A row that expires, of which the companion is not told.
LEMMA ExpiryKeeps ==
    ASSUME EntriesInv, NEW d \in Deliveries, RowExpires(d)
    PROVE  EntriesInv'
<1>1. /\ job' = job /\ toldCards' = toldCards /\ worker' = worker /\ cards' = cards
      /\ agentEntries' = agentEntries /\ sourceEntries' = sourceEntries
      /\ deliveryEntries' = deliveryEntries /\ outbox[d].status \in Waiting
      /\ outbox' = WithStatus(d, "expired")
  BY DEF RowExpires, boardVars, WithStatus
<1>2. /\ outbox' \in Seq(RowTypes) /\ Len(outbox') = Len(outbox)
      /\ Deliveries' = Deliveries
      /\ \A e \in Deliveries :
           /\ outbox'[e].key = outbox[e].key
           /\ outbox'[e].status = IF e = d THEN "expired" ELSE outbox[e].status
  <2> DEFINE expired == "expired"
  <2>1. outbox \in Seq(RowTypes) /\ expired \in RowStatus
    BY DEF EntriesInv, EntriesTypes, RowStatus, Failures
  <2> HIDE DEF expired
  <2>2. outbox' = WithStatus(d, expired)
    BY <1>1 DEF expired
  <2>3. /\ outbox' \in Seq(RowTypes) /\ Len(outbox') = Len(outbox)
        /\ DOMAIN outbox' = Deliveries
        /\ \A e \in Deliveries :
             /\ outbox'[e].key = outbox[e].key
             /\ outbox'[e].status = IF e = d THEN expired ELSE outbox[e].status
    BY <2>1, <2>2, RowChanges
  <2> QED BY <2>3 DEF Deliveries, expired
<1>3. EntriesTypes'
  BY <1>1, <1>2 DEF EntriesInv, EntriesTypes
<1>4. RowsOK'
  <2> SUFFICES ASSUME NEW e \in Deliveries PROVE RowOK(e)'
    BY <1>2 DEF RowsOK
  <2>1. RowOK(e)
    BY DEF EntriesInv, RowsOK
  <2>2. CASE e = d
    <3>1. toldCards[e] \in Waiting
      BY <1>1, <2>1, <2>2 DEF RowOK, Waiting
    <3> QED BY <1>1, <1>2, <2>1, <2>2, <3>1 DEF RowOK
  <2>3. CASE e # d
    BY <1>1, <1>2, <2>1, <2>3 DEF RowOK
  <2> QED BY <2>2, <2>3
<1>5. ASSUME NEW i \in 1..Len(cards) PROVE CardOK(i)'
  <2>1. CardOK(i) /\ \A k \in 1..Len(cards[i].ids) : cards[i].ids[k] \in Deliveries
    BY EntriesFacts DEF CardOK
  <2>2. cards'[i].job # NoReply => ReplyCardOK(i)'
    BY <1>1, <1>2, <2>1 DEF CardOK, ReplyCardOK
  <2> QED BY <1>1, <1>2, <2>1, <2>2 DEF CardOK
<1>6. PositionsOK' /\ JobsOK'
  BY <1>1, <1>2 DEF EntriesInv, PositionsOK, JobsOK
<1> QED BY <1>1, <1>3, <1>4, <1>5, <1>6 DEF EntriesInv, CardsOK

\* A conversation that is cleared: nothing is kept of a card.
LEMMA ClearingKeeps ==
    ASSUME EntriesInv, ClearCards
    PROVE  EntriesInv'
<1>1. /\ job' = job /\ outbox' = outbox /\ toldCards' = toldCards /\ worker' = worker
      /\ cards' = <<>> /\ Deliveries' = Deliveries
  BY DEF ClearCards, Deliveries
<1>2. /\ \A j \in Jobs : agentEntries'[j] = 0
      /\ \A key \in Jobs \X Parts : sourceEntries'[key] = 0
      /\ \A d \in 1..MaxDeliveries : deliveryEntries'[d] = 0
  BY DEF ClearCards
<1>3. cards' \in Seq(CardTypes) /\ Len(cards') = 0
  BY <1>1
<1>4. EntriesTypes'
  <2>1. /\ agentEntries' \in [Jobs -> 0..Len(cards')]
        /\ sourceEntries' \in [Jobs \X Parts -> 0..Len(cards')]
        /\ deliveryEntries' \in [1..MaxDeliveries -> 0..Len(cards')]
    BY <1>3 DEF ClearCards
  <2> QED BY <1>1, <1>3, <2>1 DEF EntriesInv, EntriesTypes
<1>5. RowsOK'
  <2> SUFFICES ASSUME NEW d \in Deliveries PROVE RowOK(d)'
    BY <1>1 DEF RowsOK
  <2>1. RowOK(d) /\ outbox[d].key \in (Jobs \X Parts) \cup {NoKey}
    BY EntriesFacts DEF EntriesInv, RowsOK
  <2>2. outbox[d].key # NoKey => sourceEntries'[outbox[d].key] = 0
    BY <1>2, <2>1
  <2> QED BY <1>1, <2>1, <2>2 DEF RowOK
<1>6. CardsOK'
  BY <1>3 DEF CardsOK
<1>7. PositionsOK' /\ JobsOK'
  BY <1>1, <1>2 DEF EntriesInv, PositionsOK, JobsOK
<1> QED BY <1>4, <1>5, <1>6, <1>7 DEF EntriesInv

\* The jobs, when none of them has sent a part.
LEMMA JobsGainNothing ==
    ASSUME EntriesInv, job' = job
    PROVE  JobsGain
<1>1. job \in [Jobs -> JobTypes] /\ JobsOK
  BY DEF EntriesInv, EntriesTypes
<1>2. \A j \in Jobs : job[j].sent \in Nat
  BY EntriesFacts
<1> QED BY <1>1, <1>2 DEF JobsGain, JobsOK

\* A row that the table has changes its status and the companion is told.
LEMMA ChangeKeeps ==
    ASSUME EntriesInv, NEW d \in Deliveries, NEW status \in RowStatus,
           Change(d, status), worker' \in {0} \cup Deliveries
    PROVE  EntriesInv'
<1>1. /\ job' = job /\ agentEntries' = agentEntries /\ sourceEntries' = sourceEntries
      /\ outbox' = WithStatus(d, status) /\ Tell(outbox', d, status)
  BY DEF Change, Tell, WithStatus
<1>2. /\ outbox' \in Seq(RowTypes) /\ Len(outbox') = Len(outbox)
      /\ Deliveries' = Deliveries
      /\ \A e \in Deliveries :
           /\ outbox'[e].key = outbox[e].key
           /\ outbox'[e].status = IF e = d THEN status ELSE outbox[e].status
  <2>1. outbox \in Seq(RowTypes)
    BY DEF EntriesInv, EntriesTypes
  <2>2. /\ outbox' \in Seq(RowTypes) /\ Len(outbox') = Len(outbox)
        /\ DOMAIN outbox' = Deliveries
        /\ \A e \in Deliveries :
             /\ outbox'[e].key = outbox[e].key
             /\ outbox'[e].status = IF e = d THEN status ELSE outbox[e].status
    BY <1>1, <2>1, RowChanges
  <2> QED BY <2>2 DEF Deliveries
<1>3. toldCards' = [i \in DOMAIN outbox' |-> IF i = d THEN status ELSE toldCards[i]]
  BY <1>1 DEF Tell
<1>4. /\ d \in 1..MaxDeliveries
      /\ deliveryEntries \in [1..MaxDeliveries -> 0..Len(cards)]
  BY EntriesFacts DEF EntriesInv, EntriesTypes
<1>5. CASE deliveryEntries[d] # 0
  <2>1. Location(outbox', d) = deliveryEntries[d]
    BY <1>5 DEF Location
  <2>2. /\ cards' = [cards EXCEPT ![deliveryEntries[d]] = Updated(@, d, status)]
        /\ deliveryEntries' = [deliveryEntries EXCEPT ![d] = deliveryEntries[d]]
    BY <1>1, <1>5, <2>1 DEF Tell
  <2>3. deliveryEntries' = deliveryEntries
    BY <1>4, <2>2
  <2>4. ToldAnew(d, status)
    BY <1>1, <1>3, <2>2, <2>3 DEF ToldAnew
  <2> QED BY <1>5, <2>4, Retold
<1>6. CASE deliveryEntries[d] = 0
  <2>1. RowOK(d) /\ outbox'[d].key = outbox[d].key
    BY <1>2 DEF EntriesInv, RowsOK
  <2>2. Location(outbox', d) = 0
    BY <1>6, <2>1 DEF Location, RowOK
  <2>3. ToldApart(d, status)
    BY <1>1, <1>2, <2>2 DEF ToldApart, Tell
  <2>4. TableGains(d, status)
    <3>1. outbox'[d].key # NoKey =>
            outbox'[d].key[2] <= job'[outbox'[d].key[1]].sent
      BY <1>1, <2>1 DEF RowOK
    <3>2. Len(outbox') <= MaxDeliveries /\ Deliveries' = Deliveries \cup {d}
      BY <1>2 DEF EntriesInv, EntriesTypes
    <3> QED BY <1>2, <1>3, <3>1, <3>2 DEF TableGains
  <2>5. JobsGain
    BY <1>1, JobsGainNothing
  <2>6. \A i \in 1..Len(cards) : cards[i].job # NoReply =>
          job'[cards[i].job] = job[cards[i].job]
    BY <1>1
  <2> QED BY <1>4, <1>6, <2>3, <2>4, <2>5, <2>6, Apart
<1> QED BY <1>5, <1>6

\* A row is added to the table.
RowIsAdded(row) == outbox' = Append(outbox, row)

\* A delivery that is new has no position yet.
LEMMA RowAdded ==
    ASSUME EntriesInv, Len(outbox) < MaxDeliveries, NEW row \in RowTypes,
           row.key # NoKey => row.key[2] <= job'[row.key[1]].sent,
           NEW d, d = Len(outbox) + 1, RowIsAdded(row), row.status = "queued",
           Tell(outbox', d, "queued")
    PROVE  /\ d \in 1..MaxDeliveries /\ d \notin Deliveries
           /\ deliveryEntries[d] = 0 /\ outbox'[d].key = row.key
           /\ TableGains(d, "queued")
<1>1. Len(outbox) \in Nat /\ Deliveries = 1..Len(outbox) /\ outbox \in Seq(RowTypes)
  BY EntriesFacts DEF EntriesInv, EntriesTypes
<1>2. d \in 1..MaxDeliveries /\ d \notin Deliveries
  BY <1>1, Bounds
<1>3. deliveryEntries[d] = 0
  BY <1>2 DEF EntriesInv, PositionsOK
<1>4. /\ outbox' \in Seq(RowTypes) /\ Len(outbox') = Len(outbox) + 1
      /\ \A e \in Deliveries : outbox'[e] = outbox[e]
      /\ outbox'[d] = row
  BY <1>1 DEF RowIsAdded
<1>5. Deliveries' = Deliveries \cup {d}
  <2>1. Deliveries' = 1..(Len(outbox) + 1)
    BY <1>4 DEF Deliveries
  <2> QED BY <1>1, <2>1
<1>6. Len(outbox') <= MaxDeliveries
  BY <1>1, <1>4, Bounds
<1>7. toldCards' = [i \in DOMAIN outbox' |-> IF i = d THEN "queued" ELSE toldCards[i]]
  BY DEF Tell
<1>8. TableGains(d, "queued")
  BY <1>4, <1>5, <1>6, <1>7 DEF TableGains
<1> QED BY <1>2, <1>3, <1>4, <1>8

\* A delivery that is sent again has a row and a card of its own.
LEMMA AgainKeeps ==
    ASSUME EntriesInv, NEW e \in Deliveries, Again(e)
    PROVE  EntriesInv'
<1> DEFINE row == [says |-> outbox[e].says, key |-> NoKey, status |-> "queued"]
           d == Len(outbox) + 1
<1>1. /\ job' = job /\ worker' = worker /\ agentEntries' = agentEntries
      /\ sourceEntries' = sourceEntries /\ Len(outbox) < MaxDeliveries
      /\ RowIsAdded(row) /\ Tell(outbox', d, "queued")
  BY DEF Again, Put, Tell, RowIsAdded
<1>2. row \in RowTypes /\ row.key = NoKey /\ row.status = "queued"
  BY EntriesFacts DEF RowTypes, RowStatus, Waiting
<1> HIDE DEF row, d
<1>3. /\ d \in 1..MaxDeliveries /\ d \notin Deliveries
      /\ deliveryEntries[d] = 0 /\ outbox'[d].key = NoKey
      /\ TableGains(d, "queued")
  <2>1. d = Len(outbox) + 1
    BY DEF d
  <2> QED BY <1>1, <1>2, <2>1, RowAdded
<1>4. Location(outbox', d) = 0
  BY <1>3 DEF Location
<1>5. ToldApart(d, "queued")
  <2>1. worker' \in {0} \cup Deliveries'
    BY <1>1, <1>3 DEF EntriesInv, EntriesTypes, TableGains
  <2> QED BY <1>1, <1>4, <2>1 DEF ToldApart, Tell
<1>6. JobsGain
  BY <1>1, JobsGainNothing
<1>7. \A i \in 1..Len(cards) : cards[i].job # NoReply =>
        job'[cards[i].job] = job[cards[i].job]
  BY <1>1
<1> DEFINE queued == "queued"
<1>8. /\ queued \in RowStatus /\ TableGains(d, queued) /\ ToldApart(d, queued)
  BY <1>3, <1>5 DEF RowStatus, Waiting
<1> HIDE DEF queued
<1> QED BY <1>3, <1>6, <1>7, <1>8, Apart

\* The next part of a reply is queued: it joins the card of the reply, when
\* there is one, and has a card of its own otherwise.
LEMMA SendKeeps ==
    ASSUME EntriesInv, NEW j \in Jobs, JobSends(j)
    PROVE  EntriesInv'
<1> DEFINE p == job[j].sent + 1
           row == [says |-> <<j, p>>, key |-> <<j, p>>, status |-> "queued"]
           d == Len(outbox) + 1
           y == [job[j] EXCEPT !.sent = p]
           queued == "queued"
<1>1. /\ worker' = worker /\ agentEntries' = agentEntries
      /\ sourceEntries' = sourceEntries /\ Len(outbox) < MaxDeliveries
      /\ RowIsAdded(row) /\ Tell(outbox', d, queued)
      /\ job[j].stage = "replying" /\ p <= job[j].parts
      /\ job' = [job EXCEPT ![j].sent = p]
  BY DEF JobSends, Put, Tell, RowIsAdded
<1>2. /\ job[j].sent \in Nat /\ job[j].parts \in Nat /\ job[j].sent < job[j].parts
      /\ p \in Parts /\ p \in 1..job[j].parts /\ p \in 0..MaxParts
  <2>1. job[j].sent \in Nat /\ job[j].parts \in Nat /\ job[j].parts <= MaxParts
    BY EntriesFacts, Bounds DEF JobTypes
  <2>2. p = job[j].sent + 1 /\ p <= job[j].parts /\ MaxParts \in Nat
    BY <1>1, Bounds
  <2> HIDE DEF p
  <2> QED BY <2>1, <2>2 DEF Parts
<1>3. /\ row \in RowTypes /\ row.key = <<j, p>> /\ row.status = queued
      /\ queued \in RowStatus
  BY <1>2 DEF RowTypes, RowStatus, Waiting
<1>4. <<j, p>> # NoKey /\ j # NoReply /\ <<j, p>> \in Jobs \X Parts
  BY <1>2 DEF Jobs, NoReply, NoKey
<1>5. /\ y \in JobTypes /\ y.stage = job[j].stage /\ y.parts = job[j].parts
      /\ y.sent = p
  <2> HIDE DEF p
  <2> QED BY <1>2, EntriesFacts DEF JobTypes
<1>6. /\ job' \in [Jobs -> JobTypes] /\ job'[j] = y
      /\ \A i \in Jobs : i # j => job'[i] = job[i]
  <2>1. job \in [Jobs -> JobTypes]
    BY DEF EntriesInv, EntriesTypes
  <2>2. job' = [job EXCEPT ![j] = y]
    BY <1>1
  <2> HIDE DEF y
  <2> QED BY <1>5, <2>1, <2>2
<1>7. JobsGain
  <2>1. ASSUME NEW i \in Jobs
        PROVE  /\ job'[i].stage = job[i].stage /\ job'[i].parts = job[i].parts
               /\ job[i].sent <= job'[i].sent /\ job'[i].sent <= job[i].parts
    <3>1. CASE i = j
      <4>1. p = job[j].sent + 1
        OBVIOUS
      <4> HIDE DEF p, y
      <4> QED BY <1>1, <1>2, <1>5, <1>6, <3>1, <4>1
    <3>2. CASE i # j
      <4>1. job[i].sent \in Nat /\ job[i].sent <= job[i].parts
        BY EntriesFacts DEF EntriesInv, JobsOK
      <4> QED BY <1>6, <3>2, <4>1
    <3> QED BY <3>1, <3>2
  <2> QED BY <1>6, <2>1 DEF JobsGain
<1>8. /\ d \in 1..MaxDeliveries /\ d \notin Deliveries
      /\ deliveryEntries[d] = 0 /\ outbox'[d].key = <<j, p>>
      /\ TableGains(d, queued)
  <2>1. row.key[2] <= job'[row.key[1]].sent
    <3>1. job'[j].sent = p /\ row.key[1] = j /\ row.key[2] = p /\ p \in Nat
      <4> HIDE DEF y
      <4> QED BY <1>2, <1>3, <1>5, <1>6
    <3> HIDE DEF p, row, y
    <3> QED BY <3>1
  <2>2. d = Len(outbox) + 1
    OBVIOUS
  <2> HIDE DEF row, d, y
  <2> QED BY <1>1, <1>3, <2>1, <2>2, RowAdded
<1> HIDE DEF row, y, queued
<1>9. Location(outbox', d) = sourceEntries[<<j, p>>]
  BY <1>4, <1>8 DEF Location
<1>10. sourceEntries[<<j, p>>] \in Nat
  BY <1>4, EntriesFacts
<1> HIDE DEF d
<1>11. CASE sourceEntries[<<j, p>>] = 0
  <2>1. ToldApart(d, queued)
    <3>1. worker' \in {0} \cup Deliveries'
      BY <1>1, <1>8 DEF EntriesInv, EntriesTypes, TableGains
    <3> QED BY <1>1, <1>9, <1>11, <3>1 DEF ToldApart, Tell
  <2>2. ASSUME NEW i \in 1..Len(cards), cards[i].job # NoReply
        PROVE  job'[cards[i].job] = job[cards[i].job]
    <3>1. ReplyCardOK(i) /\ cards[i].job \in Jobs
      BY <2>2, EntriesFacts DEF CardOK
    <3>2. ASSUME cards[i].job = j PROVE FALSE
      <4>1. \A q \in 1..job[j].parts : sourceEntries[<<j, q>>] = i
        BY <1>1, <3>1, <3>2 DEF ReplyCardOK
      <4>2. sourceEntries[<<j, p>>] = i
        BY <1>2, <4>1
      <4> QED BY <1>11, <4>2
    <3> QED BY <1>6, <3>1, <3>2
  <2> QED BY <1>3, <1>7, <1>8, <2>1, <2>2, Apart
<1>12. CASE sourceEntries[<<j, p>>] # 0
  <2>1. Joins(j, d)
    <3>1. /\ cards' = [cards EXCEPT ![sourceEntries[<<j, p>>]] = Updated(@, d, "queued")]
          /\ deliveryEntries' = [deliveryEntries EXCEPT ![d] = sourceEntries[<<j, p>>]]
      BY <1>1, <1>9, <1>12 DEF Tell, queued
    <3>2. job'[j].sent = job[j].sent + 1 /\ \A i \in Jobs : i # j => job'[i] = job[i]
      BY <1>5, <1>6
    <3> QED BY <1>1, <1>8, <3>1, <3>2 DEF Joins
  <2>2. TableGains(d, "queued")
    BY <1>8 DEF queued
  <2>3. sourceEntries[<<j, p>>] = sourceEntries[<<j, job[j].sent + 1>>]
    OBVIOUS
  <2> QED BY <1>1, <1>2, <1>7, <1>8, <1>10, <1>12, <2>1, <2>2, <2>3, Joined
<1> QED BY <1>11, <1>12

-----------------------------------------------------------------------------
(* Echoes.                                                                 *)

\* The newest of some positions is one of them.
LEMMA MaxFacts ==
    ASSUME NEW n \in Nat, NEW T, T \subseteq 1..n, T # {}
    PROVE  Max(T) \in T
<1>1. \E x \in T : \A y \in T : y <= x
  BY GreatestNumber
<1>2. \E x \in T : \A y \in T : x >= y
  BY <1>1
<1> QED BY <1>2, Zenon DEF Max

\* What an echo confirms is a delivery of some card.
LEMMA MatchingFacts ==
    ASSUME EntriesInv, NEW says, NEW hit, hit = Matching(says), hit # 0
    PROVE  \E i \in 1..Len(cards) : Holds(cards[i], hit)
<1> DEFINE hits == {i \in DOMAIN cards :
                      \E d \in Range(cards[i].ids) : outbox[d].says = says}
           ids == cards[Max(hits)].ids
           parts == {k \in DOMAIN ids : outbox[ids[k]].says = says}
<1>1. DOMAIN cards = 1..Len(cards) /\ Len(cards) \in Nat /\ hits \subseteq 1..Len(cards)
  BY DEF EntriesInv, EntriesTypes
<1>2. hits # {} /\ hit = ids[Min(parts)]
  BY DEF Matching
<1>3. Max(hits) \in hits
  <2> HIDE DEF hits
  <2> QED BY <1>1, <1>2, MaxFacts
<1>4. /\ ids \in Seq(Nat) /\ DOMAIN ids = 1..Len(ids) /\ Len(ids) \in Nat
      /\ Max(hits) \in 1..Len(cards)
  <2>1. cards[Max(hits)] \in CardTypes /\ Max(hits) \in 1..Len(cards)
    BY <1>1, <1>3, EntriesFacts
  <2> HIDE DEF hits
  <2> QED BY <2>1 DEF CardTypes
<1>5. parts # {}
  <2>1. \E d \in Range(ids) : outbox[d].says = says
    BY <1>3
  <2> HIDE DEF ids
  <2> QED BY <2>1 DEF Range
<1>6. Min(parts) \in parts
  <2>1. parts \subseteq Nat
    <3> HIDE DEF ids
    <3> QED BY <1>4
  <2> HIDE DEF parts
  <2> QED BY <1>5, <2>1, MinFacts
<1>7. Min(parts) \in 1..Len(ids) /\ ids[Min(parts)] = hit
  <2>1. Min(parts) \in DOMAIN ids
    BY <1>6
  <2> HIDE DEF ids, parts
  <2> QED BY <1>2, <1>4, <2>1
<1> QED BY <1>4, <1>7 DEF Holds

\* The card that has a delivery is the one its position leads to.
LEMMA CardOfDelivery ==
    ASSUME EntriesInv, NEW d, NEW i \in 1..Len(cards), Holds(cards[i], d)
    PROVE  d \in Deliveries /\ deliveryEntries[d] = i /\ EchoCard(d) = i
<1>1. /\ DOMAIN cards = 1..Len(cards)
      /\ \A k \in 1..Len(cards) : Holds(cards[k], d) =>
           d \in Deliveries /\ deliveryEntries[d] = k
  <2>1. DOMAIN cards = 1..Len(cards)
    BY DEF EntriesInv, EntriesTypes
  <2>2. ASSUME NEW k \in 1..Len(cards), Holds(cards[k], d)
        PROVE  d \in Deliveries /\ deliveryEntries[d] = k
    <3>1. CardOK(k)
      BY EntriesFacts
    <3> QED BY <2>2, <3>1 DEF Holds, CardOK
  <2> QED BY <2>1, <2>2
<1>2. \A k \in 1..Len(cards) : Contains(cards[k].ids, d) <=> Holds(cards[k], d)
  BY DEF Contains, Holds
<1>3. /\ i \in DOMAIN cards /\ Contains(cards[i].ids, d)
      /\ \A k \in DOMAIN cards : Contains(cards[k].ids, d) => k = i
  BY <1>1, <1>2
<1>4. \A k \in DOMAIN cards : Contains(cards[k].ids, d) => k <= i
  BY <1>1, <1>3
<1>5. EchoCard(d) = i
  BY <1>3, <1>4, Zenon DEF EchoCard
<1> QED BY <1>1, <1>5

\* A step that changes nothing of all this.
LEMMA NothingMoves ==
    ASSUME EntriesInv, job' = job, outbox' = outbox, worker' = worker,
           toldCards' = toldCards, cards' = cards, agentEntries' = agentEntries,
           sourceEntries' = sourceEntries, deliveryEntries' = deliveryEntries
    PROVE  EntriesInv'
<1>1. Deliveries' = Deliveries
  BY DEF Deliveries
<1>2. EntriesTypes'
  BY <1>1 DEF EntriesInv, EntriesTypes
<1>3. RowsOK'
  <2>1. \A d \in Deliveries : RowOK(d)'
    BY <1>1 DEF EntriesInv, RowsOK, RowOK
  <2> QED BY <1>1, <2>1 DEF RowsOK
<1>4. ASSUME NEW i \in 1..Len(cards) PROVE CardOK(i)'
  <2>1. CardOK(i)
    BY <1>4, EntriesFacts
  <2>2. cards'[i].job # NoReply => ReplyCardOK(i)'
    BY <2>1 DEF CardOK, ReplyCardOK
  <2> QED BY <1>1, <2>1, <2>2 DEF CardOK
<1>5. PositionsOK' /\ JobsOK'
  BY <1>1 DEF EntriesInv, PositionsOK, JobsOK
<1> QED BY <1>2, <1>3, <1>4, <1>5 DEF EntriesInv, CardsOK

\* An echo confirms a delivery, or nothing.
LEMMA EchoKeeps ==
    ASSUME EntriesInv, NEW e \in Deliveries, Echo(e)
    PROVE  EntriesInv'
<1> DEFINE hit == Matching(outbox[e].says)
           sent == "sent"
<1>1. /\ job' = job /\ worker' = worker /\ agentEntries' = agentEntries
      /\ sourceEntries' = sourceEntries /\ deliveryEntries' = deliveryEntries
  BY DEF Echo
<1>2. CASE hit = 0
  <2>1. outbox' = outbox /\ toldCards' = toldCards /\ cards' = cards
    BY <1>2 DEF Echo
  <2> QED BY <1>1, <2>1, NothingMoves
<1>3. CASE hit # 0
  <2>1. /\ outbox' = WithStatus(hit, "sent")
        /\ toldCards' = [toldCards EXCEPT ![hit] = "sent"]
        /\ cards' = [cards EXCEPT ![EchoCard(hit)] = Updated(@, hit, "sent")]
    BY <1>3 DEF Echo, WithStatus
  <2>2. PICK i \in 1..Len(cards) : Holds(cards[i], hit)
    <3> HIDE DEF hit
    <3>1. hit = Matching(outbox[e].says)
      BY DEF hit
    <3> QED BY <1>3, <3>1, MatchingFacts
  <2> HIDE DEF hit
  <2>3. /\ hit \in Deliveries /\ deliveryEntries[hit] = i /\ EchoCard(hit) = i
        /\ deliveryEntries[hit] # 0
    <3>1. /\ hit \in Deliveries /\ deliveryEntries[hit] = i /\ EchoCard(hit) = i
      BY <2>2, CardOfDelivery
    <3>2. i # 0
      BY EntriesFacts
    <3> QED BY <3>1, <3>2
  <2>4. sent \in RowStatus
    BY DEF RowStatus
  <2>5. ToldAnew(hit, sent)
    <3>1. DOMAIN outbox' = Deliveries /\ toldCards \in [Deliveries -> RowStatus]
      <4>1. outbox \in Seq(RowTypes)
        BY DEF EntriesInv, EntriesTypes
      <4> HIDE DEF sent
      <4>2. outbox' = WithStatus(hit, sent)
        BY <2>1 DEF sent
      <4>3. DOMAIN outbox' = Deliveries
        BY <2>3, <2>4, <4>1, <4>2, RowChanges
      <4> QED BY <4>3 DEF EntriesInv, EntriesTypes
    <3>2. toldCards' = [k \in DOMAIN outbox' |-> IF k = hit THEN sent ELSE toldCards[k]]
      BY <2>1, <3>1
    <3>3. worker' \in {0} \cup Deliveries
      BY <1>1 DEF EntriesInv, EntriesTypes
    <3> QED BY <1>1, <2>1, <2>3, <3>2, <3>3 DEF ToldAnew
  <2> HIDE DEF sent
  <2> QED BY <2>3, <2>4, <2>5, Retold
<1> QED BY <1>2, <1>3

-----------------------------------------------------------------------------
(* The cards of the conversation.                                          *)

\* At first there are no rows and no cards.
LEMMA EntriesInvInit ==
    ASSUME EntriesInit
    PROVE  EntriesInv
<1>1. /\ outbox = <<>> /\ cards = <<>> /\ toldCards = <<>> /\ worker = 0
      /\ job = [j \in Jobs |-> [stage |-> "new", parts |-> 0, sent |-> 0]]
  BY DEF EntriesInit
<1>2. Len(outbox) = 0 /\ Len(cards) = 0 /\ Deliveries = {}
  BY <1>1 DEF Deliveries
<1>3. EntriesTypes
  <2>1. job \in [Jobs -> JobTypes]
    BY <1>1, Bounds DEF JobTypes
  <2>2. outbox \in Seq(RowTypes) /\ cards \in Seq(CardTypes)
    BY <1>1
  <2>3. toldCards \in [Deliveries -> RowStatus]
    BY <1>1, <1>2
  <2>4. /\ agentEntries \in [Jobs -> 0..Len(cards)]
        /\ sourceEntries \in [Jobs \X Parts -> 0..Len(cards)]
        /\ deliveryEntries \in [1..MaxDeliveries -> 0..Len(cards)]
    BY <1>2 DEF EntriesInit
  <2> QED BY <1>1, <1>2, <2>1, <2>2, <2>3, <2>4, Bounds DEF EntriesTypes
<1>4. JobsOK
  BY <1>1 DEF JobsOK
<1>5. RowsOK /\ CardsOK
  BY <1>2 DEF RowsOK, CardsOK
<1>6. PositionsOK
  BY DEF EntriesInit, PositionsOK
<1> QED BY <1>3, <1>4, <1>5, <1>6 DEF EntriesInv

\* Whatever the Agent, the sender, the table, WeChat or the user does keeps it.
LEMMA EntriesInvStep ==
    ASSUME EntriesInv, [EntriesNext]_entriesVars
    PROVE  EntriesInv'
<1>1. ASSUME NEW j \in Jobs, ReplyStarts(j) PROVE EntriesInv'
  BY <1>1, StartKeeps
<1>2. ASSUME NEW j \in Jobs, JobSends(j) PROVE EntriesInv'
  BY <1>2, SendKeeps
<1>3. ASSUME NEW j \in Jobs, JobStops(j) PROVE EntriesInv'
  BY <1>3, StopKeeps
<1>4. ASSUME NEW j \in Jobs, NEW n \in Parts, ReplyCompletes(j, n) PROVE EntriesInv'
  BY <1>4, CompletionKeeps
<1>5. ASSUME NEW j \in Jobs, NEW status \in {"generation_failed", "cancelled"},
             JobEnds(j, status)
      PROVE  EntriesInv'
  BY <1>5, EndKeeps
<1>6. ASSUME NEW d \in Deliveries, WorkerClaims(d) PROVE EntriesInv'
  <2> DEFINE sending == "sending"
  <2>1. /\ sending \in RowStatus /\ Change(d, sending)
        /\ worker' \in {0} \cup Deliveries
    BY <1>6 DEF WorkerClaims, RowStatus
  <2> HIDE DEF sending
  <2> QED BY <2>1, ChangeKeeps
<1>7. ASSUME NEW d \in Deliveries, RowExpires(d) PROVE EntriesInv'
  BY <1>7, ExpiryKeeps
<1>8. ASSUME NEW d \in Deliveries, Again(d) PROVE EntriesInv'
  BY <1>8, AgainKeeps
<1>9. ASSUME NEW d \in Deliveries, CancelDelivery(d) PROVE EntriesInv'
  <2> DEFINE cancelled == "cancelled"
  <2>1. /\ cancelled \in RowStatus /\ Change(d, cancelled)
        /\ worker' \in {0} \cup Deliveries
    BY <1>9 DEF CancelDelivery, RowStatus, Failures, EntriesInv, EntriesTypes
  <2> HIDE DEF cancelled
  <2> QED BY <2>1, ChangeKeeps
<1>10. ASSUME NEW d \in Deliveries, Echo(d) PROVE EntriesInv'
  BY <1>10, EchoKeeps
<1>11. ASSUME NEW d \in Deliveries, NEW status \in {"sent", "failed", "retrying"},
              WorkerSettles(d, status)
       PROVE  EntriesInv'
  <2>1. /\ status \in RowStatus /\ Change(d, status)
        /\ worker' \in {0} \cup Deliveries
    BY <1>11 DEF WorkerSettles, RowStatus, Failures, Waiting
  <2> QED BY <2>1, ChangeKeeps
<1>12. CASE ClearCards
  BY <1>12, ClearingKeeps
<1>13. CASE UNCHANGED entriesVars
  <2>1. /\ job' = job /\ outbox' = outbox /\ worker' = worker
        /\ toldCards' = toldCards /\ cards' = cards /\ agentEntries' = agentEntries
        /\ sourceEntries' = sourceEntries /\ deliveryEntries' = deliveryEntries
    BY <1>13 DEF entriesVars, boardVars
  <2> QED BY <2>1, NothingMoves
<1> QED BY <1>1, <1>2, <1>3, <1>4, <1>5, <1>6, <1>7, <1>8, <1>9, <1>10, <1>11,
           <1>12, <1>13 DEF EntriesNext

\* What is told of the deliveries, what the cards have of them and the
\* positions that are kept agree at any time.
THEOREM EntriesInvariance == EntriesSpec => []EntriesInv
<1>1. EntriesInit => EntriesInv
  BY EntriesInvInit
<1>2. EntriesInv /\ [EntriesNext]_entriesVars => EntriesInv'
  BY EntriesInvStep
<1> QED BY <1>1, <1>2, PTL DEF EntriesSpec

\* A card that shows "sent" has all the parts of the reply, sent.
LEMMA SentFollows ==
    ASSUME EntriesInv
    PROVE  SentIsTrue
<1> SUFFICES ASSUME NEW i \in DOMAIN cards, cards[i].status = "sent"
             PROVE  /\ \A d \in Range(cards[i].ids) : outbox[d].status = "sent"
                    /\ cards[i].job # NoReply =>
                         \A p \in 1..job[cards[i].job].parts :
                           \E d \in Range(cards[i].ids) :
                             outbox[d].key = <<cards[i].job, p>>
  BY DEF SentIsTrue
<1>1. DOMAIN cards = 1..Len(cards)
  BY DEF EntriesInv, EntriesTypes
<1>2. /\ CardOK(i) /\ cards[i].job \in Jobs \cup {NoReply}
      /\ cards[i].ids \in Seq(Nat) /\ cards[i].expected \in Nat
  <2>1. cards[i] \in CardTypes
    BY <1>1, EntriesFacts
  <2> QED BY <1>1, <2>1, EntriesFacts DEF CardTypes
<1> DEFINE ids == cards[i].ids
<1>3. DOMAIN ids = 1..Len(ids) /\ Len(ids) \in Nat
  BY <1>2
<1>4. /\ Len(ids) >= cards[i].expected /\ Len(ids) > 0
      /\ \A k \in 1..Len(ids) : ids[k] \in Deliveries /\ toldCards[ids[k]] = "sent"
  BY <1>2 DEF CardOK
<1>5. \A d \in Range(ids) : outbox[d].status = "sent"
  <2>1. \A d \in Deliveries : toldCards[d] = "sent" => outbox[d].status = "sent"
    BY DEF EntriesInv, RowsOK, RowOK, Waiting
  <2> HIDE DEF ids
  <2> QED BY <1>3, <1>4, <2>1 DEF Range
<1>6. ASSUME cards[i].job # NoReply, NEW p \in 1..job[cards[i].job].parts
      PROVE  \E d \in Range(ids) : outbox[d].key = <<cards[i].job, p>>
  <2> DEFINE j == cards[i].job
  <2>1. ReplyCardOK(i) /\ j \in Jobs
    BY <1>2, <1>6 DEF CardOK
  <2>2. /\ job[j].parts \in Nat /\ job[j].sent \in Nat /\ job[j].sent <= job[j].parts
        /\ job[j].stage = "running" => job[j].parts = 0
    BY <2>1, EntriesFacts DEF EntriesInv, JobsOK
  <2>3. cards[i].expected = job[j].parts
    BY <1>6, <2>1, <2>2 DEF ReplyCardOK
  <2>4. p \in 1..Len(ids)
    <3> HIDE DEF ids, j
    <3>1. p \in 1..job[j].parts
      BY <1>6 DEF j
    <3> QED BY <1>2, <1>3, <1>4, <2>2, <2>3, <3>1
  <2>5. outbox[ids[p]].key = <<j, p>>
    BY <2>1, <2>4 DEF ReplyCardOK
  <2>6. ids[p] \in Range(ids)
    <3> HIDE DEF ids
    <3> QED BY <1>3, <2>4 DEF Range
  <2> QED BY <2>5, <2>6
<1> QED BY <1>5, <1>6

\* A delivery is on the card its position leads to, as it was told.
LEMMA OneCardFollows ==
    ASSUME EntriesInv
    PROVE  OneCardPerDelivery
<1> SUFFICES ASSUME NEW i \in DOMAIN cards, NEW k \in DOMAIN cards[i].ids
             PROVE  LET d == cards[i].ids[k] IN
                    /\ cards[i].states[k] = toldCards[d]
                    /\ deliveryEntries[d] = i
                    /\ outbox[d].key # NoKey =>
                         cards[i].job \in {outbox[d].key[1], NoReply}
  BY DEF OneCardPerDelivery
<1>1. DOMAIN cards = 1..Len(cards)
  BY DEF EntriesInv, EntriesTypes
<1>2. CardOK(i) /\ cards[i].ids \in Seq(Nat)
  <2>1. cards[i] \in CardTypes
    BY <1>1, EntriesFacts
  <2> QED BY <1>1, <2>1, EntriesFacts DEF CardTypes
<1>3. k \in 1..Len(cards[i].ids)
  BY <1>2
<1>4. cards[i].job # NoReply => outbox[cards[i].ids[k]].key = <<cards[i].job, k>>
  BY <1>2, <1>3 DEF CardOK, ReplyCardOK
<1>5. /\ cards[i].states[k] = toldCards[cards[i].ids[k]]
      /\ deliveryEntries[cards[i].ids[k]] = i
  BY <1>2, <1>3 DEF CardOK
<1> QED BY <1>4, <1>5

\* The cards tell the truth about the deliveries, for every number of replies,
\* parts, deliveries and clearings.
THEOREM CardsAlwaysTrue == EntriesSpec => []CardsAreTrue
<1>1. EntriesInv => CardsAreTrue
  BY SentFollows, OneCardFollows DEF CardsAreTrue
<1> QED BY <1>1, EntriesInvariance, PTL
=============================================================================
