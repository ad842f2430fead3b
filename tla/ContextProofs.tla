--------------------------- MODULE ContextProofs ---------------------------
(***************************************************************************)
(* What SessionContext keeps, for every value of its constants.            *)
(***************************************************************************)
EXTENDS SessionContext, FiniteSetTheorems, TLAPS

-----------------------------------------------------------------------------
(* Sequences. *)

\* The elements of a part of a sequence.
LEMMA SubSeqElements ==
    ASSUME NEW S, NEW s \in Seq(S), NEW m \in Nat, NEW n \in Nat,
           m \in 1..n + 1, n <= Len(s)
    PROVE  /\ SubSeq(s, m, n) \in Seq(S)
           /\ Len(SubSeq(s, m, n)) = n + 1 - m
           /\ \A i \in 1..n + 1 - m : SubSeq(s, m, n)[i] = s[m + i - 1]
OBVIOUS

\* The elements of a concatenation.
LEMMA ConcatElements ==
    ASSUME NEW S, NEW a \in Seq(S), NEW b \in Seq(S)
    PROVE  /\ a \o b \in Seq(S)
           /\ Len(a \o b) = Len(a) + Len(b)
           /\ \A i \in 1..Len(a) + Len(b) :
                 (a \o b)[i] = IF i <= Len(a) THEN a[i] ELSE b[i - Len(a)]
OBVIOUS

\* InsertAt moves what comes after by one place.
LEMMA InsertElements ==
    ASSUME NEW S, NEW s \in Seq(S), NEW k \in 1..Len(s) + 1, NEW e \in S
    PROVE  /\ InsertAt(s, k, e) \in Seq(S)
           /\ Len(InsertAt(s, k, e)) = Len(s) + 1
           /\ \A i \in 1..Len(s) + 1 :
                 InsertAt(s, k, e)[i] =
                   IF i < k THEN s[i] ELSE IF i = k THEN e ELSE s[i - 1]
<1> DEFINE a == SubSeq(s, 1, k - 1)
           b == SubSeq(s, k, Len(s))
           c == a \o <<e>>
<1>1. k \in Nat /\ Len(s) \in Nat /\ k >= 1 /\ k <= Len(s) + 1
  OBVIOUS
<1>2. a \in Seq(S) /\ Len(a) = k - 1 /\ \A i \in 1..k - 1 : a[i] = s[i]
  BY SubSeqElements, <1>1
<1>3. /\ b \in Seq(S) /\ Len(b) = Len(s) + 1 - k
      /\ \A i \in 1..Len(s) + 1 - k : b[i] = s[k + i - 1]
  BY SubSeqElements, <1>1
<1>4. InsertAt(s, k, e) = c \o b
  BY DEF InsertAt
<1>5. <<e>> \in Seq(S) /\ Len(<<e>>) = 1 /\ <<e>>[1] = e
  OBVIOUS
<1> HIDE DEF a, b
<1>6. /\ c \in Seq(S) /\ Len(c) = k
      /\ \A i \in 1..k : c[i] = IF i <= k - 1 THEN a[i] ELSE <<e>>[i - (k - 1)]
  BY <1>1, <1>2, <1>5, ConcatElements
<1>7. \A i \in 1..k : c[i] = IF i < k THEN s[i] ELSE e
  BY <1>1, <1>2, <1>5, <1>6
<1> HIDE DEF c
<1>8. Len(c) + Len(b) = Len(s) + 1
  BY <1>1, <1>3, <1>6
<1>9. /\ c \o b \in Seq(S) /\ Len(c \o b) = Len(s) + 1
      /\ \A i \in 1..Len(s) + 1 : (c \o b)[i] = IF i <= k THEN c[i] ELSE b[i - k]
  <2>1. /\ c \o b \in Seq(S) /\ Len(c \o b) = Len(c) + Len(b)
        /\ \A i \in 1..Len(c) + Len(b) :
              (c \o b)[i] = IF i <= Len(c) THEN c[i] ELSE b[i - Len(c)]
    BY <1>3, <1>6, ConcatElements
  <2> QED BY <2>1, <1>6, <1>8
<1>10. \A i \in 1..Len(s) + 1 : i > k => b[i - k] = s[i - 1]
  BY <1>1, <1>3
<1>11. \A i \in 1..Len(s) + 1 :
         (c \o b)[i] = IF i < k THEN s[i] ELSE IF i = k THEN e ELSE s[i - 1]
  BY <1>1, <1>7, <1>9, <1>10
<1> QED BY <1>4, <1>9, <1>11

\* RemoveAt moves what comes after back by one place.
LEMMA RemoveElements ==
    ASSUME NEW S, NEW s \in Seq(S), NEW k \in 1..Len(s)
    PROVE  /\ RemoveAt(s, k) \in Seq(S)
           /\ Len(RemoveAt(s, k)) = Len(s) - 1
           /\ \A i \in 1..Len(s) - 1 :
                 RemoveAt(s, k)[i] = IF i < k THEN s[i] ELSE s[i + 1]
<1> DEFINE a == SubSeq(s, 1, k - 1)
           b == SubSeq(s, k + 1, Len(s))
<1>1. k \in Nat /\ Len(s) \in Nat /\ k >= 1 /\ k <= Len(s)
  OBVIOUS
<1>2. a \in Seq(S) /\ Len(a) = k - 1 /\ \A i \in 1..k - 1 : a[i] = s[i]
  BY SubSeqElements, <1>1
<1>3. b \in Seq(S) /\ Len(b) = Len(s) - k /\ \A i \in 1..Len(s) - k : b[i] = s[k + i]
  BY SubSeqElements, <1>1
<1>4. RemoveAt(s, k) = a \o b
  BY DEF RemoveAt
<1> HIDE DEF a, b
<1>5. Len(a) + Len(b) = Len(s) - 1
  BY <1>1, <1>2, <1>3
<1>6. /\ a \o b \in Seq(S) /\ Len(a \o b) = Len(s) - 1
      /\ \A i \in 1..Len(s) - 1 :
            (a \o b)[i] = IF i <= k - 1 THEN a[i] ELSE b[i - (k - 1)]
  <2>1. /\ a \o b \in Seq(S) /\ Len(a \o b) = Len(a) + Len(b)
        /\ \A i \in 1..Len(a) + Len(b) :
              (a \o b)[i] = IF i <= Len(a) THEN a[i] ELSE b[i - Len(a)]
    BY <1>2, <1>3, ConcatElements
  <2> QED BY <2>1, <1>2, <1>5
<1>7. \A i \in 1..Len(s) - 1 : i >= k => b[i - (k - 1)] = s[i + 1]
  BY <1>1, <1>3
<1>8. \A i \in 1..Len(s) - 1 : (a \o b)[i] = IF i < k THEN s[i] ELSE s[i + 1]
  BY <1>1, <1>2, <1>6, <1>7
<1> QED BY <1>4, <1>6, <1>8

\* How many numbers follow m up to n.
LEMMA IntervalCount ==
    ASSUME NEW m \in Nat, NEW n \in Nat, m <= n
    PROVE  IsFiniteSet(m + 1..n) /\ Cardinality(m + 1..n) = n - m
<1>1. m + 1 \in Int /\ n \in Int
  OBVIOUS
<1>2. IsFiniteSet(m + 1..n) /\ Cardinality(m + 1..n) = IF m + 1 > n THEN 0 ELSE n - (m + 1) + 1
  BY <1>1, FS_Interval
<1> QED BY <1>2

\* The constants that are numbers.
LEMMA Numbers ==
    /\ MaxRows \in Nat /\ MaxNatives \in Nat /\ MaxJobs \in Nat
    /\ MaxRuns \in Nat /\ MaxClears \in Nat /\ Retain \in Nat \ {0}
BY ContextAssumption

\* EXCEPT replaces one element.
LEMMA ExceptElements ==
    ASSUME NEW S, NEW s \in Seq(S), NEW n \in 1..Len(s), NEW x \in S
    PROVE  /\ [s EXCEPT ![n] = x] \in Seq(S)
           /\ Len([s EXCEPT ![n] = x]) = Len(s)
           /\ [s EXCEPT ![n] = x][n] = x
           /\ \A m \in 1..Len(s) : m # n => [s EXCEPT ![n] = x][m] = s[m]
OBVIOUS

\* What ToSet holds.
LEMMA ToSetElements ==
    ASSUME NEW S, NEW s \in Seq(S)
    PROVE  /\ \A i \in 1..Len(s) : s[i] \in ToSet(s)
           /\ \A x \in ToSet(s) : \E i \in 1..Len(s) : s[i] = x
           /\ ToSet(s) \subseteq S
BY DEF ToSet

-----------------------------------------------------------------------------
(* The history only grows by a row at a place, and what was there keeps its *)
(* place or moves by one.                                                  *)

Grown(s, t, e) ==
    /\ Len(t) = Len(s) + 1
    /\ \A k \in 1..Len(t) :
         t[k] = e \/ \E i \in 1..Len(s) : s[i] = t[k] /\ i <= k /\ k <= i + 1
    /\ ToSet(t) = ToSet(s) \cup {e}
    /\ IsInjective(t)

\* A new number put anywhere in a sequence of distinct ones.
LEMMA InsertGrows ==
    ASSUME NEW S, NEW s \in Seq(S), NEW k \in 1..Len(s) + 1, NEW e \in S,
           e \notin ToSet(s), IsInjective(s)
    PROVE  Grown(s, InsertAt(s, k, e), e)
<1> DEFINE t == InsertAt(s, k, e)
<1>1. /\ t \in Seq(S) /\ Len(t) = Len(s) + 1
      /\ \A i \in 1..Len(s) + 1 :
            t[i] = IF i < k THEN s[i] ELSE IF i = k THEN e ELSE s[i - 1]
  <2>1. \A r \in Seq(S) : \A m \in 1..Len(r) + 1 : \A x \in S :
           /\ InsertAt(r, m, x) \in Seq(S)
           /\ Len(InsertAt(r, m, x)) = Len(r) + 1
           /\ \A i \in 1..Len(r) + 1 :
                 InsertAt(r, m, x)[i] =
                   IF i < m THEN r[i] ELSE IF i = m THEN x ELSE r[i - 1]
    BY InsertElements
  <2>2. \A m \in 1..Len(s) + 1 : \A x \in S :
           /\ InsertAt(s, m, x) \in Seq(S)
           /\ Len(InsertAt(s, m, x)) = Len(s) + 1
           /\ \A i \in 1..Len(s) + 1 :
                 InsertAt(s, m, x)[i] =
                   IF i < m THEN s[i] ELSE IF i = m THEN x ELSE s[i - 1]
    BY ONLY <2>1, s \in Seq(S), Zenon
  <2>3. \A x \in S :
           /\ InsertAt(s, k, x) \in Seq(S)
           /\ Len(InsertAt(s, k, x)) = Len(s) + 1
           /\ \A i \in 1..Len(s) + 1 :
                 InsertAt(s, k, x)[i] =
                   IF i < k THEN s[i] ELSE IF i = k THEN x ELSE s[i - 1]
    BY ONLY <2>2, k \in 1..Len(s) + 1, Zenon
  <2> QED BY ONLY <2>3, e \in S, Zenon
<1>2. /\ k \in Nat /\ Len(s) \in Nat /\ 1 <= k /\ k <= Len(s) + 1
      /\ \A i \in 1..Len(s) : s[i] # e
  BY ToSetElements
<1> HIDE DEF t
<1>3. ASSUME NEW j \in 1..Len(s) + 1, t[j] # e
      PROVE  \E i \in 1..Len(s) : s[i] = t[j] /\ i <= j /\ j <= i + 1
  <2>1. CASE j < k
    <3>1. j \in 1..Len(s) /\ s[j] = t[j] /\ j <= j /\ j <= j + 1
      BY <2>1, <1>1, <1>2
    <3> QED BY <3>1
  <2>2. CASE j > k
    <3>1. j - 1 \in 1..Len(s) /\ s[j - 1] = t[j] /\ j - 1 <= j /\ j <= (j - 1) + 1
      BY <2>2, <1>1, <1>2
    <3> QED BY <3>1
  <2>3. j # k  BY <1>3, <1>1
  <2> QED BY <2>1, <2>2, <2>3, <1>2
<1>4. \A i \in 1..Len(s) : \E j \in 1..Len(s) + 1 : t[j] = s[i]
  <2> SUFFICES ASSUME NEW i \in 1..Len(s)
               PROVE  \E j \in 1..Len(s) + 1 : t[j] = s[i]
    OBVIOUS
  <2>1. CASE i < k  BY <2>1, <1>1, <1>2
  <2>2. CASE i >= k
    <3> WITNESS i + 1 \in 1..Len(s) + 1
    <3>1. t[i + 1] = s[(i + 1) - 1]  BY <2>2, <1>1, <1>2
    <3> QED BY <3>1
  <2> QED BY <2>1, <2>2, <1>2
<1>5. t[k] = e  BY <1>1, <1>2
<1>6. ToSet(t) = ToSet(s) \cup {e}
  <2>1. ToSet(t) \subseteq ToSet(s) \cup {e}
    BY <1>1, <1>3, ToSetElements
  <2>2. ToSet(s) \subseteq ToSet(t)
    BY <1>1, <1>4, ToSetElements
  <2>3. e \in ToSet(t)
    BY <1>1, <1>2, <1>5, ToSetElements
  <2> QED BY <2>1, <2>2, <2>3
<1>7. IsInjective(t)
  <2>1. \A i, j \in 1..Len(s) : s[i] = s[j] => i = j
    BY DEF IsInjective
  <2>2. ASSUME NEW i \in 1..Len(s) + 1, NEW j \in 1..Len(s) + 1, t[i] = t[j]
        PROVE  i = j
    <3> DEFINE old(x) == IF x < k THEN x ELSE x - 1
    <3>1. \A x \in 1..Len(s) + 1 : x # k => old(x) \in 1..Len(s) /\ t[x] = s[old(x)]
      BY <1>1, <1>2
    <3>2. CASE i = k \/ j = k
      BY <3>1, <3>2, <2>2, <1>2, <1>5
    <3>3. CASE i # k /\ j # k
      <4>1. old(i) = old(j)  BY <3>1, <3>3, <2>1, <2>2
      <4> QED BY <4>1, <3>3, <1>2
    <3> QED BY <3>2, <3>3
  <2> QED BY <2>2, <1>1 DEF IsInjective
<1> QED BY <1>1, <1>3, <1>6, <1>7 DEF Grown, t

\* One put at its end.
LEMMA AppendGrows ==
    ASSUME NEW S, NEW s \in Seq(S), NEW e \in S,
           e \notin ToSet(s), IsInjective(s)
    PROVE  Append(s, e) \in Seq(S) /\ Grown(s, Append(s, e), e)
<1> DEFINE t == Append(s, e)
<1>1. /\ t \in Seq(S) /\ Len(t) = Len(s) + 1
      /\ \A i \in 1..Len(s) : t[i] = s[i]
      /\ t[Len(s) + 1] = e
  OBVIOUS
<1>2. Len(s) \in Nat /\ \A i \in 1..Len(s) : s[i] # e
  BY ToSetElements
<1> HIDE DEF t
<1>3. \A j \in 1..Len(s) + 1 : t[j] # e => s[j] = t[j] /\ j \in 1..Len(s)
  BY <1>1, <1>2
<1>4. ToSet(t) = ToSet(s) \cup {e}
  <2>1. ToSet(t) \subseteq ToSet(s) \cup {e}
    BY <1>1, <1>3, ToSetElements
  <2>2. ToSet(s) \subseteq ToSet(t)
    <3>1. \A i \in 1..Len(s) : t[i] \in ToSet(t)
      BY <1>1, <1>2, ToSetElements
    <3> QED BY <3>1, <1>1, ToSetElements
  <2>3. e \in ToSet(t)
    BY <1>1, <1>2, ToSetElements
  <2> QED BY <2>1, <2>2, <2>3
<1>5. IsInjective(t)
  <2>1. \A i, j \in 1..Len(s) : s[i] = s[j] => i = j
    BY DEF IsInjective
  <2>2. \A i, j \in 1..Len(s) + 1 : t[i] = t[j] => i = j
    BY <2>1, <1>1, <1>2
  <2> QED BY <2>2, <1>1 DEF IsInjective
<1>6. \A j \in 1..Len(s) + 1 : j <= j /\ j <= j + 1
  BY <1>2
<1> QED BY <1>1, <1>3, <1>4, <1>5, <1>6 DEF Grown, t

\* The step of an action that stores a row.
Grows ==
    /\ stored' = stored + 1 /\ stored + 1 \in Ids
    /\ messages' \in Seq(Ids)
    /\ Grown(messages, messages', stored + 1)

\* Each way a message is stored lets the history grow by one row.
LEMMA StoredGrows ==
    ASSUME ContextTypeOK, stored < MaxRows, stored' = stored + 1,
           \/ \E place \in Positions : messages' = Stored(place)
           \/ messages' = Append(messages, stored + 1)
    PROVE  Grows
<1>1. /\ stored + 1 \in Ids /\ messages \in Seq(Ids) /\ IsInjective(messages)
      /\ stored + 1 \notin ToSet(messages)
  BY Numbers DEF ContextTypeOK, Ids
<1>2. CASE \E place \in Positions : messages' = Stored(place)
  BY <1>1, <1>2, InsertGrows, InsertElements DEF Grows, Stored, Positions
<1>3. CASE messages' = Append(messages, stored + 1)
  BY <1>1, <1>3, AppendGrows DEF Grows
<1> QED BY <1>2, <1>3

-----------------------------------------------------------------------------
(* The native sessions. *)

OneActive(seq) ==
    \A m, n \in DOMAIN seq :
        /\ seq[m].provider = seq[n].provider
        /\ seq[m].active /\ seq[n].active
        => m = n

SomeNatives(seq) == seq \in Seq(Native) /\ OneActive(seq)

\* What an EXCEPT of a native session leaves.
LEMMA ActiveSet ==
    ASSUME NEW r \in Native, NEW b \in BOOLEAN
    PROVE  /\ [r EXCEPT !.active = b] \in Native
           /\ [r EXCEPT !.active = b].provider = r.provider
           /\ [r EXCEPT !.active = b].active = b
BY DEF Native

\* A native session that is initialized keeps the rest of its fields.
LEMMA InitializedSet ==
    ASSUME NEW r \in Native
    PROVE  /\ [r EXCEPT !.initialized = TRUE] \in Native
           /\ [r EXCEPT !.initialized = TRUE].provider = r.provider
           /\ [r EXCEPT !.initialized = TRUE].active = r.active
BY DEF Native

\* deactivates the sessions of p.
LEMMA DeactivatedElements ==
    ASSUME NEW seq \in Seq(Native), NEW p
    PROVE  /\ Deactivated(seq, p) \in Seq(Native)
           /\ Len(Deactivated(seq, p)) = Len(seq)
           /\ \A n \in 1..Len(seq) :
                 /\ Deactivated(seq, p)[n].provider = seq[n].provider
                 /\ Deactivated(seq, p)[n].active
                    => seq[n].active /\ seq[n].provider # p
<1> DEFINE F(n) == IF seq[n].provider = p THEN [seq[n] EXCEPT !.active = FALSE]
                   ELSE seq[n]
<1>1. /\ DOMAIN seq = 1..Len(seq) /\ Len(seq) \in Nat
      /\ \A n \in 1..Len(seq) : seq[n] \in Native
  OBVIOUS
<1>2. Deactivated(seq, p) = [n \in 1..Len(seq) |-> F(n)]
  BY <1>1 DEF Deactivated
<1>3. \A n \in 1..Len(seq) :
        /\ F(n) \in Native
        /\ F(n).provider = seq[n].provider
        /\ F(n).active => seq[n].active /\ seq[n].provider # p
  BY <1>1, ActiveSet
<1> HIDE DEF F
<1>4. /\ [n \in 1..Len(seq) |-> F(n)] \in Seq(Native)
      /\ Len([n \in 1..Len(seq) |-> F(n)]) = Len(seq)
  BY <1>1, <1>3
<1> QED BY <1>1, <1>2, <1>3, <1>4

\* A native session that is added is the only active one of its provider.
LEMMA AddedKeeps ==
    ASSUME NEW seq, SomeNatives(seq), NEW p \in Providers,
           NEW initialized \in BOOLEAN, NEW configured \in BOOLEAN
    PROVE  /\ SomeNatives(Added(seq, p, initialized, configured))
           /\ Len(Added(seq, p, initialized, configured)) = Len(seq) + 1
<1> DEFINE old == Deactivated(seq, p)
           new == [provider |-> p, active |-> TRUE, initialized |-> initialized,
                   configured |-> configured]
<1>1. /\ seq \in Seq(Native) /\ Len(seq) \in Nat
  BY DEF SomeNatives
<1>2. /\ old \in Seq(Native) /\ Len(old) = Len(seq)
      /\ \A n \in 1..Len(seq) :
            /\ old[n].provider = seq[n].provider
            /\ old[n].active => seq[n].active /\ seq[n].provider # p
  BY <1>1, DeactivatedElements
<1>3. new \in Native
  BY DEF Native
<1> HIDE DEF old
<1>4. /\ Append(old, new) \in Seq(Native) /\ Len(Append(old, new)) = Len(seq) + 1
      /\ \A n \in 1..Len(seq) : Append(old, new)[n] = old[n]
      /\ Append(old, new)[Len(seq) + 1] = new
  BY <1>1, <1>2, <1>3
<1>5. OneActive(Append(old, new))
  <2>1. \A m, n \in 1..Len(seq) :
           /\ old[m].provider = old[n].provider /\ old[m].active /\ old[n].active
           => m = n
    BY <1>1, <1>2 DEF SomeNatives, OneActive
  <2>2. new.provider = p  OBVIOUS
  <2>3. \A m, n \in 1..Len(seq) + 1 :
           /\ Append(old, new)[m].provider = Append(old, new)[n].provider
           /\ Append(old, new)[m].active /\ Append(old, new)[n].active
           => m = n
    BY <1>1, <1>2, <1>4, <2>1, <2>2
  <2> QED BY <1>4, <2>3 DEF OneActive
<1> QED BY <1>4, <1>5 DEF Added, SomeNatives, old

\* activate_native_session leaves one active session of the provider.
LEMMA ActivatedKeeps ==
    ASSUME SomeNatives(natives), NEW n \in DOMAIN natives
    PROVE  SomeNatives(Activated(n)) /\ Len(Activated(n)) = Len(natives)
<1> DEFINE p == natives[n].provider
           old == Deactivated(natives, p)
<1>1. /\ natives \in Seq(Native) /\ Len(natives) \in Nat
      /\ \A m \in 1..Len(natives) : natives[m] \in Native
  BY DEF SomeNatives
<1>2. /\ old \in Seq(Native) /\ Len(old) = Len(natives)
      /\ \A m \in 1..Len(natives) :
            /\ old[m].provider = natives[m].provider
            /\ old[m].active => natives[m].active /\ natives[m].provider # p
  BY <1>1, DeactivatedElements
<1> HIDE DEF old
<1>3. /\ Activated(n) \in Seq(Native) /\ Len(Activated(n)) = Len(natives)
      /\ \A m \in 1..Len(natives) :
            /\ Activated(n)[m].provider = natives[m].provider
            /\ m # n => Activated(n)[m].active = old[m].active
  <2>1. Activated(n) = [old EXCEPT ![n] = [old[n] EXCEPT !.active = TRUE]]
    BY DEF Activated, old
  <2>2. n \in 1..Len(natives) /\ old[n] \in Native
    BY <1>1, <1>2
  <2>3. /\ [old[n] EXCEPT !.active = TRUE] \in Native
        /\ [old[n] EXCEPT !.active = TRUE].provider = old[n].provider
    BY <2>2, ActiveSet
  <2> DEFINE x == [old[n] EXCEPT !.active = TRUE]
  <2>4. x \in Native /\ x.provider = old[n].provider
    BY <2>3
  <2> HIDE DEF x
  <2>5. old \in Seq(Native) /\ n \in 1..Len(old)
    BY <1>2, <2>2
  <2>6. /\ [old EXCEPT ![n] = x] \in Seq(Native)
        /\ Len([old EXCEPT ![n] = x]) = Len(old)
        /\ [old EXCEPT ![n] = x][n] = x
        /\ \A m \in 1..Len(old) : m # n => [old EXCEPT ![n] = x][m] = old[m]
    BY <2>4, <2>5, ExceptElements
  <2>7. Activated(n) = [old EXCEPT ![n] = x]
    BY <2>1 DEF x
  <2> QED BY <1>2, <2>2, <2>6, <2>7, <2>4
<1>4. OneActive(Activated(n))
  <2>1. \A k, m \in 1..Len(natives) :
          /\ Activated(n)[k].provider = Activated(n)[m].provider
          /\ Activated(n)[k].active /\ Activated(n)[m].active
          => k = m
    <3> SUFFICES ASSUME NEW k \in 1..Len(natives), NEW m \in 1..Len(natives),
                        Activated(n)[k].provider = Activated(n)[m].provider,
                        Activated(n)[k].active, Activated(n)[m].active
                 PROVE  k = m
      OBVIOUS
    <3>1. natives[k].provider = natives[m].provider
      BY <1>3
    <3>2. CASE k = n \/ m = n
      BY <1>1, <1>2, <1>3, <3>1, <3>2
    <3>3. CASE k # n /\ m # n
      BY <1>1, <1>2, <1>3, <3>1, <3>3 DEF OneActive, SomeNatives
    <3> QED BY <3>2, <3>3
  <2> QED BY <2>1, <1>1, <1>3 DEF OneActive
<1> QED BY <1>3, <1>4 DEF SomeNatives

\* The native sessions an Agent can have initialized.
LEMMA InitializedKeeps ==
    ASSUME SomeNatives(natives), NEW n \in DOMAIN natives
    PROVE  /\ SomeNatives([natives EXCEPT ![n].initialized = TRUE])
           /\ Len([natives EXCEPT ![n].initialized = TRUE]) = Len(natives)
<1> DEFINE done == [natives EXCEPT ![n].initialized = TRUE]
<1>1. /\ natives \in Seq(Native) /\ Len(natives) \in Nat
      /\ \A m \in 1..Len(natives) : natives[m] \in Native
  BY DEF SomeNatives
<1>2. /\ done \in Seq(Native) /\ Len(done) = Len(natives)
      /\ \A m \in 1..Len(natives) :
            /\ done[m].provider = natives[m].provider
            /\ done[m].active = natives[m].active
  <2>1. /\ n \in 1..Len(natives)
        /\ done = [natives EXCEPT ![n] = [natives[n] EXCEPT !.initialized = TRUE]]
    BY <1>1
  <2> HIDE DEF done
  <2>2. /\ [natives[n] EXCEPT !.initialized = TRUE] \in Native
        /\ [natives[n] EXCEPT !.initialized = TRUE].provider = natives[n].provider
        /\ [natives[n] EXCEPT !.initialized = TRUE].active = natives[n].active
    BY <1>1, <2>1, InitializedSet
  <2> QED BY <1>1, <2>1, <2>2
<1> HIDE DEF done
<1>3. OneActive(done)
  BY <1>1, <1>2 DEF OneActive, SomeNatives
<1> QED BY <1>2, <1>3 DEF SomeNatives, done

\* The part of the types that is about sessions.
SessionsOK ==
    /\ exists \in BOOLEAN /\ provider \in Providers /\ applied \in BOOLEAN
    /\ SomeNatives(natives) /\ Len(natives) <= MaxNatives

\* The part of the type invariant that is about the sessions.
LEMMA SessionsFromTypes ==
    ASSUME ContextTypeOK
    PROVE  SessionsOK
<1>1. /\ natives \in Seq(Native) /\ Len(natives) <= MaxNatives
      /\ \A p \in Providers : \A m, n \in ActiveOf(p) : m = n
      /\ exists \in BOOLEAN /\ provider \in Providers /\ applied \in BOOLEAN
  BY DEF ContextTypeOK
<1>2. OneActive(natives)
  <2> SUFFICES ASSUME NEW m \in DOMAIN natives, NEW n \in DOMAIN natives,
                      natives[m].provider = natives[n].provider,
                      natives[m].active, natives[n].active
               PROVE  m = n
    BY DEF OneActive
  <2>1. natives[n] \in Native
    BY <1>1
  <2>2. natives[n].provider \in Providers
    BY <2>1 DEF Native
  <2> QED BY <1>1, <2>2 DEF ActiveOf
<1> QED BY <1>1, <1>2 DEF SessionsOK, SomeNatives

\* Whatever resolve does to the sessions, none is lost.
LEMMA ResolveKeeps ==
    ASSUME SessionsOK, Resolve
    PROVE  SessionsOK' /\ Len(natives) <= Len(natives')
<1> USE ContextAssumption, Numbers
<1>1. Len(natives) \in Nat  BY DEF SessionsOK, SomeNatives
<1>2. exists' \in BOOLEAN /\ applied' \in BOOLEAN
  BY Zenon DEF Resolve, ApplyBinding
<1>3. provider' \in Providers
  BY DEF Resolve, ApplyBinding, SessionsOK
<1>4. CASE natives' = natives
  BY <1>1, <1>2, <1>3, <1>4 DEF SessionsOK
<1>5. CASE BindingAdds /\ natives' = Added(natives, BoundProvider, TRUE, TRUE)
  <2>1. Len(natives) < MaxNatives  BY <1>5 DEF Resolve
  <2>2. BoundProvider \in Providers  BY <1>5 DEF BindingAdds
  <2>3. SomeNatives(natives') /\ Len(natives') = Len(natives) + 1
    BY <1>5, <2>2, AddedKeeps DEF SessionsOK
  <2> QED BY <1>1, <1>2, <1>3, <2>1, <2>3 DEF SessionsOK
<1>6. CASE \E n \in Configured : natives' = Activated(n)
  <2>1. SomeNatives(natives') /\ Len(natives') = Len(natives)
    BY <1>6, ActivatedKeeps DEF SessionsOK, Configured
  <2> QED BY <1>1, <1>2, <1>3, <2>1 DEF SessionsOK
<1>7. \/ natives' = natives
      \/ BindingAdds /\ natives' = Added(natives, BoundProvider, TRUE, TRUE)
      \/ \E n \in Configured : natives' = Activated(n)
  <2> DEFINE n == CHOOSE n \in Configured : TRUE
  <2>1. Configured # {} => n \in Configured  OBVIOUS
  <2> HIDE DEF n
  <2> QED BY <2>1 DEF Resolve, ApplyBinding, BindingAdds, n
<1> QED BY <1>4, <1>5, <1>6, <1>7

-----------------------------------------------------------------------------
(* The type invariant, part by part. *)

HistoryOK ==
    /\ messages \in Seq(Ids) /\ IsInjective(messages)
    /\ stored \in 0..MaxRows /\ ToSet(messages) \subseteq 1..stored
    /\ observed \in Rows
    /\ flagged \subseteq ToSet(messages)
    /\ summary \in Rows

WorkOK ==
    /\ building \in Building \cup {NoBuild}
    /\ batch \in Batch \cup {NoBatch}
    /\ jobs \in Seq(Work) /\ \A k \in DOMAIN jobs : jobs[k].stage = "queued"
    /\ running \in Work \cup {NoJob} /\ running.stage # "queued"
    /\ running # NoJob => running.native <= Len(natives)
    /\ running.stage = "agent" => running.native # NoNative

ToldOK ==
    /\ forwarded \in [Providers -> Rows]
    /\ runs \in Nat \ {0}
    /\ told \in [Providers -> SUBSET ((1..stored) \X (1..runs))]
    /\ again \subseteq (1..runs) \X (1..runs)

\* The type invariant in the parts that steps change together.
LEMMA TypesSplit ==
    /\ ContextTypeOK => HistoryOK /\ SessionsOK /\ WorkOK /\ ToldOK
    /\ HistoryOK /\ SessionsOK /\ WorkOK /\ ToldOK => ContextTypeOK
<1>1. ContextTypeOK => HistoryOK /\ SessionsOK /\ WorkOK /\ ToldOK
  BY SessionsFromTypes DEF ContextTypeOK, HistoryOK, WorkOK, ToldOK
<1>2. SessionsOK => \A p \in Providers : \A m, n \in ActiveOf(p) : m = n
  BY DEF SessionsOK, SomeNatives, OneActive, ActiveOf
<1> QED
  BY <1>1, <1>2
     DEF ContextTypeOK, HistoryOK, SessionsOK, SomeNatives, WorkOK, ToldOK

\* What tells of rows stored before goes on to when more are stored.
LEMMA TypesGrow ==
    ASSUME stored \in Nat, stored' \in Nat, stored <= stored'
    PROVE  /\ Rows \subseteq Rows' /\ Context \subseteq Context'
           /\ Building \subseteq Building' /\ Batch \subseteq Batch'
           /\ Work \subseteq Work'
<1>1. Rows \subseteq Rows'
  BY DEF Rows
<1>2. Context \subseteq Context'
  BY <1>1, Zenon DEF Context
<1>3. Building \subseteq Building'
  BY <1>1, Zenon DEF Building
<1>4. Batch \subseteq Batch'
  BY <1>1, <1>2, Zenon DEF Batch
<1>5. Work \subseteq Work'
  BY <1>1, <1>2, Zenon DEF Work
<1> QED BY <1>1, <1>2, <1>3, <1>4, <1>5

\* The ways the history changes.
HistoryStays == UNCHANGED historyVars
HistoryGrows ==
    /\ Grows
    /\ observed' = observed \/ observed' = observed \cup {stored + 1}
    /\ UNCHANGED <<flagged, summary>>
HistoryIsCleared ==
    /\ messages' = <<>> /\ flagged' = {} /\ summary' = {}
    /\ building = NoBuild
    /\ UNCHANGED <<stored, observed>>

\* Every step stores a row, rolls up, clears, or leaves the history.
LEMMA HistorySteps ==
    ASSUME ContextTypeOK, [ContextNext]_contextVars
    PROVE  HistoryStays \/ HistoryGrows \/ RollUpWrites \/ HistoryIsCleared
<1> USE DEF HistoryStays, historyVars
<1>1. ASSUME NEW dispatch \in BOOLEAN, NEW place \in Positions,
             Inbound(dispatch, place), stored < MaxRows, UNCHANGED <<flagged, summary>>
      PROVE  HistoryGrows
  BY <1>1, StoredGrows DEF Inbound, HistoryGrows
<1>2. ASSUME NEW dispatch \in BOOLEAN, NEW place \in Positions,
             JoinsBatch(dispatch, place)
      PROVE  HistoryGrows
  BY <1>1, <1>2 DEF JoinsBatch
<1>3. ASSUME NEW place \in Positions, OpensBatch(place)
      PROVE  HistoryGrows
  <2>1. building.dispatch \in BOOLEAN
    BY <1>3 DEF OpensBatch, ContextTypeOK, Building, NoBuild
  <2> QED BY <1>1, <1>3, <2>1 DEF OpensBatch
<1>4. ASSUME NEW place \in Positions, Ask(place)
      PROVE  HistoryGrows
  BY <1>1, <1>4 DEF Ask
<1>5. ASSUME NEW place \in Positions, RecoveredRow(place)
      PROVE  HistoryGrows
  BY <1>5, StoredGrows DEF RecoveredRow, HistoryGrows
<1>6. CASE JobCompletes
  BY <1>6, StoredGrows DEF JobCompletes, HistoryGrows
<1>7. CASE Clear /\ building = NoBuild
  BY <1>7 DEF Clear, HistoryIsCleared
<1>8. CASE \/ Seal \/ JobStarts \/ SessionReady \/ JobFails
           \/ \E p \in Providers \cup {NoProvider}, dispatch \in BOOLEAN : Begins(p, dispatch)
           \/ \E p \in Providers : SetAgent(p)
           \/ \E p \in Providers, bind \in BOOLEAN : SessionCommand(p, bind)
           \/ \E k \in DOMAIN jobs : RemoveQueued(k)
           \/ Restart \/ UNCHANGED contextVars
  BY <1>8
     DEF Seal, JobStarts, SessionReady, JobFails, Begins, SetAgent, SessionCommand,
         RemoveQueued, Restart, contextVars
<1> QED
  BY <1>2, <1>3, <1>4, <1>5, <1>6, <1>7, <1>8 DEF ContextNext, LoopStep

\* The history keeps its type.
LEMMA HistoryTypes ==
    ASSUME ContextTypeOK, [ContextNext]_contextVars
    PROVE  HistoryOK' /\ stored <= stored' /\ stored \in Nat /\ stored' \in Nat
<1> USE Numbers
<1>1. HistoryOK /\ stored \in Nat
  BY TypesSplit DEF HistoryOK
<1>2. CASE HistoryStays
  BY <1>1, <1>2 DEF HistoryStays, historyVars, HistoryOK, Rows
<1>3. CASE HistoryGrows
  <2>1. /\ stored' = stored + 1 /\ stored' \in 0..MaxRows
        /\ messages' \in Seq(Ids) /\ IsInjective(messages')
        /\ ToSet(messages') = ToSet(messages) \cup {stored + 1}
    BY <1>1, <1>3 DEF HistoryGrows, Grows, Grown, Ids
  <2>2. ToSet(messages') \subseteq 1..stored'
    BY <1>1, <2>1 DEF HistoryOK
  <2>3. Rows \subseteq Rows' /\ stored + 1 \in 1..stored'
    BY <1>1, <2>1, TypesGrow
  <2>4. observed' \in Rows' /\ summary' \in Rows'
    BY <1>1, <1>3, <2>3 DEF HistoryGrows, HistoryOK, Rows
  <2>5. flagged' \subseteq ToSet(messages')
    BY <1>1, <1>3, <2>1 DEF HistoryGrows, HistoryOK
  <2> QED BY <1>1, <2>1, <2>2, <2>4, <2>5 DEF HistoryOK
<1>4. CASE RollUpWrites
  <2>1. building.compact \in Rows /\ building.summary \in Rows
    BY <1>4 DEF RollUpWrites, ContextTypeOK, Building, NoBuild
  <2> QED BY <1>1, <1>4, <2>1 DEF RollUpWrites, HistoryOK, Rows
<1>5. CASE HistoryIsCleared
  <2>1. messages' = <<>> /\ DOMAIN messages' = {} /\ messages' \in Seq(Ids)
    BY <1>5 DEF HistoryIsCleared
  <2>2. ToSet(messages') = {} /\ IsInjective(messages')
    BY <2>1 DEF ToSet, IsInjective
  <2> QED BY <1>1, <1>5, <2>1, <2>2 DEF HistoryIsCleared, HistoryOK, Rows
<1> QED BY <1>2, <1>3, <1>4, <1>5, HistorySteps

\* The native sessions keep their types.
LEMMA SessionTypes ==
    ASSUME ContextTypeOK, [ContextNext]_contextVars
    PROVE  SessionsOK' /\ Len(natives) <= Len(natives')
<1> USE Numbers
<1>1. SessionsOK /\ WorkOK /\ Len(natives) \in Nat
  BY TypesSplit DEF SessionsOK, SomeNatives
<1>2. CASE Resolve
  BY <1>1, <1>2, ResolveKeeps
<1>3. CASE UNCHANGED <<exists, provider, natives>> /\ applied' \in BOOLEAN
  <2>1. exists' \in BOOLEAN
    BY <1>1, <1>3, Zenon DEF SessionsOK
  <2> QED BY <1>1, <1>3, <2>1 DEF SessionsOK
<1>4. CASE SessionReady
  <2>1. CASE UNCHANGED natives
    <3>1. exists' \in BOOLEAN /\ applied' \in BOOLEAN /\ provider' \in Providers
      BY <1>1, <1>4, Zenon DEF SessionReady, SessionsOK
    <3> QED BY <1>1, <2>1, <3>1 DEF SessionsOK
  <2>2. CASE running.native = NoNative
    <3>1. running.provider \in Providers
      BY <1>1, <1>4 DEF SessionReady, WorkOK, Work, NoJob
    <3>2. Len(natives) < MaxNatives /\ natives' = Added(natives, running.provider, FALSE, FALSE)
      BY <1>4, <2>2 DEF SessionReady
    <3>3. SomeNatives(natives') /\ Len(natives') = Len(natives) + 1
      BY <1>1, <3>1, <3>2, AddedKeeps DEF SessionsOK
    <3>4. exists' \in BOOLEAN /\ applied' \in BOOLEAN /\ provider' \in Providers
      BY <1>1, <1>4, Zenon DEF SessionReady, SessionsOK
    <3>5. Len(natives) < MaxNatives
      BY <3>2
    <3> QED BY <1>1, <3>3, <3>4, <3>5 DEF SessionsOK
  <2> QED BY <1>4, <2>1, <2>2 DEF SessionReady
<1>5. CASE JobCompletes
  <2> DEFINE done == [natives EXCEPT ![running.native].initialized = TRUE]
  <2>1. running \in Work /\ running.native \in DOMAIN natives
    BY <1>1, <1>5 DEF JobCompletes, WorkOK, Work, NoJob, NoNative
  <2>2. SomeNatives(done) /\ Len(done) = Len(natives)
    BY <1>1, <2>1, InitializedKeeps DEF SessionsOK
  <2>3. \/ natives' = done
        \/ Len(natives) < MaxNatives /\ natives' = Added(done, running.provider, FALSE, FALSE)
    BY <1>5 DEF JobCompletes
  <2> HIDE DEF done
  <2>4. exists' \in BOOLEAN /\ applied' \in BOOLEAN /\ provider' \in Providers
    BY <1>1, <1>5, Zenon DEF JobCompletes, SessionsOK
  <2>5. running.provider \in Providers
    BY <2>1 DEF Work
  <2>6. CASE natives' = done
    BY <1>1, <2>2, <2>6, <2>4 DEF SessionsOK
  <2>7. CASE /\ Len(natives) < MaxNatives
             /\ natives' = Added(done, running.provider, FALSE, FALSE)
    <3>1. SomeNatives(natives') /\ Len(natives') = Len(done) + 1
      BY <2>2, <2>5, <2>7, AddedKeeps
    <3>2. Len(natives) < MaxNatives
      BY <2>7
    <3> QED BY <1>1, <2>2, <2>4, <3>1, <3>2 DEF SessionsOK
  <2> QED BY <2>3, <2>6, <2>7
<1>6. ASSUME NEW p \in Providers, NEW bind \in BOOLEAN, SessionCommand(p, bind)
      PROVE  SessionsOK' /\ Len(natives) <= Len(natives')
  <2>1. Len(natives) < MaxNatives /\ natives' = Added(natives, p, bind, FALSE)
    BY <1>6 DEF SessionCommand
  <2>2. SomeNatives(natives') /\ Len(natives') = Len(natives) + 1
    BY <1>1, <2>1, AddedKeeps DEF SessionsOK
  <2>3. exists' \in BOOLEAN /\ applied' \in BOOLEAN /\ provider' \in Providers
    BY <1>1, <1>6, Zenon DEF SessionCommand, SessionsOK
  <2>4. Len(natives) < MaxNatives
    BY <2>1
  <2> QED BY <1>1, <2>2, <2>3, <2>4 DEF SessionsOK
<1>7. ASSUME NEW p \in Providers, SetAgent(p)
      PROVE  SessionsOK' /\ Len(natives) <= Len(natives')
  <2>1. exists' \in BOOLEAN /\ applied' \in BOOLEAN /\ provider' \in Providers
    BY <1>1, <1>7, Zenon DEF SetAgent, SessionsOK
  <2> QED BY <1>1, <1>7, <2>1 DEF SetAgent, SessionsOK
<1>8. CASE Seal
  <2>1. CASE UNCHANGED <<exists, provider, natives, applied>>
    <3>1. exists' \in BOOLEAN /\ applied' \in BOOLEAN /\ provider' \in Providers
      BY <1>1, <2>1, Zenon DEF SessionsOK
    <3> QED BY <1>1, <2>1, <3>1 DEF SessionsOK
  <2> QED BY <1>2, <1>8, <2>1 DEF Seal
<1>9. CASE \/ JobStarts \/ JobFails
           \/ \E k \in DOMAIN jobs : RemoveQueued(k)
           \/ Clear \/ RollUpWrites
           \/ \E place \in Positions : OpensBatch(place) \/ Ask(place) \/ RecoveredRow(place)
           \/ Restart \/ UNCHANGED contextVars
  <2>1. UNCHANGED <<exists, provider, natives>> /\ applied' \in {applied, FALSE}
    BY <1>9
       DEF JobStarts, JobFails, RemoveQueued, Clear, RollUpWrites, OpensBatch, Ask,
           RecoveredRow, Restart, contextVars, sessionVars
  <2>2. applied' \in BOOLEAN
    BY <1>1, <2>1, Zenon DEF SessionsOK
  <2> QED BY <1>3, <2>1, <2>2
<1>10. CASE \/ \E p \in Providers \cup {NoProvider}, dispatch \in BOOLEAN : Begins(p, dispatch)
            \/ \E dispatch \in BOOLEAN, place \in Positions : JoinsBatch(dispatch, place)
  BY <1>2, <1>10 DEF Begins, JoinsBatch
<1> QED
  BY <1>4, <1>5, <1>6, <1>7, <1>8, <1>9, <1>10 DEF ContextNext, LoopStep

\* What the steps of the work read and build has its type.
LEMMA ReadType ==
    ASSUME ContextTypeOK, NEW p \in Providers \cup {NoProvider},
           NEW dispatch \in BOOLEAN
    PROVE  Read(p, dispatch) \in Building
<1>1. ToSet(messages) \subseteq 1..stored /\ messages \in Seq(Ids) /\ summary \in Rows
  BY DEF ContextTypeOK
<1>2. Compacted(messages) \subseteq ToSet(messages)
  BY DEF Compacted, Unsummarized, ToSet
<1> QED BY <1>1, <1>2 DEF Read, Building, Rows

\* A context that is built tells of stored rows.
LEMMA BuiltType ==
    ASSUME ContextTypeOK, building # NoBuild
    PROVE  Built \in Context
<1>1. building \in Building
  BY DEF ContextTypeOK
<1>2. building.messages \in Rows /\ building.summary \in Rows /\ building.meanwhile \in Nat
  BY <1>1 DEF Building
<1>3. Recent(messages) \in Rows
  BY DEF ContextTypeOK, Recent, ToSet, Rows
<1> QED BY <1>2, <1>3 DEF Built, Context, Rows

\* An Agent has one active native session at most.
LEMMA ActiveType ==
    ASSUME ContextTypeOK, NEW p \in Providers
    PROVE  /\ Active(p) \in 0..Len(natives)
           /\ Active(p) # NoNative => Active(p) \in ActiveOf(p)
<1>1. natives \in Seq(Native) /\ Len(natives) \in Nat
      /\ ActiveOf(p) \subseteq 1..Len(natives)
      /\ \A m, n \in ActiveOf(p) : m = n
  BY DEF ContextTypeOK, ActiveOf
<1>2. CASE ActiveOf(p) = {}
  BY <1>1, <1>2 DEF Active, NoNative
<1>3. CASE ActiveOf(p) # {}
  <2>1. \E n \in ActiveOf(p) : \A m \in ActiveOf(p) : m <= n
    BY <1>1, <1>3
  <2>2. Active(p) \in ActiveOf(p)
    BY <2>1, <1>3 DEF Active
  <2> QED BY <1>1, <2>2 DEF NoNative
<1> QED BY <1>2, <1>3

\* So does a prompt.
LEMMA PromptType ==
    ASSUME ContextTypeOK, running # NoJob
    PROVE  NotForwarded(running) \in Rows /\ Prompt(running) \in Rows
<1>1. running \in Work /\ observed \in Rows
  BY DEF ContextTypeOK
<1>2. running.context \in Context /\ running.own \in Rows
  BY <1>1 DEF Work
<1>3. running.context.recent \in Rows /\ running.context.summary \in Rows
  BY <1>2 DEF Context
<1>4. NotForwarded(running) \in Rows
  BY <1>1 DEF NotForwarded, Rows
<1> QED BY <1>2, <1>3, <1>4 DEF Prompt, Rows

\* A batch stays a batch when a message joins it.
LEMMA JoinedType ==
    ASSUME ContextTypeOK, stored' = stored + 1, NEW b \in Batch', NEW dispatch \in BOOLEAN
    PROVE  Joined(b, dispatch) \in Batch'
<1>1. stored + 1 \in 1..stored'
  BY DEF ContextTypeOK
<1>2. b.own \in Rows' /\ b.included \in Rows' /\ b.dispatch \in BOOLEAN
  BY DEF Batch
<1>3. (b.dispatch \/ dispatch) \in BOOLEAN
  BY Zenon
<1>4. b.own \cup {stored + 1} \in Rows' /\ b.included \cup {stored + 1} \in Rows'
  BY <1>1, <1>2 DEF Rows
<1> QED BY <1>2, <1>3, <1>4 DEF Joined, Batch

\* A sealed batch is a job.
LEMMA JobType ==
    ASSUME NEW p \in Providers, NEW b, b.context \in Context', b.own \in Rows',
           b.included \in Rows'
    PROVE  Job(b, p) \in Work' /\ Job(b, p).stage = "queued" /\ Job(b, p) # NoJob
<1>1. NoNative \in 0..MaxNatives /\ FALSE \in BOOLEAN /\ {} \in Rows'
  BY Numbers DEF NoNative, Rows
<1> QED BY <1>1 DEF Job, Work, NoJob

\* A job that starts, and one whose Agent is asked.
Started(j, n, b) == [j EXCEPT !.stage = "session", !.native = n, !.include = b]
Asked(j, n, a, q) ==
    [j EXCEPT !.stage = "agent", !.native = n, !.asked = a, !.prompt = q]

\* A job stays one when it starts and when its Agent is asked.
LEMMA StartedType ==
    ASSUME NEW j \in Work, NEW n \in 0..MaxNatives, NEW b, b \in BOOLEAN
    PROVE  LET r == Started(j, n, b)
           IN  /\ r \in Work /\ r.stage = "session" /\ r.native = n
               /\ r.provider = j.provider /\ r.context = j.context
               /\ r.own = j.own /\ r.included = j.included
BY DEF Work, Started

\* The second of them.
LEMMA AskedType ==
    ASSUME NEW j \in Work, NEW n \in 0..MaxNatives, NEW a \in Rows, NEW q \in Rows
    PROVE  LET r == Asked(j, n, a, q)
           IN  /\ r \in Work /\ r.stage = "agent" /\ r.native = n
               /\ r.asked = a /\ r.prompt = q /\ r.include = j.include
               /\ r.provider = j.provider /\ r.context = j.context
               /\ r.own = j.own /\ r.included = j.included
BY DEF Work, Asked

\* What is built, waits and runs keeps its type.
LEMMA WorkTypes ==
    ASSUME ContextTypeOK, [ContextNext]_contextVars
    PROVE  WorkOK'
<1>1. /\ WorkOK /\ Len(natives) \in Nat /\ Len(natives') \in Nat
      /\ Len(natives) <= Len(natives') /\ Len(natives') <= MaxNatives
  BY TypesSplit, SessionTypes DEF SessionsOK, SomeNatives
<1>2. /\ Rows \subseteq Rows' /\ Context \subseteq Context'
      /\ Building \subseteq Building' /\ Batch \subseteq Batch' /\ Work \subseteq Work'
  BY HistoryTypes, TypesGrow
<1>3. building \in Building' \cup {NoBuild} /\ batch \in Batch' \cup {NoBatch}
  BY <1>1, <1>2 DEF WorkOK
<1>4. /\ jobs \in Seq(Work') /\ \A k \in DOMAIN jobs : jobs[k].stage = "queued"
  BY <1>1, <1>2 DEF WorkOK
<1>5. /\ running \in Work' \cup {NoJob} /\ running.stage # "queued"
      /\ running # NoJob => running.native <= Len(natives')
      /\ running.stage = "agent" => running.native # NoNative
  <2>1. running # NoJob => running.native \in Nat
    BY <1>1 DEF WorkOK, Work
  <2> QED BY <1>1, <1>2, <2>1 DEF WorkOK
<1>6. ASSUME NEW p \in Providers \cup {NoProvider}, NEW dispatch \in BOOLEAN,
             Begins(p, dispatch)
      PROVE  WorkOK'
  <2>1. building' \in Building'
    BY <1>2, <1>6, ReadType DEF Begins
  <2> QED BY <1>3, <1>4, <1>5, <1>6, <2>1 DEF Begins, WorkOK
<1>7. ASSUME NEW dispatch \in BOOLEAN, NEW place \in Positions,
             JoinsBatch(dispatch, place)
      PROVE  WorkOK'
  <2>1. batch \in Batch' /\ stored' = stored + 1
    BY <1>3, <1>7 DEF JoinsBatch, Inbound, NoBatch
  <2>2. batch' \in Batch'
    BY <1>7, <2>1, JoinedType DEF JoinsBatch
  <2> QED BY <1>3, <1>4, <1>5, <1>7, <2>2 DEF JoinsBatch, WorkOK
<1>8. CASE Seal
  <2>1. batch \in Batch' /\ provider' \in Providers
    BY <1>3, <1>8, SessionTypes DEF Seal, NoBatch, SessionsOK
  <2>2. Job(batch, provider') \in Work' /\ Job(batch, provider').stage = "queued"
    BY <2>1, JobType DEF Batch
  <2>3. /\ jobs' \in Seq(Work') /\ \A k \in DOMAIN jobs' : jobs'[k].stage = "queued"
    BY <1>4, <1>8, <2>2 DEF Seal
  <2> QED BY <1>3, <1>5, <1>8, <2>3 DEF Seal, WorkOK
<1>9. CASE JobStarts
  <2> DEFINE j == Head(jobs)
             n == Active(j.provider)
             include == n = NoNative \/ ~natives[n].initialized
  <2>1. /\ jobs \in Seq(Work) /\ jobs # <<>> /\ j \in Work
        /\ jobs' = Tail(jobs) /\ UNCHANGED <<building, batch, natives>>
    BY <1>1, <1>9 DEF JobStarts, WorkOK, sessionVars
  <2>2. n \in 0..Len(natives)
    BY <2>1, ActiveType DEF Work
  <2>3. running' = Started(j, n, include)
    BY <1>9 DEF JobStarts, Started
  <2>4. include \in BOOLEAN
    BY Zenon
  <2> HIDE DEF j, n, include
  <2>5. running' \in Work /\ running'.stage = "session" /\ running'.native = n
    <3>1. n \in 0..MaxNatives
      BY <1>1, <2>1, <2>2, Numbers
    <3> QED BY <2>1, <2>3, <2>4, <3>1, StartedType
  <2>6. /\ jobs' \in Seq(Work') /\ \A k \in DOMAIN jobs' : jobs'[k].stage = "queued"
    BY <1>4, <2>1
  <2> QED BY <1>1, <1>2, <1>3, <2>1, <2>2, <2>5, <2>6 DEF WorkOK
<1>10. CASE SessionReady
  <2> DEFINE n == IF running.native = NoNative THEN Len(natives') ELSE running.native
  <2>1. /\ running \in Work /\ running # NoJob
        /\ UNCHANGED <<building, batch, jobs>>
    BY <1>1, <1>10 DEF SessionReady, WorkOK, NoJob
  <2>2. NotForwarded(running) \in Rows /\ Prompt(running) \in Rows
    BY <2>1, PromptType
  <2>3. n \in 1..Len(natives')
    <3>1. running.native \in Nat /\ running.native <= Len(natives)
      BY <1>1, <2>1 DEF WorkOK, Work
    <3>2. running.native = NoNative => Len(natives') = Len(natives) + 1
      <4>1. running.provider \in Providers
        BY <2>1 DEF Work
      <4> QED
        BY <1>10, <4>1, AddedKeeps, TypesSplit DEF SessionReady, SessionsOK
    <3> QED BY <1>1, <3>1, <3>2 DEF NoNative
  <2>4. running' = Asked(running, n, NotForwarded(running), Prompt(running))
    BY <1>10 DEF SessionReady, Asked
  <2> HIDE DEF n
  <2>5. running' \in Work /\ running'.stage = "agent" /\ running'.native = n
    <3>1. n \in 0..MaxNatives
      BY <1>1, <2>3, Numbers
    <3> QED BY <2>1, <2>2, <2>4, <3>1, AskedType
  <2> QED BY <1>2, <1>3, <1>4, <2>1, <2>3, <2>5 DEF WorkOK, NoNative
<1>11. CASE RollUpWrites
  <2>1. building \in Building
    BY <1>1, <1>11 DEF RollUpWrites, WorkOK, NoBuild
  <2>2. building.summary \cup building.compact \in Rows
    BY <2>1 DEF Building, Rows
  <2>3. building' \in Building
    BY <1>11, <2>1, <2>2 DEF RollUpWrites, Building
  <2> QED BY <1>2, <1>3, <1>4, <1>5, <1>11, <2>3 DEF RollUpWrites, WorkOK
<1>12. ASSUME NEW place \in Positions, OpensBatch(place)
       PROVE  WorkOK'
  <2> DEFINE b == [open |-> TRUE, context |-> Built, own |-> {}, included |-> {},
                   dispatch |-> FALSE]
  <2>1. /\ building # NoBuild /\ building.dispatch \in BOOLEAN
        /\ stored' = stored + 1
    BY <1>1, <1>12 DEF OpensBatch, NoBuild, WorkOK, Building, Inbound
  <2>2. b \in Batch'
    BY <1>2, <2>1, BuiltType DEF Batch, Rows
  <2>3. batch' = Joined(b, building.dispatch)
    BY <1>12 DEF OpensBatch
  <2> HIDE DEF b
  <2>4. batch' \in Batch'
    BY <2>1, <2>2, <2>3, JoinedType
  <2> QED BY <1>3, <1>4, <1>5, <1>12, <2>4 DEF OpensBatch, WorkOK
<1>13. ASSUME NEW place \in Positions, Ask(place)
       PROVE  WorkOK'
  <2> DEFINE b == [context |-> Built, own |-> {stored + 1}, included |-> {}]
  <2>1. /\ building # NoBuild /\ building.for \in Providers
        /\ stored' = stored + 1
    BY <1>1, <1>13 DEF Ask, NoBuild, WorkOK, Building, Inbound
  <2>2. Built \in Context' /\ {stored + 1} \in Rows' /\ {} \in Rows'
    <3>1. stored + 1 \in 1..stored'
      BY <2>1, HistoryTypes
    <3> QED BY <1>2, <2>1, <3>1, BuiltType DEF Rows
  <2>3. /\ Job(b, building.for) \in Work'
        /\ Job(b, building.for).stage = "queued"
    <3>1. b.context \in Context' /\ b.own \in Rows' /\ b.included \in Rows'
      BY <2>2
    <3> HIDE DEF b
    <3> QED BY <2>1, <3>1, JobType
  <2>4. jobs' = Append(jobs, Job(b, building.for))
    BY <1>13 DEF Ask
  <2> HIDE DEF b
  <2>5. /\ jobs' \in Seq(Work') /\ \A k \in DOMAIN jobs' : jobs'[k].stage = "queued"
    BY <1>4, <2>3, <2>4
  <2> QED BY <1>3, <1>5, <1>13, <2>5 DEF Ask, WorkOK
<1>14. ASSUME NEW k \in DOMAIN jobs, RemoveQueued(k)
       PROVE  WorkOK'
  <2>1. /\ jobs' \in Seq(Work') /\ \A m \in DOMAIN jobs' : jobs'[m].stage = "queued"
    <3>1. /\ jobs' \in Seq(Work') /\ Len(jobs') = Len(jobs) - 1
          /\ \A i \in 1..Len(jobs) - 1 : jobs'[i] = IF i < k THEN jobs[i] ELSE jobs[i + 1]
      <4>1. k \in 1..Len(jobs) /\ jobs' = RemoveAt(jobs, k)
        BY <1>4, <1>14 DEF RemoveQueued
      <4> QED BY <1>4, <4>1, RemoveElements
    <3> QED BY <1>4, <3>1
  <2> QED BY <1>3, <1>5, <1>14, <2>1 DEF RemoveQueued, WorkOK
<1>15. ASSUME NEW place \in Positions, RecoveredRow(place)
       PROVE  WorkOK'
  <2>1. building # NoBuild => [building EXCEPT !.meanwhile = @ + 1] \in Building
    BY <1>1 DEF WorkOK, Building
  <2>2. building' \in Building' \cup {NoBuild}
    BY <1>2, <1>15, <2>1 DEF RecoveredRow
  <2> QED BY <1>3, <1>4, <1>5, <1>15, <2>2 DEF RecoveredRow, WorkOK
<1>16. CASE JobCompletes \/ JobFails
  <2>1. running' = NoJob /\ UNCHANGED <<building, batch, jobs>>
    BY <1>16 DEF JobCompletes, JobFails
  <2> QED BY <1>3, <1>4, <2>1 DEF WorkOK, NoJob
<1>17. CASE Restart
  BY <1>17 DEF Restart, WorkOK, NoJob
<1>18. CASE \/ \E p \in Providers : SetAgent(p)
            \/ \E p \in Providers, bind \in BOOLEAN : SessionCommand(p, bind)
            \/ Clear \/ UNCHANGED contextVars
  <2>1. UNCHANGED workVars
    BY <1>18 DEF SetAgent, SessionCommand, Clear, contextVars
  <2> QED BY <1>3, <1>4, <1>5, <2>1 DEF workVars, WorkOK
<1> QED
  BY <1>6, <1>7, <1>8, <1>9, <1>10, <1>11, <1>12, <1>13, <1>14, <1>15, <1>16,
     <1>17, <1>18 DEF ContextNext, LoopStep

\* Only an Agent's answer and a new run change what has been told.
LEMMA ToldSteps ==
    ASSUME [ContextNext]_contextVars
    PROVE  JobCompletes \/ Restart \/ UNCHANGED <<forwarded, runs, told, again>>
BY DEF ContextNext, LoopStep, Begins, JoinsBatch, Seal, JobStarts, SessionReady,
       JobFails, SetAgent, SessionCommand, RemoveQueued, Clear, RollUpWrites,
       OpensBatch, Ask, RecoveredRow, contextVars

\* So does what has been told.
LEMMA ToldTypes ==
    ASSUME ContextTypeOK, [ContextNext]_contextVars
    PROVE  ToldOK'
<1>1. ToldOK
  BY TypesSplit
<1>2. /\ stored \in Nat /\ stored' \in Nat /\ 1..stored \subseteq 1..stored'
      /\ Rows \subseteq Rows'
  BY HistoryTypes, TypesGrow
<1>3. CASE JobCompletes
  <2> DEFINE q == running.provider
  <2>1. running \in Work /\ runs' = runs
    BY <1>3 DEF JobCompletes, ContextTypeOK, NoJob
  <2>2. /\ q \in Providers /\ running.asked \in Rows
        /\ running.included \in Rows /\ running.prompt \in Rows
    BY <2>1 DEF Work
  <2>3. forwarded' \in [Providers -> Rows']
    BY <1>1, <1>2, <1>3, <2>2 DEF JobCompletes, Mark, Rows, ToldOK
  <2>4. told' \in [Providers -> SUBSET ((1..stored') \X (1..runs'))]
    <3>1. (running.prompt \cap observed) \X {runs} \subseteq (1..stored) \X (1..runs)
      BY <1>1, <2>2 DEF ToldOK, Rows
    <3>2. told' = [told EXCEPT ![q] = @ \cup (running.prompt \cap observed) \X {runs}]
      BY <1>3 DEF JobCompletes
    <3>3. told' \in [Providers -> SUBSET ((1..stored) \X (1..runs))]
      BY <1>1, <2>2, <3>1, <3>2 DEF ToldOK
    <3>4. (1..stored) \X (1..runs) \subseteq (1..stored') \X (1..runs')
      BY <1>2, <2>1
    <3> QED BY <3>3, <3>4
  <2>5. again' \subseteq (1..runs') \X (1..runs')
    <3>1. again' \subseteq again \cup {<<t[2], runs>> :
                             t \in {t \in told[q] : t[1] \in running.prompt}}
      BY <1>3 DEF JobCompletes
    <3>2. \A t \in told[q] : t[2] \in 1..runs
      BY <1>1, <2>2 DEF ToldOK
    <3> QED BY <1>1, <2>1, <3>1, <3>2 DEF ToldOK
  <2> QED BY <1>1, <2>1, <2>3, <2>4, <2>5 DEF ToldOK
<1>4. CASE Restart
  <2>1. /\ runs' = runs + 1 /\ UNCHANGED <<stored, told, again>>
        /\ forwarded' = [p \in Providers |-> {}]
    BY <1>4 DEF Restart, historyVars
  <2>2. runs \in Nat \ {0} /\ 1..runs \subseteq 1..runs' /\ runs' \in Nat \ {0}
    BY <1>1, <2>1 DEF ToldOK
  <2>3. (1..stored) \X (1..runs) \subseteq (1..stored') \X (1..runs')
    BY <2>1, <2>2
  <2>4. (1..runs) \X (1..runs) \subseteq (1..runs') \X (1..runs')
    BY <2>2
  <2>5. told' \in [Providers -> SUBSET ((1..stored') \X (1..runs'))]
    BY <1>1, <2>1, <2>3 DEF ToldOK
  <2>6. again' \subseteq (1..runs') \X (1..runs')
    BY <1>1, <2>1, <2>4 DEF ToldOK
  <2>7. forwarded' \in [Providers -> Rows']
    BY <2>1 DEF Rows
  <2> QED BY <2>2, <2>5, <2>6, <2>7 DEF ToldOK
<1>5. CASE UNCHANGED <<forwarded, runs, told, again>>
  <2>1. (1..stored) \X (1..runs) \subseteq (1..stored') \X (1..runs')
    BY <1>2, <1>5
  <2>2. told' \in [Providers -> SUBSET ((1..stored') \X (1..runs'))]
    BY <1>1, <1>5, <2>1 DEF ToldOK
  <2>3. forwarded' \in [Providers -> Rows']
    BY <1>1, <1>2, <1>5 DEF ToldOK
  <2> QED BY <1>1, <1>5, <2>2, <2>3 DEF ToldOK
<1> QED BY <1>3, <1>4, <1>5, ToldSteps

\* What has been told in this run is told of stored rows.
LEMMA ToldNowRows ==
    ASSUME ContextTypeOK
    PROVE  ToldNow \in [Providers -> Rows]
BY DEF ToldNow, Rows

\* It grows by the prompt that has been answered, and a new run begins with
\* nothing.
LEMMA ToldNowSteps ==
    ASSUME ContextTypeOK, [ContextNext]_contextVars
    PROVE  /\ JobCompletes =>
                /\ ToldNow'[running.provider] =
                      ToldNow[running.provider] \cup (running.prompt \cap observed)
                /\ \A p \in Providers : p # running.provider => ToldNow'[p] = ToldNow[p]
           /\ Restart => \A p \in Providers : ToldNow'[p] = {}
           /\ UNCHANGED <<runs, told>> => ToldNow' = ToldNow
<1>1. ToldOK
  BY TypesSplit
<1>2. stored \in Nat /\ stored' \in Nat /\ 1..stored \subseteq 1..stored'
  BY HistoryTypes
<1>3. \A p \in Providers : \A m : <<m, runs>> \in told[p] => m \in 1..stored
  BY <1>1 DEF ToldOK
<1>4. \A p \in Providers : ToldNow[p] = {m \in 1..stored : <<m, runs>> \in told[p]}
  BY DEF ToldNow
<1>5. \A p \in Providers : ToldNow'[p] = {m \in 1..stored' : <<m, runs'>> \in told'[p]}
  BY DEF ToldNow
<1>6. ASSUME JobCompletes
      PROVE  /\ ToldNow'[running.provider] =
                   ToldNow[running.provider] \cup (running.prompt \cap observed)
             /\ \A p \in Providers : p # running.provider => ToldNow'[p] = ToldNow[p]
  <2> DEFINE q == running.provider
  <2>1. running \in Work /\ runs' = runs
    BY <1>6 DEF JobCompletes, ContextTypeOK, NoJob
  <2>2. q \in Providers /\ running.prompt \subseteq 1..stored
    BY <2>1 DEF Work, Rows
  <2>3. /\ told'[q] = told[q] \cup (running.prompt \cap observed) \X {runs}
        /\ \A p \in Providers : p # q => told'[p] = told[p]
    BY <1>1, <1>6, <2>2 DEF JobCompletes, ToldOK
  <2>4. ASSUME NEW p \in Providers, p # q PROVE ToldNow'[p] = ToldNow[p]
    <3>1. told'[p] = told[p] /\ runs' = runs
      BY <2>1, <2>3, <2>4
    <3>2. \A m : m \in 1..stored' /\ <<m, runs>> \in told[p]
                 <=> m \in 1..stored /\ <<m, runs>> \in told[p]
      BY <1>2, <1>3
    <3>3. \A m : m \in ToldNow'[p] <=> m \in ToldNow[p]
      BY <1>4, <1>5, <3>1, <3>2
    <3> QED BY <1>4, <1>5, <3>3, <3>1, <3>2
  <2>5. \A m : <<m, runs>> \in told'[q]
               <=> <<m, runs>> \in told[q] \/ m \in running.prompt \cap observed
    BY <2>3
  <2>6. ToldNow'[q] = ToldNow[q] \cup (running.prompt \cap observed)
    BY <1>2, <1>3, <1>4, <1>5, <2>1, <2>2, <2>5
  <2> QED BY <2>4, <2>6
<1>7. ASSUME Restart, NEW p \in Providers PROVE ToldNow'[p] = {}
  <2>1. runs' = runs + 1 /\ told' = told
    BY <1>7 DEF Restart
  <2>2. \A t \in told[p] : t[2] \in 1..runs
    BY <1>1 DEF ToldOK
  <2>3. \A m : <<m, runs'>> \notin told'[p]
    BY <1>1, <2>1, <2>2 DEF ToldOK
  <2> QED BY <1>5, <2>3
<1>8. ASSUME UNCHANGED <<runs, told>> PROVE ToldNow' = ToldNow
  BY <1>2, <1>3, <1>8 DEF ToldNow
<1> QED BY <1>6, <1>7, <1>8

\* The types of the first state.
LEMMA ContextTypesInit ==
    ContextInit => ContextTypeOK
<1> SUFFICES ASSUME ContextInit PROVE ContextTypeOK
  OBVIOUS
<1>1. /\ messages = <<>> /\ DOMAIN messages = {} /\ natives = <<>> /\ DOMAIN natives = {}
      /\ jobs = <<>> /\ DOMAIN jobs = {}
  BY DEF ContextInit
<1>2. ToSet(messages) = {} /\ IsInjective(messages)
  BY <1>1 DEF ToSet, IsInjective
<1>3. {} \in Rows
  BY DEF Rows
<1>4. provider \in Providers /\ exists \in BOOLEAN /\ applied \in BOOLEAN
  BY ContextAssumption DEF ContextInit
<1> QED
  BY <1>1, <1>2, <1>3, <1>4, Numbers
     DEF ContextInit, ContextTypeOK, NoBuild, NoBatch, NoJob, ActiveOf

\* The parts together.
LEMMA ContextTypesStep ==
    ContextTypeOK /\ [ContextNext]_contextVars => ContextTypeOK'
<1> SUFFICES ASSUME ContextTypeOK, [ContextNext]_contextVars PROVE ContextTypeOK'
  OBVIOUS
<1>1. HistoryOK' /\ SessionsOK' /\ WorkOK' /\ ToldOK'
  BY HistoryTypes, SessionTypes, WorkTypes, ToldTypes
<1>2. (HistoryOK /\ SessionsOK /\ WorkOK /\ ToldOK => ContextTypeOK)'
  BY TypesSplit, PTL
<1> QED BY <1>1, <1>2

\* Whatever is stored, read, compacted, cleared and built in which order, every
\* part of the history and of the work has its type: no row is stored twice,
\* each Agent has one active native session at most (add_native_session,
\* activate_native_session), and contexts tell of stored rows only.
THEOREM ContextTypesHold == ContextSpec => []ContextTypeOK
<1>1. ContextInit => ContextTypeOK
  BY ContextTypesInit
<1>2. ContextTypeOK /\ [ContextNext]_contextVars => ContextTypeOK'
  BY ContextTypesStep
<1> QED BY <1>1, <1>2, PTL DEF ContextSpec

-----------------------------------------------------------------------------
(* A context tells everything once.                                        *)
(*                                                                         *)
(* What has been summarized always lies before the newest Retain rows: it  *)
(* did when it was compacted, and rows only come in.  So the rows that are  *)
(* neither in the summary of a context nor compacted for it are the newest  *)
(* Retain ones of when it was read; each row stored since then can push one *)
(* of them out of the recent messages.                                      *)

\* The summarized rows are old ones.
HistoryInv ==
    /\ SummaryExact
    /\ \A i \in DOMAIN messages :
         messages[i] \in flagged => i + Retain <= Len(messages)

\* What the loop thread has read is still there when it uses it.
BuildingInv ==
    /\ building.stage = "read" =>
         /\ building.compact \subseteq ToSet(messages)
         /\ \A i \in DOMAIN messages :
              messages[i] \in building.compact => i + Retain <= Len(messages)
    /\ building.stage = "written" => building.compact \subseteq building.summary
    /\ building # NoBuild =>
         /\ ~batch.open /\ building.summary = summary
         /\ \A i \in DOMAIN messages :
              messages[i] \in building.messages \ (building.summary \cup building.compact)
              => i + Retain + building.meanwhile > Len(messages)
         /\ building.messages \subseteq ToSet(messages)

\* Stored rows keep their distance from the end, or gain one.
LEMMA GrowsBounds ==
    ASSUME ContextTypeOK, Grows, NEW F, stored + 1 \notin F, NEW b \in Nat
    PROVE  /\ (\A i \in DOMAIN messages : messages[i] \in F => i + b <= Len(messages))
              => \A i \in DOMAIN messages' : messages'[i] \in F => i + b <= Len(messages')
           /\ (\A i \in DOMAIN messages : messages[i] \in F => i + b > Len(messages))
              => \A i \in DOMAIN messages' :
                    messages'[i] \in F => i + (b + 1) > Len(messages')
<1>1. /\ Len(messages) \in Nat /\ DOMAIN messages = 1..Len(messages)
      /\ Len(messages') = Len(messages) + 1 /\ DOMAIN messages' = 1..Len(messages')
      /\ \A k \in 1..Len(messages') :
           \/ messages'[k] = stored + 1
           \/ \E i \in 1..Len(messages) :
                messages[i] = messages'[k] /\ i <= k /\ k <= i + 1
  BY TypesSplit DEF HistoryOK, Grows, Grown
<1>2. ASSUME NEW k \in 1..Len(messages'), messages'[k] \in F
      PROVE  \E i \in 1..Len(messages) : messages[i] \in F /\ i <= k /\ k <= i + 1
  BY <1>1, <1>2
<1> DEFINE L == Len(messages)
           M == Len(messages')
<1>3. L \in Nat /\ M = L + 1
  BY <1>1
<1> HIDE DEF L, M
<1>4. ASSUME \A i \in 1..L : messages[i] \in F => i + b <= L
      PROVE  \A k \in 1..M : messages'[k] \in F => k + b <= M
  <2> SUFFICES ASSUME NEW k \in 1..M, messages'[k] \in F PROVE k + b <= M
    OBVIOUS
  <2>1. PICK i \in 1..L : messages[i] \in F /\ i <= k /\ k <= i + 1
    BY <1>2 DEF L, M
  <2> QED BY <1>3, <1>4, <2>1
<1>5. ASSUME \A i \in 1..L : messages[i] \in F => i + b > L
      PROVE  \A k \in 1..M : messages'[k] \in F => k + (b + 1) > M
  <2> SUFFICES ASSUME NEW k \in 1..M, messages'[k] \in F PROVE k + (b + 1) > M
    OBVIOUS
  <2>1. PICK i \in 1..L : messages[i] \in F /\ i <= k /\ k <= i + 1
    BY <1>2 DEF L, M
  <2> QED BY <1>3, <1>5, <2>1
<1> QED BY <1>1, <1>4, <1>5 DEF L, M

\* rollup_summary compacts the rows before the newest Retain, and all of them
\* that are not summarized.
LEMMA CompactedBounds ==
    ASSUME ContextTypeOK, HistoryInv, NEW i \in DOMAIN messages
    PROVE  /\ messages[i] \in Compacted(messages) => i + Retain <= Len(messages)
           /\ i + Retain <= Len(messages)
              => messages[i] \in flagged \cup Compacted(messages)
<1> USE Numbers
<1> DEFINE L == Len(messages)
<1>1. /\ messages \in Seq(Ids) /\ L \in Nat /\ DOMAIN messages = 1..L
      /\ \A j, k \in 1..L : messages[j] = messages[k] => j = k
  BY DEF ContextTypeOK, IsInjective
<1>2. \A k \in 1..L : IsFiniteSet(After(messages, k)) /\ After(messages, k) \subseteq k + 1..L
  <2> TAKE k \in 1..L
  <2>1. After(messages, k) \subseteq k + 1..L
    BY <1>1 DEF After, Unsummarized
  <2>2. IsFiniteSet(k + 1..L)
    BY <1>1, IntervalCount
  <2> QED BY <2>1, <2>2, FS_Subset
<1>3. ASSUME messages[i] \in Compacted(messages)
      PROVE  i + Retain <= L
  <2>1. Cardinality(After(messages, i)) >= Retain
    BY <1>1, <1>3 DEF Compacted, Unsummarized
  <2>2. Cardinality(After(messages, i)) <= L - i
    <3>1. IsFiniteSet(i + 1..L) /\ Cardinality(i + 1..L) = L - i
      BY <1>1, IntervalCount
    <3> QED BY <1>1, <1>2, <3>1, FS_Subset
  <2>3. Cardinality(After(messages, i)) \in Nat
    BY <1>1, <1>2, FS_CardinalityType
  <2> QED BY <1>1, <2>1, <2>2, <2>3
<1>4. ASSUME i + Retain <= L, messages[i] \notin flagged
      PROVE  messages[i] \in Compacted(messages)
  <2>1. (L - Retain) + 1..L \subseteq After(messages, i)
    <3> SUFFICES ASSUME NEW k \in (L - Retain) + 1..L
                 PROVE  k \in After(messages, i)
      OBVIOUS
    <3>1. k \in 1..L /\ k > i /\ k + Retain > L
      BY <1>1, <1>4
    <3>2. messages[k] \notin flagged
      BY <1>1, <3>1 DEF HistoryInv
    <3> QED BY <1>1, <3>1, <3>2 DEF After, Unsummarized
  <2>2. Cardinality((L - Retain) + 1..L) = Retain
    <3>1. L - Retain \in Nat /\ L - Retain <= L
      BY <1>1, <1>4
    <3>2. Cardinality((L - Retain) + 1..L) = L - (L - Retain)
      BY <1>1, <3>1, IntervalCount
    <3> QED BY <1>1, <3>2
  <2>3. Cardinality(After(messages, i)) >= Retain
    <3>1. /\ Cardinality((L - Retain) + 1..L) <= Cardinality(After(messages, i))
          /\ Cardinality(After(messages, i)) \in Nat
      BY <1>1, <1>2, <2>1, FS_Subset, FS_CardinalityType
    <3> QED BY <2>2, <3>1
  <2>4. i \in Unsummarized(messages)
    BY <1>4 DEF Unsummarized
  <2> QED BY <2>3, <2>4 DEF Compacted
<1> QED BY <1>1, <1>3, <1>4

\* What is summarized stays before the newest rows.
LEMMA HistoryKept ==
    ASSUME ContextTypeOK, HistoryInv, BuildingInv, [ContextNext]_contextVars
    PROVE  HistoryInv'
<1> USE Numbers
<1>1. /\ stored + 1 \notin flagged /\ flagged \subseteq ToSet(messages)
      /\ building.stage = "read" => building \in Building
  BY DEF ContextTypeOK, NoBuild
<1>2. CASE HistoryStays
  BY <1>2 DEF HistoryStays, historyVars, HistoryInv, SummaryExact
<1>3. CASE HistoryGrows
  BY <1>1, <1>3, GrowsBounds DEF HistoryGrows, HistoryInv, SummaryExact
<1>4. CASE RollUpWrites
  <2>1. /\ building.stage = "read" /\ building # NoBuild
        /\ flagged' = flagged \cup (building.compact \cap ToSet(messages))
        /\ summary' = building.summary \cup building.compact
        /\ messages' = messages
    BY <1>4 DEF RollUpWrites, NoBuild
  <2> QED BY <2>1 DEF BuildingInv, HistoryInv, SummaryExact
<1>5. CASE HistoryIsCleared
  BY <1>5 DEF HistoryIsCleared, HistoryInv, SummaryExact
<1> QED BY <1>2, <1>3, <1>4, <1>5, HistorySteps

\* The ways the reading of a context goes on.
BuildingStays ==
    /\ UNCHANGED <<building, messages, summary>>
    /\ building # NoBuild => batch' = batch
\* Every step is one of them.
LEMMA BuildingSteps ==
    ASSUME ContextTypeOK, [ContextNext]_contextVars
    PROVE  \/ building' = NoBuild
           \/ BuildingStays
           \/ \E p \in Providers \cup {NoProvider}, dispatch \in BOOLEAN :
                 Begins(p, dispatch)
           \/ RollUpWrites
           \/ /\ \E place \in Positions : RecoveredRow(place)
              /\ building # NoBuild
<1>1. CASE \/ \E dispatch \in BOOLEAN, place \in Positions : JoinsBatch(dispatch, place)
           \/ Seal \/ JobStarts \/ SessionReady \/ JobCompletes \/ JobFails
           \/ \E p \in Providers : SetAgent(p)
           \/ \E p \in Providers, bind \in BOOLEAN : SessionCommand(p, bind)
           \/ \E k \in DOMAIN jobs : RemoveQueued(k)
           \/ Clear
  <2>1. building' = building
    BY <1>1
       DEF JoinsBatch, Seal, JobStarts, SessionReady, JobCompletes, JobFails,
           SetAgent, SessionCommand, RemoveQueued, Clear, workVars
  <2>2. building = NoBuild \/ (\E place \in Positions : RecoveredRow(place)) \/ RollUpWrites
        \/ building' = NoBuild \/ UNCHANGED contextVars
    BY DEF ContextNext, OpensBatch, Ask, Restart
  <2> QED BY <2>1, <2>2 DEF BuildingStays, contextVars, workVars, historyVars
<1>2. CASE \/ \E place \in Positions : OpensBatch(place) \/ Ask(place) \/ RecoveredRow(place)
           \/ Restart \/ UNCHANGED contextVars
  BY <1>2
     DEF OpensBatch, Ask, RecoveredRow, Restart, BuildingStays, contextVars, workVars,
         historyVars
<1> QED BY <1>1, <1>2 DEF ContextNext, LoopStep

\* What has been read stays true until it is used.
LEMMA BuildingKept ==
    ASSUME ContextTypeOK, HistoryInv, BuildingInv, [ContextNext]_contextVars
    PROVE  BuildingInv'
<1> USE Numbers
<1>1. CASE building' = NoBuild
  BY <1>1 DEF BuildingInv, NoBuild
<1>2. CASE BuildingStays
  BY <1>2 DEF BuildingStays, BuildingInv, NoBuild
<1>3. ASSUME NEW p \in Providers \cup {NoProvider}, NEW dispatch \in BOOLEAN,
             Begins(p, dispatch)
      PROVE  BuildingInv'
  <2>1. /\ building' = Read(p, dispatch) /\ ~batch.open
        /\ UNCHANGED <<messages, summary, batch, flagged>>
    BY <1>3 DEF Begins, historyVars
  <2>2. /\ building'.stage = "read" /\ building'.messages = ToSet(messages)
        /\ building'.compact = Compacted(messages) /\ building'.summary = summary
        /\ building'.meanwhile = 0
    BY <2>1 DEF Read
  <2>3. Compacted(messages) \subseteq ToSet(messages)
    BY DEF Compacted, Unsummarized, ToSet
  <2>4. \A i \in DOMAIN messages :
          /\ messages[i] \in Compacted(messages) => i + Retain <= Len(messages)
          /\ messages[i] \notin summary \cup Compacted(messages)
             => i + Retain + 0 > Len(messages)
    <3>1. Len(messages) \in Nat /\ DOMAIN messages = 1..Len(messages)
      BY DEF ContextTypeOK
    <3> QED BY <3>1, CompactedBounds DEF HistoryInv, SummaryExact
  <2> QED BY <2>1, <2>2, <2>3, <2>4 DEF BuildingInv
<1>4. CASE RollUpWrites
  <2>1. building \in Building /\ building.stage = "read" /\ building # NoBuild
    BY <1>4 DEF RollUpWrites, ContextTypeOK, NoBuild
  <2>2. /\ building' = [building EXCEPT !.stage = "written",
                                       !.summary = @ \cup building.compact]
        /\ summary' = building.summary \cup building.compact
        /\ UNCHANGED <<messages, batch>>
    BY <1>4 DEF RollUpWrites
  <2>3. /\ building'.stage = "written" /\ building'.compact = building.compact
        /\ building'.summary = building.summary \cup building.compact
        /\ building'.messages = building.messages
        /\ building'.meanwhile = building.meanwhile
    BY <2>1, <2>2 DEF Building
  <2> QED BY <2>1, <2>2, <2>3 DEF BuildingInv
<1>5. ASSUME NEW place \in Positions, RecoveredRow(place), building # NoBuild
      PROVE  BuildingInv'
  <2> DEFINE kept == building.messages \ (building.summary \cup building.compact)
  <2>1. building \in Building /\ ToSet(messages) \subseteq 1..stored /\ stored \in Nat
    BY <1>5 DEF ContextTypeOK
  <2>2. /\ building' = [building EXCEPT !.meanwhile = @ + 1]
        /\ Grows /\ UNCHANGED <<summary, batch>>
    BY <1>5, StoredGrows DEF RecoveredRow
  <2>3. /\ building'.stage = building.stage /\ building'.compact = building.compact
        /\ building'.summary = building.summary
        /\ building'.messages = building.messages
        /\ building'.meanwhile = building.meanwhile + 1
        /\ building.meanwhile \in Nat /\ building.stage \in {"read", "written"}
    BY <2>1, <2>2 DEF Building
  <2>4. ToSet(messages) \subseteq ToSet(messages')
    BY <2>2 DEF Grows, Grown
  <2>5. building.stage = "read" =>
          \A i \in DOMAIN messages' :
             messages'[i] \in building.compact => i + Retain <= Len(messages')
    <3>1. building.compact \subseteq ToSet(messages) => stored + 1 \notin building.compact
      BY <2>1
    <3> QED BY <2>2, <3>1, GrowsBounds DEF BuildingInv
  <2>6. \A i \in DOMAIN messages' :
          messages'[i] \in kept => i + (Retain + building.meanwhile + 1) > Len(messages')
    <3>1. stored + 1 \notin kept
      BY <1>5, <2>1 DEF BuildingInv
    <3>2. \A i \in DOMAIN messages :
            messages[i] \in kept => i + (Retain + building.meanwhile) > Len(messages)
      <4>1. \A i \in DOMAIN messages :
              messages[i] \in kept => i + Retain + building.meanwhile > Len(messages)
        BY <1>5 DEF BuildingInv
      <4>2. DOMAIN messages \subseteq Nat
        BY DEF ContextTypeOK
      <4> QED BY <4>1, <4>2, <2>3
    <3>3. Retain + building.meanwhile \in Nat
      BY <2>3
    <3> HIDE DEF kept
    <3>4. \A i \in DOMAIN messages' :
            messages'[i] \in kept => i + ((Retain + building.meanwhile) + 1) > Len(messages')
      BY <2>2, <3>1, <3>2, <3>3, GrowsBounds
    <3> QED BY <2>3, <3>4
  <2>7. \A i \in DOMAIN messages' :
          messages'[i] \in kept => i + Retain + building'.meanwhile > Len(messages')
    <3>1. DOMAIN messages' \subseteq Nat
      BY <2>2 DEF Grows
    <3> HIDE DEF kept
    <3> QED BY <2>3, <2>6, <3>1
  <2> QED BY <1>5, <2>2, <2>3, <2>4, <2>5, <2>7 DEF BuildingInv
<1> QED BY <1>1, <1>2, <1>3, <1>4, <1>5, BuildingSteps

\* What holds of a context that is used.
ContextGood(c, rows, compacted) ==
    /\ Cardinality(c.lost) <= c.meanwhile
    /\ c.summary \cap c.recent = {}
    /\ c.summary \cap rows \subseteq compacted

ContextsInv == \A c \in Contexts : ContextGood(c, ToSet(messages), flagged)

\* The context that has been built when the message is stored.
LEMMA BuiltGood ==
    ASSUME ContextTypeOK, HistoryInv, BuildingInv, building.stage = "written"
    PROVE  /\ ContextGood(Built, ToSet(messages), flagged)
           /\ Built.summary = flagged /\ Built.recent = Recent(messages)
<1> USE Numbers
<1> DEFINE L == Len(messages)
           w == building.meanwhile
<1>1. /\ building \in Building /\ building # NoBuild
      /\ messages \in Seq(Ids) /\ L \in Nat /\ DOMAIN messages = 1..L
  BY DEF ContextTypeOK, NoBuild
<1>2. /\ w \in Nat /\ building.summary = flagged
      /\ building.compact \subseteq building.summary
      /\ building.messages \subseteq ToSet(messages)
      /\ \A i \in 1..L : messages[i] \in building.messages \ building.summary
                         => i + Retain + w > L
      /\ \A i \in 1..L : messages[i] \in flagged => i + Retain <= L
  <2>1. /\ w \in Nat /\ building.summary = flagged
        /\ building.compact \subseteq building.summary
        /\ building.messages \subseteq ToSet(messages)
        /\ \A i \in 1..L : messages[i] \in flagged => i + Retain <= L
    BY <1>1 DEF BuildingInv, HistoryInv, SummaryExact, Building
  <2>2. building.summary \cup building.compact = building.summary
    BY <2>1
  <2>3. \A i \in DOMAIN messages :
          messages[i] \in building.messages \ (building.summary \cup building.compact)
          => i + Retain + w > L
    BY <1>1 DEF BuildingInv
  <2> QED BY <1>1, <2>1, <2>2, <2>3
<1>3. /\ Built.summary = flagged /\ Built.recent = Recent(messages)
      /\ Built.meanwhile = w
      /\ Built.lost = building.messages \ (flagged \cup Recent(messages))
  BY <1>2 DEF Built
<1>4. \A i \in 1..L : messages[i] \notin Recent(messages) => i + Retain <= L
  BY <1>1 DEF Recent
<1>5. flagged \cap Recent(messages) = {}
  BY <1>1, <1>2 DEF Recent
<1>6. Cardinality(Built.lost) <= w
  <2> DEFINE low == IF Retain + w <= L THEN L - (Retain + w) ELSE 0
             high == IF Retain <= L THEN L - Retain ELSE 0
             I == low + 1..high
  <2>1. low \in Nat /\ high \in Nat /\ low <= high /\ high - low <= w /\ high <= L
    BY <1>1, <1>2
  <2>2. IsFiniteSet(I) /\ Cardinality(I) = high - low
    BY <2>1, IntervalCount
  <2>3. \A i \in 1..L : i + Retain + w > L /\ i + Retain <= L => i \in I
    BY <1>1, <1>2
  <2> HIDE DEF low, high
  <2>4. Built.lost \subseteq {messages[i] : i \in I}
    <3> SUFFICES ASSUME NEW x \in Built.lost
                 PROVE  \E i \in I : x = messages[i]
      OBVIOUS
    <3>1. x \in building.messages /\ x \notin flagged /\ x \notin Recent(messages)
      BY <1>3
    <3>2. PICK i \in 1..L : messages[i] = x
      BY <1>1, <1>2, <3>1, ToSetElements
    <3>3. i + Retain + w > L /\ i + Retain <= L
      BY <1>2, <1>4, <3>1, <3>2
    <3> QED BY <2>3, <3>2, <3>3
  <2>5. /\ IsFiniteSet({messages[i] : i \in I})
        /\ Cardinality({messages[i] : i \in I}) <= Cardinality(I)
    <3> DEFINE F == [i \in I |-> messages[i]]
               T == {messages[i] : i \in I}
    <3>1. F \in Surjection(I, T)
      BY DEF Surjection
    <3> QED BY <2>2, <3>1, FS_Surjection
  <2>6. /\ Cardinality(Built.lost) <= Cardinality({messages[i] : i \in I})
        /\ IsFiniteSet(Built.lost)
    BY <2>4, <2>5, FS_Subset
  <2>7. /\ Cardinality(Built.lost) \in Nat
        /\ Cardinality({messages[i] : i \in I}) \in Nat
    BY <2>5, <2>6, FS_CardinalityType
  <2> HIDE DEF I
  <2> QED BY <1>2, <2>1, <2>2, <2>5, <2>6, <2>7
<1> QED BY <1>3, <1>5, <1>6 DEF ContextGood

-----------------------------------------------------------------------------
(* Each observed message is told once.                                     *)
(*                                                                         *)
(* The jobs that run and wait and the batch that is open stand in a line.  *)
(* What an earlier one tells was stored before what a later one was asked  *)
(* for, and its summary is not among the recent messages of a later one.   *)

Tells(j) == j.own \cup j.context.summary \cup j.context.recent

Before(a, b) ==
    /\ \A r \in Tells(a), o \in b.own : r < o
    /\ a.context.summary \cap b.context.recent = {}

OrderInv ==
    /\ \A i, k \in DOMAIN jobs : i < k => Before(jobs[i], jobs[k])
    /\ running # NoJob => \A k \in DOMAIN jobs : Before(running, jobs[k])
    /\ batch.open => \A k \in DOMAIN jobs : Before(jobs[k], batch)
    /\ batch.open /\ running # NoJob => Before(running, batch)

\* What is still to be told is new to every Agent, but for the recent messages
\* that it counts as forwarded.
Fresh(j, seen, got, marked) ==
    /\ j.own \cap seen = j.included
    /\ \A p \in Providers :
         /\ \A r \in got[p], o \in j.own : r < o
         /\ (got[p] \ marked[p]) \cap j.context.recent = {}

FreshInv ==
    /\ \A k \in DOMAIN jobs : Fresh(jobs[k], observed, ToldNow, forwarded)
    /\ running # NoJob => Fresh(running, observed, ToldNow, forwarded)
    /\ batch.open => Fresh(batch, observed, ToldNow, forwarded)

\* What an Agent was told in this run and does not count as forwarded has been
\* summarized.
ToldInv ==
    /\ ToldOnce /\ ForwardedWasTold
    /\ \A p \in Providers :
         (ToldNow[p] \ forwarded[p]) \cap ToSet(messages) \subseteq flagged
    /\ running.stage = "agent" =>
         /\ running.asked = NotForwarded(running)
         /\ running.prompt = Prompt(running)

\* The ways the line moves.
Same(a, b) == a.context = b.context /\ a.own = b.own /\ a.included = b.included

LineStays ==
    /\ UNCHANGED <<jobs, batch>>
    /\ \/ running' = running
       \/ running # NoJob /\ running' # NoJob /\ Same(running', running)
LineStarts ==
    /\ running = NoJob /\ jobs # <<>> /\ running' # NoJob
    /\ Same(running', jobs[1]) /\ jobs' = Tail(jobs) /\ batch' = batch
LineEnds == running' = NoJob /\ UNCHANGED <<jobs, batch>>
LineLosesOne ==
    /\ \E k \in DOMAIN jobs : jobs' = RemoveAt(jobs, k)
    /\ UNCHANGED <<running, batch>>
LineSeals ==
    /\ batch.open /\ batch' = NoBatch /\ running' = running
    /\ jobs' = jobs \/ \E j : Same(j, batch) /\ jobs' = Append(jobs, j)
LineOpens ==
    /\ building.stage = "written" /\ HistoryGrows
    /\ batch'.open /\ batch'.context = Built /\ batch'.own = {stored + 1}
    /\ batch'.included = {stored + 1} \cap observed'
    /\ UNCHANGED <<jobs, running>>
LineJoins ==
    /\ batch.open /\ HistoryGrows
    /\ batch'.open /\ batch'.context = batch.context
    /\ batch'.own = batch.own \cup {stored + 1}
    /\ batch'.included = batch.included \cup ({stored + 1} \cap observed')
    /\ UNCHANGED <<jobs, running>>
LineAsks ==
    /\ building.stage = "written" /\ HistoryGrows /\ observed' = observed
    /\ \E j : /\ j.context = Built /\ j.own = {stored + 1} /\ j.included = {}
              /\ jobs' = Append(jobs, j)
    /\ UNCHANGED <<batch, running>>
LineIsLost == running' = NoJob /\ jobs' = <<>> /\ batch' = NoBatch

\* A job has the rows of its batch.
LEMMA JobSame ==
    ASSUME NEW b, NEW p
    PROVE  Same(Job(b, p), b)
BY DEF Same, Job

\* Every step moves the line in one of these ways.
LEMMA LineSteps ==
    ASSUME ContextTypeOK, [ContextNext]_contextVars
    PROVE  \/ LineStays \/ LineStarts \/ LineEnds \/ LineLosesOne \/ LineSeals
           \/ LineOpens \/ LineJoins \/ LineAsks \/ LineIsLost
<1>1. ASSUME NEW dispatch \in BOOLEAN, NEW place \in Positions,
             Inbound(dispatch, place), stored < MaxRows, UNCHANGED <<flagged, summary>>
      PROVE  /\ HistoryGrows
             /\ {stored + 1} \cap observed' = IF dispatch THEN {} ELSE {stored + 1}
  <2>1. stored + 1 \notin observed
    BY DEF ContextTypeOK, Rows
  <2> QED BY <1>1, <2>1, StoredGrows DEF Inbound, HistoryGrows
<1>2. ASSUME NEW dispatch \in BOOLEAN, NEW place \in Positions,
             JoinsBatch(dispatch, place)
      PROVE  LineJoins
  <2>1. /\ batch \in Batch /\ batch.open
        /\ batch' = Joined(batch, dispatch) /\ UNCHANGED <<jobs, running>>
    BY <1>2 DEF JoinsBatch, ContextTypeOK, NoBatch
  <2>2. /\ batch'.open /\ batch'.context = batch.context
        /\ batch'.own = batch.own \cup {stored + 1}
        /\ batch'.included = batch.included \cup (IF dispatch THEN {} ELSE {stored + 1})
    BY <2>1 DEF Joined, Batch
  <2> QED BY <1>1, <1>2, <2>1, <2>2 DEF LineJoins, JoinsBatch
<1>3. ASSUME NEW place \in Positions, OpensBatch(place)
      PROVE  LineOpens
  <2> DEFINE b == [open |-> TRUE, context |-> Built, own |-> {}, included |-> {},
                   dispatch |-> FALSE]
  <2>1. /\ building.dispatch \in BOOLEAN /\ building.stage = "written"
        /\ batch' = Joined(b, building.dispatch) /\ UNCHANGED <<jobs, running>>
    BY <1>3 DEF OpensBatch, ContextTypeOK, Building, NoBuild
  <2>2. /\ batch'.open /\ batch'.context = Built /\ batch'.own = {stored + 1}
        /\ batch'.included = IF building.dispatch THEN {} ELSE {stored + 1}
    BY <2>1 DEF Joined
  <2> QED BY <1>1, <1>3, <2>1, <2>2 DEF LineOpens, OpensBatch
<1>4. ASSUME NEW place \in Positions, Ask(place)
      PROVE  LineAsks
  <2> DEFINE b == [context |-> Built, own |-> {stored + 1}, included |-> {}]
  <2>1. /\ building \in Building /\ building.stage = "written"
        /\ building.for \in Providers
        /\ jobs' = Append(jobs, Job(b, building.for))
        /\ observed' = observed /\ UNCHANGED <<batch, running>>
    BY <1>4 DEF Ask, ContextTypeOK, NoBuild, Building, Inbound
  <2>2. b.context = Built /\ b.own = {stored + 1} /\ b.included = {}
    OBVIOUS
  <2> HIDE DEF b
  <2> DEFINE j == Job(b, building.for)
  <2>3. j.context = Built /\ j.own = {stored + 1} /\ j.included = {}
    BY <2>2, JobSame DEF Same
  <2>4. jobs' = Append(jobs, j)
    BY <2>1
  <2> HIDE DEF j
  <2> QED BY <1>1, <1>4, <2>1, <2>3, <2>4 DEF LineAsks, Ask
<1>5. CASE Seal
  BY <1>5, JobSame DEF Seal, LineSeals
<1>6. CASE JobStarts
  <2> DEFINE j == Head(jobs)
             n == Active(j.provider)
             include == n = NoNative \/ ~natives[n].initialized
  <2>1. /\ jobs # <<>> /\ j \in Work /\ j = jobs[1] /\ running = NoJob
        /\ jobs' = Tail(jobs) /\ batch' = batch
    BY <1>6 DEF JobStarts, ContextTypeOK
  <2>2. n \in 0..MaxNatives
    <3>1. n \in 0..Len(natives)
      BY <2>1, ActiveType DEF Work
    <3> QED BY <3>1, Numbers DEF ContextTypeOK
  <2>3. running' = Started(j, n, include)
    BY <1>6 DEF JobStarts, Started
  <2>4. include \in BOOLEAN
    BY Zenon
  <2> HIDE DEF j, n, include
  <2>5. running' \in Work /\ Same(running', j)
    BY <2>1, <2>2, <2>3, <2>4, StartedType DEF Same
  <2> QED BY <2>1, <2>5 DEF LineStarts, NoJob, Work
<1>7. CASE SessionReady
  <2>1. running \in Work /\ running # NoJob /\ UNCHANGED <<jobs, batch>>
    BY <1>7 DEF SessionReady, ContextTypeOK, NoJob
  <2>2. /\ running'.context = running.context /\ running'.own = running.own
        /\ running'.included = running.included /\ running'.stage = "agent"
    BY <1>7, <2>1 DEF SessionReady, Work
  <2> QED BY <2>1, <2>2 DEF LineStays, Same, NoJob
<1>8. CASE JobCompletes \/ JobFails
  BY <1>8 DEF JobCompletes, JobFails, LineEnds
<1>9. CASE \E k \in DOMAIN jobs : RemoveQueued(k)
  BY <1>9 DEF RemoveQueued, LineLosesOne
<1>10. CASE Restart
  BY <1>10 DEF Restart, LineIsLost
<1>11. CASE \/ \E p \in Providers \cup {NoProvider}, dispatch \in BOOLEAN : Begins(p, dispatch)
            \/ \E p \in Providers : SetAgent(p)
            \/ \E p \in Providers, bind \in BOOLEAN : SessionCommand(p, bind)
            \/ Clear \/ RollUpWrites \/ \E place \in Positions : RecoveredRow(place)
            \/ UNCHANGED contextVars
  BY <1>11
     DEF Begins, SetAgent, SessionCommand, Clear, RollUpWrites, RecoveredRow,
         contextVars, workVars, LineStays
<1> QED
  BY <1>2, <1>3, <1>4, <1>5, <1>6, <1>7, <1>8, <1>9, <1>10, <1>11
     DEF ContextNext, LoopStep

\* What waits tells of stored rows.
Known(j) ==
    j.own \in Rows /\ j.context.summary \in Rows /\ j.context.recent \in Rows

\* Everything in the line is typed so.
LEMMA LineKnown ==
    ASSUME ContextTypeOK
    PROVE  /\ \A k \in DOMAIN jobs : Known(jobs[k])
           /\ running # NoJob => Known(running)
           /\ batch.open => Known(batch)
<1>1. /\ \A k \in DOMAIN jobs : jobs[k] \in Work
      /\ running # NoJob => running \in Work
      /\ batch.open => batch \in Batch
  BY DEF ContextTypeOK, NoBatch
<1>2. \A j \in Work : Known(j)
  BY DEF Known, Work, Context
<1>3. \A b \in Batch : Known(b)
  BY DEF Known, Batch, Context
<1> QED BY <1>1, <1>2, <1>3

\* The contexts along the line.
LineContexts ==
    /\ \A k \in DOMAIN jobs : ContextGood(jobs[k].context, ToSet(messages), flagged)
    /\ running # NoJob => ContextGood(running.context, ToSet(messages), flagged)
    /\ batch.open => ContextGood(batch.context, ToSet(messages), flagged)

\* The contexts that are used are those of the line.
LEMMA ContextsInLine ==
    /\ ContextsInv => LineContexts
    /\ LineContexts => ContextsInv
BY DEF ContextsInv, LineContexts, Contexts

\* A context stays as good as it is.
LEMMA ContextKept ==
    ASSUME ContextTypeOK, [ContextNext]_contextVars, NEW c, c.summary \in Rows,
           ContextGood(c, ToSet(messages), flagged)
    PROVE  ContextGood(c, ToSet(messages'), flagged')
<1>1. c.summary \subseteq 1..stored /\ stored \in Nat
  BY DEF Rows, ContextTypeOK
<1>2. CASE HistoryStays
  BY <1>2 DEF HistoryStays, historyVars
<1>3. CASE HistoryGrows
  <2>1. ToSet(messages') = ToSet(messages) \cup {stored + 1} /\ flagged' = flagged
    BY <1>3 DEF HistoryGrows, Grows, Grown
  <2>2. stored + 1 \notin c.summary
    BY <1>1
  <2> QED BY <2>1, <2>2 DEF ContextGood
<1>4. CASE RollUpWrites
  BY <1>4 DEF RollUpWrites, ContextGood
<1>5. CASE HistoryIsCleared
  <2>1. ToSet(messages') = {}
    BY <1>5 DEF HistoryIsCleared, ToSet
  <2> QED BY <2>1 DEF ContextGood
<1> QED BY <1>2, <1>3, <1>4, <1>5, HistorySteps

\* A new context at the end of the line.
LEMMA BuiltLast ==
    ASSUME ContextTypeOK, HistoryInv, BuildingInv, building.stage = "written",
           NEW b, b.context = Built, b.own = {stored + 1},
           NEW a, Known(a), ContextGood(a.context, ToSet(messages), flagged)
    PROVE  Before(a, b)
<1>1. /\ Built.recent = Recent(messages) /\ flagged \cap Recent(messages) = {}
      /\ Recent(messages) \subseteq ToSet(messages)
  BY BuiltGood DEF ContextGood, Recent, ToSet
<1>2. a.context.summary \cap b.context.recent = {}
  BY <1>1 DEF ContextGood
<1>3. Tells(a) \subseteq 1..stored /\ stored \in Nat
  BY DEF Known, Tells, Rows, ContextTypeOK
<1>4. \A r \in Tells(a), o \in b.own : r < o
  BY <1>3
<1> QED BY <1>2, <1>4 DEF Before

\* A message that joins the last of the line.
LEMMA JoinedLast ==
    ASSUME ContextTypeOK, NEW b, NEW c, c.context = b.context,
           c.own = b.own \cup {stored + 1}, NEW a, Known(a), Before(a, b)
    PROVE  Before(a, c)
<1>1. Tells(a) \subseteq 1..stored /\ stored \in Nat
  BY DEF Known, Tells, Rows, ContextTypeOK
<1>2. \A r \in Tells(a) : r < stored + 1
  BY <1>1
<1> QED BY <1>2 DEF Before

\* Jobs at their place of the line.
LEMMA JobsMove ==
    ASSUME ContextTypeOK
    PROVE  /\ jobs \in Seq(Work) /\ Len(jobs) \in Nat /\ DOMAIN jobs = 1..Len(jobs)
           /\ \A j : jobs' = Append(jobs, j) =>
                /\ DOMAIN jobs' = 1..Len(jobs) + 1
                /\ \A k \in 1..Len(jobs) : jobs'[k] = jobs[k]
                /\ jobs'[Len(jobs) + 1] = j
           /\ jobs # <<>> /\ jobs' = Tail(jobs) =>
                /\ 1 \in 1..Len(jobs)
                /\ DOMAIN jobs' = 1..Len(jobs) - 1
                /\ \A k \in 1..Len(jobs) - 1 : jobs'[k] = jobs[k + 1]
           /\ \A m \in DOMAIN jobs : jobs' = RemoveAt(jobs, m) =>
                /\ DOMAIN jobs' = 1..Len(jobs) - 1
                /\ \A k \in 1..Len(jobs) - 1 :
                      jobs'[k] = IF k < m THEN jobs[k] ELSE jobs[k + 1]
<1>1. jobs \in Seq(Work) /\ Len(jobs) \in Nat /\ DOMAIN jobs = 1..Len(jobs)
  BY DEF ContextTypeOK
<1>2. ASSUME NEW j, jobs' = Append(jobs, j)
      PROVE  /\ DOMAIN jobs' = 1..Len(jobs) + 1
             /\ \A k \in 1..Len(jobs) : jobs'[k] = jobs[k]
             /\ jobs'[Len(jobs) + 1] = j
  BY <1>1, <1>2
<1>3. ASSUME jobs # <<>>, jobs' = Tail(jobs)
      PROVE  /\ 1 \in 1..Len(jobs)
             /\ DOMAIN jobs' = 1..Len(jobs) - 1
             /\ \A k \in 1..Len(jobs) - 1 : jobs'[k] = jobs[k + 1]
  BY <1>1, <1>3
<1>4. ASSUME NEW m \in DOMAIN jobs, jobs' = RemoveAt(jobs, m)
      PROVE  /\ DOMAIN jobs' = 1..Len(jobs) - 1
             /\ \A k \in 1..Len(jobs) - 1 :
                   jobs'[k] = IF k < m THEN jobs[k] ELSE jobs[k + 1]
  <2>1. /\ jobs' \in Seq(Work) /\ Len(jobs') = Len(jobs) - 1
        /\ \A k \in 1..Len(jobs) - 1 :
              jobs'[k] = IF k < m THEN jobs[k] ELSE jobs[k + 1]
    BY <1>1, <1>4, RemoveElements
  <2> QED BY <2>1
<1> QED BY <1>1, <1>2, <1>3, <1>4

\* Every job that waits is an earlier one, or the new one.
LEMMA JobsFrom ==
    ASSUME ContextTypeOK
    PROVE  /\ \A j : jobs' = Append(jobs, j) =>
                \A k \in DOMAIN jobs' :
                   (k \in DOMAIN jobs /\ jobs'[k] = jobs[k]) \/ jobs'[k] = j
           /\ jobs # <<>> /\ jobs' = Tail(jobs) =>
                \A k \in DOMAIN jobs' : k + 1 \in DOMAIN jobs /\ jobs'[k] = jobs[k + 1]
           /\ \A m \in DOMAIN jobs : jobs' = RemoveAt(jobs, m) =>
                \A k \in DOMAIN jobs' : \E i \in DOMAIN jobs : jobs'[k] = jobs[i]
<1>1. jobs \in Seq(Work) /\ Len(jobs) \in Nat /\ DOMAIN jobs = 1..Len(jobs)
  BY JobsMove
<1>2. ASSUME NEW j, jobs' = Append(jobs, j), NEW k \in DOMAIN jobs'
      PROVE  (k \in DOMAIN jobs /\ jobs'[k] = jobs[k]) \/ jobs'[k] = j
  <2>1. k \in 1..Len(jobs) + 1
    BY <1>2, JobsMove
  <2>2. k \in 1..Len(jobs) \/ k = Len(jobs) + 1
    BY <1>1, <2>1
  <2> QED BY <1>1, <1>2, <2>2, JobsMove
<1>3. ASSUME jobs # <<>>, jobs' = Tail(jobs), NEW k \in DOMAIN jobs'
      PROVE  k + 1 \in DOMAIN jobs /\ jobs'[k] = jobs[k + 1]
  <2>1. k \in 1..Len(jobs) - 1 /\ jobs'[k] = jobs[k + 1]
    BY <1>3, JobsMove
  <2> QED BY <1>1, <2>1
<1>4. ASSUME NEW m \in DOMAIN jobs, jobs' = RemoveAt(jobs, m), NEW k \in DOMAIN jobs'
      PROVE  \E i \in DOMAIN jobs : jobs'[k] = jobs[i]
  <2>1. k \in 1..Len(jobs) - 1 /\ jobs'[k] = IF k < m THEN jobs[k] ELSE jobs[k + 1]
    BY <1>4, JobsMove
  <2>2. k \in 1..Len(jobs) /\ k + 1 \in 1..Len(jobs)
    BY <1>1, <2>1
  <2> QED BY <1>1, <2>1, <2>2
<1> QED BY <1>2, <1>3, <1>4

\* Every context in use stays complete.
LEMMA ContextsKept ==
    ASSUME ContextTypeOK, HistoryInv, BuildingInv, ContextsInv,
           [ContextNext]_contextVars
    PROVE  ContextsInv'
<1> DEFINE Good(c) == ContextGood(c, ToSet(messages'), flagged')
<1>1. /\ \A k \in DOMAIN jobs : Good(jobs[k].context)
      /\ running # NoJob => Good(running.context)
      /\ batch.open => Good(batch.context)
  BY ContextsInLine, LineKnown, ContextKept DEF LineContexts, Known
<1>2. building.stage = "written" => Good(Built)
  <2>1. building.stage = "written" => building # NoBuild
    BY DEF NoBuild
  <2> QED BY <2>1, BuiltGood, BuiltType, ContextKept DEF Context
<1> HIDE DEF Good
<1>3. /\ \A k \in DOMAIN jobs' : Good(jobs'[k].context)
      /\ running' # NoJob => Good(running'.context)
      /\ batch'.open => Good(batch'.context)
  <2>1. CASE LineStays
    BY <1>1, <2>1 DEF LineStays, Same
  <2>2. CASE LineStarts
    <3>1. /\ \A k \in DOMAIN jobs' : k + 1 \in DOMAIN jobs /\ jobs'[k] = jobs[k + 1]
          /\ 1 \in DOMAIN jobs
      BY <2>2, JobsFrom, JobsMove DEF LineStarts
    <3>2. running'.context = jobs[1].context /\ batch' = batch
      BY <2>2 DEF LineStarts, Same
    <3> QED BY <1>1, <3>1, <3>2
  <2>3. CASE LineEnds
    BY <1>1, <2>3 DEF LineEnds
  <2>4. CASE LineLosesOne
    <3>1. PICK m \in DOMAIN jobs : jobs' = RemoveAt(jobs, m)
      BY <2>4 DEF LineLosesOne
    <3>2. \A k \in DOMAIN jobs' : \E i \in DOMAIN jobs : jobs'[k] = jobs[i]
      BY <3>1, JobsFrom
    <3> QED BY <1>1, <2>4, <3>2 DEF LineLosesOne
  <2>5. CASE LineSeals
    <3>1. \A k \in DOMAIN jobs' : Good(jobs'[k].context)
      <4>1. CASE jobs' = jobs
        BY <1>1, <4>1
      <4>2. ASSUME NEW j, Same(j, batch), jobs' = Append(jobs, j)
            PROVE  \A k \in DOMAIN jobs' : Good(jobs'[k].context)
        <5>1. Good(j.context)
          BY <1>1, <2>5, <4>2 DEF LineSeals, Same
        <5>2. \A k \in DOMAIN jobs' : (k \in DOMAIN jobs /\ jobs'[k] = jobs[k]) \/ jobs'[k] = j
          BY <4>2, JobsFrom
        <5> QED BY <1>1, <5>1, <5>2
      <4> QED BY <2>5, <4>1, <4>2 DEF LineSeals
    <3> QED BY <1>1, <2>5, <3>1 DEF LineSeals, NoBatch
  <2>6. CASE LineOpens
    BY <1>1, <1>2, <2>6 DEF LineOpens
  <2>7. CASE LineJoins
    BY <1>1, <2>7 DEF LineJoins
  <2>8. CASE LineAsks
    <3>1. PICK j : j.context = Built /\ jobs' = Append(jobs, j)
      BY <2>8 DEF LineAsks
    <3>2. \A k \in DOMAIN jobs' : (k \in DOMAIN jobs /\ jobs'[k] = jobs[k]) \/ jobs'[k] = j
      BY <3>1, JobsFrom
    <3>3. \A k \in DOMAIN jobs' : Good(jobs'[k].context)
      BY <1>1, <1>2, <2>8, <3>1, <3>2 DEF LineAsks
    <3> QED BY <1>1, <2>8, <3>3 DEF LineAsks
  <2>9. CASE LineIsLost
    BY <2>9 DEF LineIsLost, NoBatch
  <2> QED BY <2>1, <2>2, <2>3, <2>4, <2>5, <2>6, <2>7, <2>8, <2>9, LineSteps
<1>4. LineContexts'
  BY <1>3 DEF LineContexts, Good
<1>5. (LineContexts => ContextsInv)'
  BY ContextsInLine, PTL
<1> QED BY <1>4, <1>5

\* The line stays in the order of what was stored.
LEMMA OrderKept ==
    ASSUME ContextTypeOK, HistoryInv, BuildingInv, ContextsInv, OrderInv,
           [ContextNext]_contextVars
    PROVE  OrderInv'
<1>1. /\ \A k \in DOMAIN jobs : Known(jobs[k]) /\
                                ContextGood(jobs[k].context, ToSet(messages), flagged)
      /\ running # NoJob => Known(running) /\
                            ContextGood(running.context, ToSet(messages), flagged)
      /\ batch.open => Known(batch)
  BY ContextsInLine, LineKnown DEF LineContexts
<1>2. /\ jobs \in Seq(Work) /\ Len(jobs) \in Nat /\ DOMAIN jobs = 1..Len(jobs)
  BY JobsMove
<1>3. CASE LineStays
  <2>1. \A a \in {batch} \cup {jobs[k] : k \in DOMAIN jobs} :
          running # NoJob /\ Before(running, a) => Before(running', a)
    BY <1>3 DEF LineStays, Same, Before, Tells
  <2> QED BY <1>3, <2>1 DEF LineStays, OrderInv
<1>4. CASE LineStarts
  <2>1. /\ \A k \in 1..Len(jobs) - 1 : jobs'[k] = jobs[k + 1]
        /\ DOMAIN jobs' = 1..Len(jobs) - 1 /\ 1 \in 1..Len(jobs)
        /\ Same(running', jobs[1]) /\ batch' = batch
    BY <1>4, JobsMove DEF LineStarts
  <2>2. \A a : Before(jobs[1], a) => Before(running', a)
    BY <2>1 DEF Same, Before, Tells
  <2>3. \A k \in 1..Len(jobs) - 1 : k + 1 \in 1..Len(jobs) /\ 1 < k + 1
    BY <1>2
  <2>4. \A k \in DOMAIN jobs' : Before(running', jobs'[k])
    BY <1>2, <2>1, <2>2, <2>3 DEF OrderInv
  <2>5. \A i, k \in DOMAIN jobs' : i < k => Before(jobs'[i], jobs'[k])
    <3>1. \A i, k \in 1..Len(jobs) - 1 : i < k => i + 1 < k + 1
      BY <1>2
    <3> QED BY <1>2, <2>1, <2>3, <3>1 DEF OrderInv
  <2>6. batch'.open => /\ Before(running', batch')
                       /\ \A k \in DOMAIN jobs' : Before(jobs'[k], batch')
    BY <1>2, <2>1, <2>2, <2>3 DEF OrderInv
  <2> QED BY <2>4, <2>5, <2>6 DEF OrderInv
<1>5. CASE LineEnds
  BY <1>5 DEF LineEnds, OrderInv
<1>6. CASE LineLosesOne
  <2>1. PICK m \in DOMAIN jobs : jobs' = RemoveAt(jobs, m)
    BY <1>6 DEF LineLosesOne
  <2> DEFINE old(k) == IF k < m THEN k ELSE k + 1
  <2>2. /\ DOMAIN jobs' = 1..Len(jobs) - 1
        /\ \A k \in 1..Len(jobs) - 1 :
              jobs'[k] = IF k < m THEN jobs[k] ELSE jobs[k + 1]
    BY <2>1, JobsMove
  <2>3. /\ \A k \in DOMAIN jobs' : jobs'[k] = jobs[old(k)] /\ old(k) \in DOMAIN jobs
        /\ \A i, k \in DOMAIN jobs' : i < k => old(i) < old(k)
    BY <1>2, <2>2
  <2> HIDE DEF old
  <2> QED BY <1>6, <2>3 DEF LineLosesOne, OrderInv
<1>7. CASE LineSeals
  <2>1. ~batch'.open /\ running' = running /\ batch.open
    BY <1>7 DEF LineSeals, NoBatch
  <2>2. CASE jobs' = jobs
    BY <2>1, <2>2 DEF OrderInv
  <2>3. ASSUME NEW j, Same(j, batch), jobs' = Append(jobs, j)
        PROVE  OrderInv'
    <3>1. /\ DOMAIN jobs' = 1..Len(jobs) + 1
          /\ \A k \in 1..Len(jobs) : jobs'[k] = jobs[k]
          /\ jobs'[Len(jobs) + 1] = j
      BY <2>3, JobsMove
    <3>2. \A a : Before(a, batch) => Before(a, j)
      BY <2>3 DEF Same, Before
    <3>3. \A i, k \in DOMAIN jobs' : i < k => Before(jobs'[i], jobs'[k])
      BY <1>2, <2>1, <3>1, <3>2 DEF OrderInv
    <3>4. running' # NoJob => \A k \in DOMAIN jobs' : Before(running', jobs'[k])
      BY <1>2, <2>1, <3>1, <3>2 DEF OrderInv
    <3> QED BY <2>1, <3>3, <3>4 DEF OrderInv
  <2> QED BY <1>7, <2>2, <2>3 DEF LineSeals
<1>8. CASE LineOpens
  <2>1. /\ batch'.context = Built /\ batch'.own = {stored + 1}
        /\ building.stage = "written" /\ UNCHANGED <<jobs, running>>
    BY <1>8 DEF LineOpens
  <2>2. /\ \A k \in DOMAIN jobs : Before(jobs[k], batch')
        /\ running # NoJob => Before(running, batch')
    BY <1>1, <2>1, BuiltLast
  <2> QED BY <2>1, <2>2 DEF OrderInv
<1>9. CASE LineJoins
  <2>1. /\ batch'.context = batch.context /\ batch'.own = batch.own \cup {stored + 1}
        /\ batch.open /\ UNCHANGED <<jobs, running>>
    BY <1>9 DEF LineJoins
  <2>2. /\ \A k \in DOMAIN jobs : Before(jobs[k], batch')
        /\ running # NoJob => Before(running, batch')
    BY <1>1, <2>1, JoinedLast DEF OrderInv
  <2> QED BY <2>1, <2>2 DEF OrderInv
<1>10. CASE LineAsks
  <2>1. PICK j : j.context = Built /\ j.own = {stored + 1} /\ jobs' = Append(jobs, j)
    BY <1>10 DEF LineAsks
  <2>2. /\ DOMAIN jobs' = 1..Len(jobs) + 1
        /\ \A k \in 1..Len(jobs) : jobs'[k] = jobs[k]
        /\ jobs'[Len(jobs) + 1] = j
        /\ building.stage = "written" /\ UNCHANGED <<batch, running>>
    BY <1>10, <2>1, JobsMove DEF LineAsks
  <2>3. /\ \A k \in DOMAIN jobs : Before(jobs[k], j)
        /\ running # NoJob => Before(running, j)
    BY <1>1, <2>1, <2>2, BuiltLast
  <2>4. ~batch.open
    BY <2>2 DEF BuildingInv, NoBuild
  <2>5. \A i, k \in DOMAIN jobs' : i < k => Before(jobs'[i], jobs'[k])
    BY <1>2, <2>2, <2>3 DEF OrderInv
  <2>6. running' # NoJob => \A k \in DOMAIN jobs' : Before(running', jobs'[k])
    BY <1>2, <2>2, <2>3 DEF OrderInv
  <2> QED BY <2>2, <2>4, <2>5, <2>6 DEF OrderInv
<1>11. CASE LineIsLost
  BY <1>11 DEF LineIsLost, OrderInv, NoBatch
<1> QED
  BY <1>3, <1>4, <1>5, <1>6, <1>7, <1>8, <1>9, <1>10, <1>11, LineSteps

\* Rows are observed when they are stored only.
LEMMA ObservedSteps ==
    ASSUME ContextTypeOK, [ContextNext]_contextVars
    PROVE  observed \subseteq observed' /\ observed' \cap (1..stored) = observed
<1>1. observed \subseteq 1..stored /\ stored \in Nat /\ stored + 1 \notin 1..stored
  BY DEF ContextTypeOK, Rows
<1>2. observed' = observed \/ observed' = observed \cup {stored + 1}
  BY HistorySteps
     DEF HistoryStays, historyVars, HistoryGrows, RollUpWrites, HistoryIsCleared
<1> QED BY <1>1, <1>2

\* What is to be told stays new while no Agent answers.
LEMMA FreshKept ==
    ASSUME ContextTypeOK, [ContextNext]_contextVars, UNCHANGED <<ToldNow, forwarded>>,
           NEW j, j.own \in Rows, Fresh(j, observed, ToldNow, forwarded)
    PROVE  Fresh(j, observed', ToldNow', forwarded')
<1>1. j.own \cap observed' = j.own \cap observed
  BY ObservedSteps DEF Rows
<1> QED BY <1>1 DEF Fresh

\* And it stays new to an Agent that has answered an earlier job.
LEMMA FreshAfterAnswer ==
    ASSUME ContextTypeOK, ToldInv, [ContextNext]_contextVars, JobCompletes,
           Fresh(running, observed, ToldNow, forwarded),
           NEW j, Known(j), Fresh(j, observed, ToldNow, forwarded), Before(running, j)
    PROVE  Fresh(j, observed', ToldNow', forwarded')
<1> DEFINE q == running.provider
<1>1. /\ running \in Work /\ running.stage = "agent" /\ running # NoJob
      /\ ToldNow \in [Providers -> Rows] /\ forwarded \in [Providers -> Rows]
  BY ToldNowRows DEF JobCompletes, ContextTypeOK, NoJob
<1>2. q \in Providers
  BY <1>1 DEF Work
<1>3. /\ running.asked = NotForwarded(running) /\ running.prompt = Prompt(running)
  BY <1>1 DEF ToldInv
<1>4. /\ ToldNow'[q] = ToldNow[q] \cup (running.prompt \cap observed)
      /\ forwarded'[q] = forwarded[q] \cup running.asked \cup running.included
      /\ \A p \in Providers : p # q => ToldNow'[p] = ToldNow[p] /\ forwarded'[p] = forwarded[p]
  BY <1>1, <1>2, ToldNowSteps DEF JobCompletes, Mark
<1>5. running.prompt \subseteq Tells(running)
  BY <1>3 DEF Prompt, NotForwarded, Tells
<1>6. j.own \cap observed' = j.included
  BY ObservedSteps DEF Rows, Known, Fresh
<1>7. \A p \in Providers : \A r \in ToldNow'[p], o \in j.own : r < o
  BY <1>4, <1>5 DEF Fresh, Before
<1>8. \A p \in Providers : (ToldNow'[p] \ forwarded'[p]) \cap j.context.recent = {}
  <2> SUFFICES ASSUME NEW r \in ToldNow'[q], r \notin forwarded'[q],
                      r \in j.context.recent, r \notin ToldNow[q]
               PROVE  FALSE
    BY <1>4 DEF Fresh
  <2>1. r \in running.prompt /\ r \in observed
    BY <1>4
  <2>2. r \notin running.own
    BY <1>4, <2>1 DEF Fresh
  <2>3. r \notin running.context.recent
    BY <1>3, <1>4, <2>1 DEF NotForwarded
  <2>4. r \in running.context.summary
    BY <1>3, <2>1, <2>2, <2>3 DEF Prompt, NotForwarded
  <2> QED BY <2>4 DEF Before
<1> QED BY <1>6, <1>7, <1>8 DEF Fresh

\* So is what a message asks for that has just been stored.
LEMMA BuiltFresh ==
    ASSUME ContextTypeOK, HistoryInv, BuildingInv, ToldInv, building.stage = "written",
           UNCHANGED <<ToldNow, forwarded>>,
           NEW j, j.context = Built, j.own = {stored + 1},
           j.included = {stored + 1} \cap observed'
    PROVE  Fresh(j, observed', ToldNow', forwarded')
<1>1. /\ Built.recent = Recent(messages) /\ flagged \cap Recent(messages) = {}
      /\ Recent(messages) \subseteq ToSet(messages)
  BY BuiltGood DEF ContextGood, Recent, ToSet
<1>2. \A p \in Providers : (ToldNow[p] \ forwarded[p]) \cap Recent(messages) = {}
  BY <1>1 DEF ToldInv
<1>3. \A p \in Providers : ToldNow[p] \subseteq 1..stored
  BY ToldNowRows DEF Rows
<1>4. \A p \in Providers : \A r \in ToldNow[p] : r < stored + 1
  BY <1>3 DEF ContextTypeOK
<1> QED BY <1>1, <1>2, <1>4 DEF Fresh

\* What waits stays new to every Agent, whatever happens.
LEMMA FreshStep ==
    ASSUME ContextTypeOK, HistoryInv, BuildingInv, OrderInv, FreshInv, ToldInv,
           [ContextNext]_contextVars
    PROVE  FreshInv'
<1> DEFINE Good(j) == Fresh(j, observed', ToldNow', forwarded')
<1>1. CASE JobCompletes
  <2>1. running # NoJob /\ running' = NoJob /\ UNCHANGED <<jobs, batch>>
    BY <1>1 DEF JobCompletes, NoJob
  <2>2. /\ \A k \in DOMAIN jobs : Good(jobs[k])
        /\ batch.open => Good(batch)
    BY <1>1, <2>1, LineKnown, FreshAfterAnswer DEF FreshInv, OrderInv
  <2> QED BY <2>1, <2>2 DEF FreshInv
<1>2. CASE Restart
  BY <1>2 DEF Restart, FreshInv, NoBatch
<1>3. CASE UNCHANGED <<ToldNow, forwarded>>
  <2>1. /\ \A k \in DOMAIN jobs : Good(jobs[k])
        /\ running # NoJob => Good(running)
        /\ batch.open => Good(batch)
    BY <1>3, LineKnown, FreshKept DEF FreshInv, Known
  <2>2. building.stage = "written" =>
          \A j : /\ j.context = Built /\ j.own = {stored + 1}
                 /\ j.included = {stored + 1} \cap observed'
                 => Good(j)
    BY <1>3, BuiltFresh
  <2>3. \A a, b : Same(a, b) /\ Good(b) => Good(a)
    BY DEF Same, Fresh
  <2> HIDE DEF Good
  <2>4. /\ \A k \in DOMAIN jobs' : Good(jobs'[k])
        /\ running' # NoJob => Good(running')
        /\ batch'.open => Good(batch')
    <3>1. CASE LineStays
      BY <2>1, <2>3, <3>1 DEF LineStays
    <3>2. CASE LineStarts
      <4>1. /\ \A k \in DOMAIN jobs' : k + 1 \in DOMAIN jobs /\ jobs'[k] = jobs[k + 1]
            /\ 1 \in DOMAIN jobs
        BY <3>2, JobsFrom, JobsMove DEF LineStarts
      <4> QED BY <2>1, <2>3, <3>2, <4>1 DEF LineStarts
    <3>3. CASE LineEnds
      BY <2>1, <3>3 DEF LineEnds
    <3>4. CASE LineLosesOne
      <4>1. \A k \in DOMAIN jobs' : \E i \in DOMAIN jobs : jobs'[k] = jobs[i]
        BY <3>4, JobsFrom DEF LineLosesOne
      <4> QED BY <2>1, <3>4, <4>1 DEF LineLosesOne
    <3>5. CASE LineSeals
      <4>1. CASE jobs' = jobs
        BY <2>1, <3>5, <4>1 DEF LineSeals, NoBatch
      <4>2. ASSUME NEW j, Same(j, batch), jobs' = Append(jobs, j)
            PROVE  \A k \in DOMAIN jobs' : Good(jobs'[k])
        <5>1. \A k \in DOMAIN jobs' : (k \in DOMAIN jobs /\ jobs'[k] = jobs[k]) \/ jobs'[k] = j
          BY <4>2, JobsFrom
        <5> QED BY <2>1, <2>3, <3>5, <4>2, <5>1 DEF LineSeals
      <4> QED BY <2>1, <3>5, <4>1, <4>2 DEF LineSeals, NoBatch
    <3>6. CASE LineOpens
      BY <2>1, <2>2, <3>6 DEF LineOpens
    <3>7. CASE LineJoins
      <4>1. /\ batch'.context = batch.context
            /\ batch'.own = batch.own \cup {stored + 1}
            /\ batch'.included = batch.included \cup ({stored + 1} \cap observed')
            /\ batch.open /\ UNCHANGED <<jobs, running>>
        BY <3>7 DEF LineJoins
      <4>2. \A p \in Providers : \A r \in ToldNow'[p] : r < stored + 1
        <5>1. \A p \in Providers : ToldNow[p] \subseteq 1..stored
          BY ToldNowRows DEF Rows
        <5> QED BY <1>3, <5>1 DEF ContextTypeOK
      <4>3. Good(batch')
        BY <2>1, <4>1, <4>2 DEF Fresh, Good
      <4> QED BY <2>1, <4>1, <4>3
    <3>8. CASE LineAsks
      <4>1. PICK j : /\ j.context = Built /\ j.own = {stored + 1} /\ j.included = {}
                     /\ jobs' = Append(jobs, j)
        BY <3>8 DEF LineAsks
      <4>2. stored + 1 \notin observed'
        BY <3>8 DEF LineAsks, ContextTypeOK, Rows
      <4>3. Good(j)
        BY <2>2, <3>8, <4>1, <4>2 DEF LineAsks
      <4>4. \A k \in DOMAIN jobs' : (k \in DOMAIN jobs /\ jobs'[k] = jobs[k]) \/ jobs'[k] = j
        BY <4>1, JobsFrom
      <4> QED BY <2>1, <3>8, <4>3, <4>4 DEF LineAsks
    <3>9. CASE LineIsLost
      BY <3>9 DEF LineIsLost, NoBatch
    <3> QED BY <3>1, <3>2, <3>3, <3>4, <3>5, <3>6, <3>7, <3>8, <3>9, LineSteps
  <2> QED BY <2>4 DEF FreshInv, Good
<1> QED BY <1>1, <1>2, <1>3, ToldSteps, ToldNowSteps

\* No row is told again in one run, and what is marked was told.
LEMMA ToldStep ==
    ASSUME ContextTypeOK, HistoryInv, BuildingInv, ContextsInv, FreshInv, ToldInv,
           [ContextNext]_contextVars
    PROVE  ToldInv'
<1>1. \A p \in Providers :
        ToldNow[p] \subseteq 1..stored /\ forwarded[p] \subseteq ToldNow[p] /\ stored \in Nat
  BY ToldNowRows DEF ContextTypeOK, Rows, ToldInv, ForwardedWasTold
\* What is compacted stays compacted, and new rows have not been told.
<1>2. ASSUME NEW R \in SUBSET (1..stored), R \cap ToSet(messages) \subseteq flagged
      PROVE  R \cap ToSet(messages') \subseteq flagged'
  <2>1. CASE HistoryStays
    BY <1>2, <2>1 DEF HistoryStays, historyVars
  <2>2. CASE HistoryGrows
    <3>1. ToSet(messages') = ToSet(messages) \cup {stored + 1} /\ flagged' = flagged
      BY <2>2 DEF HistoryGrows, Grows, Grown
    <3>2. stored + 1 \notin R
      BY DEF ContextTypeOK
    <3> QED BY <1>2, <3>1, <3>2
  <2>3. CASE RollUpWrites
    BY <1>2, <2>3 DEF RollUpWrites
  <2>4. CASE HistoryIsCleared
    BY <2>4 DEF HistoryIsCleared, ToSet
  <2> QED BY <2>1, <2>2, <2>3, <2>4, HistorySteps
<1>3. CASE JobCompletes
  <2> DEFINE q == running.provider
  <2>1. /\ running \in Work /\ running.stage = "agent" /\ running # NoJob
        /\ ToldNow \in [Providers -> Rows] /\ forwarded \in [Providers -> Rows]
    BY <1>3, ToldNowRows DEF JobCompletes, ContextTypeOK, NoJob
  <2>2. /\ q \in Providers /\ running.own \subseteq 1..stored
        /\ running.context.summary \subseteq 1..stored
        /\ running.context.recent \subseteq 1..stored
    BY <2>1 DEF Work, Context, Rows
  <2>3. /\ running.asked = NotForwarded(running) /\ running.prompt = Prompt(running)
        /\ Fresh(running, observed, ToldNow, forwarded)
        /\ running.context.summary \cap ToSet(messages) \subseteq flagged
    BY <2>1, ContextsInLine DEF ToldInv, FreshInv, LineContexts, ContextGood
  <2>4. /\ ToldNow'[q] = ToldNow[q] \cup (running.prompt \cap observed)
        /\ forwarded'[q] = forwarded[q] \cup running.asked \cup running.included
        /\ \A p \in Providers : p # q => ToldNow'[p] = ToldNow[p] /\ forwarded'[p] = forwarded[p]
    BY <1>3, <2>1, <2>2, ToldNowSteps DEF JobCompletes, Mark
  <2>5. ToldOnce'
    <3>1. ToldOnce /\ ToldOK
      BY TypesSplit DEF ToldInv
    <3>2. ~running.include => running.prompt \cap ToldNow[q] = {}
      <4> SUFFICES ASSUME ~running.include, NEW r \in running.prompt, r \in ToldNow[q]
                   PROVE  FALSE
        OBVIOUS
      <4>1. r \notin running.own
        <5>1. \A o \in running.own : r < o
          BY <2>2, <2>3 DEF Fresh
        <5>2. r \in Nat
          BY <1>1, <2>2
        <5> QED BY <5>1, <5>2
      <4>2. r \in observed \cap running.context.recent /\ r \notin forwarded[q]
        BY <2>3, <4>1 DEF Prompt, NotForwarded
      <4> QED BY <2>2, <2>3, <4>2 DEF Fresh
    \* What it tells again was told in an earlier run.
    <3>3. ASSUME ~running.include, NEW t \in told[q], t[1] \in running.prompt
          PROVE  t[2] < runs
      <4>1. t = <<t[1], t[2]>> /\ t[1] \in 1..stored /\ t[2] \in 1..runs /\ runs \in Nat
        BY <2>2, <3>1, <3>3 DEF ToldOK
      <4>2. t[2] # runs
        <5> SUFFICES ASSUME t[2] = runs PROVE FALSE
          OBVIOUS
        <5>1. <<t[1], runs>> \in told[q]
          BY <4>1
        <5>2. t[1] \in ToldNow[q]
          BY <2>2, <4>1, <5>1 DEF ToldNow
        <5> QED BY <3>2, <3>3, <5>2
      <4> QED BY <4>1, <4>2
    <3>4. ASSUME NEW a \in again' PROVE a[1] < a[2]
      <4>1. CASE a \in again
        BY <3>1, <4>1 DEF ToldOnce
      <4>2. CASE a \notin again
        <5>1. /\ ~running.include
              /\ a \in {<<t[2], runs>> : t \in {t \in told[q] : t[1] \in running.prompt}}
          BY <1>3, <3>4, <4>2 DEF JobCompletes
        <5>2. PICK t \in told[q] : t[1] \in running.prompt /\ a = <<t[2], runs>>
          BY <5>1
        <5> QED BY <3>3, <5>1, <5>2
      <4> QED BY <4>1, <4>2
    <3> QED BY <3>4 DEF ToldOnce
  <2>6. forwarded'[q] \subseteq ToldNow'[q]
    <3>1. running.included \subseteq running.prompt \cap observed
      BY <2>3 DEF Fresh, Prompt
    <3>2. running.asked \subseteq running.prompt \cap observed
      BY <2>3 DEF Prompt, NotForwarded
    <3> QED BY <1>1, <2>2, <2>4, <3>1, <3>2
  <2>7. \A p \in Providers :
          (ToldNow'[p] \ forwarded'[p]) \cap ToSet(messages') \subseteq flagged'
    <3>1. ASSUME NEW p \in Providers, p # q
          PROVE  (ToldNow'[p] \ forwarded'[p]) \cap ToSet(messages') \subseteq flagged'
      BY <1>1, <1>2, <2>4, <3>1 DEF ToldInv
    <3>2. ToldNow'[q] \ forwarded'[q] \subseteq
            (ToldNow[q] \ forwarded[q]) \cup running.context.summary
      <4> SUFFICES ASSUME NEW r \in ToldNow'[q], r \notin forwarded'[q], r \notin ToldNow[q]
                   PROVE  r \in running.context.summary
        BY <2>4
      <4>1. r \in running.prompt /\ r \in observed
        BY <2>4
      <4>2. r \notin running.own
        BY <2>3, <2>4, <4>1 DEF Fresh
      <4>3. r \notin running.context.recent
        BY <2>3, <2>4, <4>1 DEF NotForwarded
      <4> QED BY <2>3, <4>1, <4>2, <4>3 DEF Prompt, NotForwarded
    <3> DEFINE R == (ToldNow[q] \ forwarded[q]) \cup running.context.summary
    <3>3. R \in SUBSET (1..stored) /\ R \cap ToSet(messages) \subseteq flagged
      BY <1>1, <2>2, <2>3 DEF ToldInv
    <3>4. R \cap ToSet(messages') \subseteq flagged'
      BY <1>2, <3>3
    <3> QED BY <3>1, <3>2, <3>4
  <2>8. running'.stage # "agent"
    BY <1>3 DEF JobCompletes, NoJob
  <2> QED BY <1>1, <2>4, <2>5, <2>6, <2>7, <2>8 DEF ToldInv, ToldOnce, ForwardedWasTold
<1>4. CASE Restart
  <2>1. \A p \in Providers : ToldNow'[p] = {} /\ forwarded'[p] = {}
    BY <1>4, ToldNowSteps DEF Restart
  <2>2. again' = again /\ running' = NoJob
    BY <1>4 DEF Restart
  <2> QED BY <2>1, <2>2 DEF ToldInv, ToldOnce, ForwardedWasTold, NoJob
<1>5. CASE UNCHANGED <<forwarded, ToldNow, again>>
  <2>1. ToldOnce' /\ ForwardedWasTold'
    BY <1>5 DEF ToldInv, ToldOnce, ForwardedWasTold
  <2>2. \A p \in Providers :
          (ToldNow'[p] \ forwarded'[p]) \cap ToSet(messages') \subseteq flagged'
    BY <1>1, <1>2, <1>5 DEF ToldInv
  <2>3. running'.stage = "agent" =>
          running'.asked = NotForwarded(running)' /\ running'.prompt = Prompt(running)'
    <3>1. CASE SessionReady
      <4>1. /\ running \in Work /\ observed' = observed
            /\ running'.asked = NotForwarded(running) /\ running'.prompt = Prompt(running)
            /\ running'.context = running.context /\ running'.own = running.own
            /\ running'.provider = running.provider /\ running'.include = running.include
        BY <3>1 DEF SessionReady, ContextTypeOK, NoJob, Work, historyVars
      <4>2. NotForwarded(running)' = NotForwarded(running)
        BY <1>5, <4>1 DEF NotForwarded
      <4> QED BY <4>1, <4>2 DEF Prompt
    <3>2. CASE running' = running
      <4> SUFFICES ASSUME running.stage = "agent"
                   PROVE  /\ running.asked = NotForwarded(running)'
                          /\ running.prompt = Prompt(running)'
        BY <3>2
      <4>1. running # NoJob /\ running.context.recent \subseteq 1..stored
        BY LineKnown DEF NoJob, Known, Rows
      <4>2. observed' \cap running.context.recent = observed \cap running.context.recent
        BY <4>1, ObservedSteps
      <4>3. NotForwarded(running)' = NotForwarded(running)
        BY <1>5, <3>2, <4>2 DEF NotForwarded
      <4> QED BY <3>2, <4>3 DEF ToldInv, Prompt
    <3>3. CASE JobStarts
      <4>1. jobs # <<>> /\ Head(jobs) \in Work
        BY <3>3 DEF JobStarts, ContextTypeOK
      <4>2. running'.stage = "session"
        BY <3>3, <4>1 DEF JobStarts, Work
      <4> QED BY <4>2
    <3>4. CASE running' = NoJob
      BY <3>4 DEF NoJob
    <3>5. SessionReady \/ running' = running \/ JobStarts \/ running' = NoJob
      BY DEF ContextNext, LoopStep, Begins, JoinsBatch, Seal, JobCompletes, JobFails,
             SetAgent, SessionCommand, RemoveQueued, Clear, RollUpWrites, OpensBatch,
             Ask, RecoveredRow, Restart, contextVars, workVars
    <3> QED BY <3>1, <3>2, <3>3, <3>4, <3>5
  <2> QED BY <2>1, <2>2, <2>3 DEF ToldInv
<1> QED BY <1>3, <1>4, <1>5, ToldSteps, ToldNowSteps

-----------------------------------------------------------------------------
(* The inductive invariant and what follows of it.                         *)

ContextInv ==
    /\ ContextTypeOK /\ HistoryInv /\ BuildingInv
    /\ ContextsInv /\ OrderInv /\ FreshInv /\ ToldInv

\* Nothing is stored, told or waiting in the first state.
LEMMA ContextInvInit ==
    ContextInit => ContextInv
<1> SUFFICES ASSUME ContextInit PROVE ContextInv
  OBVIOUS
<1>1. /\ DOMAIN messages = {} /\ DOMAIN jobs = {} /\ ToSet(messages) = {}
      /\ building = NoBuild /\ batch = NoBatch /\ running = NoJob
      /\ flagged = {} /\ summary = {} /\ again = {}
      /\ \A p \in Providers : ToldNow[p] = {} /\ forwarded[p] = {}
  BY DEF ContextInit, ToSet, ToldNow
<1>2. HistoryInv /\ BuildingInv
  BY <1>1 DEF HistoryInv, SummaryExact, BuildingInv, NoBuild
<1>3. ContextsInv /\ OrderInv /\ FreshInv
  BY <1>1 DEF ContextsInv, Contexts, OrderInv, FreshInv, NoBatch
<1>4. ToldInv
  BY <1>1 DEF ToldInv, ToldOnce, ForwardedWasTold, NoJob
<1> QED BY <1>2, <1>3, <1>4, ContextTypesInit DEF ContextInv

\* Each part is kept by every step.
LEMMA ContextInvStep ==
    ContextInv /\ [ContextNext]_contextVars => ContextInv'
BY ContextTypesStep, HistoryKept, BuildingKept, ContextsKept, OrderKept, FreshStep,
   ToldStep
   DEF ContextInv

\* Every reachable state has the inductive invariant: what has been summarized
\* lies before the newest rows, what is told first was stored first, and what
\* was told in this run and is not marked as forwarded has been summarized.
THEOREM ContextInvHolds == ContextSpec => []ContextInv
<1> QED BY ContextInvInit, ContextInvStep, PTL DEF ContextSpec

\* ContextBuilder.build and rollup_summary, with rows stored between them,
\* clear_session_messages and restarts: each context tells every message of
\* the conversation once, but for as many as were stored between its two reads,
\* and the summary tells of exactly the rows that are marked.
THEOREM ContextIsTrueHolds == ContextSpec => []ContextIsTrue
<1>1. ContextInv => ContextIsTrue
  BY DEF ContextInv, ContextsInv, ContextGood, ContextIsTrue, ContextComplete,
         HistoryInv
<1> QED BY <1>1, ContextInvHolds, PTL

\* The Agent that answers gets all that is observed and recent, or its own.
LEMMA AnswerTells ==
    ASSUME ContextInv, [ContextNext]_contextVars, JobCompletes
    PROVE  (observed \cap running.context.recent) \cup running.included
             \subseteq ToldNow'[running.provider]
<1> DEFINE q == running.provider
<1>1. /\ running \in Work /\ running.stage = "agent" /\ running # NoJob
      /\ ToldNow \in [Providers -> Rows]
  BY ToldNowRows DEF JobCompletes, ContextInv, ContextTypeOK, NoJob
<1>2. q \in Providers
  BY <1>1 DEF Work
<1>3. ToldNow'[q] = ToldNow[q] \cup (running.prompt \cap observed)
  BY ToldNowSteps DEF ContextInv
<1>4. /\ running.prompt = Prompt(running)
      /\ running.own \cap observed = running.included
      /\ forwarded[q] \subseteq ToldNow[q]
  BY <1>1, <1>2 DEF ContextInv, ToldInv, ForwardedWasTold, FreshInv, Fresh
<1>5. observed \cap running.context.recent \subseteq Prompt(running) \cup forwarded[q]
  BY DEF Prompt, NotForwarded
<1> QED BY <1>3, <1>4, <1>5 DEF Prompt

\* A job that ends without an answer stores none.
LEMMA AnswerIsStored ==
    ASSUME ContextTypeOK, [ContextNext]_contextVars,
           running # NoJob, running' = NoJob, messages' # messages
    PROVE  JobCompletes
<1>1. ~SessionReady
  <2> SUFFICES ASSUME SessionReady PROVE FALSE
    OBVIOUS
  <2>1. running \in Work /\ running'.stage = "agent"
    BY DEF SessionReady, ContextTypeOK, Work
  <2> QED BY <2>1 DEF NoJob
<1> QED
  BY <1>1
     DEF ContextNext, LoopStep, Begins, JoinsBatch, Seal, JobStarts, JobFails,
         SetAgent, SessionCommand, RemoveQueued, Clear, RollUpWrites, OpensBatch,
         Ask, RecoveredRow, Restart, contextVars, workVars, historyVars

\* _unforwarded_context_messages, _mark_context_messages_forwarded and the
\* prompts of jobs that overlap, fail, are removed or are lost with the bridge:
\* in one run of the bridge no Agent that keeps its native session is told an
\* observed message twice (a restart forgets what was forwarded, and tells it
\* again), none is marked that was not told, and an Agent that answers has got
\* all of them.
THEOREM ToldExactlyOnceHolds == ContextSpec => ToldExactlyOnce
<1>1. ContextInv => ToldOnce /\ ForwardedWasTold
  BY DEF ContextInv, ToldInv
<1>2. ContextInv /\ [ContextNext]_contextVars
        => [running # NoJob /\ running' = NoJob /\ messages' # messages
              => (observed \cap running.context.recent) \cup running.included
                   \subseteq ToldNow'[running.provider]]_contextVars
  BY AnswerTells, AnswerIsStored DEF ContextInv
<1> QED
  BY <1>1, <1>2, ContextInvHolds, PTL
     DEF ContextSpec, ToldExactlyOnce, NothingWithheld
=============================================================================
