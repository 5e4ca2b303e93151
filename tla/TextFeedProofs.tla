--------------------------- MODULE TextFeedProofs ---------------------------
(* Proofs about the text lane: what it takes for known it has written, and   *)
(* what it has written and its file can hold it does not write again, for    *)
(* any feeds and any length of the seen file, among the other polling lanes. *)
EXTENDS PollingLanes, SequenceTheorems, FiniteSetTheorems, WellFoundedInduction, TLAPS

-----------------------------------------------------------------------------
(* The least and the greatest of a set of ids.                               *)

\* A set of naturals has a least member.
LEMMA LeastId ==
    ASSUME NEW S \in SUBSET Nat, S # {} PROVE \E m \in S : \A y \in S : m <= y
<1> DEFINE R == {ss \in Nat \X Nat : ss[1] < ss[2]}
<1>1. IsWellFoundedOn(R, Nat) BY NatLessThanWellFounded DEF OpToRel
<1>2. PICK m \in S : \A y \in S : ~(<<y, m>> \in R)
  <2> HIDE DEF R
  <2> QED BY <1>1, WFMin
<1>3. \A y \in S : ~(y < m) BY <1>2
<1> QED BY <1>3

\* The greatest member is the one that none exceeds.
LEMMA GreatestIs ==
    ASSUME NEW S \in SUBSET Int, NEW m \in S, \A x \in S : x <= m PROVE Max(S) = m
<1> DEFINE P(x) == x \in S /\ \A y \in S : x >= y
<1>1. P(m) OBVIOUS
<1>2. \A x : P(x) => x = m OBVIOUS
<1>3. Max(S) = CHOOSE x : P(x) BY DEF Max
<1> HIDE DEF P
<1> QED BY <1>1, <1>2, <1>3

\* A bounded set of naturals has a greatest member.
LEMMA MaxOfIds ==
    ASSUME NEW S \in SUBSET Nat, S # {}, NEW b \in Nat, \A x \in S : x <= b
    PROVE  Max(S) \in S /\ \A x \in S : x <= Max(S)
<1> DEFINE T == {b - x : x \in S}
<1>1. PICK t \in T : \A u \in T : t <= u
  <2>1. T \in SUBSET Nat /\ T # {}
    <3>1. \A x \in S : b - x \in Nat OBVIOUS
    <3> QED BY <3>1
  <2> HIDE DEF T
  <2> QED BY <2>1, LeastId
<1>2. PICK m \in S : t = b - m OBVIOUS
<1>3. \A x \in S : x <= m
  <2> SUFFICES ASSUME NEW x \in S PROVE x <= m OBVIOUS
  <2>1. b - x \in T OBVIOUS
  <2>2. t <= b - x BY <1>1, <2>1
  <2> QED BY <1>2, <2>2
<1>4. Max(S) = m
  <2>1. S \in SUBSET Int /\ m \in S OBVIOUS
  <2> QED BY <1>3, <2>1, GreatestIs
<1> QED BY <1>3, <1>4

-----------------------------------------------------------------------------
(* The state, what is known, and what is new.                                *)

\* The items that can be recorded, a run of the lane, the memory of a segment, and what
\* is served.
Items == {e \in Entries : e.key # NoId}
TextRun == [rows : Seq(Items), state : {"open", "closed", "killed"}, sighted : SUBSET {e.key : e \in Entries}]
Memo == [live : {TRUE}, seen : Seq(Items), refreshed : Seq(Items), held : [Feeds -> Nat],
         batch : Seq(Entries), begun : BOOLEAN]
Listing == [body : Seq(Entries), rev : Nat]

\* The state; the live segment's run is the last one.
TextState ==
    /\ served \in [Feeds -> Listing]
    /\ \A f \in Feeds : served[f].body \in Bodies[f] \cup {<<>>}
    /\ seenFile \in Seq(Items) /\ Len(seenFile) <= SeenCap /\ OncePerKey(seenFile)
    /\ texts \in Seq(TextRun)
    /\ \A i \in DOMAIN texts : texts[i].state = "open" <=> Reading /\ i = Own
    /\ reader \in Memo \cup {NoReader}
    /\ Reading => /\ Own # 0 /\ OncePerKey(reader.seen) /\ OncePerKey(reader.refreshed)
                  /\ \A f \in Feeds : reader.held[f] <= served[f].rev

\* Of the entries of its key, the entry is the last.
LastOf(x, entries) ==
    \E k \in DOMAIN entries :
        entries[k] = x /\ \A m \in DOMAIN entries : entries[m].key = x.key => m <= k

\* What is remembered is to be written, or is the latest that was.
KnownIn(memo) ==
    \A x \in ToSet(memo.seen) \ Doubled :
        \/ LastOf(x, memo.batch)
        \/ x.key \notin KeysOf(memo.batch) /\ IsLatest(x, ClosedTexts \cup {Own})

\* What was seen unchanged is the latest of the runs before, or the run has a row of it.
UnchangedIn(memo) ==
    \A x \in ToSet(memo.refreshed) \ Doubled :
        x.key \in KeysOf(texts[Own].rows) \/ IsLatest(x, ClosedTexts)

\* What the file says is the latest of the finished runs.
FileInv == \A x \in ToSet(seenFile) \ Doubled : IsLatest(x, ClosedTexts)

TextInv == TextState /\ (Reading => KnownIn(reader) /\ UnchangedIn(reader)) /\ FileInv

FirstOf(x, entries) ==
    \E k \in DOMAIN entries :
        entries[k] = x /\ \A m \in DOMAIN entries : entries[m].key = x.key => k <= m

\* An entry comes again only after another of its key.
Alternates(entries) ==
    \A k, m \in DOMAIN entries :
        k < m /\ entries[k] = entries[m] /\ entries[k].key # NoId
        => \E l \in DOMAIN entries : k < l /\ l < m /\ entries[l].key = entries[k].key

\* What the live segment wrote and is about to write of an item alternates, what it
\* remembers is the last of it, and the first of it is not what the file says.
Fresh(memo, rows, saved) ==
    /\ Alternates(memo.batch)
    /\ \A x : LastOf(x, rows) /\ FirstOf(x, memo.batch) => x.key = NoId
    /\ \A x : LastOf(x, memo.batch) => x.key = NoId \/ x \in ToSet(memo.seen)
    /\ \A x : LastOf(x, rows) => x.key \in KeysOf(memo.batch) \/ x \in ToSet(memo.seen)
    /\ \A x : FirstOf(x, memo.batch) => x.key = NoId \/ x.key \in KeysOf(rows) \/ x \notin ToSet(saved)
    /\ \A x \in ToSet(saved) :
         x.key \in KeysOf(rows) \/ x.key \in KeysOf(memo.batch) \/ x \in ToSet(memo.seen)

\* The finished runs.
Closed(t) == {i \in DOMAIN t : t[i].state = "closed"}
\* The finished ones from i to m since the last that sighted the key.
SinceIn(t, key, i, m) ==
    {l \in Closed(t) \cap (i..m) : \A c \in Closed(t) \cap ((l + 1)..m) : key \notin t[c].sighted}
EvictedIn(t, key, i, j) ==
    \E m \in Closed(t) \cap (i..(j - 1)) :
        Cardinality((UNION {t[l].sighted : l \in SinceIn(t, key, i, m)}) \ {key}) >= SeenCap
RowsWith(t) ==
    \A i \in DOMAIN t :
        /\ Alternates(t[i].rows) /\ IsFiniteSet(t[i].sighted)
        /\ t[i].state = "closed" => KeysOf(t[i].rows) \subseteq t[i].sighted

\* The first n have ended.  The file names the last version they wrote of an item, or
\* has forgotten it.
SavedWith(saved, t, n) ==
    \A i \in 1..n : t[i].state = "closed" =>
        \A x : LastOf(x, t[i].rows) /\ (\A l \in (i + 1)..n : x.key \notin KeysOf(t[l].rows))
               => x \in ToSet(saved) \/ EvictedIn(t, x.key, i, n + 1) \/ Retold(x)

\* Its entries are in the order of the segments that sighted them last.
AgeWith(saved, t) ==
    \A k, m \in DOMAIN saved : k < m =>
        \A c \in Closed(t) : saved[k].key \in t[c].sighted =>
            \E d \in Closed(t) : c <= d /\ saved[m].key \in t[d].sighted

\* A version comes again in another run.
AgainWith(t) ==
    \A i, j \in DOMAIN t : i < j =>
        \A x :
            /\ LastOf(x, t[i].rows) /\ FirstOf(x, t[j].rows)
            /\ \A l \in (i + 1)..(j - 1) : x.key \notin KeysOf(t[l].rows)
            => t[i].state = "killed" \/ EvictedIn(t, x.key, i, j) \/ Retold(x)

Finished == IF Reading THEN Own - 1 ELSE Own
OnceInv ==
    /\ Reading => Fresh(reader, texts[Own].rows, seenFile)
    /\ RowsWith(texts) /\ SavedWith(seenFile, texts, Finished)
    /\ AgeWith(seenFile, texts) /\ AgainWith(texts)

-----------------------------------------------------------------------------
(* Step by step over a sequence.                                             *)

LEMMA Stepwise ==
    ASSUME NEW n \in Nat, NEW T, 0 \in T, \A k \in 1..n : k - 1 \in T => k \in T PROVE n \in T
<1> DEFINE Bad == {k \in 0..n : k \notin T}
<1>1. SUFFICES ASSUME Bad # {} PROVE FALSE OBVIOUS
<1>2. PICK m \in Bad : \A k \in Bad : m <= k
  <2>1. Bad \in SUBSET Nat OBVIOUS
  <2> HIDE DEF Bad
  <2> QED BY <1>1, <2>1, LeastId
<1>3. m \in 1..n /\ m \notin T BY <1>2
<1>4. m - 1 \in 0..n /\ ~(m <= m - 1) BY <1>3
<1>5. m - 1 \in T BY <1>2, <1>4
<1> QED BY <1>3, <1>5

\* A recursion that takes a value of D and a place to a value of D has a solution.
Steps(h, D, d, g, n) ==
    h \in [0..n -> D] /\ h[0] = d /\ \A k \in 1..n : h[k] = g[<<h[k - 1], k>>]
LEMMA StepsExist ==
    ASSUME NEW D, NEW d \in D, NEW n \in Nat, NEW g \in [D \X (1..n) -> D]
    PROVE  \E h : Steps(h, D, d, g, n)
<1> DEFINE Solves(h, m) == Steps(h, D, d, g, m)
           T == {m \in 0..n : \E h : Solves(h, m)}
<1>1. 0 \in T
  <2> DEFINE z == [k \in 0..0 |-> d]
  <2>1. Solves(z, 0) BY DEF Steps
  <2> HIDE DEF z, Solves
  <2> QED BY <2>1
<1>2. ASSUME NEW m \in 1..n, m - 1 \in T PROVE m \in T
  <2>1. PICK h : Solves(h, m - 1) BY <1>2
  <2> DEFINE z == [k \in 0..m |-> IF k < m THEN h[k] ELSE g[<<h[m - 1], m>>]]
  <2>7. h \in [0..(m - 1) -> D] /\ h[0] = d /\ \A k \in 1..(m - 1) : h[k] = g[<<h[k - 1], k>>]
    BY <2>1 DEF Steps
  <2>2. h[m - 1] \in D /\ <<h[m - 1], m>> \in D \X (1..n) BY <2>7
  <2>3. z \in [0..m -> D] BY <2>7, <2>2
  <2>4. z[0] = d BY <2>7
  <2>5. ASSUME NEW k \in 1..m PROVE z[k] = g[<<z[k - 1], k>>]
    <3>1. k - 1 \in 0..(m - 1) /\ z[k - 1] = h[k - 1] OBVIOUS
    <3>2. CASE k = m
      <4>1. z[k] = g[<<h[m - 1], m>>] BY <3>2
      <4> QED BY <3>1, <3>2, <4>1
    <3>3. CASE k < m
      <4>1. k \in 1..(m - 1) /\ z[k] = h[k] BY <3>3
      <4>2. h[k] = g[<<h[k - 1], k>>] BY <2>7, <4>1
      <4> QED BY <3>1, <4>1, <4>2
    <3> QED BY <3>2, <3>3
  <2>6. Solves(z, m)
    <3> HIDE DEF z
    <3> QED BY <2>3, <2>4, <2>5 DEF Steps
  <2> HIDE DEF z, Solves
  <2> QED BY <2>6
<1>3. n \in T
  <2> HIDE DEF T, Solves
  <2> QED BY <1>1, <1>2, Stepwise
<1> QED BY <1>3

-----------------------------------------------------------------------------
(* What is remembered.                                                       *)

LEMMA InSet == ASSUME NEW X, NEW s \in Seq(X) PROVE ToSet(s) = {s[k] : k \in 1..Len(s)} /\ ToSet(s) \subseteq X
BY DEF ToSet

\* The sequence without the one at k.
LEMMA RemovedIs ==
    ASSUME NEW X, NEW s \in Seq(X), NEW k \in DOMAIN s
    PROVE  /\ RemoveAt(s, k) \in Seq(X) /\ Len(RemoveAt(s, k)) = Len(s) - 1
           /\ \A m \in 1..(Len(s) - 1) : RemoveAt(s, k)[m] = IF m < k THEN s[m] ELSE s[m + 1]
<1> DEFINE a == SubSeq(s, 1, k - 1)
           b == SubSeq(s, k + 1, Len(s))
<1>1. k \in 1..Len(s) /\ Len(s) \in Nat OBVIOUS
<1>2. a \in Seq(X) /\ Len(a) = k - 1 /\ \A m \in 1..(k - 1) : a[m] = s[m] BY <1>1
<1>3. b \in Seq(X) /\ Len(b) = Len(s) - k /\ \A m \in 1..(Len(s) - k) : b[m] = s[k + m] BY <1>1
<1>4. RemoveAt(s, k) = a \o b BY DEF RemoveAt
<1> HIDE DEF a, b
<1>5. /\ a \o b \in Seq(X) /\ Len(a \o b) = Len(s) - 1
      /\ \A m \in 1..(Len(s) - 1) : (a \o b)[m] = IF m < k THEN a[m] ELSE b[m - (k - 1)]
  <2>1. /\ a \o b \in Seq(X) /\ Len(a \o b) = Len(a) + Len(b)
        /\ \A m \in 1..(Len(a) + Len(b)) : (a \o b)[m] = IF m <= Len(a) THEN a[m] ELSE b[m - Len(a)]
    BY <1>2, <1>3, ConcatProperties
  <2>2. Len(a) + Len(b) = Len(s) - 1 /\ Len(a) = k - 1 BY <1>1, <1>2, <1>3
  <2>3. \A m \in 1..(Len(s) - 1) : m <= k - 1 <=> m < k BY <1>1
  <2> QED BY <2>1, <2>2, <2>3
<1>6. ASSUME NEW m \in 1..(Len(s) - 1) PROVE (a \o b)[m] = IF m < k THEN s[m] ELSE s[m + 1]
  <2>1. CASE m < k BY <1>1, <1>2, <1>5, <2>1
  <2>2. CASE ~(m < k)
    <3>1. m - (k - 1) \in 1..(Len(s) - k) /\ k + (m - (k - 1)) = m + 1 BY <1>1, <2>2
    <3> QED BY <1>3, <1>5, <2>2, <3>1
  <2> QED BY <2>1, <2>2
<1> QED BY <1>4, <1>5, <1>6

\* The dict: one entry to a key, the new one for the old.
LEMMA RememberIs ==
    ASSUME NEW X, NEW s \in Seq(X), OncePerKey(s), NEW e \in X
    PROVE  /\ Remember(s, e) \in Seq(X) /\ OncePerKey(Remember(s, e))
           /\ ToSet(Remember(s, e)) = {x \in ToSet(s) : x.key # e.key} \cup {e}
<1> DEFINE p == Pop(s, e.key)
<1>1. /\ p \in Seq(X) /\ OncePerKey(p)
      /\ ToSet(p) = {x \in ToSet(s) : x.key # e.key}
  <2>1. CASE e.key \in KeysOf(s)
    <3>1. \E k \in DOMAIN s : s[k].key = e.key BY <2>1 DEF KeysOf, ToSet
    <3> DEFINE k == CHOOSE k \in DOMAIN s : s[k].key = e.key
    <3>2. k \in DOMAIN s /\ s[k].key = e.key BY <3>1
    <3>3. p = RemoveAt(s, k) BY <2>1 DEF Pop
    <3> HIDE DEF k, p
    <3>4. /\ p \in Seq(X) /\ Len(p) = Len(s) - 1
          /\ \A m \in 1..(Len(s) - 1) : p[m] = IF m < k THEN s[m] ELSE s[m + 1]
      BY <3>2, <3>3, RemovedIs
    <3>5. \A m, l \in DOMAIN s : s[m].key = s[l].key => m = l BY DEF OncePerKey
    <3>6. OncePerKey(p)
      <4> SUFFICES ASSUME NEW m \in DOMAIN p, NEW l \in DOMAIN p, p[m].key = p[l].key PROVE m = l
        BY DEF OncePerKey
      <4>1. m \in 1..(Len(s) - 1) /\ l \in 1..(Len(s) - 1) BY <3>4
      <4> DEFINE mm == IF m < k THEN m ELSE m + 1
                 ll == IF l < k THEN l ELSE l + 1
      <4>2. mm \in DOMAIN s /\ ll \in DOMAIN s /\ p[m] = s[mm] /\ p[l] = s[ll] BY <3>4, <4>1
      <4>3. mm = ll
        <5> HIDE DEF mm, ll
        <5> QED BY <3>5, <4>2
      <4> QED BY <3>2, <4>1, <4>3
    <3>7. ASSUME NEW x \in ToSet(p) PROVE x \in ToSet(s) /\ x.key # e.key
      <4>1. PICK m \in 1..(Len(s) - 1) : x = p[m] BY <3>4, InSet
      <4> DEFINE mm == IF m < k THEN m ELSE m + 1
      <4>2. mm \in DOMAIN s /\ x = s[mm] /\ mm # k BY <3>2, <3>4, <4>1
      <4> HIDE DEF mm
      <4> QED BY <3>2, <3>5, <4>2 DEF ToSet
    <3>8. ASSUME NEW x \in ToSet(s), x.key # e.key PROVE x \in ToSet(p)
      <4>1. PICK m \in DOMAIN s : x = s[m] BY DEF ToSet
      <4>2. m # k BY <3>2, <3>8, <4>1
      <4> DEFINE l == IF m < k THEN m ELSE m - 1
      <4>3. l \in 1..(Len(s) - 1) /\ p[l] = s[m] BY <3>2, <3>4, <4>2
      <4>4. l \in DOMAIN p BY <3>4, <4>3
      <4> HIDE DEF l
      <4> QED BY <4>1, <4>3, <4>4 DEF ToSet
    <3> QED BY <3>4, <3>6, <3>7, <3>8
  <2>2. CASE e.key \notin KeysOf(s)
    <3>1. p = s BY <2>2 DEF Pop
    <3>2. \A x \in ToSet(s) : x.key # e.key BY <2>2 DEF KeysOf
    <3> QED BY <3>1, <3>2
  <2> QED BY <2>1, <2>2
<1>2. Remember(s, e) = Append(p, e) BY DEF Remember
<1> HIDE DEF p
<1> DEFINE q == Append(p, e)
<1>3. q \in Seq(X) /\ Len(q) = Len(p) + 1 /\ q[Len(p) + 1] = e /\ \A m \in 1..Len(p) : q[m] = p[m]
  BY <1>1, AppendProperties
<1> HIDE DEF q
<1>4. \A m \in 1..Len(p) : p[m].key # e.key BY <1>1, InSet
<1>5. OncePerKey(q)
  <2> SUFFICES ASSUME NEW m \in DOMAIN q, NEW l \in DOMAIN q, q[m].key = q[l].key PROVE m = l
    BY DEF OncePerKey
  <2>1. m \in 1..(Len(p) + 1) /\ l \in 1..(Len(p) + 1) /\ Len(p) \in Nat BY <1>1, <1>3
  <2>2. CASE m \in 1..Len(p) /\ l \in 1..Len(p)
    <3>1. p[m].key = p[l].key BY <1>3, <2>2
    <3> QED BY <1>1, <2>2, <3>1 DEF OncePerKey
  <2>3. CASE m = Len(p) + 1 /\ l \in 1..Len(p) BY <1>3, <1>4, <2>3
  <2>4. CASE l = Len(p) + 1 /\ m \in 1..Len(p) BY <1>3, <1>4, <2>4
  <2> QED BY <2>1, <2>2, <2>3, <2>4
<1>6. ToSet(q) = ToSet(p) \cup {e}
  <2>1. ToSet(q) = {q[m] : m \in 1..(Len(p) + 1)} BY <1>3, InSet
  <2>2. ToSet(p) = {p[m] : m \in 1..Len(p)} BY <1>1, InSet
  <2>3. Len(p) \in Nat BY <1>1
  <2> QED BY <1>3, <2>1, <2>2, <2>3
<1> QED BY <1>1, <1>2, <1>3, <1>5, <1>6 DEF q

LEMMA LastIn ==
    ASSUME NEW X, NEW s \in Seq(X), NEW x \in ToSet(s)
    PROVE  x.key \in KeysOf(s) /\ \E m \in 1..Len(s) : s[m] = x
BY InSet DEF KeysOf

\* A sequence of entries, one by one.
Memories(a, s, q, X) ==
    /\ a \in [0..Len(q) -> {t \in Seq(X) : OncePerKey(t)}] /\ a[0] = s
    /\ \A k \in 1..Len(q) : a[k] = Remember(a[k - 1], q[k])

LEMMA RememberAllIs ==
    ASSUME NEW X, NEW s \in Seq(X), OncePerKey(s), NEW q \in Seq(X)
    PROVE  \E a : Memories(a, s, q, X) /\ RememberAll(s, q) = a[Len(q)]
<1> DEFINE n == Len(q)
           D == {t \in Seq(X) : OncePerKey(t)}
           after == CHOOSE after : after = [k \in 0..n |-> IF k = 0 THEN s ELSE Remember(after[k - 1], q[k])]
<1>1. n \in Nat /\ s \in D OBVIOUS
<1>2. ASSUME NEW t \in D, NEW k \in 1..n PROVE Remember(t, q[k]) \in D
  <2>1. t \in Seq(X) /\ OncePerKey(t) /\ q[k] \in X OBVIOUS
  <2> QED BY <2>1, RememberIs
<1>3. \E h : h = [k \in 0..n |-> IF k = 0 THEN s ELSE Remember(h[k - 1], q[k])]
  <2> DEFINE g == [p \in D \X (1..n) |-> Remember(p[1], q[p[2]])]
  <2>1. g \in [D \X (1..n) -> D]
    <3> HIDE DEF D, n
    <3> QED BY <1>2
  <2>2. \A t \in D, k \in 1..n : g[<<t, k>>] = Remember(t, q[k])
    <3> HIDE DEF D, n
    <3> QED OBVIOUS
  <2> HIDE DEF g, D, n
  <2>3. PICK h : Steps(h, D, s, g, n) BY <1>1, <2>1, StepsExist
  <2>6. h \in [0..n -> D] /\ h[0] = s /\ \A k \in 1..n : h[k] = g[<<h[k - 1], k>>] BY <2>3 DEF Steps
  <2>4. ASSUME NEW k \in 0..n PROVE h[k] = IF k = 0 THEN s ELSE Remember(h[k - 1], q[k])
    <3>1. CASE k = 0 BY <2>6, <3>1
    <3>2. CASE k # 0
      <4>1. k \in 1..n /\ k - 1 \in 0..n BY <1>1, <3>2
      <4>2. h[k - 1] \in D BY <2>6, <4>1
      <4> QED BY <2>2, <2>6, <3>2, <4>1, <4>2
    <3> QED BY <3>1, <3>2
  <2>5. h = [k \in 0..n |-> IF k = 0 THEN s ELSE Remember(h[k - 1], q[k])] BY <2>4, <2>6
  <2> QED BY <2>5
<1>4. after = [k \in 0..n |-> IF k = 0 THEN s ELSE Remember(after[k - 1], q[k])]
  <2> HIDE DEF n
  <2> QED BY <1>3
<1>5. RememberAll(s, q) = after[n] BY DEF RememberAll
<1> HIDE DEF after, n
<1>6. after[0] = s /\ \A k \in 1..n : after[k] = Remember(after[k - 1], q[k])
  <2>1. 0 \in 0..n /\ \A k \in 1..n : k \in 0..n /\ k # 0 BY <1>1
  <2> QED BY <1>4, <2>1
<1>7. ASSUME NEW k \in 0..n PROVE after[k] \in D
  <2> DEFINE T == {i \in 0..n : after[i] \in D}
  <2> HIDE DEF D
  <2>1. 0 \in T BY <1>1, <1>6
  <2>2. ASSUME NEW i \in 1..n, i - 1 \in T PROVE i \in T
    <3>1. i \in 0..n /\ after[i - 1] \in D BY <1>1, <2>2
    <3> QED BY <1>2, <1>6, <3>1
  <2>3. k \in T
    <3>1. k \in Nat /\ \A i \in 1..k : i \in 1..n BY <1>1
    <3> HIDE DEF T
    <3> QED BY <2>1, <2>2, <3>1, Stepwise
  <2> QED BY <2>3
<1>8. after \in [0..n -> D] BY <1>4, <1>7
<1> QED BY <1>5, <1>6, <1>8 DEF Memories, n

\* What is remembered of a sequence of entries is the last of each key; of another key,
\* what was remembered before.
LEMMA RememberedAre ==
    ASSUME NEW X, NEW s \in Seq(X), OncePerKey(s), NEW q \in Seq(X), NEW r, r = RememberAll(s, q)
    PROVE  /\ r \in Seq(X) /\ OncePerKey(r)
           /\ \A x \in ToSet(r) : LastOf(x, q) \/ (x \in ToSet(s) /\ x.key \notin KeysOf(q))
<1> DEFINE n == Len(q)
           D == {t \in Seq(X) : OncePerKey(t)}
<1>1. n \in Nat /\ s \in D OBVIOUS
<1>2. ASSUME NEW t \in D, NEW k \in 1..n PROVE Remember(t, q[k]) \in D
  <2>1. t \in Seq(X) /\ OncePerKey(t) /\ q[k] \in X OBVIOUS
  <2> QED BY <2>1, RememberIs
<1>5. PICK after : Memories(after, s, q, X) /\ r = after[n] BY RememberAllIs
<1>6. after[0] = s /\ \A k \in 1..n : after[k] = Remember(after[k - 1], q[k]) BY <1>5 DEF Memories
<1> HIDE DEF n
<1> HIDE DEF D
<1> DEFINE Mine(x, k) == \E m \in 1..k : q[m] = x /\ \A l \in 1..k : q[l].key = x.key => l <= m
           Kept(x, k) == x \in ToSet(s) /\ \A l \in 1..k : q[l].key # x.key
           T == {k \in 0..n : after[k] \in D /\ \A x \in ToSet(after[k]) : Mine(x, k) \/ Kept(x, k)}
<1>7. 0 \in T BY <1>1, <1>6
<1>8. ASSUME NEW k \in 1..n, k - 1 \in T PROVE k \in T
  <2> DEFINE t == after[k - 1]
             e == q[k]
  <2>1. t \in D /\ (\A x \in ToSet(t) : Mine(x, k - 1) \/ Kept(x, k - 1)) /\ k \in 0..n BY <1>1, <1>8
  <2>2. after[k] = Remember(t, e) BY <1>6
  <2>3. t \in Seq(X) /\ OncePerKey(t) /\ e \in X /\ k \in Nat /\ k > 0 BY <1>1, <2>1 DEF D, n
  <2>5. after[k] \in D BY <1>2, <2>1, <2>2
  <2> HIDE DEF t, e
  <2>4. ToSet(after[k]) = {x \in ToSet(t) : x.key # e.key} \cup {e} BY <2>2, <2>3, RememberIs
  <2> USE DEF e
  <2>6. ASSUME NEW x \in ToSet(after[k]) PROVE Mine(x, k) \/ Kept(x, k)
    <3>1. CASE x = e
      <4>1. Mine(x, k) BY <2>3, <3>1
      <4> QED BY <4>1
    <3>2. CASE x \in ToSet(t) /\ x.key # e.key
      <4>1. \A l \in 1..k : l \in 1..(k - 1) \/ l = k BY <2>3
      <4>2. CASE Mine(x, k - 1)
        <5>1. PICK m \in 1..(k - 1) : q[m] = x /\ \A l \in 1..(k - 1) : q[l].key = x.key => l <= m BY <4>2
        <5>2. m \in 1..k BY <2>3
        <5>3. \A l \in 1..k : q[l].key = x.key => l <= m BY <3>2, <4>1, <5>1
        <5> QED BY <5>1, <5>2, <5>3
      <4>3. CASE Kept(x, k - 1) BY <3>2, <4>1, <4>3
      <4> HIDE DEF Mine, Kept
      <4> QED BY <2>1, <3>2, <4>2, <4>3
    <3> QED BY <2>4, <3>1, <3>2
  <2> HIDE DEF Mine, Kept, e
  <2> QED BY <2>1, <2>5, <2>6
<1>9. n \in T
  <2> HIDE DEF T
  <2> QED BY <1>1, <1>7, <1>8, Stepwise
<1>10. r \in D /\ \A x \in ToSet(r) : Mine(x, n) \/ Kept(x, n)
  <2> HIDE DEF Mine, Kept
  <2> QED BY <1>5, <1>9
<1>11. \A x \in ToSet(r) : LastOf(x, q) \/ (x \in ToSet(s) /\ x.key \notin KeysOf(q))
  <2> SUFFICES ASSUME NEW x \in ToSet(r) PROVE LastOf(x, q) \/ (x \in ToSet(s) /\ x.key \notin KeysOf(q))
    OBVIOUS
  <2>1. DOMAIN q = 1..n BY DEF n
  <2>2. CASE Mine(x, n) BY <2>1, <2>2 DEF LastOf
  <2>3. CASE Kept(x, n) BY <2>1, <2>3 DEF KeysOf, ToSet
  <2> HIDE DEF Mine, Kept
  <2> QED BY <1>10, <2>2, <2>3
<1> QED BY <1>10, <1>11 DEF D

-----------------------------------------------------------------------------
(* A poll.                                                                   *)
Minds == {memo \in Memo : OncePerKey(memo.seen) /\ OncePerKey(memo.refreshed)}

LEMMA MindIs ==
    ASSUME NEW m \in Minds
    PROVE  /\ m.live = TRUE /\ m.seen \in Seq(Items) /\ m.refreshed \in Seq(Items)
           /\ m.held \in [Feeds -> Nat] /\ m.batch \in Seq(Entries) /\ m.begun \in BOOLEAN
           /\ OncePerKey(m.seen) /\ OncePerKey(m.refreshed)
BY DEF Minds, Memo

\* The three cases of an item: without an id, unchanged, or news.
SightOfNone(m, e, s) ==
    /\ e.key = NoId
    /\ s.seen = m.seen /\ s.refreshed = m.refreshed /\ s.batch = Append(m.batch, e)
SightOfOld(m, e, s) ==
    /\ e.key # NoId /\ e \in ToSet(m.seen)
    /\ ToSet(s.seen) = ToSet(m.seen) /\ s.batch = m.batch
    /\ ToSet(s.refreshed) \subseteq ToSet(m.refreshed) \cup {e}
SightOfNew(m, e, s) ==
    /\ e.key # NoId /\ e \notin ToSet(m.seen)
    /\ ToSet(s.seen) = {x \in ToSet(m.seen) : x.key # e.key} \cup {e}
    /\ s.refreshed = m.refreshed /\ s.batch = Append(m.batch, e)

LEMMA SightIs ==
    ASSUME NEW m \in Minds, NEW e \in Entries, NEW s, s = Sight(m, e)
    PROVE  /\ s \in Minds /\ s.held = m.held
           /\ SightOfNone(m, e, s) \/ SightOfOld(m, e, s) \/ SightOfNew(m, e, s)
<1>1. /\ m \in Memo /\ m.seen \in Seq(Items) /\ m.refreshed \in Seq(Items)
      /\ m.batch \in Seq(Entries) /\ Append(m.batch, e) \in Seq(Entries)
      /\ OncePerKey(m.seen) /\ OncePerKey(m.refreshed)
  BY MindIs, AppendProperties DEF Minds
<1>2. CASE e.key = NoId
  <2>1. s = [m EXCEPT !.batch = Append(m.batch, e)] BY <1>2 DEF Sight
  <2>2. /\ s \in Memo /\ s.seen = m.seen /\ s.refreshed = m.refreshed
        /\ s.batch = Append(m.batch, e) /\ s.held = m.held
    BY <1>1, <2>1 DEF Memo
  <2> QED BY <1>1, <1>2, <2>2 DEF Minds, SightOfNone
<1>3. CASE e.key # NoId
  <2> DEFINE seen == Remember(m.seen, e)
             refreshed == Remember(m.refreshed, e)
  <2>1. e \in Items BY <1>3 DEF Items
  <2>2. /\ seen \in Seq(Items) /\ OncePerKey(seen)
        /\ ToSet(seen) = {x \in ToSet(m.seen) : x.key # e.key} \cup {e}
    BY <1>1, <2>1, RememberIs
  <2>3. /\ refreshed \in Seq(Items) /\ OncePerKey(refreshed)
        /\ ToSet(refreshed) = {x \in ToSet(m.refreshed) : x.key # e.key} \cup {e}
    BY <1>1, <2>1, RememberIs
  <2>4. CASE e \in ToSet(m.seen)
    <3>1. s = [m EXCEPT !.seen = seen, !.refreshed = refreshed] BY <1>3, <2>4 DEF Sight
    <3>3. ToSet(seen) = ToSet(m.seen)
      <4>1. \A x \in ToSet(m.seen) : x.key = e.key => x = e BY <1>1, <2>4 DEF OncePerKey, ToSet
      <4> QED BY <2>2, <2>4, <4>1
    <3> HIDE DEF seen, refreshed
    <3>2. /\ s \in Memo /\ s.seen = seen /\ s.refreshed = refreshed
          /\ s.batch = m.batch /\ s.held = m.held
      BY <1>1, <2>2, <2>3, <3>1 DEF Memo
    <3> QED BY <1>3, <2>2, <2>3, <2>4, <3>2, <3>3 DEF Minds, SightOfOld
  <2>5. CASE e \notin ToSet(m.seen)
    <3>1. s = [m EXCEPT !.seen = seen, !.batch = Append(m.batch, e)] BY <1>3, <2>5 DEF Sight
    <3> HIDE DEF seen, refreshed
    <3>2. /\ s \in Memo /\ s.seen = seen /\ s.refreshed = m.refreshed
          /\ s.batch = Append(m.batch, e) /\ s.held = m.held
      BY <1>1, <2>2, <3>1 DEF Memo
    <3> QED BY <1>1, <1>3, <2>2, <2>5, <3>2 DEF Minds, SightOfNew
  <2> QED BY <2>4, <2>5
<1> QED BY <1>2, <1>3

LEMMA AppendedSet ==
    ASSUME NEW X, NEW s \in Seq(X), NEW e \in X
    PROVE  /\ ToSet(Append(s, e)) = ToSet(s) \cup {e}
           /\ LastOf(e, Append(s, e))
           /\ \A x : x.key # e.key /\ LastOf(x, s) => LastOf(x, Append(s, e))
           /\ \A x : x.key # e.key /\ x.key \notin KeysOf(s) => x.key \notin KeysOf(Append(s, e))
<1> DEFINE q == Append(s, e)
<1>1. q \in Seq(X) /\ Len(q) = Len(s) + 1 /\ q[Len(s) + 1] = e /\ \A m \in 1..Len(s) : q[m] = s[m]
  BY AppendProperties
<1> HIDE DEF q
<1>2. DOMAIN q = 1..(Len(s) + 1) /\ DOMAIN s = 1..Len(s) /\ Len(s) \in Nat BY <1>1
<1>3. ToSet(q) = ToSet(s) \cup {e} BY <1>1, <1>2 DEF ToSet
<1>4. LastOf(e, q) BY <1>1, <1>2 DEF LastOf
<1>5. ASSUME NEW x, x.key # e.key, LastOf(x, s) PROVE LastOf(x, q)
  <2>1. PICK k \in 1..Len(s) : s[k] = x /\ \A m \in 1..Len(s) : s[m].key = x.key => m <= k
    BY <1>2, <1>5 DEF LastOf
  <2>2. k \in DOMAIN q /\ q[k] = x BY <1>1, <1>2, <2>1
  <2>3. ASSUME NEW m \in DOMAIN q, q[m].key = x.key PROVE m <= k
    <3>1. m # Len(s) + 1 BY <1>1, <1>5, <2>3
    <3>2. m \in 1..Len(s) BY <1>2, <3>1
    <3> QED BY <1>1, <2>1, <2>3, <3>2
  <2> QED BY <2>2, <2>3 DEF LastOf
<1>6. KeysOf(q) = KeysOf(s) \cup {e.key} BY <1>3 DEF KeysOf
<1> QED BY <1>3, <1>4, <1>5, <1>6 DEF q

\* The last row of an item is the live run's, or a finished one's.
LEMMA LatestOfTwo ==
    ASSUME NEW x, IsLatest(x, ClosedTexts \cup {Own})
    PROVE  x.key \in KeysOf(texts[Own].rows) \/ IsLatest(x, ClosedTexts)
<1>1. PICK i \in ClosedTexts \cup {Own} : \E k \in DOMAIN texts[i].rows :
        /\ texts[i].rows[k] = x
        /\ \A j \in ClosedTexts \cup {Own} : \A m \in DOMAIN texts[j].rows :
             texts[j].rows[m].key = x.key => j < i \/ (j = i /\ m <= k)
  BY DEF IsLatest
<1>2. PICK k \in DOMAIN texts[i].rows :
        /\ texts[i].rows[k] = x
        /\ \A j \in ClosedTexts \cup {Own} : \A m \in DOMAIN texts[j].rows :
             texts[j].rows[m].key = x.key => j < i \/ (j = i /\ m <= k)
  BY <1>1
<1>3. CASE i = Own BY <1>2, <1>3 DEF KeysOf, ToSet
<1>4. CASE i \in ClosedTexts
  <2>1. IsLatest(x, ClosedTexts) BY <1>2, <1>4 DEF IsLatest
  <2> QED BY <2>1
<1> QED BY <1>3, <1>4

LEMMA SightKeeps ==
    ASSUME NEW m \in Minds, KnownIn(m), UnchangedIn(m), NEW e \in Entries, NEW s, s = Sight(m, e),
           e.key # NoId /\ e \in ToSet(m.batch) => e \in Doubled
    PROVE  /\ s \in Minds /\ s.held = m.held /\ KnownIn(s) /\ UnchangedIn(s)
           /\ ToSet(s.batch) \subseteq ToSet(m.batch) \cup {e}
<1>1. m.batch \in Seq(Entries) /\ m.seen \in Seq(Items) BY MindIs
<1>2. /\ ToSet(Append(m.batch, e)) = ToSet(m.batch) \cup {e}
      /\ LastOf(e, Append(m.batch, e))
      /\ \A x : x.key # e.key /\ LastOf(x, m.batch) => LastOf(x, Append(m.batch, e))
      /\ \A x : x.key # e.key /\ x.key \notin KeysOf(m.batch) => x.key \notin KeysOf(Append(m.batch, e))
  BY <1>1, AppendedSet
<1>3. s \in Minds /\ s.held = m.held BY SightIs
<1>4. \A x \in ToSet(m.seen) : x.key # NoId BY <1>1, InSet DEF Items
<1>5. CASE SightOfNone(m, e, s)
  <2>1. KnownIn(s) BY <1>2, <1>4, <1>5 DEF KnownIn, SightOfNone
  <2>2. UnchangedIn(s) BY <1>5 DEF UnchangedIn, SightOfNone
  <2> QED BY <1>2, <1>3, <1>5, <2>1, <2>2 DEF SightOfNone
<1>6. CASE SightOfOld(m, e, s)
  <2>1. KnownIn(s) BY <1>6 DEF KnownIn, SightOfOld
  <2>2. e \notin Doubled => e.key \in KeysOf(texts[Own].rows) \/ IsLatest(e, ClosedTexts)
    <3> SUFFICES ASSUME e \notin Doubled
                 PROVE  e.key \in KeysOf(texts[Own].rows) \/ IsLatest(e, ClosedTexts)
      OBVIOUS
    <3>1. ~LastOf(e, m.batch) BY <1>6 DEF LastOf, ToSet, SightOfOld
    <3>2. IsLatest(e, ClosedTexts \cup {Own}) BY <1>6, <3>1 DEF KnownIn, SightOfOld
    <3> QED BY <3>2, LatestOfTwo
  <2>3. UnchangedIn(s) BY <1>6, <2>2 DEF UnchangedIn, SightOfOld
  <2> QED BY <1>3, <1>6, <2>1, <2>3 DEF SightOfOld
<1>7. CASE SightOfNew(m, e, s)
  <2>1. KnownIn(s) BY <1>2, <1>7 DEF KnownIn, SightOfNew
  <2>2. UnchangedIn(s) BY <1>7 DEF UnchangedIn, SightOfNew
  <2> QED BY <1>2, <1>3, <1>7, <2>1, <2>2 DEF SightOfNew
<1>8. SightOfNone(m, e, s) \/ SightOfOld(m, e, s) \/ SightOfNew(m, e, s) BY SightIs
<1> QED BY <1>5, <1>6, <1>7, <1>8

\* A body, item by item.
Sightings(a, m, body) ==
    /\ a \in [0..Len(body) -> Minds] /\ a[0] = m
    /\ \A k \in 1..Len(body) : a[k] = Sight(a[k - 1], body[k])

LEMMA SightAllIs ==
    ASSUME NEW m \in Minds, NEW body \in Seq(Entries)
    PROVE  \E a : Sightings(a, m, body) /\ SightAll(m, body) = a[Len(body)]
<1> DEFINE n == Len(body)
           after == CHOOSE after : after = [k \in 0..n |-> IF k = 0 THEN m ELSE Sight(after[k - 1], body[k])]
           g == [p \in Minds \X (1..n) |-> Sight(p[1], body[p[2]])]
<1>1. n \in Nat OBVIOUS
<1>2. ASSUME NEW t \in Minds, NEW k \in 1..n PROVE Sight(t, body[k]) \in Minds
  <2>1. body[k] \in Entries OBVIOUS
  <2> QED BY <2>1, SightIs
<1>3. g \in [Minds \X (1..n) -> Minds]
  <2> HIDE DEF n
  <2> QED BY <1>2
<1>4. \A t \in Minds, k \in 1..n : g[<<t, k>>] = Sight(t, body[k])
  <2> HIDE DEF n
  <2> QED OBVIOUS
<1>5. PICK h : Steps(h, Minds, m, g, n)
  <2> HIDE DEF g, n
  <2> QED BY <1>1, <1>3, StepsExist
<1> HIDE DEF g
<1>6. h \in [0..n -> Minds] /\ h[0] = m /\ \A k \in 1..n : h[k] = g[<<h[k - 1], k>>]
  BY <1>5 DEF Steps
<1>7. ASSUME NEW k \in 1..n PROVE h[k] = Sight(h[k - 1], body[k])
  <2> HIDE DEF n
  <2>1. k - 1 \in 0..n BY <1>1
  <2>2. h[k - 1] \in Minds BY <1>6, <2>1
  <2> QED BY <1>4, <1>6, <2>2
<1>8. h = [k \in 0..n |-> IF k = 0 THEN m ELSE Sight(h[k - 1], body[k])]
  <2> HIDE DEF n
  <2>1. ASSUME NEW k \in 0..n PROVE h[k] = IF k = 0 THEN m ELSE Sight(h[k - 1], body[k])
    BY <1>1, <1>6, <1>7
  <2> QED BY <1>6, <2>1
<1>9. after = [k \in 0..n |-> IF k = 0 THEN m ELSE Sight(after[k - 1], body[k])]
  <2> HIDE DEF n
  <2> QED BY <1>8
<1>10. SightAll(m, body) = after[n] BY DEF SightAll
<1> HIDE DEF after, n
<1>11. after[0] = m /\ \A k \in 1..n : after[k] = Sight(after[k - 1], body[k])
  <2>1. 0 \in 0..n /\ \A k \in 1..n : k \in 0..n /\ k # 0 BY <1>1
  <2> QED BY <1>9, <2>1
<1>12. ASSUME NEW k \in 0..n PROVE after[k] \in Minds
  <2> DEFINE T == {i \in 0..n : after[i] = h[i]}
  <2>1. 0 \in T BY <1>1, <1>6, <1>11
  <2>2. ASSUME NEW i \in 1..n, i - 1 \in T PROVE i \in T
    <3>1. i \in 0..n /\ after[i - 1] = h[i - 1] BY <1>1, <2>2
    <3> QED BY <1>7, <1>11, <3>1
  <2>3. k \in T
    <3>1. k \in Nat /\ \A i \in 1..k : i \in 1..n BY <1>1
    <3> HIDE DEF T
    <3> QED BY <2>1, <2>2, <3>1, Stepwise
  <2> QED BY <1>6, <2>3
<1>13. after \in [0..n -> Minds] BY <1>9, <1>12
<1> QED BY <1>10, <1>11, <1>13 DEF Sightings, n

LEMMA SightAllKeeps ==
    ASSUME NEW f \in Feeds, NEW body \in Bodies[f] \cup {<<>>}, body \in Seq(Entries),
           NEW m \in Minds, KnownIn(m), UnchangedIn(m),
           \A b \in ToSet(m.batch) : b.key # NoId => b \notin EntriesOf(f),
           NEW s, s = SightAll(m, body)
    PROVE  /\ s \in Minds /\ s.held = m.held /\ KnownIn(s) /\ UnchangedIn(s)
           /\ ToSet(s.batch) \subseteq ToSet(m.batch) \cup EntriesOf(f)
<1> DEFINE n == Len(body)
<1>1. n \in Nat OBVIOUS
<1>2. PICK a : Sightings(a, m, body) /\ s = a[n] BY SightAllIs
<1>3. /\ a \in [0..n -> Minds] /\ a[0] = m
      /\ \A k \in 1..n : a[k] = Sight(a[k - 1], body[k])
  BY <1>2 DEF Sightings
<1>4. n # 0 => body \in Bodies[f] OBVIOUS
<1>5. \A k \in 1..n : body[k] \in Entries OBVIOUS
<1>6. \A k \in 1..n : body[k] \in EntriesOf(f)
  <2>1. \A k \in 1..n : body[k] \in ToSet(body) BY DEF ToSet
  <2> QED BY <1>1, <1>4, <2>1 DEF EntriesOf
<1>7. ASSUME NEW k \in 1..n, NEW j \in 1..n, j # k, body[j] = body[k] PROVE body[k] \in Doubled
  <2>1. body \in Bodies[f] /\ body[k] \in Entries /\ DOMAIN body = 1..n BY <1>4, <1>5, <1>7
  <2> QED BY <1>7, <2>1 DEF Doubled
<1> DEFINE Comes(x, k) == x \in ToSet(m.batch) \/ \E j \in 1..k : x = body[j]
           Kept(t) == t.held = m.held /\ KnownIn(t) /\ UnchangedIn(t)
           T == {k \in 0..n : Kept(a[k]) /\ \A x \in ToSet(a[k].batch) : Comes(x, k)}
<1> HIDE DEF n
<1>8. 0 \in T BY <1>1, <1>3
<1>9. ASSUME NEW k \in 1..n, k - 1 \in T PROVE k \in T
  <2> DEFINE t == a[k - 1]
             e == body[k]
             u == a[k]
  <2>1. k \in 0..n /\ k - 1 \in 0..n /\ k \in Nat BY <1>1
  <2>2. t \in Minds /\ Kept(t) /\ \A x \in ToSet(t.batch) : Comes(x, k - 1) BY <1>3, <1>9, <2>1
  <2>3. u = Sight(t, e) /\ e \in Entries /\ e \in EntriesOf(f) BY <1>3, <1>5, <1>6
  <2> HIDE DEF t, u
  <2>4. ASSUME e.key # NoId, e \in ToSet(t.batch) PROVE e \in Doubled
    <3>1. e \notin ToSet(m.batch) BY <2>3, <2>4
    <3>2. PICK j \in 1..(k - 1) : e = body[j] BY <2>2, <2>4, <3>1
    <3>3. j \in 1..n /\ j # k BY <1>1, <2>1
    <3> QED BY <1>7, <3>2, <3>3
  <2> HIDE DEF e
  <2>5. /\ u \in Minds /\ u.held = t.held /\ KnownIn(u) /\ UnchangedIn(u)
        /\ ToSet(u.batch) \subseteq ToSet(t.batch) \cup {e}
    BY <2>2, <2>3, <2>4, SightKeeps
  <2>6. ASSUME NEW x \in ToSet(u.batch) PROVE Comes(x, k)
    <3>1. CASE x = e BY <2>1, <3>1 DEF e
    <3>2. CASE Comes(x, k - 1)
      <4>1. \A j \in 1..(k - 1) : j \in 1..k BY <2>1
      <4> QED BY <3>2, <4>1
    <3> QED BY <2>2, <2>5, <3>1, <3>2
  <2>7. Kept(u) BY <2>2, <2>5
  <2> HIDE DEF Kept, Comes
  <2> QED BY <2>1, <2>6, <2>7 DEF u
<1>10. n \in T
  <2> HIDE DEF T
  <2> QED BY <1>1, <1>8, <1>9, Stepwise
<1>11. s \in Minds /\ Kept(s) /\ \A x \in ToSet(s.batch) : Comes(x, n)
  <2>1. n \in 0..n BY <1>1
  <2> HIDE DEF Kept, Comes
  <2> QED BY <1>2, <1>3, <1>10, <2>1
<1> QED BY <1>6, <1>11

\* The feeds, one after the other.
FeedStep(m, f, asked) == IF f \in asked THEN SightAll(m, served[f].body) ELSE m
FeedSightings(a, asked) ==
    /\ a \in [0..Len(Bodies) -> Minds] /\ a[0] = reader
    /\ \A f \in 1..Len(Bodies) : a[f] = FeedStep(a[f - 1], f, asked)

LEMMA FeedsAre ==
    /\ Len(Bodies) \in Nat /\ Feeds = 1..Len(Bodies)
    /\ \A f \in Feeds : Bodies[f] \subseteq Seq(Entries)
    /\ \A f, g \in Feeds : f # g =>
         \A e : e \in EntriesOf(f) /\ e \in EntriesOf(g) => e.key = NoId
<1>1. Bodies \in Seq(SUBSET Seq(Entries)) BY TextFeedAssumption
<1>2. Len(Bodies) \in Nat /\ Feeds = 1..Len(Bodies) BY <1>1 DEF Feeds
<1>3. \A f \in Feeds : Bodies[f] \in SUBSET Seq(Entries) BY <1>1, <1>2
<1>4. ASSUME NEW f \in Feeds, NEW g \in Feeds, f # g, NEW e, e \in EntriesOf(f), e \in EntriesOf(g)
      PROVE  e.key = NoId
  BY <1>4, TextFeedAssumption
<1> QED BY <1>2, <1>3, <1>4

LEMMA BodiesTyped ==
    ASSUME TextState, NEW f \in Feeds
    PROVE  /\ served[f] \in Listing /\ served[f].body \in Bodies[f] \cup {<<>>}
           /\ served[f].body \in Seq(Entries) /\ served[f].rev \in Nat
BY DEF TextState, Listing

LEMMA ReaderTyped == ASSUME TextState, Reading PROVE reader \in Minds /\ Own # 0
BY DEF TextState, Reading, Minds

LEMMA SightFeedsAre ==
    ASSUME TextState, Reading, NEW asked \in SUBSET Feeds
    PROVE  \E a : FeedSightings(a, asked) /\ SightFeeds(asked) = a[Len(Bodies)]
<1> DEFINE n == Len(Bodies)
           Asks(m, f) == IF f \in asked THEN SightAll(m, served[f].body) ELSE m
           after == CHOOSE after : after = [f \in 0..n |-> IF f = 0 THEN reader
                        ELSE IF f \in asked THEN SightAll(after[f - 1], served[f].body) ELSE after[f - 1]]
           g == [p \in Minds \X (1..n) |-> Asks(p[1], p[2])]
<1>1. n \in Nat /\ Feeds = 1..n /\ reader \in Minds BY FeedsAre, ReaderTyped
<1>2. ASSUME NEW t \in Minds, NEW f \in 1..n PROVE Asks(t, f) \in Minds
  <2>1. CASE f \in asked
    <3>1. served[f].body \in Seq(Entries) BY <1>1, BodiesTyped
    <3>2. PICK a : Sightings(a, t, served[f].body) /\ SightAll(t, served[f].body) = a[Len(served[f].body)]
      BY <3>1, SightAllIs
    <3>3. Len(served[f].body) \in 0..Len(served[f].body) BY <3>1
    <3>4. SightAll(t, served[f].body) \in Minds BY <3>2, <3>3 DEF Sightings
    <3> QED BY <2>1, <3>4
  <2>2. CASE f \notin asked BY <2>2
  <2> QED BY <2>1, <2>2
<1> HIDE DEF Asks
<1>3. g \in [Minds \X (1..n) -> Minds]
  <2> HIDE DEF n
  <2> QED BY <1>2
<1>4. \A t \in Minds, f \in 1..n : g[<<t, f>>] = Asks(t, f)
  <2> HIDE DEF n
  <2> QED OBVIOUS
<1>5. PICK h : Steps(h, Minds, reader, g, n)
  <2> HIDE DEF g, n
  <2> QED BY <1>1, <1>3, StepsExist
<1> HIDE DEF g
<1>6. h \in [0..n -> Minds] /\ h[0] = reader /\ \A f \in 1..n : h[f] = g[<<h[f - 1], f>>]
  BY <1>5 DEF Steps
<1>7. ASSUME NEW f \in 1..n PROVE h[f] = Asks(h[f - 1], f)
  <2> HIDE DEF n
  <2>1. f - 1 \in 0..n BY <1>1
  <2>2. h[f - 1] \in Minds BY <1>6, <2>1
  <2> QED BY <1>4, <1>6, <2>2
<1>8. h = [f \in 0..n |-> IF f = 0 THEN reader
              ELSE IF f \in asked THEN SightAll(h[f - 1], served[f].body) ELSE h[f - 1]]
  <2> HIDE DEF n
  <2>1. ASSUME NEW f \in 0..n
        PROVE  h[f] = IF f = 0 THEN reader
                      ELSE IF f \in asked THEN SightAll(h[f - 1], served[f].body) ELSE h[f - 1]
    <3>1. f = 0 \/ f \in 1..n BY <1>1
    <3> QED BY <1>6, <1>7, <3>1 DEF Asks
  <2> QED BY <1>6, <2>1
<1>9. after = [f \in 0..n |-> IF f = 0 THEN reader
                ELSE IF f \in asked THEN SightAll(after[f - 1], served[f].body) ELSE after[f - 1]]
  <2> HIDE DEF n
  <2> QED BY <1>8
<1>10. SightFeeds(asked) = after[n] BY DEF SightFeeds
<1> HIDE DEF after, n
<1>11. after[0] = reader /\ \A f \in 1..n : after[f] = Asks(after[f - 1], f)
  <2>1. 0 \in 0..n /\ \A f \in 1..n : f \in 0..n /\ f # 0 BY <1>1
  <2> QED BY <1>9, <2>1 DEF Asks
<1>12. ASSUME NEW k \in 0..n PROVE after[k] \in Minds
  <2> DEFINE T == {i \in 0..n : after[i] = h[i]}
  <2>1. 0 \in T BY <1>1, <1>6, <1>11
  <2>2. ASSUME NEW i \in 1..n, i - 1 \in T PROVE i \in T
    <3>1. i \in 0..n /\ after[i - 1] = h[i - 1] BY <1>1, <2>2
    <3> QED BY <1>7, <1>11, <3>1
  <2>3. k \in T
    <3>1. k \in Nat /\ \A i \in 1..k : i \in 1..n BY <1>1
    <3> HIDE DEF T
    <3> QED BY <2>1, <2>2, <3>1, Stepwise
  <2> QED BY <1>6, <2>3
<1>13. after \in [0..n -> Minds] BY <1>9, <1>12
<1> QED BY <1>10, <1>11, <1>13 DEF FeedSightings, FeedStep, Asks, n

\* What a poll makes of the memory of a segment whose batch is written.
LEMMA SightFeedsKeeps ==
    ASSUME TextState, Reading, reader.batch = <<>>, KnownIn(reader), UnchangedIn(reader),
           NEW asked \in SUBSET Feeds, NEW s, s = SightFeeds(asked)
    PROVE  s \in Minds /\ s.held = reader.held /\ KnownIn(s) /\ UnchangedIn(s)
<1> DEFINE n == Len(Bodies)
<1>1. n \in Nat /\ Feeds = 1..n /\ reader \in Minds BY FeedsAre, ReaderTyped
<1>2. PICK a : FeedSightings(a, asked) /\ s = a[n] BY SightFeedsAre
<1>3. /\ a \in [0..n -> Minds] /\ a[0] = reader
      /\ \A f \in 1..n : a[f] = FeedStep(a[f - 1], f, asked)
  BY <1>2 DEF FeedSightings
<1> DEFINE Comes(x, k) == \E g \in 1..k : x \in EntriesOf(g)
           Kept(t) == t.held = reader.held /\ KnownIn(t) /\ UnchangedIn(t)
           T == {k \in 0..n : Kept(a[k]) /\ \A x \in ToSet(a[k].batch) : Comes(x, k)}
<1> HIDE DEF n
<1>4. 0 \in T
  <2>1. ToSet(a[0].batch) = {} BY <1>3 DEF ToSet
  <2> QED BY <1>1, <1>3, <2>1
<1>5. ASSUME NEW k \in 1..n, k - 1 \in T PROVE k \in T
  <2> DEFINE t == a[k - 1]
             u == a[k]
  <2>1. k \in 0..n /\ k - 1 \in 0..n /\ k \in Nat /\ k \in Feeds BY <1>1
  <2>2. t \in Minds /\ Kept(t) /\ \A x \in ToSet(t.batch) : Comes(x, k - 1) BY <1>3, <1>5, <2>1
  <2>3. u = FeedStep(t, k, asked) BY <1>3
  <2> HIDE DEF t, u
  <2>4. ASSUME NEW x \in ToSet(t.batch), x.key # NoId PROVE x \notin EntriesOf(k)
    <3>1. PICK g \in 1..(k - 1) : x \in EntriesOf(g) BY <2>2
    <3>2. g \in Feeds /\ g # k BY <1>1, <2>1
    <3> QED BY <2>1, <2>4, <3>1, <3>2, FeedsAre
  <2>5. u \in Minds /\ Kept(u) /\ ToSet(u.batch) \subseteq ToSet(t.batch) \cup EntriesOf(k)
    <3>1. CASE k \in asked
      <4>1. u = SightAll(t, served[k].body) BY <2>3, <3>1 DEF FeedStep
      <4>2. served[k].body \in Bodies[k] \cup {<<>>} /\ served[k].body \in Seq(Entries) BY <2>1, BodiesTyped
      <4>3. /\ u \in Minds /\ u.held = t.held /\ KnownIn(u) /\ UnchangedIn(u)
            /\ ToSet(u.batch) \subseteq ToSet(t.batch) \cup EntriesOf(k)
        BY <2>1, <2>2, <2>4, <4>1, <4>2, SightAllKeeps
      <4> QED BY <2>2, <4>3
    <3>2. CASE k \notin asked
      <4>1. u = t BY <2>3, <3>2 DEF FeedStep
      <4> QED BY <2>2, <4>1
    <3> QED BY <3>1, <3>2
  <2>6. ASSUME NEW x \in ToSet(u.batch) PROVE Comes(x, k)
    <3>1. CASE x \in EntriesOf(k)
      <4>1. k \in 1..k BY <2>1
      <4> QED BY <3>1, <4>1
    <3>2. CASE Comes(x, k - 1)
      <4>1. \A g \in 1..(k - 1) : g \in 1..k BY <2>1
      <4> QED BY <3>2, <4>1
    <3> QED BY <2>2, <2>5, <3>1, <3>2
  <2> HIDE DEF Kept, Comes
  <2> QED BY <2>1, <2>5, <2>6 DEF u
<1>6. n \in T
  <2> HIDE DEF T
  <2> QED BY <1>1, <1>4, <1>5, Stepwise
<1>7. s \in Minds /\ Kept(s)
  <2>1. n \in 0..n BY <1>1
  <2> HIDE DEF Kept, Comes
  <2> QED BY <1>2, <1>3, <1>6, <2>1
<1> QED BY <1>7

-----------------------------------------------------------------------------
(* The types of the state.                                                   *)

LEMMA OwnRun ==
    ASSUME TextState, Reading
    PROVE  /\ Own \in DOMAIN texts /\ texts[Own] \in TextRun /\ texts[Own].state = "open"
           /\ texts[Own].rows \in Seq(Items) /\ DOMAIN texts = 1..Own /\ Own \in Nat \ {0}
           /\ reader \in Minds
<1>1. texts \in Seq(TextRun) /\ Own # 0 /\ reader \in Minds BY ReaderTyped DEF TextState
<1>2. Own \in Nat /\ DOMAIN texts = 1..Own BY <1>1 DEF Own
<1>3. Own \in DOMAIN texts /\ texts[Own] \in TextRun BY <1>1, <1>2
<1>4. texts[Own].state = "open" BY <1>3 DEF TextState
<1> QED BY <1>1, <1>2, <1>3, <1>4 DEF TextRun

\* A memory is not the sign that there is none.
LEMMA MemoIsLive == \A m \in Memo : m # NoReader
BY DEF Memo, NoReader

LEMMA OpenIs ==
    ASSUME TextState, OpenSegment
    PROVE  /\ texts' \in Seq(TextRun) /\ Len(texts') = Len(texts) + 1 /\ Len(texts) \in Nat
           /\ DOMAIN texts = 1..Len(texts) /\ DOMAIN texts' = 1..(Len(texts) + 1)
           /\ texts'[Len(texts) + 1].state = "open" /\ texts'[Len(texts) + 1].rows = <<>>
           /\ \A i \in 1..Len(texts) : texts'[i] = texts[i]
<1> DEFINE new == [rows |-> <<>>, state |-> "open", sighted |-> {}]
<1>1. texts \in Seq(TextRun) /\ texts' = Append(texts, new) BY DEF TextState, OpenSegment
<1>2. new \in TextRun
  <2>1. <<>> \in Seq(Items) OBVIOUS
  <2> QED BY <2>1 DEF TextRun
<1>3. new.state = "open" /\ new.rows = <<>> OBVIOUS
<1> HIDE DEF new
<1> QED BY <1>1, <1>2, <1>3, AppendProperties

\* A step of the live segment that changes its run.
RunBecomes(row, state, t, u, o) ==
    /\ u \in Seq(TextRun) /\ DOMAIN u = DOMAIN t /\ Len(u) = Len(t)
    /\ u[o].rows = row /\ u[o].state = state
    /\ \A i \in DOMAIN t : i # o => u[i] = t[i]

LEMMA WriteItemIs ==
    ASSUME TextState, WriteItem, NEW e, e = Head(reader.batch)
    PROVE  /\ Reading /\ reader.batch # <<>> /\ e \in Entries
           /\ \/ e.key = NoId /\ texts' = texts
              \/ /\ e.key # NoId /\ e \in Items
                 /\ RunBecomes(Append(texts[Own].rows, e), "open", texts, texts', Own)
                 /\ texts'[Own].sighted = texts[Own].sighted
           /\ reader' = [reader EXCEPT !.batch = Tail(@), !.begun = TRUE]
           /\ UNCHANGED <<served, seenFile>>
<1>1. Reading /\ reader.batch # <<>> /\ reader' = [reader EXCEPT !.batch = Tail(@), !.begun = TRUE]
      /\ UNCHANGED <<served, seenFile>>
  BY DEF WriteItem
<1>2. Own \in DOMAIN texts /\ texts[Own] \in TextRun /\ texts[Own].rows \in Seq(Items)
      /\ texts[Own].state = "open" /\ reader \in Minds /\ texts \in Seq(TextRun)
  BY <1>1, OwnRun DEF TextState
<1>3. e \in Entries BY <1>1, <1>2, MindIs, HeadTailProperties
<1>4. CASE e.key # NoId
  <2> DEFINE r == [texts[Own] EXCEPT !.rows = Append(texts[Own].rows, e)]
  <2>1. e \in Items BY <1>3, <1>4 DEF Items
  <2>2. texts' = [texts EXCEPT ![Own] = r] BY <1>1, <1>4 DEF WriteItem
  <2>3. /\ r \in TextRun /\ r.rows = Append(texts[Own].rows, e) /\ r.state = "open"
        /\ r.sighted = texts[Own].sighted
    <3>1. Append(texts[Own].rows, e) \in Seq(Items) BY <1>2, <2>1, AppendProperties
    <3> QED BY <1>2, <3>1 DEF TextRun
  <2> HIDE DEF r
  <2>4. texts' \in Seq(TextRun) /\ DOMAIN texts' = DOMAIN texts /\ Len(texts') = Len(texts)
        /\ texts'[Own] = r /\ \A i \in DOMAIN texts : i # Own => texts'[i] = texts[i]
    BY <1>2, <2>2, <2>3, ExceptSeq
  <2> QED BY <1>1, <1>3, <1>4, <2>1, <2>3, <2>4 DEF RunBecomes
<1>5. CASE e.key = NoId BY <1>1, <1>3, <1>5 DEF WriteItem
<1> QED BY <1>4, <1>5

LEMMA SightedTyped ==
    ASSUME TextState, Reading PROVE KeysOf(reader.refreshed) \cup KeysOf(texts[Own].rows) \subseteq {e.key : e \in Entries}
<1>1. reader.refreshed \in Seq(Items) /\ texts[Own].rows \in Seq(Items) BY OwnRun, MindIs
<1>2. ToSet(reader.refreshed) \subseteq Entries /\ ToSet(texts[Own].rows) \subseteq Entries
  BY <1>1, InSet DEF Items
<1> QED BY <1>2 DEF KeysOf

LEMMA CloseIs ==
    ASSUME TextState, CloseSegment
    PROVE  /\ Reading /\ RunBecomes(texts[Own].rows, "closed", texts, texts', Own)
           /\ texts'[Own].sighted = KeysOf(reader.refreshed) \cup KeysOf(texts[Own].rows)
           /\ seenFile' = MostRecent(DurableSnapshot(texts[Own].rows))
           /\ reader' = NoReader /\ served' = served
<1>1. Reading /\ seenFile' = MostRecent(DurableSnapshot(texts[Own].rows))
      /\ reader' = NoReader /\ served' = served
  BY DEF CloseSegment
<1>2. Own \in DOMAIN texts /\ texts[Own] \in TextRun /\ texts[Own].rows \in Seq(Items)
      /\ texts \in Seq(TextRun)
  BY <1>1, OwnRun DEF TextState
<1> DEFINE sighted == KeysOf(reader.refreshed) \cup KeysOf(texts[Own].rows)
           r == [texts[Own] EXCEPT !.state = "closed", !.sighted = sighted]
<1>3. texts' = [texts EXCEPT ![Own] = r] BY <1>1, <1>2 DEF CloseSegment
<1>4. r \in TextRun /\ r.rows = texts[Own].rows /\ r.state = "closed" /\ r.sighted = sighted
  <2>1. sighted \subseteq {e.key : e \in Entries} BY <1>1, SightedTyped
  <2> HIDE DEF sighted
  <2> QED BY <1>2, <2>1 DEF TextRun
<1> HIDE DEF r
<1>5. texts' \in Seq(TextRun) /\ DOMAIN texts' = DOMAIN texts /\ Len(texts') = Len(texts)
      /\ texts'[Own] = r /\ \A i \in DOMAIN texts : i # Own => texts'[i] = texts[i]
  BY <1>2, <1>3, <1>4, ExceptSeq
<1>6. texts'[Own].sighted = sighted BY <1>4, <1>5
<1> QED BY <1>1, <1>4, <1>5, <1>6 DEF RunBecomes

LEMMA KillIs ==
    ASSUME TextState, KillSegment
    PROVE  /\ Reading /\ texts'[Own].sighted = texts[Own].sighted
           /\ \E n \in 0..Len(texts[Own].rows) :
                RunBecomes(SubSeq(texts[Own].rows, 1, n), "killed", texts, texts', Own)
           /\ reader' = NoReader /\ UNCHANGED <<served, seenFile>>
<1>1. Reading /\ reader' = NoReader /\ UNCHANGED <<served, seenFile>> BY DEF KillSegment
<1>2. Own \in DOMAIN texts /\ texts[Own] \in TextRun /\ texts[Own].rows \in Seq(Items)
      /\ texts \in Seq(TextRun)
  BY <1>1, OwnRun DEF TextState
<1>3. PICK lost \in {0, 1} : /\ lost <= Len(texts[Own].rows)
                             /\ texts' = [texts EXCEPT ![Own].state = "killed",
                                              ![Own].rows = SubSeq(@, 1, Len(@) - lost)]
  BY DEF KillSegment
<1> DEFINE n == Len(texts[Own].rows) - lost
           rows == SubSeq(texts[Own].rows, 1, n)
           r == [texts[Own] EXCEPT !.state = "killed", !.rows = rows]
<1>4. texts' = [texts EXCEPT ![Own] = r] BY <1>2, <1>3
<1>5. r \in TextRun /\ r.rows = rows /\ r.state = "killed" /\ r.sighted = texts[Own].sighted
  <2>1. rows \in Seq(Items)
    <3>1. \A k \in 1..(Len(texts[Own].rows) - lost) : texts[Own].rows[k] \in Items BY <1>2, <1>3
    <3> QED BY <1>2, <1>3, <3>1
  <2> HIDE DEF rows
  <2> QED BY <1>2, <2>1 DEF TextRun
<1> HIDE DEF r, rows
<1>6. texts' \in Seq(TextRun) /\ DOMAIN texts' = DOMAIN texts /\ Len(texts') = Len(texts)
      /\ texts'[Own] = r /\ \A i \in DOMAIN texts : i # Own => texts'[i] = texts[i]
  BY <1>2, <1>4, <1>5, ExceptSeq
<1>7. RunBecomes(rows, "killed", texts, texts', Own) BY <1>5, <1>6 DEF RunBecomes
<1>8. n \in 0..Len(texts[Own].rows) BY <1>2, <1>3
<1>9. texts'[Own].sighted = texts[Own].sighted BY <1>5, <1>6
<1> HIDE DEF n
<1> QED BY <1>1, <1>7, <1>8, <1>9 DEF rows

LEMMA PollFeedsIs ==
    ASSUME TextInv, NEW failing \in SUBSET Feeds, PollFeeds(failing)
    PROVE  /\ Reading /\ reader.batch = <<>> /\ UNCHANGED <<served, seenFile, texts>>
           /\ \E asked \in SUBSET Feeds, held \in [Feeds -> Nat] :
                /\ reader' = [SightFeeds(asked) EXCEPT !.held = held, !.begun = FALSE]
                /\ \A f \in Feeds : held[f] <= served[f].rev
<1> DEFINE asked == {f \in Feeds \ failing : Answers(f)}
           s == SightFeeds(asked)
           held == [f \in Feeds |-> IF Answers(f) THEN Validators(f, f \in asked) ELSE reader.held[f]]
<1>1. /\ TextState /\ Reading /\ reader.batch = <<>> /\ UNCHANGED <<served, seenFile, texts>>
  BY DEF PollFeeds, TextInv
<1>2. reader \in Minds /\ asked \in SUBSET Feeds BY <1>1, OwnRun
<1>3. s.held = reader.held
  <2>1. KnownIn(reader) /\ UnchangedIn(reader) BY <1>1 DEF TextInv
  <2> HIDE DEF s, asked
  <2> QED BY <1>1, <1>2, <2>1, SightFeedsKeeps DEF s
<1>4. reader' = [s EXCEPT !.held = held, !.begun = FALSE]
  <2>1. reader' = [s EXCEPT !.held = [f \in Feeds |-> IF Answers(f) THEN Validators(f, f \in asked) ELSE @[f]],
                            !.begun = FALSE]
    BY DEF PollFeeds
  <2> HIDE DEF s, asked
  <2> QED BY <1>3, <2>1
<1>5. ASSUME NEW f \in Feeds
      PROVE  /\ (IF Answers(f) THEN Validators(f, f \in asked) ELSE reader.held[f]) \in Nat
             /\ (IF Answers(f) THEN Validators(f, f \in asked) ELSE reader.held[f]) <= served[f].rev
  <2>1. reader.held[f] \in Nat BY <1>2, MindIs
  <2>2. served[f].rev \in Nat BY <1>1, BodiesTyped
  <2>3. reader.held[f] <= served[f].rev BY <1>1 DEF TextState
  <2> HIDE DEF asked
  <2> QED BY <2>1, <2>2, <2>3 DEF Validators
<1>6. held \in [Feeds -> Nat] /\ \A f \in Feeds : held[f] <= served[f].rev
  <2> HIDE DEF asked
  <2> QED BY <1>5
<1> HIDE DEF held
<1>7. \E b \in SUBSET Feeds, h \in [Feeds -> Nat] :
        /\ reader' = [SightFeeds(b) EXCEPT !.held = h, !.begun = FALSE]
        /\ \A f \in Feeds : h[f] <= served[f].rev
  <2> HIDE DEF asked
  <2> QED BY <1>2, <1>4, <1>6
<1> QED BY <1>1, <1>7

LEMMA MostRecentIs ==
    ASSUME NEW X, NEW s \in Seq(X), OncePerKey(s), NEW r, r = MostRecent(s)
    PROVE  r \in Seq(X) /\ Len(r) <= SeenCap /\ OncePerKey(r) /\ ToSet(r) \subseteq ToSet(s)
<1>1. SeenCap \in Nat \ {0} /\ Len(s) \in Nat BY TextFeedAssumption
<1>2. CASE Len(s) > SeenCap
  <2> DEFINE d == Len(s) - SeenCap
  <2>1. r = SubSeq(s, d + 1, Len(s)) /\ d \in Nat BY <1>1, <1>2 DEF MostRecent
  <2>2. \A i \in (d + 1)..Len(s) : s[i] \in X BY <1>1, <2>1
  <2>3. r \in Seq(X) /\ Len(r) = SeenCap /\ \A k \in 1..SeenCap : r[k] = s[d + k]
    BY <1>1, <2>1, <2>2
  <2>4. \A k \in 1..SeenCap : d + k \in DOMAIN s BY <1>1, <2>1
  <2>5. DOMAIN r = 1..SeenCap BY <2>3
  <2>6. OncePerKey(r)
    <3> SUFFICES ASSUME NEW k \in 1..SeenCap, NEW m \in 1..SeenCap, r[k].key = r[m].key PROVE k = m
      BY <2>5 DEF OncePerKey
    <3>1. d + k = d + m BY <2>3, <2>4 DEF OncePerKey
    <3> QED BY <1>1, <2>1, <3>1
  <2>7. ToSet(r) \subseteq ToSet(s) BY <2>3, <2>4, <2>5 DEF ToSet
  <2> QED BY <1>1, <2>3, <2>6, <2>7
<1>3. CASE ~(Len(s) > SeenCap) BY <1>1, <1>3 DEF MostRecent
<1> QED BY <1>2, <1>3

\* A key without a row in the live run.
LEMMA LatestWith ==
    ASSUME TextState, Reading, NEW x, IsLatest(x, ClosedTexts), x.key \notin KeysOf(texts[Own].rows)
    PROVE  IsLatest(x, ClosedTexts \cup {Own})
<1>1. PICK i \in ClosedTexts : \E k \in DOMAIN texts[i].rows :
        /\ texts[i].rows[k] = x
        /\ \A j \in ClosedTexts : \A m \in DOMAIN texts[j].rows :
             texts[j].rows[m].key = x.key => j < i \/ (j = i /\ m <= k)
  BY DEF IsLatest
<1>2. PICK k \in DOMAIN texts[i].rows :
        /\ texts[i].rows[k] = x
        /\ \A j \in ClosedTexts : \A m \in DOMAIN texts[j].rows :
             texts[j].rows[m].key = x.key => j < i \/ (j = i /\ m <= k)
  BY <1>1
<1>3. \A m \in DOMAIN texts[Own].rows : texts[Own].rows[m].key # x.key BY DEF KeysOf, ToSet
<1>4. \A j \in ClosedTexts \cup {Own} : \A m \in DOMAIN texts[j].rows :
        texts[j].rows[m].key = x.key => j < i \/ (j = i /\ m <= k)
  BY <1>2, <1>3
<1> QED BY <1>1, <1>2, <1>4 DEF IsLatest

LEMMA ClosedBefore ==
    ASSUME TextState, Reading PROVE \A j \in ClosedTexts : j \in 1..Own /\ j # Own /\ j < Own
<1> SUFFICES ASSUME NEW j \in ClosedTexts PROVE j \in 1..Own /\ j # Own /\ j < Own OBVIOUS
<1>1. DOMAIN texts = 1..Own /\ Own \in Nat /\ texts[Own].state = "open" BY OwnRun
<1>2. j \in 1..Own /\ texts[j].state = "closed" BY <1>1 DEF ClosedTexts
<1> QED BY <1>1, <1>2

\* The last row of an item in the live run is its latest.
LEMMA LastRowIsLatest ==
    ASSUME TextState, Reading, NEW x, LastOf(x, texts[Own].rows)
    PROVE  IsLatest(x, ClosedTexts \cup {Own})
<1>1. PICK k \in DOMAIN texts[Own].rows :
        texts[Own].rows[k] = x /\ \A m \in DOMAIN texts[Own].rows : texts[Own].rows[m].key = x.key => m <= k
  BY DEF LastOf
<1>2. \A j \in ClosedTexts \cup {Own} : \A m \in DOMAIN texts[j].rows :
        texts[j].rows[m].key = x.key => j < Own \/ (j = Own /\ m <= k)
  BY <1>1, ClosedBefore
<1> QED BY <1>1, <1>2 DEF IsLatest

\* What a segment saves when it has ended.
LEMMA SnapshotIs ==
    ASSUME TextState, Reading, UnchangedIn(reader), FileInv,
           NEW r, r = DurableSnapshot(texts[Own].rows)
    PROVE  /\ r \in Seq(Items) /\ OncePerKey(r)
           /\ \A x \in ToSet(r) \ Doubled : IsLatest(x, ClosedTexts \cup {Own})
<1> DEFINE p == RememberAll(seenFile, reader.refreshed)
           rows == texts[Own].rows
<1>1. seenFile \in Seq(Items) /\ OncePerKey(seenFile) BY DEF TextState
<1>2. reader.refreshed \in Seq(Items) /\ rows \in Seq(Items) BY OwnRun, MindIs
<1>3. r = RememberAll(p, rows) BY DEF DurableSnapshot
<1> HIDE DEF p, rows
<1>4. /\ p \in Seq(Items) /\ OncePerKey(p)
      /\ \A x \in ToSet(p) : \/ LastOf(x, reader.refreshed)
                             \/ x \in ToSet(seenFile) /\ x.key \notin KeysOf(reader.refreshed)
  BY <1>1, <1>2, RememberedAre DEF p
<1>5. /\ r \in Seq(Items) /\ OncePerKey(r)
      /\ \A x \in ToSet(r) : LastOf(x, rows) \/ (x \in ToSet(p) /\ x.key \notin KeysOf(rows))
  BY <1>2, <1>3, <1>4, RememberedAre
<1>6. ASSUME NEW x \in ToSet(r) \ Doubled PROVE IsLatest(x, ClosedTexts \cup {Own})
  <2>1. CASE LastOf(x, rows) BY <2>1, LastRowIsLatest DEF rows
  <2>2. CASE x \in ToSet(p) /\ x.key \notin KeysOf(rows)
    <3>1. CASE LastOf(x, reader.refreshed)
      <4>1. x \in ToSet(reader.refreshed) BY <3>1 DEF LastOf, ToSet
      <4>2. IsLatest(x, ClosedTexts) BY <1>6, <2>2, <4>1 DEF UnchangedIn, rows
      <4> QED BY <2>2, <4>2, LatestWith DEF rows
    <3>2. CASE x \in ToSet(seenFile)
      <4>1. IsLatest(x, ClosedTexts) BY <1>6, <3>2 DEF FileInv
      <4> QED BY <2>2, <4>1, LatestWith DEF rows
    <3> QED BY <1>4, <2>2, <3>1, <3>2
  <2> QED BY <1>5, <2>1, <2>2
<1> QED BY <1>5, <1>6

LEMMA TextCases ==
    ASSUME TextNext
    PROVE  \/ OpenSegment \/ WriteItem \/ CloseSegment \/ KillSegment
           \/ \E failing \in SUBSET Feeds : PollFeeds(failing)
           \/ \E f \in Feeds : Revise(f)
BY DEF TextNext

\* Which run is open.
OpenRun(t, live) == \A i \in DOMAIN t : t[i].state = "open" <=> live /\ i = Len(t)

LEMMA OpenRunIs == TextState => OpenRun(texts, Reading)
BY DEF TextState, OpenRun, Own
LEMMA OpenRunEnds ==
    ASSUME NEW t, NEW u, NEW row, NEW state, DOMAIN t = 1..Len(t), OpenRun(t, TRUE),
           RunBecomes(row, state, t, u, Len(t)), state # "open"
    PROVE  OpenRun(u, FALSE)
BY DEF OpenRun, RunBecomes
LEMMA OpenRunStays ==
    ASSUME NEW t, NEW u, NEW row, DOMAIN t = 1..Len(t), OpenRun(t, TRUE),
           RunBecomes(row, "open", t, u, Len(t))
    PROVE  OpenRun(u, TRUE)
BY DEF OpenRun, RunBecomes

LEMMA TextStateKept == ASSUME TextInv, TextNext PROVE TextState'
<1> USE DEF Own
<1>1. TextState BY DEF TextInv
<1> DEFINE ServedTyped == /\ served \in [Feeds -> Listing]
                          /\ \A f \in Feeds : served[f].body \in Bodies[f] \cup {<<>>}
           FileTyped == seenFile \in Seq(Items) /\ Len(seenFile) <= SeenCap /\ OncePerKey(seenFile)
           ReaderKept == /\ reader \in Minds /\ Own # 0
                         /\ \A f \in Feeds : reader.held[f] <= served[f].rev
<1>2. /\ ServedTyped /\ FileTyped /\ texts \in Seq(TextRun) /\ OpenRun(texts, Reading)
      /\ Reading => ReaderKept
  BY <1>1, OpenRunIs DEF TextState, Minds, Reading
<1>3. TextState' <=> /\ ServedTyped' /\ FileTyped' /\ texts' \in Seq(TextRun) /\ OpenRun(texts, Reading)'
                     /\ reader' = NoReader \/ ReaderKept'
  BY MemoIsLive DEF TextState, OpenRun, Minds, Reading
<1>4. CASE OpenSegment
  <2>1. /\ texts' \in Seq(TextRun) /\ Len(texts') = Len(texts) + 1 /\ Len(texts) \in Nat
        /\ DOMAIN texts = 1..Len(texts) /\ DOMAIN texts' = 1..(Len(texts) + 1)
        /\ texts'[Len(texts) + 1].state = "open" /\ \A i \in 1..Len(texts) : texts'[i] = texts[i]
    BY <1>1, <1>4, OpenIs
  <2>2. ~Reading /\ UNCHANGED <<served, seenFile>> BY <1>4 DEF OpenSegment
  <2>3. reader' = [live |-> TRUE, seen |-> seenFile, refreshed |-> <<>>,
                   held |-> [f \in Feeds |-> 0], batch |-> <<>>, begun |-> FALSE]
    BY <1>4 DEF OpenSegment
  <2>4. reader' \in Memo
    <3>1. <<>> \in Seq(Items) /\ <<>> \in Seq(Entries) /\ [f \in Feeds |-> 0] \in [Feeds -> Nat] OBVIOUS
    <3> QED BY <1>2, <2>3, <3>1 DEF Memo
  <2>5. reader' \in Minds BY <1>2, <2>3, <2>4 DEF Minds, OncePerKey
  <2>6. \A f \in Feeds : reader'.held[f] <= served'[f].rev
    <3>1. \A f \in Feeds : served[f].rev \in Nat BY <1>1, BodiesTyped
    <3> QED BY <2>2, <2>3, <3>1
  <2>7. OpenRun(texts, Reading)'
    <3>1. Reading' BY <2>4, MemoIsLive DEF Reading
    <3>2. \A i \in DOMAIN texts : texts[i].state # "open" BY <1>2, <2>2 DEF OpenRun
    <3> QED BY <2>1, <3>1, <3>2 DEF OpenRun
  <2> QED BY <1>2, <1>3, <2>1, <2>2, <2>5, <2>6, <2>7
<1>5. CASE WriteItem
  <2>1. /\ Reading /\ reader.batch # <<>>
        /\ texts' = texts \/ RunBecomes(Append(texts[Own].rows, Head(reader.batch)), "open", texts, texts', Own)
        /\ reader' = [reader EXCEPT !.batch = Tail(@), !.begun = TRUE]
        /\ UNCHANGED <<served, seenFile>>
    BY <1>1, <1>5, WriteItemIs
  <2>2. reader \in Minds /\ DOMAIN texts = 1..Len(texts) BY <1>1, <2>1, OwnRun
  <2>3. reader' \in Minds /\ reader'.held = reader.held
    <3>1. Tail(reader.batch) \in Seq(Entries) BY <2>1, <2>2, MindIs, HeadTailProperties
    <3> QED BY <2>1, <2>2, <3>1 DEF Minds, Memo
  <2>4. texts' \in Seq(TextRun) /\ Len(texts') = Len(texts) BY <1>2, <2>1 DEF RunBecomes
  <2>5. OpenRun(texts, Reading)'
    <3>1. Reading' BY <2>3, MemoIsLive DEF Reading, Minds
    <3>2. OpenRun(texts, TRUE) BY <1>2, <2>1 DEF OpenRun
    <3>3. OpenRun(texts', TRUE) BY <2>1, <2>2, <3>2, OpenRunStays
    <3> QED BY <3>1, <3>3 DEF OpenRun
  <2> QED BY <1>2, <1>3, <2>1, <2>3, <2>4, <2>5
<1>6. CASE CloseSegment
  <2>1. /\ Reading /\ RunBecomes(texts[Own].rows, "closed", texts, texts', Own)
        /\ seenFile' = MostRecent(DurableSnapshot(texts[Own].rows))
        /\ reader' = NoReader /\ served' = served
    BY <1>1, <1>6, CloseIs
  <2>2. FileTyped'
    <3>1. DurableSnapshot(texts[Own].rows) \in Seq(Items) /\ OncePerKey(DurableSnapshot(texts[Own].rows))
      BY <2>1, SnapshotIs DEF TextInv
    <3> QED BY <2>1, <3>1, MostRecentIs
  <2>3. texts' \in Seq(TextRun) BY <2>1 DEF RunBecomes
  <2>4. OpenRun(texts, Reading)'
    <3>1. DOMAIN texts = 1..Len(texts) BY <1>1, <2>1, OwnRun
    <3>2. OpenRun(texts, TRUE) BY <1>2, <2>1 DEF OpenRun
    <3>3. OpenRun(texts', FALSE) BY <2>1, <3>1, <3>2, OpenRunEnds
    <3> QED BY <2>1, <3>3 DEF OpenRun, Reading
  <2> QED BY <1>2, <1>3, <2>1, <2>2, <2>3, <2>4
<1>7. CASE KillSegment
  <2>1. Reading /\ reader' = NoReader /\ UNCHANGED <<served, seenFile>> BY <1>1, <1>7, KillIs
  <2>2. PICK rows : RunBecomes(rows, "killed", texts, texts', Own) BY <1>1, <1>7, KillIs
  <2>3. texts' \in Seq(TextRun) BY <2>2 DEF RunBecomes
  <2>4. OpenRun(texts, Reading)'
    <3>1. DOMAIN texts = 1..Len(texts) BY <1>1, <2>1, OwnRun
    <3>2. OpenRun(texts, TRUE) BY <1>2, <2>1 DEF OpenRun
    <3>3. OpenRun(texts', FALSE) BY <2>2, <3>1, <3>2, OpenRunEnds
    <3> QED BY <2>1, <3>3 DEF OpenRun, Reading
  <2> QED BY <1>2, <1>3, <2>1, <2>3, <2>4
<1>8. ASSUME NEW failing \in SUBSET Feeds, PollFeeds(failing) PROVE TextState'
  <2>1. Reading /\ reader.batch = <<>> /\ UNCHANGED <<served, seenFile, texts>> BY <1>8, PollFeedsIs
  <2>2. PICK asked \in SUBSET Feeds, held \in [Feeds -> Nat] :
          /\ reader' = [SightFeeds(asked) EXCEPT !.held = held, !.begun = FALSE]
          /\ \A f \in Feeds : held[f] <= served[f].rev
    BY <1>8, PollFeedsIs
  <2> DEFINE s == SightFeeds(asked)
  <2>3. s \in Minds BY <1>1, <2>1, SightFeedsKeeps DEF TextInv
  <2> HIDE DEF s
  <2>4. reader' \in Minds /\ reader'.held = held BY <2>2, <2>3 DEF Minds, Memo, s
  <2>5. Reading' BY <2>4, MemoIsLive DEF Reading, Minds
  <2>6. OpenRun(texts, Reading)' BY <1>2, <2>1, <2>5 DEF OpenRun
  <2> QED BY <1>2, <1>3, <2>1, <2>2, <2>4, <2>6
<1>9. ASSUME NEW f \in Feeds, Revise(f) PROVE TextState'
  <2>1. UNCHANGED <<seenFile, texts, reader>> BY <1>9 DEF Revise
  <2>2. PICK body \in Bodies[f] : served' = [served EXCEPT ![f] = [body |-> body, rev |-> @.rev + 1]]
    BY <1>9 DEF Revise
  <2>3. served[f].rev \in Nat /\ body \in Seq(Entries) BY <1>1, BodiesTyped, FeedsAre
  <2>4. ServedTyped' BY <1>2, <2>2, <2>3 DEF Listing
  <2>5. \A g \in Feeds : served'[g].rev = served[g].rev \/ (g = f /\ served'[g].rev = served[g].rev + 1)
    BY <1>2, <2>2
  <2>6. ReaderKept => ReaderKept'
    <3> SUFFICES ASSUME ReaderKept PROVE ReaderKept' OBVIOUS
    <3>1. \A g \in Feeds : reader.held[g] \in Nat BY MindIs
    <3>2. \A g \in Feeds : reader.held[g] <= served'[g].rev BY <2>3, <2>5, <3>1
    <3> QED BY <2>1, <3>2
  <2>7. OpenRun(texts, Reading)' BY <1>2, <2>1 DEF OpenRun, Reading
  <2> QED BY <1>2, <1>3, <2>1, <2>4, <2>6, <2>7 DEF Reading
<1> QED BY <1>4, <1>5, <1>6, <1>7, <1>8, <1>9, TextCases

-----------------------------------------------------------------------------
(* What is taken for known has been written.                                 *)

\* The same of given runs.
LatestIn(t, x, R) ==
    \E i \in R : \E k \in DOMAIN t[i].rows :
        /\ t[i].rows[k] = x
        /\ \A j \in R : \A m \in DOMAIN t[j].rows :
             t[j].rows[m].key = x.key => j < i \/ (j = i /\ m <= k)
KnownWith(memo, t) ==
    \A x \in ToSet(memo.seen) \ Doubled :
        LastOf(x, memo.batch) \/ (x.key \notin KeysOf(memo.batch) /\ LatestIn(t, x, Closed(t) \cup {Len(t)}))
UnchangedWith(memo, t) ==
    \A x \in ToSet(memo.refreshed) \ Doubled :
        x.key \in KeysOf(t[Len(t)].rows) \/ LatestIn(t, x, Closed(t))
FileWith(saved, t) == \A x \in ToSet(saved) \ Doubled : LatestIn(t, x, Closed(t))

LEMMA KnownMeans ==
    /\ KnownIn(reader) <=> KnownWith(reader, texts)
    /\ UnchangedIn(reader) <=> UnchangedWith(reader, texts)
    /\ FileInv <=> FileWith(seenFile, texts)
    /\ ClosedTexts = Closed(texts) /\ \A x, R : IsLatest(x, R) <=> LatestIn(texts, x, R)
BY DEF KnownIn, KnownWith, UnchangedIn, UnchangedWith, FileInv, FileWith, ClosedTexts, Closed,
       IsLatest, LatestIn, Own
LEMMA KnownMeansNext ==
    /\ KnownIn(reader)' <=> KnownWith(reader', texts')
    /\ UnchangedIn(reader)' <=> UnchangedWith(reader', texts')
    /\ FileInv' <=> FileWith(seenFile', texts')
BY DEF KnownIn, KnownWith, UnchangedIn, UnchangedWith, FileInv, FileWith, ClosedTexts, Closed,
       IsLatest, LatestIn, Own

\* Rows elsewhere, and rows of other items, do not matter.
LEMMA LatestStays ==
    ASSUME NEW t, NEW u, NEW x, NEW R, LatestIn(t, x, R), NEW S, R \subseteq S,
           \A i \in R : u[i].rows = t[i].rows,
           \A i \in S \ R : \A m \in DOMAIN u[i].rows : u[i].rows[m].key # x.key
    PROVE  LatestIn(u, x, S)
<1>1. PICK i \in R : \E k \in DOMAIN t[i].rows :
        /\ t[i].rows[k] = x
        /\ \A j \in R : \A m \in DOMAIN t[j].rows :
             t[j].rows[m].key = x.key => j < i \/ (j = i /\ m <= k)
  BY DEF LatestIn
<1>2. PICK k \in DOMAIN t[i].rows :
        /\ t[i].rows[k] = x
        /\ \A j \in R : \A m \in DOMAIN t[j].rows :
             t[j].rows[m].key = x.key => j < i \/ (j = i /\ m <= k)
  BY <1>1
<1>3. k \in DOMAIN u[i].rows /\ u[i].rows[k] = x /\ i \in S BY <1>1, <1>2
<1>4. \A j \in S : \A m \in DOMAIN u[j].rows :
        u[j].rows[m].key = x.key => j < i \/ (j = i /\ m <= k)
  BY <1>2
<1> QED BY <1>3, <1>4 DEF LatestIn

LEMMA FileStays ==
    ASSUME NEW saved, NEW t, NEW u, FileWith(saved, t), Closed(u) = Closed(t),
           \A i \in Closed(t) : u[i].rows = t[i].rows
    PROVE  FileWith(saved, u)
<1> SUFFICES ASSUME NEW x \in ToSet(saved) \ Doubled PROVE LatestIn(u, x, Closed(u)) BY DEF FileWith
<1>1. LatestIn(t, x, Closed(t)) BY DEF FileWith
<1> QED BY <1>1, LatestStays

\* The head of a batch, and what is left.
LEMMA BatchTail ==
    ASSUME NEW X, NEW q \in Seq(X), q # <<>>, NEW x
    PROVE  /\ LastOf(x, q) => LastOf(x, Tail(q)) \/ (x = Head(q) /\ x.key \notin KeysOf(Tail(q)))
           /\ x.key \notin KeysOf(q) => x.key # Head(q).key /\ x.key \notin KeysOf(Tail(q))
<1> DEFINE r == Tail(q)
           n == Len(q)
<1>1. r \in Seq(X) /\ Len(r) = n - 1 /\ n \in Nat \ {0} /\ Head(q) = q[1] /\ \A k \in 1..(n - 1) : r[k] = q[k + 1]
  BY HeadTailProperties
<1> HIDE DEF r, n
<1>2. DOMAIN r = 1..(n - 1) /\ DOMAIN q = 1..n BY <1>1 DEF n
<1>3. ASSUME LastOf(x, q) PROVE LastOf(x, r) \/ (x = Head(q) /\ x.key \notin KeysOf(r))
  <2>1. PICK k \in 1..n : q[k] = x /\ \A m \in 1..n : q[m].key = x.key => m <= k BY <1>2, <1>3 DEF LastOf
  <2>2. \A m \in 1..(n - 1) : r[m] = q[m + 1] /\ m + 1 \in 1..n BY <1>1
  <2>3. CASE k = 1
    <3>1. \A m \in 1..(n - 1) : r[m].key # x.key BY <2>1, <2>2, <2>3
    <3>2. x.key \notin KeysOf(r) BY <1>2, <3>1 DEF KeysOf, ToSet
    <3> QED BY <1>1, <2>1, <2>3, <3>2
  <2>4. CASE k # 1
    <3>1. k - 1 \in 1..(n - 1) /\ r[k - 1] = x BY <1>1, <2>1, <2>4
    <3>2. \A m \in 1..(n - 1) : r[m].key = x.key => m <= k - 1 BY <2>1, <2>2
    <3> QED BY <1>2, <3>1, <3>2 DEF LastOf
  <2> QED BY <2>3, <2>4
<1>4. ASSUME x.key \notin KeysOf(q) PROVE x.key # Head(q).key /\ x.key \notin KeysOf(r)
  <2>1. \A k \in 1..n : q[k].key # x.key BY <1>2, <1>4 DEF KeysOf, ToSet
  <2>2. \A k \in 1..(n - 1) : r[k].key # x.key
    <3>1. \A k \in 1..(n - 1) : k + 1 \in 1..n BY <1>1
    <3> QED BY <1>1, <2>1, <3>1
  <2>3. 1 \in 1..n BY <1>1
  <2> QED BY <1>1, <1>2, <2>1, <2>2, <2>3 DEF KeysOf, ToSet
<1> QED BY <1>3, <1>4 DEF r

\* A row is the latest of its item; it changes nothing for another.
LEMMA LastRow ==
    ASSUME NEW t, NEW n, NEW x, LastOf(x, t[n].rows), NEW R, n \in R, \A j \in R : j < n \/ j = n
    PROVE  LatestIn(t, x, R)
<1>1. PICK k \in DOMAIN t[n].rows :
        t[n].rows[k] = x /\ \A m \in DOMAIN t[n].rows : t[n].rows[m].key = x.key => m <= k
  BY DEF LastOf
<1>2. \A j \in R : \A m \in DOMAIN t[j].rows :
        t[j].rows[m].key = x.key => j < n \/ (j = n /\ m <= k)
  BY <1>1
<1> QED BY <1>1, <1>2 DEF LatestIn

LEMMA OtherRow ==
    ASSUME NEW t, NEW u, NEW x, NEW R, LatestIn(t, x, R), NEW n, NEW e, e.key # x.key,
           t[n].rows \in Seq(Items), e \in Items, u[n].rows = Append(t[n].rows, e),
           \A i \in R : i # n => u[i].rows = t[i].rows
    PROVE  LatestIn(u, x, R)
<1> DEFINE p == t[n].rows
           q == u[n].rows
<1>1. /\ DOMAIN q = 1..(Len(p) + 1) /\ DOMAIN p = 1..Len(p) /\ Len(p) \in Nat /\ q[Len(p) + 1] = e
      /\ \A m \in 1..Len(p) : q[m] = p[m]
  BY AppendProperties
<1> HIDE DEF p, q
<1>2. \A i \in R : \A m \in DOMAIN u[i].rows :
        u[i].rows[m].key = x.key => m \in DOMAIN t[i].rows /\ t[i].rows[m] = u[i].rows[m]
  <2> SUFFICES ASSUME NEW i \in R, NEW m \in DOMAIN u[i].rows, u[i].rows[m].key = x.key
               PROVE  m \in DOMAIN t[i].rows /\ t[i].rows[m] = u[i].rows[m]
    OBVIOUS
  <2>1. CASE i = n
    <3>1. m \in DOMAIN q /\ q[m].key = x.key BY <2>1 DEF q
    <3>2. m \in 1..Len(p) BY <1>1, <3>1
    <3>3. m \in DOMAIN p /\ p[m] = q[m] BY <1>1, <3>2
    <3> QED BY <2>1, <3>3 DEF p, q
  <2>2. CASE i # n BY <2>2
  <2> QED BY <2>1, <2>2
<1>3. \A i \in R : \A m \in DOMAIN t[i].rows : m \in DOMAIN u[i].rows /\ u[i].rows[m] = t[i].rows[m]
  <2> SUFFICES ASSUME NEW i \in R, NEW m \in DOMAIN t[i].rows
               PROVE  m \in DOMAIN u[i].rows /\ u[i].rows[m] = t[i].rows[m]
    OBVIOUS
  <2>1. CASE i = n
    <3>1. m \in DOMAIN p BY <2>1 DEF p
    <3>2. m \in DOMAIN q /\ q[m] = p[m] BY <1>1, <3>1
    <3> QED BY <2>1, <3>2 DEF p, q
  <2>2. CASE i # n BY <2>2
  <2> QED BY <2>1, <2>2
<1>4. PICK i \in R : \E k \in DOMAIN t[i].rows :
        /\ t[i].rows[k] = x
        /\ \A j \in R : \A m \in DOMAIN t[j].rows :
             t[j].rows[m].key = x.key => j < i \/ (j = i /\ m <= k)
  BY DEF LatestIn
<1>5. PICK k \in DOMAIN t[i].rows :
        /\ t[i].rows[k] = x
        /\ \A j \in R : \A m \in DOMAIN t[j].rows :
             t[j].rows[m].key = x.key => j < i \/ (j = i /\ m <= k)
  BY <1>4
<1>6. k \in DOMAIN u[i].rows /\ u[i].rows[k] = x BY <1>3, <1>5
<1>7. \A j \in R : \A m \in DOMAIN u[j].rows :
        u[j].rows[m].key = x.key => j < i \/ (j = i /\ m <= k)
  <2> SUFFICES ASSUME NEW j \in R, NEW m \in DOMAIN u[j].rows, u[j].rows[m].key = x.key
               PROVE  j < i \/ (j = i /\ m <= k)
    OBVIOUS
  <2>1. m \in DOMAIN t[j].rows /\ t[j].rows[m].key = x.key BY <1>2
  <2> QED BY <1>5, <2>1
<1> QED BY <1>6, <1>7 DEF LatestIn

LEMMA SameClosed ==
    ASSUME NEW t, NEW u, NEW row, NEW state, NEW n \in DOMAIN t, RunBecomes(row, state, t, u, n)
    PROVE  /\ state = "open" /\ t[n].state = "open" => Closed(u) = Closed(t)
           /\ state = "killed" /\ t[n].state = "open" => Closed(u) = Closed(t)
           /\ state = "closed" => Closed(u) = Closed(t) \cup {n}
           /\ t[n].state = "open" => \A i \in Closed(t) : i # n /\ u[i].rows = t[i].rows
BY DEF Closed, RunBecomes

LEMMA WriteKnown ==
    ASSUME TextInv, WriteItem
    PROVE  KnownWith(reader', texts') /\ UnchangedWith(reader', texts') /\ FileWith(seenFile', texts')
<1> DEFINE e == Head(reader.batch)
           b == Tail(reader.batch)
           n == Len(texts)
           C == Closed(texts)
<1>1. TextState /\ Reading BY DEF TextInv, WriteItem
<1>2. /\ reader.batch # <<>> /\ e \in Entries
      /\ \/ e.key = NoId /\ texts' = texts
         \/ /\ e.key # NoId /\ e \in Items
            /\ RunBecomes(Append(texts[n].rows, e), "open", texts, texts', n)
      /\ reader' = [reader EXCEPT !.batch = b, !.begun = TRUE] /\ seenFile' = seenFile
  <2> HIDE DEF e
  <2> QED BY <1>1, WriteItemIs DEF Own, e
<1>3. KnownWith(reader, texts) /\ UnchangedWith(reader, texts) /\ FileWith(seenFile, texts)
  BY <1>1, KnownMeans DEF TextInv
<1>4. reader \in Minds /\ n \in DOMAIN texts /\ texts[n].rows \in Seq(Items) /\ texts[n].state = "open"
  BY <1>1, OwnRun DEF Own
<1>5. reader.seen \in Seq(Items) /\ reader.batch \in Seq(Entries) BY <1>4, MindIs
<1>6. reader'.seen = reader.seen /\ reader'.refreshed = reader.refreshed /\ reader'.batch = b
  BY <1>2, <1>4 DEF Minds, Memo
<1>7. \A x \in ToSet(reader.seen) : x.key # NoId BY <1>5, InSet DEF Items
<1>8. \A x : /\ LastOf(x, reader.batch) => LastOf(x, b) \/ (x = e /\ x.key \notin KeysOf(b))
             /\ x.key \notin KeysOf(reader.batch) => x.key # e.key /\ x.key \notin KeysOf(b)
  BY <1>2, <1>5, BatchTail
<1> HIDE DEF e, b
<1>9. CASE e.key = NoId /\ texts' = texts
  <2>1. KnownWith(reader', texts') BY <1>3, <1>6, <1>7, <1>8, <1>9 DEF KnownWith
  <2>2. UnchangedWith(reader', texts') BY <1>3, <1>6, <1>9 DEF UnchangedWith
  <2> QED BY <1>2, <1>3, <1>9, <2>1, <2>2
<1>10. CASE /\ e.key # NoId /\ e \in Items
            /\ RunBecomes(Append(texts[n].rows, e), "open", texts, texts', n)
  <2>1. Closed(texts') = C /\ \A i \in C : i # n /\ texts'[i].rows = texts[i].rows
    BY <1>4, <1>10, SameClosed
  <2>2. Len(texts') = n /\ texts'[n].rows = Append(texts[n].rows, e) BY <1>10 DEF RunBecomes
  <2>3. \A j \in C : j < n BY <1>1, ClosedBefore, KnownMeans DEF Own
  <2> HIDE DEF C, n
  <2>4. LastOf(e, texts'[n].rows) BY <1>4, <1>10, <2>2, AppendedSet
  <2>5. LatestIn(texts', e, C \cup {n}) BY <2>3, <2>4, LastRow
  <2>6. ASSUME NEW x, x.key # e.key, LatestIn(texts, x, C \cup {n}) PROVE LatestIn(texts', x, C \cup {n})
    BY <1>4, <1>10, <2>1, <2>2, <2>6, OtherRow
  <2>7. KnownWith(reader', texts')
    <3> SUFFICES ASSUME NEW x \in ToSet(reader.seen) \ Doubled
                 PROVE  LastOf(x, b) \/ (x.key \notin KeysOf(b) /\ LatestIn(texts', x, C \cup {n}))
      BY <1>6, <2>1, <2>2 DEF KnownWith
    <3>1. CASE LastOf(x, reader.batch) BY <1>8, <2>5, <3>1
    <3>2. CASE x.key \notin KeysOf(reader.batch) /\ LatestIn(texts, x, C \cup {n}) BY <1>8, <2>6, <3>2
    <3> QED BY <1>3, <3>1, <3>2 DEF KnownWith, C, n
  <2>8. UnchangedWith(reader', texts')
    <3> SUFFICES ASSUME NEW x \in ToSet(reader.refreshed) \ Doubled
                 PROVE  x.key \in KeysOf(texts'[n].rows) \/ LatestIn(texts', x, C)
      BY <1>6, <2>1, <2>2 DEF UnchangedWith
    <3>1. CASE x.key \in KeysOf(texts[n].rows)
      <4>1. ToSet(texts'[n].rows) = ToSet(texts[n].rows) \cup {e} BY <1>4, <1>10, <2>2, AppendedSet
      <4> QED BY <3>1, <4>1 DEF KeysOf
    <3>2. CASE LatestIn(texts, x, C)
      <4>1. LatestIn(texts', x, C) BY <2>1, <3>2, LatestStays
      <4> QED BY <4>1
    <3> QED BY <1>3, <3>1, <3>2 DEF UnchangedWith, C, n
  <2>9. FileWith(seenFile', texts') BY <1>2, <1>3, <2>1, FileStays DEF C
  <2> QED BY <2>7, <2>8, <2>9
<1> QED BY <1>2, <1>9, <1>10

LEMMA OpenKnown ==
    ASSUME TextInv, OpenSegment
    PROVE  KnownWith(reader', texts') /\ UnchangedWith(reader', texts') /\ FileWith(seenFile', texts')
<1> DEFINE n == Len(texts)
           C == Closed(texts)
<1>1. TextState /\ ~Reading BY DEF TextInv, OpenSegment
<1>2. /\ Len(texts') = n + 1 /\ n \in Nat /\ DOMAIN texts = 1..n /\ DOMAIN texts' = 1..(n + 1)
      /\ texts'[n + 1].state = "open" /\ texts'[n + 1].rows = <<>>
      /\ \A i \in 1..n : texts'[i] = texts[i]
  BY <1>1, OpenIs
<1>3. /\ reader'.seen = seenFile /\ reader'.refreshed = <<>> /\ reader'.batch = <<>>
      /\ seenFile' = seenFile
  BY DEF OpenSegment
<1>4. FileWith(seenFile, texts) BY KnownMeans DEF TextInv
<1>5. Closed(texts') = C /\ \A i \in C : texts'[i].rows = texts[i].rows BY <1>2 DEF Closed
<1>6. FileWith(seenFile', texts') BY <1>3, <1>4, <1>5, FileStays
<1>7. KnownWith(reader', texts')
  <2> SUFFICES ASSUME NEW x \in ToSet(seenFile) \ Doubled
               PROVE  x.key \notin KeysOf(<<>>) /\ LatestIn(texts', x, C \cup {n + 1})
    BY <1>2, <1>3, <1>5 DEF KnownWith
  <2>1. x.key \notin KeysOf(<<>>) BY DEF KeysOf, ToSet
  <2>2. LatestIn(texts, x, C) BY <1>4 DEF FileWith
  <2>3. \A i \in (C \cup {n + 1}) \ C : \A m \in DOMAIN texts'[i].rows : texts'[i].rows[m].key # x.key
    BY <1>2
  <2> HIDE DEF C, n
  <2>4. LatestIn(texts', x, C \cup {n + 1}) BY <1>5, <2>2, <2>3, LatestStays
  <2> QED BY <2>1, <2>4
<1>8. UnchangedWith(reader', texts') BY <1>3 DEF UnchangedWith, ToSet
<1> QED BY <1>6, <1>7, <1>8

LEMMA CloseKnown == ASSUME TextInv, CloseSegment PROVE FileWith(seenFile', texts') /\ ~Reading'
<1> DEFINE n == Len(texts)
           C == Closed(texts)
           r == DurableSnapshot(texts[Own].rows)
<1>1. TextState /\ Reading BY DEF TextInv, CloseSegment
<1>2. /\ RunBecomes(texts[n].rows, "closed", texts, texts', n)
      /\ seenFile' = MostRecent(r) /\ reader' = NoReader
  BY <1>1, CloseIs DEF Own
<1>3. r \in Seq(Items) /\ OncePerKey(r) /\ \A x \in ToSet(r) \ Doubled : IsLatest(x, ClosedTexts \cup {Own})
  BY <1>1, SnapshotIs DEF TextInv
<1> HIDE DEF r
<1>4. ToSet(seenFile') \subseteq ToSet(r) BY <1>2, <1>3, MostRecentIs
<1>5. n \in DOMAIN texts /\ texts[n].state = "open" BY <1>1, OwnRun DEF Own
<1>6. Closed(texts') = C \cup {n} /\ \A i \in C \cup {n} : texts'[i].rows = texts[i].rows
  <2>1. texts'[n].rows = texts[n].rows BY <1>2 DEF RunBecomes
  <2> QED BY <1>2, <1>5, <2>1, SameClosed
<1>7. ASSUME NEW x \in ToSet(seenFile') \ Doubled PROVE LatestIn(texts', x, C \cup {n})
  <2>1. LatestIn(texts, x, C \cup {n}) BY <1>3, <1>4, KnownMeans DEF Own
  <2> HIDE DEF C, n
  <2> QED BY <1>6, <2>1, LatestStays
<1>8. FileWith(seenFile', texts') BY <1>6, <1>7 DEF FileWith
<1> QED BY <1>2, <1>8 DEF Reading

LEMMA KillKnown == ASSUME TextInv, KillSegment PROVE FileWith(seenFile', texts') /\ ~Reading'
<1>1. TextState /\ Reading BY DEF TextInv, KillSegment
<1>2. PICK rows : RunBecomes(rows, "killed", texts, texts', Own) BY <1>1, KillIs
<1>3. reader' = NoReader /\ seenFile' = seenFile BY <1>1, KillIs
<1>4. Own \in DOMAIN texts /\ texts[Own].state = "open" BY <1>1, OwnRun
<1>5. Closed(texts') = Closed(texts) /\ \A i \in Closed(texts) : texts'[i].rows = texts[i].rows
  BY <1>2, <1>4, SameClosed
<1>6. FileWith(seenFile, texts) BY KnownMeans DEF TextInv
<1> QED BY <1>3, <1>5, <1>6, FileStays DEF Reading

LEMMA PollKnown ==
    ASSUME TextInv, NEW failing \in SUBSET Feeds, PollFeeds(failing)
    PROVE  KnownWith(reader', texts') /\ UnchangedWith(reader', texts') /\ FileWith(seenFile', texts')
<1>1. Reading /\ reader.batch = <<>> /\ UNCHANGED <<served, seenFile, texts>> BY PollFeedsIs
<1>2. PICK asked \in SUBSET Feeds, held \in [Feeds -> Nat] :
        reader' = [SightFeeds(asked) EXCEPT !.held = held, !.begun = FALSE]
  BY PollFeedsIs
<1> DEFINE s == SightFeeds(asked)
<1>3. s \in Minds /\ KnownIn(s) /\ UnchangedIn(s) BY <1>1, SightFeedsKeeps DEF TextInv
<1> HIDE DEF s
<1>4. reader'.seen = s.seen /\ reader'.refreshed = s.refreshed /\ reader'.batch = s.batch
  BY <1>2, <1>3 DEF Minds, Memo, s
<1>5. KnownWith(s, texts) /\ UnchangedWith(s, texts)
  BY <1>3 DEF KnownIn, KnownWith, UnchangedIn, UnchangedWith, ClosedTexts, Closed, IsLatest, LatestIn, Own
<1>6. KnownWith(reader', texts) /\ UnchangedWith(reader', texts) BY <1>4, <1>5 DEF KnownWith, UnchangedWith
<1>7. FileWith(seenFile, texts) BY KnownMeans DEF TextInv
<1> QED BY <1>1, <1>6, <1>7

-----------------------------------------------------------------------------
(* The invariant of the lane.                                                *)

LEMMA TextStarts == ASSUME TextInit PROVE TextInv
<1>1. seenFile = <<>> /\ texts = <<>> /\ reader = NoReader BY DEF TextInit
<1>2. ToSet(seenFile) = {} BY <1>1 DEF ToSet
<1>3. served \in [Feeds -> Listing] /\ \A f \in Feeds : served[f].body \in Bodies[f] \cup {<<>>}
  <2>1. [body |-> <<>>, rev |-> 0] \in Listing
    <3>1. <<>> \in Seq(Entries) OBVIOUS
    <3> QED BY <3>1 DEF Listing
  <2> QED BY <2>1 DEF TextInit
<1>4. SeenCap \in Nat BY TextFeedAssumption
<1>5. TextState BY <1>1, <1>3, <1>4 DEF TextState, OncePerKey, Reading
<1> QED BY <1>1, <1>2, <1>5 DEF TextInv, FileInv, Reading

LEMMA TextStep == ASSUME TextInv, TextNext PROVE TextInv'
<1>1. TextState' BY TextStateKept
<1>2. Reading => KnownWith(reader, texts) /\ UnchangedWith(reader, texts) BY KnownMeans DEF TextInv
<1>3. FileWith(seenFile, texts) BY KnownMeans DEF TextInv
<1> DEFINE Good == FileWith(seenFile', texts')
                   /\ (Reading' => KnownWith(reader', texts') /\ UnchangedWith(reader', texts'))
<1>4. OpenSegment => Good BY OpenKnown
<1>5. WriteItem => Good BY WriteKnown
<1>6. CloseSegment => Good BY CloseKnown
<1>7. KillSegment => Good BY KillKnown
<1>8. ASSUME NEW failing \in SUBSET Feeds, PollFeeds(failing) PROVE Good BY <1>8, PollKnown
<1>9. ASSUME NEW f \in Feeds, Revise(f) PROVE Good
  <2>1. UNCHANGED <<seenFile, texts, reader>> BY <1>9 DEF Revise
  <2> QED BY <1>2, <1>3, <2>1 DEF Reading
<1>10. Good BY <1>4, <1>5, <1>6, <1>7, <1>8, <1>9, TextCases
<1> QED BY <1>1, <1>10, KnownMeansNext DEF TextInv

LEMMA TextStays == ASSUME TextInv, UNCHANGED tvars PROVE TextInv'
<1>1. UNCHANGED <<served, seenFile, texts, reader>> BY DEF tvars
<1>2. TextState' BY <1>1 DEF TextInv, TextState, Reading, Own
<1> QED BY <1>1, <1>2, KnownMeans, KnownMeansNext DEF TextInv, Reading

\* The types that the run checks.
LEMMA TextTypes == ASSUME TextState PROVE TextTypeOK
<1>1. \A q \in Seq(Items) : ToSet(q) \subseteq Entries /\ NoId \notin KeysOf(q)
  <2> SUFFICES ASSUME NEW q \in Seq(Items) PROVE ToSet(q) \subseteq Entries /\ NoId \notin KeysOf(q) OBVIOUS
  <2>1. ToSet(q) \subseteq Items BY InSet
  <2> QED BY <2>1 DEF Items, KeysOf
<1>2. ToSet(seenFile) \subseteq Entries /\ Len(seenFile) <= SeenCap /\ OncePerKey(seenFile)
  BY <1>1 DEF TextState
<1>3. ASSUME NEW i \in DOMAIN texts
      PROVE  /\ ToSet(texts[i].rows) \subseteq Entries /\ NoId \notin KeysOf(texts[i].rows)
             /\ texts[i].state = "open" <=> Reading /\ i = Own
  <2>1. texts \in Seq(TextRun) BY DEF TextState
  <2>2. texts[i] \in TextRun BY <2>1
  <2>3. texts[i].rows \in Seq(Items) BY <2>2 DEF TextRun
  <2> QED BY <1>1, <2>3 DEF TextState
<1>4. ASSUME Reading
      PROVE  /\ OncePerKey(reader.seen) /\ ToSet(reader.seen) \cup ToSet(reader.refreshed) \subseteq Entries
             /\ \A f \in Feeds : reader.held[f] \in 0..served[f].rev
  <2>1. reader \in Minds BY <1>4, OwnRun
  <2>2. \A f \in Feeds : reader.held[f] \in Nat /\ served[f].rev \in Nat /\ reader.held[f] <= served[f].rev
    BY <1>4, <2>1, MindIs, BodiesTyped DEF TextState
  <2>3. reader.seen \in Seq(Items) /\ reader.refreshed \in Seq(Items) /\ OncePerKey(reader.seen)
    BY <2>1, MindIs
  <2>4. ToSet(reader.seen) \cup ToSet(reader.refreshed) \subseteq Entries BY <1>1, <2>3
  <2>5. \A f \in Feeds : reader.held[f] \in 0..served[f].rev BY <2>2
  <2> QED BY <2>3, <2>4, <2>5
<1> QED BY <1>2, <1>3, <1>4 DEF TextTypeOK

LEMMA TextKeeps == ASSUME TextInv PROVE NoItemSkipped
<1>1. TextTypeOK BY TextTypes DEF TextInv
<1>2. \A e \in ToSet(seenFile) \ Doubled : IsLatest(e, ClosedTexts) BY DEF TextInv, FileInv
<1>3. ASSUME Reading, NEW e \in ToSet(reader.seen) \ Doubled
      PROVE  e \in ToSet(reader.batch) \/ IsLatest(e, ClosedTexts \cup {Own})
  BY <1>3 DEF TextInv, KnownIn, LastOf, ToSet
<1> QED BY <1>1, <1>2, <1>3 DEF NoItemSkipped

LEMMA TextInvariance == PollingSpec => []TextInv
<1>1. PollingInit => TextInv BY TextStarts DEF PollingInit
<1>2. TextInv /\ [PollingNext]_pvars => TextInv'
  <2> SUFFICES ASSUME TextInv, [PollingNext]_pvars PROVE TextInv' OBVIOUS
  <2>1. CASE TextNext BY <2>1, TextStep
  <2>2. CASE UNCHANGED tvars BY <2>2, TextStays
  <2> QED BY <2>1, <2>2 DEF PollingNext, pvars
<1> QED BY <1>1, <1>2, PTL DEF PollingSpec

-----------------------------------------------------------------------------
(* First and last of a key.                                                  *)

LEMMA AppendedOf ==
    ASSUME NEW X, NEW s \in Seq(X), NEW e \in X, NEW x
    PROVE  /\ x.key = e.key /\ LastOf(x, Append(s, e)) => x = e
           /\ x.key # e.key /\ LastOf(x, Append(s, e)) => LastOf(x, s)
           /\ FirstOf(x, Append(s, e)) => FirstOf(x, s) \/ (x = e /\ e.key \notin KeysOf(s))
           /\ KeysOf(Append(s, e)) = KeysOf(s) \cup {e.key}
           /\ ToSet(Append(s, e)) = ToSet(s) \cup {e}
<1> DEFINE q == Append(s, e)
           n == Len(s)
<1>1. /\ n \in Nat /\ DOMAIN q = 1..(n + 1) /\ DOMAIN s = 1..n /\ q[n + 1] = e
      /\ \A m \in 1..n : q[m] = s[m]
  BY AppendProperties
<1> HIDE DEF q, n
<1>2. ToSet(q) = ToSet(s) \cup {e} BY AppendedSet DEF q
<1>3. KeysOf(q) = KeysOf(s) \cup {e.key} BY <1>2 DEF KeysOf
<1>4. ASSUME LastOf(x, q) PROVE (x.key = e.key => x = e) /\ (x.key # e.key => LastOf(x, s))
  <2>1. PICK k \in 1..(n + 1) : q[k] = x /\ \A m \in 1..(n + 1) : q[m].key = x.key => m <= k
    BY <1>1, <1>4 DEF LastOf
  <2>2. CASE k = n + 1 BY <1>1, <2>1, <2>2
  <2>3. CASE k # n + 1
    <3>1. k \in 1..n /\ s[k] = x BY <1>1, <2>1, <2>3
    <3>2. x.key # e.key
      <4>1. n + 1 \in 1..(n + 1) /\ ~(n + 1 <= k) BY <1>1, <3>1
      <4> QED BY <1>1, <2>1, <4>1
    <3>3. \A m \in 1..n : s[m].key = x.key => m <= k BY <1>1, <2>1
    <3> QED BY <1>1, <3>1, <3>2, <3>3 DEF LastOf
  <2> QED BY <2>2, <2>3
<1>5. ASSUME FirstOf(x, q) PROVE FirstOf(x, s) \/ (x = e /\ e.key \notin KeysOf(s))
  <2>1. PICK k \in 1..(n + 1) : q[k] = x /\ \A m \in 1..(n + 1) : q[m].key = x.key => k <= m
    BY <1>1, <1>5 DEF FirstOf
  <2>2. CASE k = n + 1
    <3>1. \A m \in 1..n : s[m].key # e.key
      <4>1. \A m \in 1..n : m \in 1..(n + 1) /\ ~(n + 1 <= m) BY <1>1
      <4> QED BY <1>1, <2>1, <2>2, <4>1
    <3> QED BY <1>1, <2>1, <2>2, <3>1 DEF KeysOf, ToSet
  <2>3. CASE k # n + 1
    <3>1. k \in 1..n /\ s[k] = x BY <1>1, <2>1, <2>3
    <3>2. \A m \in 1..n : s[m].key = x.key => k <= m BY <1>1, <2>1
    <3> QED BY <1>1, <3>1, <3>2 DEF FirstOf
  <2> QED BY <2>2, <2>3
<1> QED BY <1>2, <1>3, <1>4, <1>5 DEF q

LEMMA TailOf ==
    ASSUME NEW X, NEW q \in Seq(X), q # <<>>, NEW x, NEW h, h = Head(q), NEW r, r = Tail(q)
    PROVE  /\ LastOf(x, r) => LastOf(x, q)
           /\ x.key # h.key /\ FirstOf(x, r) => FirstOf(x, q)
           /\ FirstOf(h, q)
           /\ KeysOf(q) = KeysOf(r) \cup {h.key} /\ ToSet(q) = ToSet(r) \cup {h}
           /\ (Alternates(q) => Alternates(r)) /\ (Alternates(q) /\ FirstOf(h, r) => h.key = NoId)
           /\ h.key \notin KeysOf(r) => LastOf(h, q)
<1> DEFINE n == Len(q)
<1>1. /\ n \in Nat \ {0} /\ DOMAIN q = 1..n /\ DOMAIN r = 1..(n - 1) /\ h = q[1]
      /\ \A k \in 1..(n - 1) : k + 1 \in 1..n /\ r[k] = q[k + 1]
      /\ \A k \in 1..n : k # 1 => k - 1 \in 1..(n - 1) /\ r[k - 1] = q[k]
  <2>1. r \in Seq(X) /\ Len(r) = n - 1 /\ n \in Nat \ {0} /\ h = q[1] /\ \A k \in 1..(n - 1) : r[k] = q[k + 1]
    BY HeadTailProperties
  <2>2. \A k \in 1..n : k # 1 => k - 1 \in 1..(n - 1) /\ (k - 1) + 1 = k BY <2>1
  <2> HIDE DEF n
  <2> QED BY <2>1, <2>2 DEF n
<1> HIDE DEF n
<1>2. ASSUME LastOf(x, r) PROVE LastOf(x, q)
  <2>1. PICK k \in 1..(n - 1) : r[k] = x /\ \A m \in 1..(n - 1) : r[m].key = x.key => m <= k
    BY <1>1, <1>2 DEF LastOf
  <2>2. \A m \in 1..n : q[m].key = x.key => m <= k + 1
    <3> SUFFICES ASSUME NEW m \in 1..n, q[m].key = x.key PROVE m <= k + 1 OBVIOUS
    <3>1. CASE m = 1 BY <3>1
    <3>2. CASE m # 1
      <4>1. m - 1 <= k BY <1>1, <2>1, <3>2
      <4> QED BY <4>1
    <3> QED BY <3>1, <3>2
  <2> QED BY <1>1, <2>1, <2>2 DEF LastOf
<1>3. ASSUME x.key # h.key, FirstOf(x, r) PROVE FirstOf(x, q)
  <2>1. PICK k \in 1..(n - 1) : r[k] = x /\ \A m \in 1..(n - 1) : r[m].key = x.key => k <= m
    BY <1>1, <1>3 DEF FirstOf
  <2>2. \A m \in 1..n : q[m].key = x.key => k + 1 <= m
    <3> SUFFICES ASSUME NEW m \in 1..n, q[m].key = x.key PROVE k + 1 <= m OBVIOUS
    <3>1. m # 1 BY <1>1, <1>3
    <3>2. k <= m - 1 BY <1>1, <2>1, <3>1
    <3> QED BY <3>2
  <2> QED BY <1>1, <2>1, <2>2 DEF FirstOf
<1>4. FirstOf(h, q)
  <2>1. 1 \in 1..n /\ \A m \in 1..n : 1 <= m BY <1>1
  <2> QED BY <1>1, <2>1 DEF FirstOf
<1>5. ToSet(q) = ToSet(r) \cup {h}
  <2>1. ToSet(q) = {q[k] : k \in 1..n} /\ ToSet(r) = {r[k] : k \in 1..(n - 1)} BY <1>1 DEF ToSet
  <2>2. \A k \in 1..n : q[k] = h \/ q[k] \in ToSet(r) BY <1>1, <2>1
  <2>3. \A k \in 1..(n - 1) : r[k] \in ToSet(q) BY <1>1, <2>1
  <2>4. h \in ToSet(q)
    <3>1. 1 \in 1..n BY <1>1
    <3> QED BY <1>1, <2>1, <3>1
  <2>5. \A y \in ToSet(q) : y = h \/ y \in ToSet(r) BY <2>1, <2>2
  <2>6. \A y \in ToSet(r) : y \in ToSet(q) BY <2>1, <2>3
  <2> QED BY ONLY <2>4, <2>5, <2>6
<1>6. KeysOf(q) = KeysOf(r) \cup {h.key} BY <1>5 DEF KeysOf
<1>7. ASSUME Alternates(q), NEW k \in 1..(n - 1), NEW m \in 1..(n - 1), k < m, r[k] = r[m], r[k].key # NoId
      PROVE  \E l \in 1..(n - 1) : k < l /\ l < m /\ r[l].key = r[k].key
  <2>1. /\ k + 1 \in 1..n /\ m + 1 \in 1..n /\ k + 1 < m + 1
        /\ q[k + 1] = q[m + 1] /\ q[k + 1].key # NoId
    BY <1>1, <1>7
  <2>2. PICK l \in 1..n : k + 1 < l /\ l < m + 1 /\ q[l].key = q[k + 1].key
    BY <1>1, <1>7, <2>1 DEF Alternates
  <2>3. l - 1 \in 1..(n - 1) /\ r[l - 1] = q[l] /\ k < l - 1 /\ l - 1 < m BY <1>1, <2>2
  <2>4. r[k] = q[k + 1] BY <1>1
  <2> QED BY <2>2, <2>3, <2>4
<1>8. ASSUME Alternates(q) PROVE Alternates(r)
  <2>1. DOMAIN r = 1..(n - 1) BY <1>1
  <2>2. \A k, m \in 1..(n - 1) : k < m /\ r[k] = r[m] /\ r[k].key # NoId
          => \E l \in 1..(n - 1) : k < l /\ l < m /\ r[l].key = r[k].key
    BY <1>7, <1>8
  <2> QED BY ONLY <2>1, <2>2 DEF Alternates
<1>10. ASSUME h.key \notin KeysOf(r) PROVE LastOf(h, q)
  <2>1. \A k \in 1..(n - 1) : r[k].key # h.key BY <1>1, <1>10 DEF KeysOf, ToSet
  <2>2. \A k \in 1..n : q[k].key = h.key => k = 1 BY <1>1, <2>1
  <2>3. 1 \in 1..n /\ \A k \in 1..n : q[k].key = h.key => k <= 1 BY <1>1, <2>2
  <2> QED BY <1>1, <2>3 DEF LastOf
<1>9. ASSUME Alternates(q), FirstOf(h, r), h.key # NoId PROVE FALSE
  <2>1. PICK k \in 1..(n - 1) : r[k] = h /\ \A m \in 1..(n - 1) : r[m].key = h.key => k <= m
    BY <1>1, <1>9 DEF FirstOf
  <2>2. 1 \in 1..n /\ k + 1 \in 1..n /\ 1 < k + 1 /\ q[1] = q[k + 1] /\ q[1].key # NoId
    BY <1>1, <1>9, <2>1
  <2>3. PICK l \in 1..n : 1 < l /\ l < k + 1 /\ q[l].key = q[1].key BY <1>1, <1>9, <2>2 DEF Alternates
  <2>4. l # 1 /\ l - 1 \in 1..(n - 1) /\ r[l - 1] = q[l] BY <1>1, <2>3
  <2>5. k <= l - 1 BY <1>1, <2>1, <2>3, <2>4
  <2> QED BY <2>3, <2>5
<1> QED BY <1>2, <1>3, <1>4, <1>5, <1>6, <1>8, <1>9, <1>10

\* An entry that is not the last of its key alternates with what came before.
LEMMA AlternatesOn ==
    ASSUME NEW X, NEW s \in Seq(X), NEW e \in X, Alternates(s), LastOf(e, s) => e.key = NoId
    PROVE  Alternates(Append(s, e))
<1> DEFINE q == Append(s, e)
           n == Len(s)
<1>1. /\ n \in Nat /\ DOMAIN q = 1..(n + 1) /\ DOMAIN s = 1..n /\ q[n + 1] = e
      /\ \A m \in 1..n : q[m] = s[m]
  BY AppendProperties
<1> HIDE DEF q, n
<1> SUFFICES ASSUME NEW k \in 1..(n + 1), NEW m \in 1..(n + 1), k < m, q[k] = q[m], q[k].key # NoId
             PROVE  \E l \in 1..(n + 1) : k < l /\ l < m /\ q[l].key = q[k].key
  BY <1>1 DEF Alternates, q
<1>2. k \in 1..n /\ q[k] = s[k] BY <1>1
<1>3. CASE m = n + 1
  <2>1. s[k] = e /\ e.key # NoId BY <1>1, <1>2, <1>3
  <2>2. ~\A l \in 1..n : s[l].key = e.key => l <= k BY <1>1, <1>2, <2>1 DEF LastOf
  <2>3. PICK l \in 1..n : s[l].key = e.key /\ ~(l <= k) BY <2>2
  <2>4. l \in 1..(n + 1) /\ k < l /\ l < m /\ q[l] = s[l] BY <1>1, <1>2, <1>3, <2>3
  <2> QED BY <1>2, <2>1, <2>3, <2>4
<1>4. CASE m # n + 1
  <2>3. m \in 1..n BY <1>1, <1>4
  <2>1. m \in 1..n /\ s[k] = s[m] /\ s[k].key # NoId BY <1>1, <1>2, <2>3
  <2>2. PICK l \in 1..n : k < l /\ l < m /\ s[l].key = s[k].key BY <1>1, <1>2, <2>1 DEF Alternates
  <2> QED BY <1>1, <1>2, <2>2
<1> QED BY <1>3, <1>4

-----------------------------------------------------------------------------
(* What the live segment writes is news.                                     *)

LEMMA FreshSight ==
    ASSUME NEW m \in Minds, NEW e \in Entries, NEW s, s = Sight(m, e),
           NEW rows, NEW saved, Fresh(m, rows, saved)
    PROVE  s \in Minds /\ Fresh(s, rows, saved)
<1>1. s \in Minds BY SightIs
<1>2. m.batch \in Seq(Entries) BY MindIs
<1>3. \A x : /\ x.key = e.key /\ LastOf(x, Append(m.batch, e)) => x = e
             /\ x.key # e.key /\ LastOf(x, Append(m.batch, e)) => LastOf(x, m.batch)
             /\ FirstOf(x, Append(m.batch, e)) => FirstOf(x, m.batch) \/ (x = e /\ e.key \notin KeysOf(m.batch))
  BY <1>2, AppendedOf
<1>4. KeysOf(Append(m.batch, e)) = KeysOf(m.batch) \cup {e.key} BY <1>2, AppendedOf
<1>5. (LastOf(e, m.batch) => e.key = NoId) => Alternates(Append(m.batch, e))
  BY <1>2, AlternatesOn DEF Fresh
<1>6. CASE SightOfNone(m, e, s) BY <1>1, <1>3, <1>4, <1>5, <1>6 DEF Fresh, SightOfNone
<1>7. CASE SightOfOld(m, e, s) BY <1>1, <1>7 DEF Fresh, SightOfOld
<1>8. CASE SightOfNew(m, e, s)
  <2>1. /\ e.key # NoId /\ e \notin ToSet(m.seen) /\ s.batch = Append(m.batch, e)
        /\ ToSet(s.seen) = {x \in ToSet(m.seen) : x.key # e.key} \cup {e}
    BY <1>8 DEF SightOfNew
  <2>2. Alternates(s.batch) BY <1>5, <2>1 DEF Fresh
  <2>3. ASSUME NEW x, LastOf(x, rows), FirstOf(x, s.batch) PROVE x.key = NoId
    <3>1. CASE FirstOf(x, m.batch) BY <2>3, <3>1 DEF Fresh
    <3>2. CASE x = e /\ e.key \notin KeysOf(m.batch) BY <2>1, <2>3, <3>2 DEF Fresh
    <3> QED BY <1>3, <2>1, <2>3, <3>1, <3>2
  <2>4. ASSUME NEW x, LastOf(x, s.batch) PROVE x.key = NoId \/ x \in ToSet(s.seen)
    <3>1. CASE x.key = e.key BY <1>3, <2>1, <2>4, <3>1
    <3>2. CASE x.key # e.key
      <4>1. LastOf(x, m.batch) BY <1>3, <2>1, <2>4, <3>2
      <4> QED BY <2>1, <3>2, <4>1 DEF Fresh
    <3> QED BY <3>1, <3>2
  <2>5. ASSUME NEW x, LastOf(x, rows) PROVE x.key \in KeysOf(s.batch) \/ x \in ToSet(s.seen)
    BY <1>4, <2>1, <2>5 DEF Fresh
  <2>6. ASSUME NEW x, FirstOf(x, s.batch)
        PROVE  x.key = NoId \/ x.key \in KeysOf(rows) \/ x \notin ToSet(saved)
    <3>1. CASE FirstOf(x, m.batch) BY <3>1 DEF Fresh
    <3>2. CASE x = e /\ e.key \notin KeysOf(m.batch) BY <2>1, <3>2 DEF Fresh
    <3> QED BY <1>3, <2>1, <2>6, <3>1, <3>2
  <2>7. ASSUME NEW x \in ToSet(saved)
        PROVE  x.key \in KeysOf(rows) \/ x.key \in KeysOf(s.batch) \/ x \in ToSet(s.seen)
    BY <1>4, <2>1 DEF Fresh
  <2> QED BY <1>1, <2>2, <2>3, <2>4, <2>5, <2>6, <2>7 DEF Fresh
<1>9. SightOfNone(m, e, s) \/ SightOfOld(m, e, s) \/ SightOfNew(m, e, s) BY SightIs
<1> QED BY <1>6, <1>7, <1>8, <1>9

\* What every sight keeps a poll keeps.
LEMMA SightAllIn ==
    ASSUME NEW Q \in SUBSET Minds, \A m \in Q, e \in Entries : Sight(m, e) \in Q,
           NEW m \in Q, NEW body \in Seq(Entries)
    PROVE  SightAll(m, body) \in Q
<1> DEFINE n == Len(body)
<1>1. n \in Nat /\ m \in Minds /\ \A k \in 1..n : body[k] \in Entries OBVIOUS
<1>2. PICK a : Sightings(a, m, body) /\ SightAll(m, body) = a[n] BY <1>1, SightAllIs
<1>3. a[0] = m /\ \A k \in 1..n : a[k] = Sight(a[k - 1], body[k]) BY <1>2 DEF Sightings
<1> DEFINE T == {k \in 0..n : a[k] \in Q}
<1> HIDE DEF n
<1>4. 0 \in T BY <1>1, <1>3
<1>5. ASSUME NEW k \in 1..n, k - 1 \in T PROVE k \in T
  <2>1. k \in 0..n /\ a[k - 1] \in Q BY <1>1, <1>5
  <2>2. a[k] \in Q BY <1>1, <1>3, <2>1
  <2> QED BY <2>1, <2>2
<1>6. n \in T
  <2> HIDE DEF T
  <2> QED BY <1>1, <1>4, <1>5, Stepwise
<1> QED BY <1>2, <1>6

LEMMA SightFeedsIn ==
    ASSUME TextState, Reading, NEW Q \in SUBSET Minds, \A m \in Q, e \in Entries : Sight(m, e) \in Q,
           reader \in Q, NEW asked \in SUBSET Feeds
    PROVE  SightFeeds(asked) \in Q
<1> DEFINE n == Len(Bodies)
<1>1. n \in Nat /\ Feeds = 1..n BY FeedsAre
<1>2. PICK a : FeedSightings(a, asked) /\ SightFeeds(asked) = a[n] BY SightFeedsAre
<1>3. a[0] = reader /\ \A f \in 1..n : a[f] = FeedStep(a[f - 1], f, asked) BY <1>2 DEF FeedSightings
<1> DEFINE T == {k \in 0..n : a[k] \in Q}
<1> HIDE DEF n
<1>4. 0 \in T BY <1>1, <1>3
<1>5. ASSUME NEW k \in 1..n, k - 1 \in T PROVE k \in T
  <2>1. k \in 0..n /\ a[k - 1] \in Q BY <1>1, <1>5
  <2>2. served[k].body \in Seq(Entries) BY <1>1, BodiesTyped
  <2>3. SightAll(a[k - 1], served[k].body) \in Q BY <2>1, <2>2, SightAllIn
  <2>4. a[k] \in Q BY <1>3, <2>1, <2>3 DEF FeedStep
  <2> QED BY <2>1, <2>4
<1>6. n \in T
  <2> HIDE DEF T
  <2> QED BY <1>1, <1>4, <1>5, Stepwise
<1> QED BY <1>2, <1>6

LEMMA PollFresh ==
    ASSUME TextInv, NEW failing \in SUBSET Feeds, PollFeeds(failing), Fresh(reader, texts[Own].rows, seenFile)
    PROVE  Fresh(reader', texts[Own].rows, seenFile)
<1>1. Reading /\ reader.batch = <<>> BY PollFeedsIs
<1>2. PICK asked \in SUBSET Feeds, held \in [Feeds -> Nat] :
        reader' = [SightFeeds(asked) EXCEPT !.held = held, !.begun = FALSE]
  BY PollFeedsIs
<1> DEFINE s == SightFeeds(asked)
           Q == {m \in Minds : Fresh(m, texts[Own].rows, seenFile)}
<1>3. TextState /\ reader \in Minds BY <1>1, ReaderTyped DEF TextInv
<1>4. \A m \in Q, e \in Entries : Sight(m, e) \in Q BY FreshSight
<1>5. s \in Q
  <2>1. reader \in Q /\ Q \in SUBSET Minds BY <1>3
  <2> HIDE DEF Q, s
  <2> QED BY <1>1, <1>3, <1>4, <2>1, SightFeedsIn DEF s
<1> HIDE DEF s
<1>6. s \in Minds /\ Fresh(s, texts[Own].rows, seenFile) BY <1>5
<1>7. reader'.seen = s.seen /\ reader'.batch = s.batch BY <1>2, <1>6 DEF Minds, Memo, s
<1> QED BY <1>6, <1>7 DEF Fresh

LEMMA WriteFresh ==
    ASSUME NEW m \in Minds, m.batch # <<>>, NEW h, h = Head(m.batch), NEW rows \in Seq(Items),
           NEW saved \in Seq(Items), Fresh(m, rows, saved), NEW u, u.seen = m.seen, u.batch = Tail(m.batch)
    PROVE  /\ h.key = NoId => Fresh(u, rows, saved)
           /\ h.key # NoId => Fresh(u, Append(rows, h), saved)
           /\ h.key # NoId /\ Alternates(rows) => Alternates(Append(rows, h))
<1> DEFINE q == m.batch
           r == u.batch
           new == Append(rows, h)
<1>1. q \in Seq(Entries) /\ h \in Entries BY MindIs, HeadTailProperties
<1>2. /\ \A x : LastOf(x, r) => LastOf(x, q)
      /\ \A x : x.key # h.key /\ FirstOf(x, r) => FirstOf(x, q)
      /\ FirstOf(h, q) /\ KeysOf(q) = KeysOf(r) \cup {h.key}
      /\ Alternates(r) /\ (FirstOf(h, r) => h.key = NoId)
      /\ h.key \notin KeysOf(r) => LastOf(h, q)
  BY <1>1, TailOf DEF Fresh
<1>3. \A x \in ToSet(saved) : x.key # NoId BY InSet DEF Items
<1>4. \A x : LastOf(x, rows) => x.key # NoId BY DEF LastOf, Items
<1> HIDE DEF q, r
<1>5. ASSUME h.key = NoId PROVE Fresh(u, rows, saved)
  <2>1. \A x : LastOf(x, rows) /\ FirstOf(x, r) => x.key = NoId BY <1>2, <1>5 DEF Fresh, q
  <2>2. \A x : LastOf(x, r) => x.key = NoId \/ x \in ToSet(u.seen) BY <1>2 DEF Fresh, q
  <2>3. \A x : LastOf(x, rows) => x.key \in KeysOf(r) \/ x \in ToSet(u.seen)
    BY <1>2, <1>4, <1>5 DEF Fresh, q
  <2>4. \A x : FirstOf(x, r) => x.key = NoId \/ x.key \in KeysOf(rows) \/ x \notin ToSet(saved)
    BY <1>2, <1>5 DEF Fresh, q
  <2>5. \A x \in ToSet(saved) : x.key \in KeysOf(rows) \/ x.key \in KeysOf(r) \/ x \in ToSet(u.seen)
    BY <1>2, <1>3, <1>5 DEF Fresh, q
  <2> QED BY <1>2, <2>1, <2>2, <2>3, <2>4, <2>5 DEF Fresh, r
<1>6. ASSUME h.key # NoId
      PROVE  Fresh(u, new, saved) /\ (Alternates(rows) => Alternates(new))
  <2>1. h \in Items BY <1>1, <1>6 DEF Items
  <2>2. /\ \A x : x.key = h.key /\ LastOf(x, new) => x = h
        /\ \A x : x.key # h.key /\ LastOf(x, new) => LastOf(x, rows)
        /\ KeysOf(new) = KeysOf(rows) \cup {h.key}
    BY <2>1, AppendedOf
  <2>3. ~LastOf(h, rows) BY <1>2, <1>6 DEF Fresh, q
  <2>4. Alternates(rows) => Alternates(new) BY <2>1, <2>3, AlternatesOn
  <2> HIDE DEF new
  <2>5. ASSUME NEW x, LastOf(x, new), FirstOf(x, r) PROVE x.key = NoId
    <3>1. CASE x.key = h.key BY <1>2, <2>2, <2>5, <3>1
    <3>2. CASE x.key # h.key BY <1>2, <2>2, <2>5, <3>2 DEF Fresh, q
    <3> QED BY <3>1, <3>2
  <2>6. \A x : LastOf(x, r) => x.key = NoId \/ x \in ToSet(u.seen) BY <1>2 DEF Fresh, q
  <2>7. ASSUME NEW x, LastOf(x, new) PROVE x.key \in KeysOf(r) \/ x \in ToSet(u.seen)
    <3>1. CASE x.key = h.key
      <4>1. x = h BY <2>2, <2>7, <3>1
      <4>2. h.key \notin KeysOf(r) => h \in ToSet(m.seen) BY <1>2, <1>6 DEF Fresh, q
      <4> QED BY <4>1, <4>2
    <3>2. CASE x.key # h.key BY <1>2, <2>2, <2>7, <3>2 DEF Fresh, q
    <3> QED BY <3>1, <3>2
  <2>8. ASSUME NEW x, FirstOf(x, r)
        PROVE  x.key = NoId \/ x.key \in KeysOf(new) \/ x \notin ToSet(saved)
    <3>1. CASE x.key = h.key BY <2>2, <3>1
    <3>2. CASE x.key # h.key BY <1>2, <2>2, <2>8, <3>2 DEF Fresh, q
    <3> QED BY <3>1, <3>2
  <2>9. \A x \in ToSet(saved) : x.key \in KeysOf(new) \/ x.key \in KeysOf(r) \/ x \in ToSet(u.seen)
    BY <1>2, <2>2 DEF Fresh, q
  <2> QED BY <1>2, <2>4, <2>5, <2>6, <2>7, <2>8, <2>9 DEF Fresh, r
<1> QED BY <1>5, <1>6 DEF new

-----------------------------------------------------------------------------
(* The order of what is remembered.                                          *)

\* In r: what is not among the keys of K is as it was in s, before what is.
Follows(s, r, K) ==
    \A k, m \in DOMAIN r : k < m =>
        \/ r[m].key \in K
        \/ r[k].key \notin K /\ \E a, b \in DOMAIN s : a < b /\ s[a] = r[k] /\ s[b] = r[m]

LEMMA RememberFollows ==
    ASSUME NEW X, NEW s \in Seq(X), OncePerKey(s), NEW e \in X, NEW r, r = Remember(s, e)
    PROVE  Follows(s, r, {e.key})
<1> DEFINE p == Pop(s, e.key)
           n == Len(p)
<1>1. p \in Seq(X) /\ (\A m \in 1..n : p[m].key # e.key) /\ n \in Nat
      /\ \A k, m \in 1..n : k < m => \E a, b \in DOMAIN s : a < b /\ s[a] = p[k] /\ s[b] = p[m]
  <2>1. CASE e.key \in KeysOf(s)
    <3>1. \E k \in DOMAIN s : s[k].key = e.key BY <2>1 DEF KeysOf, ToSet
    <3> DEFINE c == CHOOSE k \in DOMAIN s : s[k].key = e.key
    <3>2. c \in DOMAIN s /\ s[c].key = e.key BY <3>1
    <3>3. p = RemoveAt(s, c) BY <2>1 DEF Pop
    <3> HIDE DEF c, p
    <3>4. /\ p \in Seq(X) /\ Len(p) = Len(s) - 1 /\ Len(s) \in Nat
          /\ \A m \in 1..(Len(s) - 1) : p[m] = IF m < c THEN s[m] ELSE s[m + 1]
      BY <3>2, <3>3, RemovedIs
    <3> DEFINE Where(m) == IF m < c THEN m ELSE m + 1
    <3>5. \A m \in 1..n : Where(m) \in DOMAIN s /\ Where(m) # c /\ p[m] = s[Where(m)] BY <3>2, <3>4
    <3>6. \A k, m \in 1..n : k < m => Where(k) < Where(m) BY <3>2
    <3> HIDE DEF Where
    <3>7. \A m \in 1..n : p[m].key # e.key BY <3>2, <3>5 DEF OncePerKey
    <3>8. n \in Nat BY <3>4
    <3> QED BY <3>4, <3>5, <3>6, <3>7, <3>8
  <2>2. CASE e.key \notin KeysOf(s)
    <3>1. p = s BY <2>2 DEF Pop
    <3>2. \A m \in 1..Len(s) : s[m].key # e.key BY <2>2 DEF KeysOf, ToSet
    <3> QED BY <3>1, <3>2
  <2> QED BY <2>1, <2>2
<1>2. r = Append(p, e) BY DEF Remember
<1> HIDE DEF p, n
<1>3. DOMAIN r = 1..(n + 1) /\ r[n + 1] = e /\ \A m \in 1..n : r[m] = p[m]
  BY <1>1, <1>2, AppendProperties DEF n
<1> SUFFICES ASSUME NEW k \in 1..(n + 1), NEW m \in 1..(n + 1), k < m, r[m].key # e.key
             PROVE  r[k].key # e.key /\ \E a, b \in DOMAIN s : a < b /\ s[a] = r[k] /\ s[b] = r[m]
  BY <1>3 DEF Follows
<1>4. m # n + 1 BY <1>3
<1>5. m \in 1..n /\ k \in 1..n BY <1>1, <1>4
<1>6. r[k] = p[k] /\ r[m] = p[m] BY <1>3, <1>5
<1>7. r[k].key # e.key BY <1>1, <1>5, <1>6
<1>8. \E a, b \in DOMAIN s : a < b /\ s[a] = p[k] /\ s[b] = p[m] BY <1>1, <1>5
<1> QED BY <1>6, <1>7, <1>8

LEMMA FollowsOn ==
    ASSUME NEW s, NEW t, NEW r, NEW K, NEW L, Follows(s, t, K), Follows(t, r, L)
    PROVE  Follows(s, r, K \cup L)
<1> SUFFICES ASSUME NEW k \in DOMAIN r, NEW m \in DOMAIN r, k < m, r[m].key \notin K \cup L
             PROVE  /\ r[k].key \notin K \cup L
                    /\ \E a, b \in DOMAIN s : a < b /\ s[a] = r[k] /\ s[b] = r[m]
  BY DEF Follows
<1>1. r[k].key \notin L /\ \E a, b \in DOMAIN t : a < b /\ t[a] = r[k] /\ t[b] = r[m] BY DEF Follows
<1>2. PICK a \in DOMAIN t, b \in DOMAIN t : a < b /\ t[a] = r[k] /\ t[b] = r[m] BY <1>1
<1>3. t[a].key \notin K /\ \E c, d \in DOMAIN s : c < d /\ s[c] = t[a] /\ s[d] = t[b]
  BY <1>2 DEF Follows
<1> QED BY <1>1, <1>2, <1>3

LEMMA FollowsWider ==
    ASSUME NEW s, NEW r, NEW K, NEW L, Follows(s, r, K), K = L PROVE Follows(s, r, L)
OBVIOUS

\* What is remembered of a sequence: the last of each key in it, and all else that was.
LEMMA RememberedAll ==
    ASSUME NEW X, NEW s \in Seq(X), OncePerKey(s), NEW q \in Seq(X), NEW r, r = RememberAll(s, q)
    PROVE  /\ \A x : LastOf(x, q) => x \in ToSet(r)
           /\ \A x \in ToSet(s) : x.key \notin KeysOf(q) => x \in ToSet(r)
           /\ Follows(s, r, KeysOf(q))
<1> DEFINE n == Len(q)
           D == {t \in Seq(X) : OncePerKey(t)}
           K(k) == {q[l].key : l \in 1..k}
<1>1. n \in Nat /\ DOMAIN q = 1..n OBVIOUS
<1>2. PICK after : Memories(after, s, q, X) /\ r = after[n] BY RememberAllIs
<1>3. /\ after \in [0..n -> D] /\ after[0] = s
      /\ \A k \in 1..n : after[k] = Remember(after[k - 1], q[k])
  BY <1>2 DEF Memories
<1>4. \A k \in 1..n : q[k] \in X OBVIOUS
<1> HIDE DEF n
<1>5. ASSUME NEW k \in 1..n
      PROVE  /\ after[k - 1] \in Seq(X) /\ OncePerKey(after[k - 1])
             /\ ToSet(after[k]) = {x \in ToSet(after[k - 1]) : x.key # q[k].key} \cup {q[k]}
             /\ Follows(after[k - 1], after[k], {q[k].key})
  <2>1. k - 1 \in 0..n BY <1>1
  <2>2. after[k - 1] \in D BY <1>3, <2>1
  <2>3. after[k - 1] \in Seq(X) /\ OncePerKey(after[k - 1]) BY <2>2
  <2>4. after[k] = Remember(after[k - 1], q[k]) BY <1>3
  <2> DEFINE t == after[k - 1]
             u == after[k]
             e == q[k]
  <2>5. t \in Seq(X) /\ OncePerKey(t) /\ e \in X /\ u = Remember(t, e) BY <1>4, <2>3, <2>4
  <2> HIDE DEF t, u, e
  <2>6. ToSet(u) = {x \in ToSet(t) : x.key # e.key} \cup {e} BY <2>5, RememberIs
  <2>7. Follows(t, u, {e.key}) BY <2>5, RememberFollows
  <2> QED BY <2>5, <2>6, <2>7 DEF t, u, e
<1> HIDE DEF D
<1>6. ASSUME NEW k \in 1..n PROVE K(k) = K(k - 1) \cup {q[k].key}
  <2>1. \A l \in 1..k : l \in 1..(k - 1) \/ l = k BY <1>1
  <2>2. \A l \in 1..(k - 1) : l \in 1..k BY <1>1
  <2>3. k \in 1..k BY <1>1
  <2> QED BY <2>1, <2>2, <2>3
<1>7. K(0) = {} OBVIOUS
<1> DEFINE Lasts(k) == \A m \in 1..k : (\A l \in 1..k : q[l].key = q[m].key => l <= m) => q[m] \in ToSet(after[k])
           Others(k) == \A x \in ToSet(s) : x.key \notin K(k) => x \in ToSet(after[k])
           T == {k \in 0..n : Lasts(k) /\ Others(k) /\ Follows(s, after[k], K(k))}
<1>8. 0 \in T
  <2>1. Follows(s, s, {})
    <3>1. \A k, m \in DOMAIN s : k < m => \E a, b \in DOMAIN s : a < b /\ s[a] = s[k] /\ s[b] = s[m] OBVIOUS
    <3> QED BY <3>1 DEF Follows
  <2>2. Lasts(0) /\ Others(0) BY <1>3
  <2> HIDE DEF Lasts, Others, K
  <2>3. Follows(s, after[0], K(0)) BY <1>3, <1>7, <2>1
  <2> QED BY <1>1, <2>2, <2>3
<1>9. ASSUME NEW k \in 1..n, k - 1 \in T PROVE k \in T
  <2>1. Lasts(k - 1) /\ Others(k - 1) /\ Follows(s, after[k - 1], K(k - 1)) BY <1>9
  <2>2. K(k) = K(k - 1) \cup {q[k].key} BY <1>6
  <2>3. Lasts(k)
    <3> SUFFICES ASSUME NEW m \in 1..k, \A l \in 1..k : q[l].key = q[m].key => l <= m
                 PROVE  q[m] \in ToSet(after[k])
      OBVIOUS
    <3>1. CASE m = k BY <1>5, <3>1
    <3>2. CASE m # k
      <4>1. m \in 1..(k - 1) /\ k \in 1..k /\ ~(k <= m) /\ \A l \in 1..(k - 1) : l \in 1..k BY <1>1, <3>2
      <4>2. q[m].key # q[k].key BY <4>1
      <4>3. q[m] \in ToSet(after[k - 1]) BY <2>1, <4>1
      <4> QED BY <1>5, <4>2, <4>3
    <3> QED BY <3>1, <3>2
  <2> HIDE DEF K, Lasts
  <2>4. Others(k) BY <1>5, <2>1, <2>2
  <2>5. Follows(s, after[k], K(k))
    <3>1. Follows(after[k - 1], after[k], {q[k].key}) BY <1>5
    <3>2. Follows(s, after[k], K(k - 1) \cup {q[k].key}) BY <2>1, <3>1, FollowsOn
    <3> QED BY <2>2, <3>2
  <2>6. k \in 0..n BY <1>1
  <2> HIDE DEF Others
  <2> QED BY <2>3, <2>4, <2>5, <2>6
<1>10. n \in T
  <2> HIDE DEF T
  <2> QED BY <1>1, <1>8, <1>9, Stepwise
<1>11. Lasts(n) /\ Others(n) /\ Follows(s, r, K(n))
  <2> HIDE DEF Lasts, Others, K
  <2> QED BY <1>2, <1>10 DEF n
<1>12. K(n) = KeysOf(q) BY <1>1 DEF KeysOf, ToSet
<1>13. \A x : LastOf(x, q) => x \in ToSet(r)
  <2> SUFFICES ASSUME NEW x, LastOf(x, q) PROVE x \in ToSet(r) OBVIOUS
  <2>1. PICK m \in 1..n : q[m] = x /\ \A l \in 1..n : q[l].key = x.key => l <= m BY <1>1 DEF LastOf
  <2>2. q[m] \in ToSet(after[n]) BY <1>11, <2>1
  <2> QED BY <1>2, <2>1, <2>2 DEF n
<1>14. \A x \in ToSet(s) : x.key \notin KeysOf(q) => x \in ToSet(r) BY <1>2, <1>11, <1>12 DEF n
<1> HIDE DEF K
<1> QED BY <1>11, <1>12, <1>13, <1>14

\* What does not fit is the oldest.
LEMMA MostRecentOf ==
    ASSUME NEW X, NEW s \in Seq(X), NEW r, r = MostRecent(s)
    PROVE  /\ \A x \in ToSet(s) : x \in ToSet(r) \/ \E k \in 1..(Len(s) - SeenCap) : s[k] = x
           /\ Follows(s, r, {})
<1>1. SeenCap \in Nat \ {0} /\ Len(s) \in Nat BY TextFeedAssumption
<1>2. CASE Len(s) > SeenCap
  <2> DEFINE d == Len(s) - SeenCap
  <2>1. r = SubSeq(s, d + 1, Len(s)) /\ d \in Nat BY <1>1, <1>2 DEF MostRecent
  <2>2. \A i \in (d + 1)..Len(s) : s[i] \in X BY <1>1, <2>1
  <2>3. r \in Seq(X) /\ Len(r) = SeenCap /\ \A k \in 1..SeenCap : r[k] = s[d + k]
    BY <1>1, <2>1, <2>2
  <2>4. DOMAIN r = 1..SeenCap /\ DOMAIN s = 1..Len(s) BY <2>3
  <2>5. ASSUME NEW x \in ToSet(s) PROVE x \in ToSet(r) \/ \E k \in 1..d : s[k] = x
    <3>1. PICK k \in 1..Len(s) : s[k] = x BY <2>4 DEF ToSet
    <3>2. CASE k <= d
      <4>1. k \in 1..d BY <3>2
      <4> QED BY <3>1, <4>1
    <3>3. CASE ~(k <= d)
      <4>1. k - d \in 1..SeenCap /\ d + (k - d) = k BY <1>1, <2>1, <3>3
      <4>2. r[k - d] = x BY <2>3, <3>1, <4>1
      <4> QED BY <2>4, <4>1, <4>2 DEF ToSet
    <3> QED BY <3>2, <3>3
  <2>6. ASSUME NEW k \in 1..SeenCap, NEW m \in 1..SeenCap, k < m
        PROVE  \E a, b \in DOMAIN s : a < b /\ s[a] = r[k] /\ s[b] = r[m]
    <3>1. d + k \in DOMAIN s /\ d + m \in DOMAIN s /\ d + k < d + m BY <1>1, <2>1, <2>4, <2>6
    <3> QED BY <2>3, <3>1
  <2> QED BY <2>4, <2>5, <2>6 DEF Follows
<1>3. CASE ~(Len(s) > SeenCap)
  <2>1. r = s BY <1>1, <1>3 DEF MostRecent
  <2>2. \A k, m \in DOMAIN s : k < m => \E a, b \in DOMAIN s : a < b /\ s[a] = s[k] /\ s[b] = s[m] OBVIOUS
  <2> QED BY <2>1, <2>2 DEF Follows
<1> QED BY <1>2, <1>3

-----------------------------------------------------------------------------
(* What the file had to forget.                                              *)

LEMMA KeysFinite == ASSUME NEW X, NEW q \in Seq(X) PROVE IsFiniteSet(KeysOf(q))
<1> DEFINE f == [k \in 1..Len(q) |-> q[k].key]
<1>1. Len(q) \in Nat /\ DOMAIN q = 1..Len(q) OBVIOUS
<1>2. f \in Surjection(1..Len(q), KeysOf(q)) BY <1>1 DEF Surjection, KeysOf, ToSet
<1>3. IsFiniteSet(1..Len(q)) BY <1>1, FS_Interval
<1> QED BY <1>2, <1>3, FS_Surjection

LEMMA EvictedIs ==
    \A key : \A i, j : Evicted(key, i, j) <=> EvictedIn(texts, key, i, j)
BY DEF Evicted, EvictedIn, SinceIn, Closed, ClosedTexts

\* Later runs do not matter.
LEMMA EvictedStays ==
    ASSUME NEW t, NEW u, NEW key, NEW i \in Int, NEW j \in Int, NEW jj \in Int, j <= jj,
           \A c \in i..(j - 1) : /\ c \in Closed(t) <=> c \in Closed(u)
                                 /\ c \in Closed(t) => u[c].sighted = t[c].sighted,
           EvictedIn(t, key, i, j)
    PROVE  EvictedIn(u, key, i, jj)
<1>1. PICK m \in Closed(t) \cap (i..(j - 1)) :
        Cardinality((UNION {t[l].sighted : l \in SinceIn(t, key, i, m)}) \ {key}) >= SeenCap
  BY DEF EvictedIn
<1>2. m \in Closed(u) \cap (i..(jj - 1)) BY <1>1
<1>3. \A l \in i..m : l \in i..(j - 1) /\ (l + 1)..m \subseteq i..(j - 1) BY <1>1
<1>4. SinceIn(u, key, i, m) = SinceIn(t, key, i, m)
  <2>1. \A l \in i..m : Closed(u) \cap ((l + 1)..m) = Closed(t) \cap ((l + 1)..m) BY <1>3
  <2>2. \A l \in i..m : \A c \in Closed(t) \cap ((l + 1)..m) : u[c].sighted = t[c].sighted BY <1>3
  <2>3. Closed(u) \cap (i..m) = Closed(t) \cap (i..m) BY <1>3
  <2> QED BY <2>1, <2>2, <2>3 DEF SinceIn
<1>5. {u[l].sighted : l \in SinceIn(t, key, i, m)} = {t[l].sighted : l \in SinceIn(t, key, i, m)}
  <2>1. \A l \in SinceIn(t, key, i, m) : l \in Closed(t) /\ l \in i..(j - 1) BY <1>3 DEF SinceIn
  <2> QED BY <2>1
<1> QED BY <1>1, <1>2, <1>4, <1>5 DEF EvictedIn

\* What is further back than the file is long was not sighted for as many others.
LEMMA ForgottenIsEvicted ==
    ASSUME NEW u \in Seq(TextRun), NEW n, n = Len(u), n \in Closed(u), RowsWith(u),
           NEW key, NEW i \in Closed(u), key \in u[i].sighted,
           NEW r \in Seq(Items), OncePerKey(r), AgeWith(r, u),
           NEW k \in 1..(Len(r) - SeenCap), r[k].key = key
    PROVE  EvictedIn(u, key, i, n + 1)
<1> DEFINE S == {c \in Closed(u) : key \in u[c].sighted}
           G == SinceIn(u, key, i, n)
           V == {u[l].sighted : l \in G}
           W == (UNION V) \ {key}
           J == (k + 1)..Len(r)
<1>1. n \in Nat /\ DOMAIN u = 1..n /\ Closed(u) \subseteq 1..n /\ SeenCap \in Nat \ {0} /\ Len(r) \in Nat
  BY TextFeedAssumption DEF Closed
<1>2. k \in DOMAIN r /\ DOMAIN r = 1..Len(r) BY <1>1
<1>3. PICK c0 \in S : \A c \in S : c <= c0
  <2>1. i \in S OBVIOUS
  <2>2. S \in SUBSET Nat /\ \A x \in S : x <= n BY <1>1
  <2> HIDE DEF S
  <2>3. Max(S) \in S /\ \A x \in S : x <= Max(S) BY <1>1, <2>1, <2>2, MaxOfIds
  <2> QED BY <2>3
<1>4. c0 \in Closed(u) /\ key \in u[c0].sighted /\ i <= c0 /\ c0 \in 1..n BY <1>1, <1>3
<1>5. ASSUME NEW b \in J PROVE r[b].key \in W
  <2>1. b \in DOMAIN r /\ k < b BY <1>1, <1>2
  <2>2. r[b].key # key BY <1>2, <2>1 DEF OncePerKey
  <2>3. PICK d \in Closed(u) : c0 <= d /\ r[b].key \in u[d].sighted BY <1>2, <1>4, <2>1 DEF AgeWith
  <2>4. d \in i..n BY <1>1, <1>4, <2>3
  <2>5. ASSUME NEW c \in Closed(u) \cap ((d + 1)..n) PROVE key \notin u[c].sighted
    <3>1. ~(c <= c0) BY <1>1, <1>4, <2>3, <2>4
    <3> QED BY <1>3, <3>1
  <2>6. d \in G BY <2>3, <2>4, <2>5 DEF SinceIn
  <2>7. u[d].sighted \in V BY <2>6
  <2> HIDE DEF V
  <2>8. r[b].key \in UNION V BY <2>3, <2>7
  <2> QED BY <2>2, <2>8
<1>6. IsFiniteSet(W)
  <2>1. G \subseteq 1..n BY <1>1 DEF SinceIn
  <2>2. IsFiniteSet(1..n) BY <1>1, FS_Interval
  <2> HIDE DEF G
  <2>3. IsFiniteSet(G) BY <2>1, <2>2, FS_Subset
  <2> DEFINE f == [l \in G |-> u[l].sighted]
  <2>4. f \in Surjection(G, V) BY DEF Surjection
  <2> HIDE DEF f
  <2>5. IsFiniteSet(V) BY <2>3, <2>4, FS_Surjection
  <2>6. \A T \in V : IsFiniteSet(T) BY <1>1, <2>1 DEF RowsWith
  <2> HIDE DEF V
  <2>7. IsFiniteSet(UNION V) BY <2>5, <2>6, FS_UNION
  <2> QED BY <2>7, FS_Subset
<1> HIDE DEF W
<1> DEFINE g == [b \in J |-> r[b].key]
<1>7. g \in Injection(J, W)
  <2>1. \A a, b \in J : r[a].key = r[b].key => a = b BY <1>1, <1>2 DEF OncePerKey
  <2> QED BY <1>5, <2>1 DEF Injection, IsInjective
<1> HIDE DEF g
<1>8. Cardinality(J) = Len(r) - k /\ IsFiniteSet(J)
  <2>1. k + 1 \in Int /\ Len(r) \in Int /\ ~(k + 1 > Len(r)) BY <1>1
  <2>2. IsFiniteSet((k + 1)..Len(r)) /\ Cardinality((k + 1)..Len(r)) = Len(r) - (k + 1) + 1
    BY <2>1, FS_Interval
  <2> QED BY <1>1, <2>2
<1>9. Cardinality(J) <= Cardinality(W) /\ Cardinality(W) \in Nat
  <2> HIDE DEF J
  <2> QED BY <1>6, <1>7, FS_Injection, FS_CardinalityType
<1>10. Cardinality(W) >= SeenCap BY <1>1, <1>8, <1>9
<1>11. n \in Closed(u) \cap (i..((n + 1) - 1)) BY <1>1, <1>4
<1> QED BY <1>10, <1>11 DEF EvictedIn, W

-----------------------------------------------------------------------------
(* A version comes again.                                                    *)

LEMMA LastExists ==
    ASSUME NEW X, NEW q \in Seq(X), NEW key \in KeysOf(q) PROVE \E y : LastOf(y, q) /\ y.key = key
<1> DEFINE S == {k \in DOMAIN q : q[k].key = key}
<1>1. DOMAIN q = 1..Len(q) /\ Len(q) \in Nat OBVIOUS
<1>2. S # {} /\ S \in SUBSET Nat /\ \A k \in S : k <= Len(q) BY <1>1 DEF KeysOf, ToSet
<1>3. PICK m \in S : \A k \in S : k <= m
  <2> HIDE DEF S
  <2>1. Max(S) \in S /\ \A k \in S : k <= Max(S) BY <1>1, <1>2, MaxOfIds
  <2> QED BY <2>1
<1>4. m \in DOMAIN q /\ q[m].key = key /\ \A k \in DOMAIN q : q[k].key = key => k <= m BY <1>3
<1>5. LastOf(q[m], q) BY <1>4 DEF LastOf
<1> QED BY <1>4, <1>5

LEMMA AgeFollows ==
    ASSUME NEW s, NEW t, NEW r, NEW u, NEW K, AgeWith(s, t), Follows(s, r, K), NEW o \in Closed(u),
           Closed(u) = Closed(t) \cup {o}, u[o].sighted = K,
           \A c \in Closed(u) : c <= o, \A c \in Closed(t) : u[c].sighted = t[c].sighted
    PROVE  AgeWith(r, u)
<1> SUFFICES ASSUME NEW k \in DOMAIN r, NEW m \in DOMAIN r, k < m, NEW c \in Closed(u), r[k].key \in u[c].sighted
             PROVE  \E d \in Closed(u) : c <= d /\ r[m].key \in u[d].sighted
  BY DEF AgeWith
<1>1. CASE r[m].key \in K BY <1>1
<1>2. CASE r[m].key \notin K
  <2>1. r[k].key \notin K /\ \E a, b \in DOMAIN s : a < b /\ s[a] = r[k] /\ s[b] = r[m]
    BY <1>2 DEF Follows
  <2>2. PICK a \in DOMAIN s, b \in DOMAIN s : a < b /\ s[a] = r[k] /\ s[b] = r[m] BY <2>1
  <2>3. c \in Closed(t) /\ s[a].key \in t[c].sighted BY <2>1, <2>2
  <2>4. PICK d \in Closed(t) : c <= d /\ s[b].key \in t[d].sighted BY <2>2, <2>3 DEF AgeWith
  <2> QED BY <2>2, <2>4
<1> QED BY <1>1, <1>2

LEMMA AgeSuffix ==
    ASSUME NEW s, NEW t, NEW r, AgeWith(s, t), Follows(s, r, {}) PROVE AgeWith(r, t)
<1> SUFFICES ASSUME NEW k \in DOMAIN r, NEW m \in DOMAIN r, k < m, NEW c \in Closed(t), r[k].key \in t[c].sighted
             PROVE  \E d \in Closed(t) : c <= d /\ r[m].key \in t[d].sighted
  BY DEF AgeWith
<1>1. PICK a \in DOMAIN s, b \in DOMAIN s : a < b /\ s[a] = r[k] /\ s[b] = r[m] BY DEF Follows
<1> QED BY <1>1 DEF AgeWith

LEMMA AgeStays ==
    ASSUME NEW s, NEW t, NEW u, AgeWith(s, t), Closed(u) = Closed(t),
           \A c \in Closed(t) : u[c].sighted = t[c].sighted
    PROVE  AgeWith(s, u)
BY DEF AgeWith

LEMMA SavedStays ==
    ASSUME NEW saved, NEW t, NEW u, NEW n \in Nat, SavedWith(saved, t, n),
           1..n \subseteq DOMAIN t, 1..n \subseteq DOMAIN u, \A i \in 1..n : u[i] = t[i]
    PROVE  SavedWith(saved, u, n)
<1> SUFFICES ASSUME NEW i \in 1..n, u[i].state = "closed", NEW x, LastOf(x, u[i].rows),
                    \A l \in (i + 1)..n : x.key \notin KeysOf(u[l].rows)
             PROVE  x \in ToSet(saved) \/ EvictedIn(u, x.key, i, n + 1) \/ Retold(x)
  BY DEF SavedWith
<1>1. \A l \in (i + 1)..n : l \in 1..n OBVIOUS
<1>2. t[i].state = "closed" /\ LastOf(x, t[i].rows) /\ \A l \in (i + 1)..n : x.key \notin KeysOf(t[l].rows)
  BY <1>1
<1>3. x \in ToSet(saved) \/ EvictedIn(t, x.key, i, n + 1) \/ Retold(x) BY <1>2 DEF SavedWith
<1>4. \A c \in i..((n + 1) - 1) : /\ c \in Closed(t) <=> c \in Closed(u)
                                  /\ c \in Closed(t) => u[c].sighted = t[c].sighted
  <2>1. \A c \in i..((n + 1) - 1) : c \in 1..n OBVIOUS
  <2> QED BY <2>1 DEF Closed
<1>5. i \in Int /\ n + 1 \in Int /\ n + 1 <= n + 1 OBVIOUS
<1>6. EvictedIn(t, x.key, i, n + 1) => EvictedIn(u, x.key, i, n + 1) BY <1>4, <1>5, EvictedStays
<1> QED BY <1>3, <1>6

\* Only the last run changes, or comes; what it writes first is accounted for.
LEMMA AgainStays ==
    ASSUME NEW t, NEW u, NEW n \in Nat, DOMAIN u = 1..n, \A i \in 1..(n - 1) : i \in DOMAIN t /\ u[i] = t[i],
           AgainWith(t),
           \A x : FirstOf(x, u[n].rows) =>
             \/ n \in DOMAIN t /\ FirstOf(x, t[n].rows)
             \/ \A i \in 1..(n - 1) :
                  LastOf(x, t[i].rows) /\ (\A l \in (i + 1)..(n - 1) : x.key \notin KeysOf(t[l].rows))
                  => t[i].state = "killed" \/ EvictedIn(t, x.key, i, n) \/ Retold(x)
    PROVE  AgainWith(u)
<1> SUFFICES ASSUME NEW i \in 1..n, NEW j \in 1..n, i < j, NEW x, LastOf(x, u[i].rows), FirstOf(x, u[j].rows),
                    \A l \in (i + 1)..(j - 1) : x.key \notin KeysOf(u[l].rows)
             PROVE  u[i].state = "killed" \/ EvictedIn(u, x.key, i, j) \/ Retold(x)
  BY DEF AgainWith
<1>1. i \in 1..(n - 1) /\ \A c \in i..(j - 1) : c \in 1..(n - 1) OBVIOUS
<1>2. /\ i \in DOMAIN t /\ LastOf(x, t[i].rows) /\ u[i].state = t[i].state
      /\ \A l \in (i + 1)..(j - 1) : x.key \notin KeysOf(t[l].rows)
  <2>1. \A l \in (i + 1)..(j - 1) : l \in 1..(n - 1) OBVIOUS
  <2> QED BY <1>1, <2>1
<1>3. EvictedIn(t, x.key, i, j) => EvictedIn(u, x.key, i, j)
  <2>1. \A c \in i..(j - 1) : /\ c \in Closed(t) <=> c \in Closed(u)
                              /\ c \in Closed(t) => u[c].sighted = t[c].sighted
    <3>1. \A c \in i..(j - 1) : c \in DOMAIN t /\ c \in DOMAIN u /\ u[c] = t[c] BY <1>1
    <3> QED BY <3>1 DEF Closed
  <2>2. i \in Int /\ j \in Int /\ j <= j OBVIOUS
  <2> QED BY <2>1, <2>2, EvictedStays
<1>4. CASE j \in DOMAIN t /\ FirstOf(x, t[j].rows) BY <1>2, <1>3, <1>4 DEF AgainWith
<1>5. CASE ~(j \in DOMAIN t /\ FirstOf(x, t[j].rows))
  <2>1. j = n
    <3>1. j # n => j \in 1..(n - 1) OBVIOUS
    <3> QED BY <1>5, <3>1
  <2> QED BY <1>1, <1>2, <1>3, <1>5, <2>1
<1> QED BY <1>4, <1>5

\* What a segment saves when it has ended.
LEMMA SnapshotOf ==
    ASSUME TextState, Reading, NEW r, r = DurableSnapshot(texts[Own].rows)
    PROVE  /\ r \in Seq(Items) /\ OncePerKey(r)
           /\ Follows(seenFile, r, KeysOf(reader.refreshed) \cup KeysOf(texts[Own].rows))
           /\ \A x : LastOf(x, texts[Own].rows) => x \in ToSet(r)
           /\ \A x \in ToSet(seenFile) : x.key \notin KeysOf(texts[Own].rows) =>
                x \in ToSet(r) \/ \E y \in ToSet(r) : y.key = x.key /\ LastOf(y, reader.refreshed)
<1> DEFINE p == RememberAll(seenFile, reader.refreshed)
           q == reader.refreshed
           rows == texts[Own].rows
<1>1. seenFile \in Seq(Items) /\ OncePerKey(seenFile) BY DEF TextState
<1>2. q \in Seq(Items) /\ rows \in Seq(Items) BY OwnRun, MindIs
<1>3. p = RememberAll(seenFile, q) /\ r = RememberAll(p, rows) BY DEF DurableSnapshot
<1> HIDE DEF p, rows, q
<1>4. /\ p \in Seq(Items) /\ OncePerKey(p) /\ Follows(seenFile, p, KeysOf(q))
      /\ \A x : LastOf(x, q) => x \in ToSet(p)
      /\ \A x \in ToSet(seenFile) : x.key \notin KeysOf(q) => x \in ToSet(p)
  BY <1>1, <1>2, <1>3, RememberedAre, RememberedAll
<1>5. /\ r \in Seq(Items) /\ OncePerKey(r) /\ Follows(p, r, KeysOf(rows))
      /\ \A x : LastOf(x, rows) => x \in ToSet(r)
      /\ \A x \in ToSet(p) : x.key \notin KeysOf(rows) => x \in ToSet(r)
  BY <1>2, <1>3, <1>4, RememberedAre, RememberedAll
<1>6. Follows(seenFile, r, KeysOf(q) \cup KeysOf(rows)) BY <1>4, <1>5, FollowsOn
<1>7. ASSUME NEW x \in ToSet(seenFile), x.key \notin KeysOf(rows)
      PROVE  x \in ToSet(r) \/ \E y \in ToSet(r) : y.key = x.key /\ LastOf(y, q)
  <2>1. CASE x.key \in KeysOf(q)
    <3>1. PICK y : LastOf(y, q) /\ y.key = x.key BY <1>2, <2>1, LastExists
    <3>2. y \in ToSet(r) BY <1>4, <1>5, <1>7, <3>1
    <3> QED BY <3>1, <3>2
  <2>2. CASE x.key \notin KeysOf(q) BY <1>4, <1>5, <1>7, <2>2
  <2> QED BY <2>1, <2>2
<1> QED BY <1>5, <1>6, <1>7 DEF q, rows

LEMMA LatestIsIt ==
    ASSUME TextState, NEW x, NEW y, y.key = x.key, IsLatest(y, ClosedTexts), NEW i \in ClosedTexts,
           LastOf(x, texts[i].rows), \A l \in ClosedTexts : i < l => x.key \notin KeysOf(texts[l].rows)
    PROVE  y = x
<1>1. PICK c \in ClosedTexts : \E k \in DOMAIN texts[c].rows :
        /\ texts[c].rows[k] = y
        /\ \A j \in ClosedTexts : \A m \in DOMAIN texts[j].rows :
             texts[j].rows[m].key = y.key => j < c \/ (j = c /\ m <= k)
  BY DEF IsLatest
<1>2. PICK k \in DOMAIN texts[c].rows :
        /\ texts[c].rows[k] = y
        /\ \A j \in ClosedTexts : \A m \in DOMAIN texts[j].rows :
             texts[j].rows[m].key = y.key => j < c \/ (j = c /\ m <= k)
  BY <1>1
<1>3. PICK h \in DOMAIN texts[i].rows :
        texts[i].rows[h] = x /\ \A m \in DOMAIN texts[i].rows : texts[i].rows[m].key = x.key => m <= h
  BY DEF LastOf
<1>4. i < c \/ (i = c /\ h <= k) BY <1>2, <1>3
<1>5. y.key \in KeysOf(texts[c].rows) BY <1>2 DEF KeysOf, ToSet
<1>6. i = c /\ h <= k BY <1>4, <1>5
<1>7. k <= h BY <1>2, <1>3, <1>6
<1>8. h = k
  <2>1. texts[i] \in TextRun BY DEF TextState, ClosedTexts
  <2>2. texts[i].rows \in Seq(Items) BY <2>1 DEF TextRun
  <2>3. h \in Nat /\ k \in Nat BY <1>2, <1>3, <1>6, <2>2
  <2> QED BY <1>6, <1>7, <2>3
<1> QED BY <1>2, <1>3, <1>6, <1>8

\* The end of a segment.
LEMMA CloseOnce ==
    ASSUME TextInv, OnceInv, CloseSegment
    PROVE  /\ RowsWith(texts') /\ SavedWith(seenFile', texts', Own)
           /\ AgeWith(seenFile', texts') /\ AgainWith(texts') /\ Len(texts') = Own /\ ~Reading'
<1> DEFINE n == Len(texts)
           rows == texts[n].rows
           r == DurableSnapshot(texts[Own].rows)
           K == KeysOf(reader.refreshed) \cup KeysOf(texts[Own].rows)
<1>1. TextState /\ Reading BY DEF TextInv, CloseSegment
<1>2. /\ RunBecomes(rows, "closed", texts, texts', n) /\ texts'[n].sighted = K
      /\ seenFile' = MostRecent(r) /\ reader' = NoReader
  BY <1>1, CloseIs DEF Own
<1>3. /\ n \in DOMAIN texts /\ texts[n].state = "open" /\ DOMAIN texts = 1..n /\ n \in Nat \ {0}
      /\ reader \in Minds /\ rows \in Seq(Items) /\ Own = n
  BY <1>1, OwnRun DEF Own
<1>4. /\ RowsWith(texts) /\ SavedWith(seenFile, texts, n - 1) /\ AgeWith(seenFile, texts) /\ AgainWith(texts)
  BY <1>1, <1>3 DEF OnceInv, Finished
<1>5. /\ r \in Seq(Items) /\ OncePerKey(r) /\ Follows(seenFile, r, K)
      /\ \A x : LastOf(x, rows) => x \in ToSet(r)
      /\ \A x \in ToSet(seenFile) : x.key \notin KeysOf(rows) =>
           x \in ToSet(r) \/ \E y \in ToSet(r) : y.key = x.key /\ LastOf(y, reader.refreshed)
  BY <1>1, <1>3, SnapshotOf
<1>6. /\ texts' \in Seq(TextRun) /\ DOMAIN texts' = 1..n /\ Len(texts') = n
      /\ texts'[n].rows = rows /\ texts'[n].state = "closed" /\ \A i \in 1..n : i # n => texts'[i] = texts[i]
  BY <1>2, <1>3 DEF RunBecomes
<1>7. Closed(texts') = Closed(texts) \cup {n} /\ Closed(texts) \subseteq 1..(n - 1)
  <2> HIDE DEF n, rows
  <2>1. \A i \in 1..n : i # n => i \in 1..(n - 1) BY <1>3
  <2>2. \A i \in 1..n : i # n => texts'[i].state = texts[i].state BY <1>6
  <2> QED BY <1>3, <1>6, <2>1, <2>2 DEF Closed
<1>8. \A c \in Closed(texts) : texts'[c] = texts[c] /\ c < n
  <2> HIDE DEF n, rows
  <2>1. \A c \in Closed(texts) : c \in 1..n /\ c # n /\ c < n BY <1>3, <1>7
  <2> QED BY <1>6, <2>1
<1>9. IsFiniteSet(K) /\ KeysOf(rows) \subseteq K
  <2>1. reader.refreshed \in Seq(Items) BY <1>3, MindIs
  <2>2. IsFiniteSet(KeysOf(reader.refreshed)) /\ IsFiniteSet(KeysOf(rows)) BY <1>3, <2>1, KeysFinite
  <2> QED BY <1>3, <2>2, FS_Union
<1> HIDE DEF K, r
<1>10. RowsWith(texts')
  <2> SUFFICES ASSUME NEW i \in 1..n
               PROVE  /\ Alternates(texts'[i].rows) /\ IsFiniteSet(texts'[i].sighted)
                      /\ texts'[i].state = "closed" => KeysOf(texts'[i].rows) \subseteq texts'[i].sighted
    BY <1>6 DEF RowsWith
  <2>1. CASE i = n BY <1>2, <1>3, <1>4, <1>6, <1>9, <2>1 DEF RowsWith
  <2>2. CASE i # n BY <1>3, <1>4, <1>6, <2>2 DEF RowsWith
  <2> QED BY <2>1, <2>2
<1>11. AgeWith(r, texts')
  <2>1. n \in Closed(texts') /\ \A c \in Closed(texts') : c <= n BY <1>3, <1>7, <1>8
  <2> HIDE DEF n
  <2> QED BY <1>2, <1>4, <1>5, <1>7, <1>8, <2>1, AgeFollows
<1>12. AgeWith(seenFile', texts')
  <2>1. Follows(r, seenFile', {}) BY <1>2, <1>5, MostRecentOf
  <2> QED BY <1>11, <2>1, AgeSuffix
<1>13. AgainWith(texts')
  <2>1. \A i \in 1..(n - 1) : i \in DOMAIN texts /\ texts'[i] = texts[i]
    <3> HIDE DEF n, rows
    <3>1. \A i \in 1..(n - 1) : i \in 1..n /\ i # n BY <1>3
    <3> QED BY <1>3, <1>6, <3>1
  <2>2. \A x : FirstOf(x, texts'[n].rows) => n \in DOMAIN texts /\ FirstOf(x, texts[n].rows) BY <1>3, <1>6
  <2>3. n \in Nat /\ DOMAIN texts' = 1..n BY <1>3, <1>6
  <2> HIDE DEF n, rows
  <2> QED BY <1>4, <2>1, <2>2, <2>3, AgainStays
<1>14. SavedWith(seenFile', texts', n)
  <2> SUFFICES ASSUME NEW i \in 1..n, texts'[i].state = "closed", NEW x, LastOf(x, texts'[i].rows),
                      \A l \in (i + 1)..n : x.key \notin KeysOf(texts'[l].rows)
               PROVE  x \in ToSet(seenFile') \/ EvictedIn(texts', x.key, i, n + 1) \/ Retold(x)
    BY DEF SavedWith
  <2>1. i \in Closed(texts') /\ x.key \in texts'[i].sighted
    <3>1. i \in Closed(texts') BY <1>6 DEF Closed
    <3>2. x.key \in KeysOf(texts'[i].rows) BY DEF LastOf, KeysOf, ToSet
    <3> QED BY <1>6, <1>10, <3>1, <3>2 DEF RowsWith
  <2>2. ASSUME x \in ToSet(r) PROVE x \in ToSet(seenFile') \/ EvictedIn(texts', x.key, i, n + 1)
    <3>1. x \in ToSet(seenFile') \/ \E k \in 1..(Len(r) - SeenCap) : r[k] = x
      BY <1>2, <1>5, <2>2, MostRecentOf
    <3>2. ASSUME NEW k \in 1..(Len(r) - SeenCap), r[k] = x PROVE EvictedIn(texts', x.key, i, n + 1)
      <4>1. r[k].key = x.key /\ n \in Closed(texts') /\ n = Len(texts') BY <1>6, <1>7, <3>2
      <4> HIDE DEF n
      <4> QED BY <1>5, <1>6, <1>10, <1>11, <2>1, <4>1, ForgottenIsEvicted
    <3> QED BY <3>1, <3>2
  <2>3. CASE i = n BY <1>5, <1>6, <2>2, <2>3
  <2>4. CASE i # n
    <3>1. i \in 1..(n - 1) /\ texts'[i] = texts[i] /\ texts[i].state = "closed" /\ i \in Closed(texts)
      <4> HIDE DEF n, rows
      <4>1. i \in 1..(n - 1) BY <1>3, <2>4
      <4>2. texts'[i] = texts[i] /\ texts[i].state = "closed" BY <1>6, <2>4
      <4> QED BY <1>3, <4>1, <4>2 DEF Closed
    <3>2. \A l \in (i + 1)..(n - 1) : x.key \notin KeysOf(texts[l].rows)
      <4>1. \A l \in (i + 1)..(n - 1) : l \in (i + 1)..n /\ l \in 1..n /\ l # n BY <1>3
      <4> QED BY <1>6, <4>1
    <3>3. x.key \notin KeysOf(rows)
      <4>1. n \in (i + 1)..n BY <1>3, <3>1
      <4> QED BY <1>6, <4>1
    <3>4. x \in ToSet(seenFile) \/ EvictedIn(texts, x.key, i, n) \/ Retold(x)
      <4>1. (n - 1) + 1 = n /\ LastOf(x, texts[i].rows) BY <1>3, <3>1
      <4> QED BY <1>4, <3>1, <3>2, <4>1 DEF SavedWith
    <3>5. CASE EvictedIn(texts, x.key, i, n)
      <4>1. \A c \in i..(n - 1) : /\ c \in Closed(texts) <=> c \in Closed(texts')
                                  /\ c \in Closed(texts) => texts'[c].sighted = texts[c].sighted
        <5>1. \A c \in i..(n - 1) : c # n
          <6> HIDE DEF n
          <6> QED BY <1>3
        <5> QED BY <1>7, <1>8, <5>1
      <4>2. i \in Int /\ n \in Int /\ n + 1 \in Int /\ n <= n + 1 BY <1>3
      <4> HIDE DEF n
      <4>3. EvictedIn(texts', x.key, i, n + 1) BY <3>5, <4>1, <4>2, EvictedStays
      <4> QED BY <4>3
    <3>6. CASE x \in ToSet(seenFile)
      <4>1. CASE x \in ToSet(r) BY <2>2, <4>1
      <4>2. ASSUME NEW y \in ToSet(r), y.key = x.key, LastOf(y, reader.refreshed), y # x PROVE Retold(x)
        <5>1. y \in ToSet(reader.refreshed) BY <4>2 DEF LastOf, ToSet
        <5>2. CASE y \in Doubled BY <4>2, <5>2 DEF Retold
        <5>3. CASE y \notin Doubled
          <6>1. IsLatest(y, ClosedTexts)
            BY <1>1, <1>3, <3>3, <4>2, <5>1, <5>3 DEF TextInv, UnchangedIn
          <6>2. i \in ClosedTexts /\ LastOf(x, texts[i].rows) BY <3>1, KnownMeans
          <6>3. \A l \in ClosedTexts : i < l => x.key \notin KeysOf(texts[l].rows)
            <7> SUFFICES ASSUME NEW l \in ClosedTexts, i < l PROVE x.key \notin KeysOf(texts[l].rows) OBVIOUS
            <7>1. l \in 1..(n - 1) BY <1>7, KnownMeans
            <7>2. l \in (i + 1)..(n - 1) BY <1>3, <7>1
            <7> QED BY <3>2, <7>2
          <6>4. y = x BY <1>1, <4>2, <6>1, <6>2, <6>3, LatestIsIt
          <6> QED BY <4>2, <6>4
        <5> QED BY <5>2, <5>3
      <4> QED BY <1>5, <3>3, <3>6, <4>1, <4>2
    <3> QED BY <3>4, <3>5, <3>6
  <2> QED BY <2>3, <2>4
<1> QED BY <1>2, <1>3, <1>6, <1>10, <1>12, <1>13, <1>14 DEF Reading

LEMMA OpenOnce ==
    ASSUME TextInv, OnceInv, OpenSegment
    PROVE  /\ Fresh(reader', texts'[Len(texts')].rows, seenFile') /\ RowsWith(texts')
           /\ SavedWith(seenFile', texts', Len(texts') - 1)
           /\ AgeWith(seenFile', texts') /\ AgainWith(texts')
<1> DEFINE n == Len(texts)
<1>1. TextState /\ ~Reading BY DEF TextInv, OpenSegment
<1>2. /\ texts' \in Seq(TextRun) /\ Len(texts') = n + 1 /\ n \in Nat /\ DOMAIN texts = 1..n
      /\ DOMAIN texts' = 1..(n + 1) /\ texts'[n + 1].state = "open" /\ texts'[n + 1].rows = <<>>
      /\ \A i \in 1..n : texts'[i] = texts[i]
  BY <1>1, OpenIs
<1>3. texts'[n + 1].sighted = {}
  <2>1. texts \in Seq(TextRun) BY <1>1 DEF TextState
  <2>2. texts' = Append(texts, [rows |-> <<>>, state |-> "open", sighted |-> {}]) BY DEF OpenSegment
  <2> QED BY <2>1, <2>2
<1>4. /\ reader'.seen = seenFile /\ reader'.batch = <<>> /\ seenFile' = seenFile
  BY DEF OpenSegment
<1>5. /\ RowsWith(texts) /\ SavedWith(seenFile, texts, n) /\ AgeWith(seenFile, texts) /\ AgainWith(texts)
  BY <1>1 DEF OnceInv, Finished, Own
<1>6. \A x : ~LastOf(x, <<>>) /\ ~FirstOf(x, <<>>) BY DEF LastOf, FirstOf
<1>7. Alternates(<<>>) /\ KeysOf(<<>>) = {} BY DEF Alternates, KeysOf, ToSet
<1>8. Closed(texts') = Closed(texts) /\ \A c \in Closed(texts) : texts'[c] = texts[c]
  BY <1>2 DEF Closed
<1>9. Fresh(reader', <<>>, seenFile') BY <1>4, <1>6, <1>7 DEF Fresh
<1> HIDE DEF n
<1>10. RowsWith(texts')
  <2> SUFFICES ASSUME NEW i \in 1..(n + 1)
               PROVE  /\ Alternates(texts'[i].rows) /\ IsFiniteSet(texts'[i].sighted)
                      /\ texts'[i].state = "closed" => KeysOf(texts'[i].rows) \subseteq texts'[i].sighted
    BY <1>2 DEF RowsWith
  <2>1. CASE i = n + 1 BY <1>2, <1>3, <1>7, <2>1, FS_EmptySet
  <2>2. CASE i # n + 1
    <3>1. i \in 1..n BY <1>2, <2>2
    <3> QED BY <1>2, <1>5, <3>1 DEF RowsWith
  <2> QED BY <2>1, <2>2
<1>11. SavedWith(seenFile', texts', n)
  <2>1. 1..n \subseteq DOMAIN texts /\ 1..n \subseteq DOMAIN texts' BY <1>2
  <2> QED BY <1>2, <1>4, <1>5, <2>1, SavedStays
<1>12. AgeWith(seenFile', texts') BY <1>4, <1>5, <1>8, AgeStays
<1>13. AgainWith(texts')
  <2>1. n + 1 \in Nat /\ \A i \in 1..((n + 1) - 1) : i \in DOMAIN texts /\ texts'[i] = texts[i] BY <1>2
  <2>2. \A x : ~FirstOf(x, texts'[n + 1].rows) BY <1>2, <1>6
  <2> QED BY <1>2, <1>5, <2>1, <2>2, AgainStays
<1>14. Len(texts') - 1 = n BY <1>2
<1> QED BY <1>2, <1>9, <1>10, <1>11, <1>12, <1>13, <1>14

\* A row that is written.
LEMMA WriteOnce ==
    ASSUME TextInv, OnceInv, WriteItem
    PROVE  /\ Fresh(reader', texts'[Len(texts')].rows, seenFile') /\ RowsWith(texts')
           /\ SavedWith(seenFile', texts', Len(texts') - 1)
           /\ AgeWith(seenFile', texts') /\ AgainWith(texts') /\ Len(texts') = Len(texts)
<1> DEFINE n == Len(texts)
           e == Head(reader.batch)
           rows == texts[n].rows
<1>1. TextState /\ Reading BY DEF TextInv, WriteItem
<1>2. /\ reader.batch # <<>> /\ e \in Entries
      /\ \/ e.key = NoId /\ texts' = texts
         \/ /\ e.key # NoId /\ e \in Items
            /\ RunBecomes(Append(rows, e), "open", texts, texts', n)
            /\ texts'[n].sighted = texts[n].sighted
      /\ reader' = [reader EXCEPT !.batch = Tail(@), !.begun = TRUE] /\ seenFile' = seenFile
  <2> HIDE DEF e
  <2> QED BY <1>1, WriteItemIs DEF Own, e
<1>3. /\ n \in DOMAIN texts /\ texts[n].state = "open" /\ DOMAIN texts = 1..n /\ n \in Nat \ {0}
      /\ reader \in Minds /\ rows \in Seq(Items) /\ Own = n /\ seenFile \in Seq(Items)
      /\ texts \in Seq(TextRun)
  BY <1>1, OwnRun DEF Own, TextState
<1>4. /\ RowsWith(texts) /\ SavedWith(seenFile, texts, n - 1) /\ AgeWith(seenFile, texts) /\ AgainWith(texts)
      /\ Fresh(reader, rows, seenFile)
  BY <1>1, <1>3 DEF OnceInv, Finished
<1>5. reader'.seen = reader.seen /\ reader'.batch = Tail(reader.batch)
  BY <1>2, <1>3 DEF Minds, Memo
<1>6. /\ e.key = NoId => Fresh(reader', rows, seenFile)
      /\ e.key # NoId => Fresh(reader', Append(rows, e), seenFile)
      /\ e.key # NoId /\ Alternates(rows) => Alternates(Append(rows, e))
  <2> HIDE DEF n, rows, e
  <2> QED BY <1>2, <1>3, <1>4, <1>5, WriteFresh DEF e
<1>7. FirstOf(e, reader.batch)
  <2>1. reader.batch \in Seq(Entries) BY <1>3, MindIs
  <2> QED BY <1>2, <2>1, TailOf
<1> HIDE DEF e
<1>8. CASE e.key = NoId /\ texts' = texts BY <1>2, <1>4, <1>6, <1>8
<1>9. CASE /\ e.key # NoId /\ e \in Items
           /\ RunBecomes(Append(rows, e), "open", texts, texts', n)
           /\ texts'[n].sighted = texts[n].sighted
  <2>1. /\ texts' \in Seq(TextRun) /\ DOMAIN texts' = 1..n /\ Len(texts') = n
        /\ texts'[n].rows = Append(rows, e) /\ texts'[n].state = "open"
        /\ \A i \in 1..n : i # n => texts'[i] = texts[i]
    BY <1>3, <1>9 DEF RunBecomes
  <2> HIDE DEF n, rows
  <2>2. Closed(texts') = Closed(texts) /\ \A c \in Closed(texts) : texts'[c] = texts[c]
    <3>1. \A i \in 1..n : texts'[i].state = texts[i].state
      <4> SUFFICES ASSUME NEW i \in 1..n PROVE texts'[i].state = texts[i].state OBVIOUS
      <4>1. CASE i = n BY <1>3, <2>1, <4>1
      <4>2. CASE i # n BY <2>1, <4>2
      <4> QED BY <4>1, <4>2
    <3>2. Closed(texts') = Closed(texts) BY <1>3, <2>1, <3>1 DEF Closed
    <3>3. \A c \in Closed(texts) : c \in 1..n /\ c # n BY <1>3 DEF Closed
    <3> QED BY <2>1, <3>2, <3>3
  <2>3. \A i \in 1..(n - 1) : i \in 1..n /\ i # n BY <1>3
  <2>4. RowsWith(texts')
    <3> SUFFICES ASSUME NEW i \in 1..n
                 PROVE  /\ Alternates(texts'[i].rows) /\ IsFiniteSet(texts'[i].sighted)
                        /\ texts'[i].state = "closed" => KeysOf(texts'[i].rows) \subseteq texts'[i].sighted
      BY <2>1 DEF RowsWith
    <3>1. CASE i = n
      <4>1. Alternates(rows) /\ IsFiniteSet(texts[n].sighted) BY <1>3, <1>4 DEF RowsWith, rows
      <4> QED BY <1>6, <1>9, <2>1, <3>1, <4>1
    <3>2. CASE i # n BY <1>3, <1>4, <2>1, <3>2 DEF RowsWith
    <3> QED BY <3>1, <3>2
  <2>5. SavedWith(seenFile', texts', n - 1)
    <3>1. n - 1 \in Nat /\ 1..(n - 1) \subseteq DOMAIN texts /\ 1..(n - 1) \subseteq DOMAIN texts'
      BY <1>3, <2>1, <2>3
    <3>2. \A i \in 1..(n - 1) : texts'[i] = texts[i] BY <2>1, <2>3
    <3> QED BY <1>2, <1>4, <3>1, <3>2, SavedStays
  <2>6. AgeWith(seenFile', texts') BY <1>2, <1>4, <2>2, AgeStays
  <2>7. AgainWith(texts')
    <3>1. n \in Nat /\ \A i \in 1..(n - 1) : i \in DOMAIN texts /\ texts'[i] = texts[i] BY <1>3, <2>1, <2>3
    <3>2. ASSUME NEW x, FirstOf(x, texts'[n].rows)
          PROVE  \/ n \in DOMAIN texts /\ FirstOf(x, texts[n].rows)
                 \/ \A i \in 1..(n - 1) :
                      LastOf(x, texts[i].rows) /\ (\A l \in (i + 1)..(n - 1) : x.key \notin KeysOf(texts[l].rows))
                      => texts[i].state = "killed" \/ EvictedIn(texts, x.key, i, n) \/ Retold(x)
      <4>1. FirstOf(x, rows) \/ (x = e /\ e.key \notin KeysOf(rows)) BY <1>3, <1>9, <2>1, <3>2, AppendedOf
      <4>2. CASE FirstOf(x, rows) BY <1>3, <4>2 DEF rows
      <4>3. CASE x = e /\ e.key \notin KeysOf(rows)
        <5>1. x \notin ToSet(seenFile) BY <1>4, <1>7, <1>9, <4>3 DEF Fresh
        <5>2. ASSUME NEW i \in 1..(n - 1), LastOf(x, texts[i].rows),
                     \A l \in (i + 1)..(n - 1) : x.key \notin KeysOf(texts[l].rows)
              PROVE  texts[i].state = "killed" \/ EvictedIn(texts, x.key, i, n) \/ Retold(x)
          <6>1. CASE texts[i].state = "closed"
            <7>1. EvictedIn(texts, x.key, i, (n - 1) + 1) \/ Retold(x)
              BY <1>4, <5>1, <5>2, <6>1 DEF SavedWith
            <7>2. (n - 1) + 1 = n BY <1>3
            <7> QED BY <7>1, <7>2
          <6>2. texts[i].state # "open" BY <1>1, <1>3, <2>3 DEF TextState
          <6>3. texts[i].state \in {"open", "closed", "killed"}
            <7>1. texts[i] \in TextRun BY <1>3, <2>3
            <7> QED BY <7>1 DEF TextRun
          <6> QED BY <6>1, <6>2, <6>3
        <5> QED BY <5>2
      <4> QED BY <4>1, <4>2, <4>3
    <3> QED BY <1>4, <2>1, <3>1, <3>2, AgainStays
  <2> QED BY <1>2, <1>6, <1>9, <2>1, <2>4, <2>5, <2>6, <2>7 DEF n
<1> QED BY <1>2, <1>8, <1>9

\* A run cut short.
LEMMA PrefixOf ==
    ASSUME NEW X, NEW s \in Seq(X), NEW k \in 0..Len(s), NEW p, p = SubSeq(s, 1, k)
    PROVE  /\ Alternates(s) => Alternates(p)
           /\ \A x : FirstOf(x, p) => FirstOf(x, s)
<1>1. Len(s) \in Nat /\ DOMAIN s = 1..Len(s) /\ DOMAIN p = 1..k /\ \A m \in 1..k : p[m] = s[m] /\ m \in 1..Len(s)
  OBVIOUS
<1>2. ASSUME Alternates(s) PROVE Alternates(p)
  <2> SUFFICES ASSUME NEW a \in DOMAIN p, NEW b \in DOMAIN p, a < b, p[a] = p[b], p[a].key # NoId
               PROVE  \E l \in DOMAIN p : a < l /\ l < b /\ p[l].key = p[a].key
    BY DEF Alternates
  <2>1. PICK l \in 1..Len(s) : a < l /\ l < b /\ s[l].key = s[a].key BY <1>1, <1>2 DEF Alternates
  <2>2. l \in 1..k BY <2>1
  <2> QED BY <1>1, <2>1, <2>2
<1>3. ASSUME NEW x, FirstOf(x, p) PROVE FirstOf(x, s)
  <2>1. PICK a \in 1..k : p[a] = x /\ \A m \in 1..k : p[m].key = x.key => a <= m BY <1>1, <1>3 DEF FirstOf
  <2>2. ASSUME NEW m \in 1..Len(s), s[m].key = x.key PROVE a <= m
    <3>1. CASE m \in 1..k BY <1>1, <2>1, <2>2, <3>1
    <3>2. CASE m \notin 1..k BY <3>2
    <3> QED BY <3>1, <3>2
  <2> QED BY <1>1, <2>1, <2>2 DEF FirstOf
<1> QED BY <1>2, <1>3

LEMMA KillOnce ==
    ASSUME TextInv, OnceInv, KillSegment
    PROVE  /\ RowsWith(texts') /\ SavedWith(seenFile', texts', Own)
           /\ AgeWith(seenFile', texts') /\ AgainWith(texts') /\ Len(texts') = Own /\ ~Reading'
<1> DEFINE n == Len(texts)
           rows == texts[n].rows
<1>1. TextState /\ Reading BY DEF TextInv, KillSegment
<1>2. PICK k \in 0..Len(rows) : RunBecomes(SubSeq(rows, 1, k), "killed", texts, texts', n)
  BY <1>1, KillIs DEF Own
<1>3. reader' = NoReader /\ seenFile' = seenFile /\ texts'[n].sighted = texts[n].sighted
  BY <1>1, KillIs DEF Own
<1>4. /\ n \in DOMAIN texts /\ texts[n].state = "open" /\ DOMAIN texts = 1..n /\ n \in Nat \ {0}
      /\ rows \in Seq(Items) /\ Own = n /\ texts \in Seq(TextRun)
  BY <1>1, OwnRun DEF Own, TextState
<1>5. /\ RowsWith(texts) /\ SavedWith(seenFile, texts, n - 1) /\ AgeWith(seenFile, texts) /\ AgainWith(texts)
  BY <1>1, <1>4 DEF OnceInv, Finished
<1> DEFINE p == SubSeq(rows, 1, k)
<1>6. /\ texts' \in Seq(TextRun) /\ DOMAIN texts' = 1..n /\ Len(texts') = n
      /\ texts'[n].rows = p /\ texts'[n].state = "killed"
      /\ \A i \in 1..n : i # n => texts'[i] = texts[i]
  BY <1>2, <1>4 DEF RunBecomes
<1>7. (Alternates(rows) => Alternates(p)) /\ \A x : FirstOf(x, p) => FirstOf(x, rows)
  <2> HIDE DEF n, rows
  <2> QED BY <1>4, PrefixOf
<1> HIDE DEF p
<1>8. Closed(texts') = Closed(texts) /\ (\A c \in Closed(texts) : texts'[c] = texts[c])
      /\ \A i \in 1..(n - 1) : i \in DOMAIN texts /\ i \in DOMAIN texts' /\ texts'[i] = texts[i]
  <2> HIDE DEF n, rows
  <2>1. \A i \in 1..n : texts'[i].state = "closed" <=> texts[i].state = "closed"
    <3> SUFFICES ASSUME NEW i \in 1..n PROVE texts'[i].state = "closed" <=> texts[i].state = "closed" OBVIOUS
    <3>1. CASE i = n BY <1>4, <1>6, <3>1
    <3>2. CASE i # n BY <1>6, <3>2
    <3> QED BY <3>1, <3>2
  <2>2. \A c \in Closed(texts) : c \in 1..n /\ c # n BY <1>4 DEF Closed
  <2>3. Closed(texts') = Closed(texts) BY <1>4, <1>6, <2>1 DEF Closed
  <2>4. \A i \in 1..(n - 1) : i \in 1..n /\ i # n BY <1>4
  <2> QED BY <1>4, <1>6, <2>2, <2>3, <2>4
<1>9. RowsWith(texts')
  <2> SUFFICES ASSUME NEW i \in 1..n
               PROVE  /\ Alternates(texts'[i].rows) /\ IsFiniteSet(texts'[i].sighted)
                      /\ texts'[i].state = "closed" => KeysOf(texts'[i].rows) \subseteq texts'[i].sighted
    BY <1>6 DEF RowsWith
  <2>1. CASE i = n
    <3>1. Alternates(rows) /\ IsFiniteSet(texts[n].sighted) BY <1>4, <1>5 DEF RowsWith
    <3> QED BY <1>3, <1>6, <1>7, <2>1, <3>1
  <2>2. CASE i # n BY <1>4, <1>5, <1>6, <2>2 DEF RowsWith
  <2> QED BY <2>1, <2>2
<1>10. SavedWith(seenFile', texts', n)
  <2> SUFFICES ASSUME NEW i \in 1..n, texts'[i].state = "closed", NEW x, LastOf(x, texts'[i].rows),
                      \A l \in (i + 1)..n : x.key \notin KeysOf(texts'[l].rows)
               PROVE  x \in ToSet(seenFile') \/ EvictedIn(texts', x.key, i, n + 1) \/ Retold(x)
    BY DEF SavedWith
  <2> HIDE DEF n, rows
  <2>1. i # n BY <1>6
  <2>2. i \in 1..(n - 1) BY <1>4, <2>1
  <2>3. \A l \in (i + 1)..(n - 1) : l \in 1..(n - 1) /\ l \in (i + 1)..n BY <1>4
  <2>4. x \in ToSet(seenFile) \/ EvictedIn(texts, x.key, i, (n - 1) + 1) \/ Retold(x)
    <3>1. \A l \in (i + 1)..(n - 1) : x.key \notin KeysOf(texts[l].rows) BY <1>8, <2>3
    <3>2. texts[i].state = "closed" /\ LastOf(x, texts[i].rows) BY <1>8, <2>2
    <3> QED BY <1>5, <2>2, <3>1, <3>2 DEF SavedWith
  <2>5. CASE EvictedIn(texts, x.key, i, n)
    <3>1. i \in Int /\ n \in Int /\ n + 1 \in Int /\ n <= n + 1 BY <1>4
    <3>2. EvictedIn(texts', x.key, i, n + 1) BY <1>8, <2>5, <3>1, EvictedStays
    <3> QED BY <3>2
  <2>6. (n - 1) + 1 = n BY <1>4
  <2> QED BY <1>3, <2>4, <2>5, <2>6
<1>11. AgeWith(seenFile', texts') BY <1>3, <1>5, <1>8, AgeStays
<1>12. AgainWith(texts')
  <2>1. \A x : FirstOf(x, texts'[n].rows) => n \in DOMAIN texts /\ FirstOf(x, texts[n].rows) BY <1>4, <1>6, <1>7
  <2> HIDE DEF n, rows
  <2> QED BY <1>4, <1>5, <1>6, <1>8, <2>1, AgainStays
<1> QED BY <1>3, <1>4, <1>6, <1>9, <1>10, <1>11, <1>12 DEF Reading

-----------------------------------------------------------------------------
(* Nothing is written twice.                                                 *)

\* The invariant, of given values.
OnceWith(live, memo, saved, t) ==
    /\ live => Fresh(memo, t[Len(t)].rows, saved)
    /\ RowsWith(t) /\ SavedWith(saved, t, IF live THEN Len(t) - 1 ELSE Len(t))
    /\ AgeWith(saved, t) /\ AgainWith(t)
LEMMA OnceMeans == OnceInv <=> OnceWith(Reading, reader, seenFile, texts)
BY DEF OnceInv, OnceWith, Finished, Own
LEMMA OnceMeansNext == OnceInv' <=> OnceWith(Reading', reader', seenFile', texts')
BY DEF OnceInv, OnceWith, Finished, Own, Fresh, RowsWith, SavedWith, AgeWith, AgainWith, EvictedIn, SinceIn, Closed,
       Retold

LEMMA OnceStarts == ASSUME TextInit PROVE OnceInv
<1>1. seenFile = <<>> /\ texts = <<>> /\ ~Reading BY DEF TextInit, Reading
<1>2. DOMAIN texts = {} /\ DOMAIN seenFile = {} /\ Len(texts) = 0 BY <1>1
<1>3. RowsWith(texts) /\ AgainWith(texts) BY <1>2 DEF RowsWith, AgainWith
<1>4. AgeWith(seenFile, texts) BY <1>2 DEF AgeWith
<1>5. SavedWith(seenFile, texts, Finished) BY <1>1, <1>2 DEF SavedWith, Finished, Own
<1> QED BY <1>1, <1>3, <1>4, <1>5 DEF OnceInv

LEMMA OnceStep == ASSUME TextInv, OnceInv, TextNext PROVE OnceInv'
<1>1. OnceWith(Reading, reader, seenFile, texts) BY OnceMeans
<1>2. ASSUME OpenSegment PROVE OnceInv'
  <2>1. reader' # NoReader BY <1>2 DEF OpenSegment, NoReader
  <2> QED BY <1>2, <2>1, OpenOnce, OnceMeansNext DEF OnceWith, Reading
<1>3. ASSUME WriteItem PROVE OnceInv'
  <2>1. reader' # NoReader
    <3>1. TextState' /\ TextState BY <1>3, TextStateKept DEF TextInv, TextNext
    <3>2. reader \in Minds /\ reader' = [reader EXCEPT !.batch = Tail(@), !.begun = TRUE]
      BY <1>3, <3>1, OwnRun DEF WriteItem
    <3>3. reader' \in Memo BY <3>1, <3>2 DEF TextState, Minds, Memo, NoReader
    <3> QED BY <3>3, MemoIsLive
  <2> QED BY <1>3, <2>1, WriteOnce, OnceMeansNext DEF OnceWith, Reading
<1>4. ASSUME CloseSegment PROVE OnceInv' BY <1>4, CloseOnce, OnceMeansNext DEF OnceWith
<1>5. ASSUME KillSegment PROVE OnceInv' BY <1>5, KillOnce, OnceMeansNext DEF OnceWith
<1>6. ASSUME NEW failing \in SUBSET Feeds, PollFeeds(failing) PROVE OnceInv'
  <2>1. Reading /\ reader.batch = <<>> /\ UNCHANGED <<seenFile, texts>> BY <1>6, PollFeedsIs
  <2>2. Fresh(reader', texts[Own].rows, seenFile) BY <1>6, <2>1, PollFresh DEF OnceInv
  <2>3. OnceWith(TRUE, reader', seenFile', texts') BY <1>1, <2>1, <2>2 DEF OnceWith, Own
  <2>4. reader' # NoReader
    <3>1. PICK asked \in SUBSET Feeds, held \in [Feeds -> Nat] :
            reader' = [SightFeeds(asked) EXCEPT !.held = held, !.begun = FALSE]
      BY <1>6, PollFeedsIs
    <3>2. SightFeeds(asked) \in Minds BY <2>1, SightFeedsKeeps DEF TextInv
    <3>3. reader'.seen = SightFeeds(asked).seen /\ reader' \in Memo BY <3>1, <3>2 DEF Minds, Memo
    <3> QED BY <3>3, MemoIsLive
  <2> QED BY <2>3, <2>4, OnceMeansNext DEF Reading
<1>7. ASSUME NEW f \in Feeds, Revise(f) PROVE OnceInv'
  <2>1. UNCHANGED <<seenFile, texts, reader>> BY <1>7 DEF Revise
  <2> QED BY <1>1, <2>1, OnceMeansNext DEF Reading
<1> QED BY <1>2, <1>3, <1>4, <1>5, <1>6, <1>7, TextCases

LEMMA OnceStays == ASSUME OnceInv, UNCHANGED tvars PROVE OnceInv'
<1>1. UNCHANGED <<seenFile, texts, reader>> BY DEF tvars
<1> QED BY <1>1, OnceMeans, OnceMeansNext DEF Reading

LEMMA OnceKeeps == ASSUME TextInv, OnceInv PROVE NoItemTwice
<1> SUFFICES ASSUME NEW i \in DOMAIN texts, NEW j \in DOMAIN texts,
                    NEW k \in DOMAIN texts[i].rows, NEW m \in DOMAIN texts[j].rows, NEW x, x = texts[i].rows[k],
                    RowBefore(i, k, j, m), texts[j].rows[m] = x,
                    \A r \in i..j : \A n \in DOMAIN texts[r].rows :
                      RowBefore(i, k, r, n) /\ RowBefore(r, n, j, m) => texts[r].rows[n].key # x.key
             PROVE  i # j /\ (texts[i].state = "killed" \/ Evicted(x.key, i, j) \/ Retold(x))
  BY DEF NoItemTwice
<1>1. /\ DOMAIN texts = 1..Len(texts) /\ Len(texts) \in Nat
      /\ \A r \in DOMAIN texts : texts[r].rows \in Seq(Items)
  <2>1. texts \in Seq(TextRun) BY DEF TextInv, TextState
  <2>2. \A r \in DOMAIN texts : texts[r] \in TextRun BY <2>1
  <2> QED BY <2>1, <2>2 DEF TextRun
<1>2. i \in Nat /\ j \in Nat /\ k \in Nat /\ m \in Nat
      /\ DOMAIN texts[i].rows = 1..Len(texts[i].rows) /\ DOMAIN texts[j].rows = 1..Len(texts[j].rows)
      /\ Len(texts[i].rows) \in Nat /\ Len(texts[j].rows) \in Nat
  <2>1. texts[i].rows \in Seq(Items) /\ texts[j].rows \in Seq(Items) BY <1>1
  <2> QED BY <1>1, <2>1
<1>3. x \in Items /\ x.key # NoId
  <2>1. texts[i].rows \in Seq(Items) BY <1>1
  <2>2. x \in Items BY <2>1
  <2> QED BY <2>2 DEF Items
<1>4. RowsWith(texts) /\ AgainWith(texts) BY DEF OnceInv
<1>5. CASE i = j
  <2>1. k < m BY <1>2, <1>5 DEF RowBefore
  <2>2. Alternates(texts[i].rows) BY <1>4 DEF RowsWith
  <2>3. PICK l \in DOMAIN texts[i].rows : k < l /\ l < m /\ texts[i].rows[l].key = x.key
    BY <1>3, <1>5, <2>1, <2>2 DEF Alternates
  <2>4. i \in i..j BY <1>2, <1>5
  <2> QED BY <1>5, <2>3, <2>4 DEF RowBefore
<1>6. CASE i # j
  <2>1. i < j BY <1>2, <1>6 DEF RowBefore
  <2>2. LastOf(x, texts[i].rows)
    <3> SUFFICES ASSUME NEW n \in DOMAIN texts[i].rows, texts[i].rows[n].key = x.key, ~(n <= k) PROVE FALSE
      BY DEF LastOf
    <3>1. i \in i..j /\ k < n BY <1>2, <2>1
    <3> QED BY <2>1, <3>1 DEF RowBefore
  <2>3. FirstOf(x, texts[j].rows)
    <3> SUFFICES ASSUME NEW n \in DOMAIN texts[j].rows, texts[j].rows[n].key = x.key, ~(m <= n) PROVE FALSE
      BY DEF FirstOf
    <3>1. j \in i..j /\ n < m BY <1>2, <2>1
    <3> QED BY <2>1, <3>1 DEF RowBefore
  <2>4. \A l \in (i + 1)..(j - 1) : x.key \notin KeysOf(texts[l].rows)
    <3> SUFFICES ASSUME NEW l \in (i + 1)..(j - 1), x.key \in KeysOf(texts[l].rows) PROVE FALSE OBVIOUS
    <3>1. PICK n \in DOMAIN texts[l].rows : texts[l].rows[n].key = x.key BY DEF KeysOf, ToSet
    <3>2. l \in i..j /\ i < l /\ l < j BY <1>2
    <3> QED BY <3>1, <3>2 DEF RowBefore
  <2>5. texts[i].state = "killed" \/ EvictedIn(texts, x.key, i, j) \/ Retold(x)
    BY <1>4, <2>1, <2>2, <2>3, <2>4 DEF AgainWith
  <2> QED BY <1>6, <2>5, EvictedIs
<1> QED BY <1>5, <1>6

LEMMA OnceInvariance == PollingSpec => []OnceInv
<1>1. PollingInit => OnceInv BY OnceStarts DEF PollingInit
<1>2. TextInv /\ OnceInv /\ [PollingNext]_pvars => OnceInv'
  <2> SUFFICES ASSUME TextInv, OnceInv, [PollingNext]_pvars PROVE OnceInv' OBVIOUS
  <2>1. CASE TextNext BY <2>1, OnceStep
  <2>2. CASE UNCHANGED tvars BY <2>2, OnceStays
  <2> QED BY <2>1, <2>2 DEF PollingNext, pvars
<1>3. PollingSpec => []TextInv BY TextInvariance
<1> QED BY <1>1, <1>2, <1>3, PTL DEF PollingSpec

=============================================================================
