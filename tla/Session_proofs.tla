--------------------------- MODULE Session_proofs ---------------------------
(***************************************************************************)
(* Proofs about Session, for any number of clients, any relation between   *)
(* them and any capacity of the pipes: news of a client reach a follower   *)
(* in order and only while it may see them (the refinement of Feed), what  *)
(* is marked as seen has been sent, waits, or ended with a session, only a *)
(* place that is not later is passed over, and an online follower that     *)
(* lacks news has a message coming.                                        *)
(*                                                                         *)
(* The first part is about lists of packets, apart from any state.         *)
(***************************************************************************)
EXTENDS Session, Lists_proofs, FiniteSetTheorems

-----------------------------------------------------------------------------
(* The greatest of two numbers *)

LEMMA MaxOfTwo ==
    ASSUME NEW a \in Nat, NEW b \in Nat
    PROVE  a <= Max({a, b}) /\ b <= Max({a, b}) /\ Max({a, b}) \in Nat
<1>1. \E x \in {a, b} : \A y \in {a, b} : x >= y
    OBVIOUS
<1>2. Max({a, b}) \in {a, b} /\ \A y \in {a, b} : Max({a, b}) >= y
    BY <1>1 DEF Max
<1> QED
    BY <1>2

-----------------------------------------------------------------------------
(* Lists of packets *)

Lists == Seq(News \cup {Ack})
Table == [Clients -> [Kinds -> Nat]]

SameTopic(p, q) == p.of = q.of /\ p.kind = q.kind

\* What is told later about a topic is not older.
Upto(A, B) == \A p \in A, q \in B : SameTopic(p, q) => p.nr <= q.nr
InOrder(a) == \A i, j \in DOMAIN a : i < j /\ SameTopic(a[i], a[j]) => a[i].nr <= a[j].nr

Within(A, low, high) ==
    \A p \in A \cap News : low[p.of][p.kind] <= p.nr /\ p.nr <= high[p.of][p.kind]

AtMost(v, w) == \A t \in Clients, k \in Kinds : v[t][k] <= w[t][k]

LEMMA ItemType ==
    ASSUME NEW p \in News \cup {Ack}
    PROVE  p.nr \in Nat /\ (p.of \in Clients <=> p \in News)
<1>1. CASE p \in News
    BY <1>1 DEF News
<1>2. CASE p = Ack
    <2>1. p.of = None /\ p.nr = 0
        BY <1>2 DEF Ack
    <2>2. p \notin News
        BY <2>1, SessionAssumption DEF News
    <2> QED
        BY <2>1, <2>2, SessionAssumption
<1> QED
    BY <1>1, <1>2

LEMMA RangeType ==
    ASSUME NEW a \in Lists
    PROVE  Range(a) \subseteq News \cup {Ack}
BY DEF Lists, Range

\* A list of two parts.
LEMMA Parts ==
    ASSUME NEW a \in Lists, NEW b \in Lists
    PROVE  /\ a \o b \in Lists
           /\ Range(a \o b) = Range(a) \cup Range(b)
           /\ InOrder(a \o b) <=> InOrder(a) /\ InOrder(b) /\ Upto(Range(a), Range(b))
<1>1. a \o b \in Lists
    BY DEF Lists
<1>2. Range(a \o b) = Range(a) \cup Range(b)
    BY RangeConcatenation DEF Lists
<1>3. /\ Len(a) \in Nat /\ Len(b) \in Nat /\ Len(a \o b) = Len(a) + Len(b)
      /\ DOMAIN a = 1..Len(a) /\ DOMAIN b = 1..Len(b) /\ DOMAIN (a \o b) = 1..(Len(a) + Len(b))
      /\ \A i \in 1..Len(a) : (a \o b)[i] = a[i]
      /\ \A i \in 1..Len(b) : (a \o b)[Len(a) + i] = b[i]
    BY DEF Lists
<1>4. ASSUME InOrder(a \o b)
      PROVE  InOrder(a) /\ InOrder(b) /\ Upto(Range(a), Range(b))
    <2>1. InOrder(a)
        BY <1>3, <1>4 DEF InOrder
    <2>2. ASSUME NEW i \in DOMAIN b, NEW j \in DOMAIN b, i < j, SameTopic(b[i], b[j])
          PROVE  b[i].nr <= b[j].nr
        <3>1. Len(a) + i \in DOMAIN (a \o b) /\ Len(a) + j \in DOMAIN (a \o b) /\ Len(a) + i < Len(a) + j
            BY <1>3, <2>2
        <3> QED
            BY <1>3, <1>4, <2>2, <3>1 DEF InOrder
    <2>3. ASSUME NEW i \in DOMAIN a, NEW j \in DOMAIN b, SameTopic(a[i], b[j])
          PROVE  a[i].nr <= b[j].nr
        <3>1. i \in DOMAIN (a \o b) /\ Len(a) + j \in DOMAIN (a \o b) /\ i < Len(a) + j
            BY <1>3, <2>3
        <3> QED
            BY <1>3, <1>4, <2>3, <3>1 DEF InOrder
    <2> QED
        BY <2>1, <2>2, <2>3 DEF InOrder, Upto, Range
<1>5. ASSUME InOrder(a), InOrder(b), Upto(Range(a), Range(b)),
             NEW i \in DOMAIN (a \o b), NEW j \in DOMAIN (a \o b), i < j, SameTopic((a \o b)[i], (a \o b)[j])
      PROVE  (a \o b)[i].nr <= (a \o b)[j].nr
    <2>1. CASE j <= Len(a)
        BY <1>3, <1>5, <2>1 DEF InOrder
    <2>2. CASE i <= Len(a) /\ j > Len(a)
        <3>1. i \in DOMAIN a /\ j - Len(a) \in DOMAIN b /\ (a \o b)[j] = b[j - Len(a)] /\ (a \o b)[i] = a[i]
            <4>1. j - Len(a) \in 1..Len(b) /\ j = Len(a) + (j - Len(a))
                BY <1>3, <1>5, <2>2
            <4> QED
                BY <1>3, <1>5, <2>2, <4>1
        <3> QED
            BY <1>5, <3>1 DEF Upto, Range
    <2>3. CASE i > Len(a)
        <3>1. /\ i - Len(a) \in 1..Len(b) /\ i = Len(a) + (i - Len(a))
              /\ j - Len(a) \in 1..Len(b) /\ j = Len(a) + (j - Len(a))
              /\ i - Len(a) < j - Len(a)
            BY <1>3, <1>5, <2>3
        <3>2. (a \o b)[i] = b[i - Len(a)] /\ (a \o b)[j] = b[j - Len(a)]
            BY <1>3, <3>1
        <3> QED
            BY <1>3, <1>5, <3>1, <3>2 DEF InOrder
    <2> QED
        BY <1>3, <1>5, <2>1, <2>2, <2>3
<1>6. InOrder(a) /\ InOrder(b) /\ Upto(Range(a), Range(b)) => InOrder(a \o b)
    BY <1>5 DEF InOrder
<1> QED
    BY <1>1, <1>2, <1>4, <1>6

LEMMA ThreeParts ==
    ASSUME NEW a \in Lists, NEW b \in Lists, NEW c \in Lists
    PROVE  (a \o b) \o c = a \o (b \o c)
<1> DEFINE S == News \cup {Ack}
<1>1. a \in Seq(S) /\ b \in Seq(S) /\ c \in Seq(S)
    BY DEF Lists
<1> HIDE DEF S
<1> QED
    BY <1>1, ConcatAssociative

LEMMA UptoParts ==
    ASSUME NEW A, NEW B, NEW C
    PROVE  /\ Upto(A \cup B, C) <=> Upto(A, C) /\ Upto(B, C)
           /\ Upto(A, B \cup C) <=> Upto(A, B) /\ Upto(A, C)
BY DEF Upto

LEMMA OnePacket ==
    ASSUME NEW p \in News \cup {Ack}
    PROVE  <<p>> \in Lists /\ Range(<<p>>) = {p} /\ InOrder(<<p>>)
<1>1. <<p>> \in Lists /\ DOMAIN <<p>> = {1} /\ <<p>>[1] = p
    BY DEF Lists
<1> QED
    BY <1>1 DEF Range, InOrder

LEMMA NoPacket == <<>> \in Lists /\ Range(<<>>) = {} /\ InOrder(<<>>)
<1>1. <<>> \in Lists /\ DOMAIN <<>> = {}
    BY DEF Lists
<1> QED
    BY <1>1 DEF Range, InOrder

-----------------------------------------------------------------------------
(* What a peer has been shown once packets have come *)

\* With takes the last packet of a topic.
LEMMA WithLast ==
    ASSUME NEW v, NEW a \in Lists, NEW t \in Clients, NEW k \in Kinds
    PROVE  \/ /\ With(v, a)[t][k] = v[t][k]
              /\ \A p \in Range(a) : ~(p.of = t /\ p.kind = k)
           \/ \E p \in Range(a) :
                /\ p.of = t /\ p.kind = k /\ With(v, a)[t][k] = p.nr
                /\ InOrder(a) => \A q \in Range(a) : SameTopic(q, p) => q.nr <= p.nr
<1> DEFINE told == Telling(a, t, k)
<1>1. With(v, a)[t][k] = IF told = {} THEN v[t][k] ELSE a[Max(told)].nr
    BY DEF With
<1>2. told = {i \in DOMAIN a : a[i].of = t /\ a[i].kind = k}
    BY DEF Telling
<1>3. CASE told = {}
    BY <1>1, <1>2, <1>3 DEF Range
<1>4. CASE told # {}
    <2>1. Len(a) \in Nat /\ DOMAIN a = 1..Len(a)
        BY DEF Lists
    <2>2. Max(told) \in told /\ \A i \in told : i <= Max(told)
        BY <1>2, <1>4, <2>1, Greatest
    <2> DEFINE p == a[Max(told)]
    <2>3. p \in Range(a) /\ p.of = t /\ p.kind = k /\ With(v, a)[t][k] = p.nr
        BY <1>1, <1>2, <1>4, <2>2 DEF Range
    <2>4. ASSUME InOrder(a), NEW q \in Range(a), SameTopic(q, p)
          PROVE  q.nr <= p.nr
        <3>1. PICK i \in DOMAIN a : q = a[i]
            BY DEF Range
        <3>2. i \in told
            BY <1>2, <2>3, <2>4, <3>1 DEF SameTopic
        <3>3. CASE i = Max(told)
            <4>1. p.nr \in Nat
                BY <2>3, ItemType, RangeType
            <4> QED
                BY <3>1, <3>3, <4>1
        <3>4. CASE i # Max(told)
            <4>1. i < Max(told) /\ Max(told) \in DOMAIN a
                <5>1. i \in 1..Len(a) /\ Max(told) \in 1..Len(a) /\ i <= Max(told)
                    BY <1>2, <2>1, <2>2, <3>2
                <5> QED
                    BY <2>1, <3>4, <5>1
            <4> QED
                BY <2>4, <3>1, <4>1 DEF InOrder
        <3> QED
            BY <3>3, <3>4
    <2> QED
        BY <2>3, <2>4
<1> QED
    BY <1>3, <1>4

\* The packets q of a session that are still to be sent, when the peer has been
\* shown v, earlier sessions have lost d, and the follower may see h.
Well(q, v, d, h) ==
    /\ q \in Lists /\ {v, d, h} \subseteq Table
    /\ InOrder(q) /\ Within(Range(q), v, h) /\ Within(Range(q), d, h)
    /\ AtMost(v, h) /\ AtMost(d, h)

LEMMA Shows ==
    ASSUME NEW a \in Lists, NEW v \in Table, NEW h \in Table,
           InOrder(a), Within(Range(a), v, h), AtMost(v, h)
    PROVE  /\ With(v, a) \in Table /\ AtMost(v, With(v, a)) /\ AtMost(With(v, a), h)
           /\ \A p \in Range(a) \cap News : p.nr <= With(v, a)[p.of][p.kind]
           /\ \A B \in SUBSET News : Within(B, v, h) /\ Upto(Range(a), B) => Within(B, With(v, a), h)
<1> DEFINE w == With(v, a)
<1>1. ASSUME NEW t \in Clients, NEW k \in Kinds
      PROVE  \/ w[t][k] = v[t][k] /\ \A p \in Range(a) : ~(p.of = t /\ p.kind = k)
             \/ \E p \in Range(a) \cap News :
                    /\ p.of = t /\ p.kind = k /\ w[t][k] = p.nr
                    /\ \A q \in Range(a) : SameTopic(q, p) => q.nr <= p.nr
    BY WithLast, ItemType, RangeType
<1>2. ASSUME NEW t \in Clients, NEW k \in Kinds
      PROVE  w[t][k] \in Nat /\ v[t][k] <= w[t][k] /\ w[t][k] <= h[t][k]
    <2>1. v[t][k] \in Nat /\ h[t][k] \in Nat /\ v[t][k] <= h[t][k]
        BY DEF Table, AtMost
    <2>2. CASE w[t][k] = v[t][k]
        BY <2>1, <2>2
    <2>3. ASSUME NEW p \in Range(a) \cap News, p.of = t, p.kind = k, w[t][k] = p.nr
          PROVE  w[t][k] \in Nat /\ v[t][k] <= w[t][k] /\ w[t][k] <= h[t][k]
        BY <2>3, ItemType DEF Within
    <2> QED
        BY <1>1, <2>2, <2>3
<1>3. w \in Table
    BY <1>2 DEF With, Table
<1>4. ASSUME NEW p \in Range(a) \cap News
      PROVE  p.nr <= w[p.of][p.kind]
    <2>1. p.of \in Clients /\ p.kind \in Kinds
        BY DEF News
    <2> QED
        BY <1>1, <2>1 DEF SameTopic
<1>5. ASSUME NEW B \in SUBSET News, Within(B, v, h), Upto(Range(a), B), NEW b \in B
      PROVE  w[b.of][b.kind] <= b.nr /\ b.nr <= h[b.of][b.kind]
    <2>1. b.of \in Clients /\ b.kind \in Kinds
        BY DEF News
    <2>2. v[b.of][b.kind] <= b.nr /\ b.nr <= h[b.of][b.kind]
        BY <1>5 DEF Within
    <2>3. ASSUME NEW p \in Range(a), p.of = b.of, p.kind = b.kind
          PROVE  p.nr <= b.nr
        BY <1>5, <2>3 DEF Upto, SameTopic
    <2> QED
        BY <1>1, <2>1, <2>2, <2>3
<1> HIDE DEF w
<1>6. AtMost(v, w) /\ AtMost(w, h)
    BY <1>2 DEF AtMost
<1>7. \A B \in SUBSET News : Within(B, v, h) /\ Upto(Range(a), B) => Within(B, w, h)
    BY <1>5 DEF Within
<1> QED
    BY <1>3, <1>4, <1>6, <1>7 DEF w

LEMMA WithinNews ==
    ASSUME NEW A, NEW v, NEW h
    PROVE  Within(A, v, h) <=> Within(A \cap News, v, h)
BY DEF Within

\* The first part p is sent.
LEMMA SendPart ==
    ASSUME NEW p \in Lists, NEW q \in Lists, NEW v, NEW d, NEW h, Well(p \o q, v, d, h)
    PROVE  /\ Well(q, With(v, p), d, h) /\ AtMost(v, With(v, p))
           /\ \A x \in Range(p) \cap News : x.nr <= With(v, p)[x.of][x.kind]
<1>1. InOrder(p) /\ InOrder(q) /\ Upto(Range(p), Range(q)) /\ Range(p \o q) = Range(p) \cup Range(q)
    BY Parts DEF Well
<1>2. /\ Within(Range(p), v, h) /\ Within(Range(q), v, h) /\ Within(Range(q), d, h)
      /\ AtMost(v, h) /\ AtMost(d, h) /\ {v, d, h} \subseteq Table
    BY <1>1 DEF Well, Within
<1>3. /\ With(v, p) \in Table /\ AtMost(v, With(v, p)) /\ AtMost(With(v, p), h)
      /\ \A x \in Range(p) \cap News : x.nr <= With(v, p)[x.of][x.kind]
      /\ Within(Range(q) \cap News, v, h) /\ Upto(Range(p), Range(q) \cap News)
            => Within(Range(q) \cap News, With(v, p), h)
    BY <1>1, <1>2, Shows
<1>4. Within(Range(q), With(v, p), h)
    <2>1. Upto(Range(p), Range(q) \cap News)
        BY <1>1 DEF Upto
    <2> QED
        BY <1>2, <1>3, <2>1, WithinNews
<1> QED
    BY <1>1, <1>2, <1>3, <1>4 DEF Well

LEMMA TableOrder ==
    ASSUME NEW u \in Table, NEW v \in Table, NEW w \in Table, AtMost(u, v), AtMost(v, w)
    PROVE  AtMost(u, w)
<1> SUFFICES ASSUME NEW t \in Clients, NEW k \in Kinds
             PROVE  u[t][k] <= w[t][k]
    BY DEF AtMost
<1>1. u[t][k] \in Nat /\ v[t][k] \in Nat /\ w[t][k] \in Nat /\ u[t][k] <= v[t][k] /\ v[t][k] <= w[t][k]
    BY DEF Table, AtMost
<1> QED
    BY <1>1

\* The follower may see more.
LEMMA Grow ==
    ASSUME NEW q, NEW v, NEW d, NEW h, NEW g \in Table, Well(q, v, d, h), AtMost(h, g)
    PROVE  Well(q, v, d, g)
<1>1. AtMost(v, g) /\ AtMost(d, g)
    BY TableOrder DEF Well
<1>2. ASSUME NEW p \in Range(q) \cap News
      PROVE  v[p.of][p.kind] <= p.nr /\ d[p.of][p.kind] <= p.nr /\ p.nr <= g[p.of][p.kind]
    <2>1. p.of \in Clients /\ p.kind \in Kinds /\ p.nr \in Nat
        BY DEF News
    <2>2. h[p.of][p.kind] \in Nat /\ g[p.of][p.kind] \in Nat /\ h[p.of][p.kind] <= g[p.of][p.kind]
        BY <2>1 DEF Well, AtMost, Table
    <2>3. v[p.of][p.kind] <= p.nr /\ d[p.of][p.kind] <= p.nr /\ p.nr <= h[p.of][p.kind]
        BY DEF Well, Within
    <2> QED
        BY <2>1, <2>2, <2>3
<1> QED
    BY <1>1, <1>2 DEF Well, Within

\* An answer goes between two parts.
LEMMA AckIn ==
    ASSUME NEW a \in Lists, NEW b \in Lists, NEW v, NEW d, NEW h, Well(a \o b, v, d, h)
    PROVE  Well(Append(a, Ack) \o b, v, d, h)
<1>1. Append(a, Ack) = a \o <<Ack>> /\ Append(a, Ack) \in Lists
    BY DEF Lists
<1>2. Ack \in News \cup {Ack} /\ Ack \notin News
    BY SessionAssumption DEF Ack, News
<1>3. ASSUME NEW p \in News \cup {Ack}, SameTopic(Ack, p) \/ SameTopic(p, Ack)
      PROVE  p = Ack
    BY <1>2, <1>3, ItemType, SessionAssumption DEF SameTopic, Ack
<1>4. Upto(Range(a), {Ack}) /\ Upto({Ack}, Range(b))
    BY <1>3, RangeType DEF Upto, Ack
<1>5. /\ InOrder(a) /\ InOrder(b) /\ Upto(Range(a), Range(b)) /\ InOrder(<<Ack>>) /\ <<Ack>> \in Lists
      /\ Range(<<Ack>>) = {Ack} /\ Range(a \o b) = Range(a) \cup Range(b)
    BY <1>2, Parts, OnePacket DEF Well
<1>6. Range(Append(a, Ack)) = Range(a) \cup {Ack} /\ InOrder(Append(a, Ack))
    <2>1. /\ Range(a \o <<Ack>>) = Range(a) \cup Range(<<Ack>>)
          /\ InOrder(a \o <<Ack>>) <=> InOrder(a) /\ InOrder(<<Ack>>) /\ Upto(Range(a), Range(<<Ack>>))
        BY <1>5, Parts
    <2> QED
        BY <1>1, <1>4, <1>5, <2>1
<1>7. Upto(Range(a) \cup {Ack}, Range(b))
    BY <1>4, <1>5, UptoParts
<1>8. /\ Append(a, Ack) \o b \in Lists /\ InOrder(Append(a, Ack) \o b)
      /\ Range(Append(a, Ack) \o b) = Range(a) \cup {Ack} \cup Range(b)
    BY <1>1, <1>5, <1>6, <1>7, Parts
<1> QED
    BY <1>2, <1>5, <1>8 DEF Well, Within

\* The latest news come behind the others.
LEMMA NewsBehind ==
    ASSUME NEW q \in Lists, NEW n \in Seq(News), NEW v, NEW d, NEW h, Well(q, v, d, h),
           \A p \in Range(n) : p.nr = h[p.of][p.kind]
    PROVE  Well(q \o n, v, d, h)
<1>1. n \in Lists /\ Range(n) \subseteq News
    BY DEF Lists, Range
<1>2. \A p \in Range(n) : p.nr \in Nat /\ p.of \in Clients /\ p.kind \in Kinds
    BY <1>1 DEF News
<1>3. InOrder(n)
    <2> SUFFICES ASSUME NEW i \in DOMAIN n, NEW j \in DOMAIN n, SameTopic(n[i], n[j])
                 PROVE  n[i].nr <= n[j].nr
        BY DEF InOrder
    <2>1. n[i] \in Range(n) /\ n[j] \in Range(n)
        BY DEF Range
    <2>2. n[i].nr = n[j].nr /\ n[i].nr \in Nat
        BY <1>2, <2>1 DEF SameTopic
    <2> QED
        BY <2>2
<1>4. Upto(Range(q), Range(n))
    <2> SUFFICES ASSUME NEW p \in Range(q), NEW x \in Range(n), SameTopic(p, x)
                 PROVE  p.nr <= x.nr
        BY DEF Upto
    <2>1. p \in News
        BY <1>2, ItemType, RangeType DEF SameTopic
    <2>2. p.nr <= h[p.of][p.kind] /\ x.nr = h[x.of][x.kind]
        BY <2>1 DEF Well, Within
    <2> QED
        BY <2>2 DEF SameTopic
<1>5. q \o n \in Lists /\ InOrder(q \o n) /\ Range(q \o n) = Range(q) \cup Range(n)
    BY <1>1, <1>3, <1>4, Parts DEF Well
<1>6. ASSUME NEW p \in Range(n)
      PROVE  v[p.of][p.kind] <= p.nr /\ d[p.of][p.kind] <= p.nr /\ p.nr <= h[p.of][p.kind]
    BY <1>2 DEF Well, AtMost
<1>7. Within(Range(q) \cup Range(n), v, h) /\ Within(Range(q) \cup Range(n), d, h)
    BY <1>6 DEF Well, Within
<1> QED
    BY <1>5, <1>7 DEF Well

LEMMA HeadMoves ==
    ASSUME NEW b \in Lists, NEW left \in Lists, left # <<>>
    PROVE  /\ Head(left) \in News \cup {Ack} /\ Tail(left) \in Lists /\ <<Head(left)>> \in Lists
           /\ left = <<Head(left)>> \o Tail(left)
           /\ Append(b, Head(left)) = b \o <<Head(left)>> /\ Append(b, Head(left)) \in Lists
           /\ Append(b, Head(left)) \o Tail(left) = b \o left
<1> DEFINE T == News \cup {Ack}
<1> HIDE DEF T
<1>1. b \in Seq(T) /\ left \in Seq(T)
    BY DEF Lists, T
<1>2. Head(left) \in T /\ Tail(left) \in Seq(T) /\ <<Head(left)>> \in Seq(T)
    BY <1>1, HeadTailProperties
<1>3. left = <<Head(left)>> \o Tail(left)
    BY <1>1
<1>4. Append(b, Head(left)) = b \o <<Head(left)>> /\ Append(b, Head(left)) \in Seq(T)
    BY <1>1, <1>2, AppendIsConcat, AppendProperties
<1>5. (b \o <<Head(left)>>) \o Tail(left) = b \o (<<Head(left)>> \o Tail(left))
    BY <1>1, <1>2, ConcatAssociative
<1>6. Append(b, Head(left)) \o Tail(left) = b \o left
    BY <1>3, <1>4, <1>5
<1>7. Head(left) \in News \cup {Ack}
    BY <1>2 DEF T
<1>8. /\ Tail(left) \in Lists /\ <<Head(left)>> \in Lists
      /\ Append(b, Head(left)) \in Lists
    BY <1>2, <1>4, Zenon DEF Lists, T
<1> QED
    BY <1>3, <1>4, <1>6, <1>7, <1>8, Zenon

\* The first of the rest is sent behind b, and stays in the list.
LEMMA SendAndStay ==
    ASSUME NEW b \in Lists, NEW left \in Lists, left # <<>>, NEW v, NEW d, NEW h,
           Well(b \o left, v, d, h)
    PROVE  /\ Well(Tail(left), With(v, Append(b, Head(left))), d, h)
           /\ Well(left, With(v, Append(b, Head(left))), d, h)
           /\ AtMost(v, With(v, Append(b, Head(left))))
           /\ \A x \in (Range(b) \cup {Head(left)}) \cap News :
                x.nr <= With(v, Append(b, Head(left)))[x.of][x.kind]
<1> DEFINE p == Append(b, Head(left))
           w == With(v, p)
<1>1. /\ Head(left) \in News \cup {Ack} /\ Tail(left) \in Lists /\ left = <<Head(left)>> \o Tail(left)
      /\ p = b \o <<Head(left)>> /\ p \in Lists /\ p \o Tail(left) = b \o left
    BY HeadMoves
<1>2. <<Head(left)>> \in Lists /\ Range(<<Head(left)>>) = {Head(left)} /\ InOrder(<<Head(left)>>)
    BY <1>1, OnePacket
<1>3. Range(p) = Range(b) \cup {Head(left)}
    <2>1. Range(b \o <<Head(left)>>) = Range(b) \cup Range(<<Head(left)>>)
        <3> DEFINE T == News \cup {Ack}
                   q == <<Head(left)>>
        <3>1. b \in Seq(T) /\ q \in Seq(T)
            BY <1>2 DEF Lists
        <3> HIDE DEF T, q
        <3>2. Range(b \o q) = Range(b) \cup Range(q)
            BY <3>1, RangeConcatenation
        <3> QED
            BY <3>2 DEF q
    <2>2. p = b \o <<Head(left)>>
        BY <1>1
    <2> HIDE DEF p
    <2> QED
        BY <1>2, <2>1, <2>2
<1>4. /\ Well(Tail(left), w, d, h) /\ AtMost(v, w)
      /\ \A x \in Range(p) \cap News : x.nr <= w[x.of][x.kind]
    BY <1>1, SendPart
<1>5. InOrder(p) /\ InOrder(left) /\ Range(left) = {Head(left)} \cup Range(Tail(left))
    <2>1. InOrder(p \o Tail(left)) /\ InOrder(b \o left)
        BY <1>1 DEF Well
    <2> QED
        BY <1>1, <1>2, <2>1, Parts
<1>6. ASSUME Head(left) \in News
      PROVE  /\ w[Head(left).of][Head(left).kind] <= Head(left).nr
             /\ d[Head(left).of][Head(left).kind] <= Head(left).nr
             /\ Head(left).nr <= h[Head(left).of][Head(left).kind]
    <2> DEFINE x == Head(left)
    <2>1. x.of \in Clients /\ x.kind \in Kinds /\ x.nr \in Nat
        BY <1>6 DEF News
    <2>2. x \in Range(b \o left) /\ x \in Range(p)
        BY <1>3, <1>5, Parts
    <2>3. d[x.of][x.kind] <= x.nr /\ v[x.of][x.kind] <= x.nr /\ x.nr <= h[x.of][x.kind]
        BY <1>6, <2>2 DEF Well, Within
    <2>4. \A y \in Range(b) : SameTopic(y, x) => y.nr <= x.nr
        <3>1. Upto(Range(b), Range(<<x>>))
            BY <1>1, <1>2, <1>5, Parts
        <3> QED
            BY <1>2, <3>1 DEF Upto
    <2>5. \A y \in Range(p) : SameTopic(y, x) => y.nr <= x.nr
        BY <1>3, <2>1, <2>4
    <2>6. w[x.of][x.kind] <= x.nr
        <3>1. ASSUME NEW t \in Clients, NEW k \in Kinds
              PROVE  \/ w[t][k] = v[t][k]
                     \/ \E y \in Range(p) : y.of = t /\ y.kind = k /\ w[t][k] = y.nr
            <4>1. p \in Lists
                BY <1>1
            <4> HIDE DEF p
            <4> QED
                BY <4>1, WithLast
        <3> HIDE DEF w
        <3> QED
            BY <2>1, <2>3, <2>5, <3>1 DEF SameTopic
    <2> QED
        BY <2>3, <2>6
<1>7. Within(Range(left), w, h) /\ Within(Range(left), d, h)
    BY <1>4, <1>5, <1>6 DEF Well, Within
<1> HIDE DEF p, w
<1>8. left \in Lists /\ w \in Table /\ {d, h} \subseteq Table /\ AtMost(w, h) /\ AtMost(d, h)
    BY <1>4 DEF Well
<1>9. Well(left, w, d, h)
    BY <1>5, <1>7, <1>8 DEF Well
<1>10. \A x \in (Range(b) \cup {Head(left)}) \cap News : x.nr <= w[x.of][x.kind]
    BY <1>3, <1>4
<1> QED
    BY <1>4, <1>9, <1>10 DEF p, w

-----------------------------------------------------------------------------
(* The news of an Update *)

\* SetToSeq enumerates a finite set.
LEMMA Enumerates ==
    ASSUME NEW S, IsFiniteSet(S)
    PROVE  /\ SetToSeq(S) \in Seq(S)
           /\ \A x \in S : \E i \in DOMAIN SetToSeq(S) : SetToSeq(S)[i] = x
<1> DEFINE n == Cardinality(S)
<1>1. n \in Nat /\ ExistsBijection(1..n, S)
    BY FS_CardinalityType
<1>2. PICK g : g \in Bijection(1..n, S)
    BY <1>1 DEF ExistsBijection
<1>3. g \in [1..n -> S] /\ IsInjective(g)
    BY <1>2 DEF Bijection, Injection
<1> DEFINE f == SetToSeq(S)
<1>4. f \in [1..n -> S] /\ IsInjective(f)
    BY <1>3 DEF SetToSeq
<1> HIDE DEF f
<1>5. f \in Injection(1..n, S)
    BY <1>4 DEF Injection
<1>6. IsFiniteSet(1..n) /\ Cardinality(1..n) = n
    <2>1. n > 0 => n - 1 + 1 = n
        BY <1>1
    <2> QED
        BY <1>1, <2>1, FS_Interval
<1>7. f \in Surjection(1..n, S)
    BY <1>5, <1>6, FS_Injection
<1>8. \A x \in S : \E i \in 1..n : f[i] = x
    BY <1>7 DEF Surjection
<1> HIDE DEF n
<1>9. f \in Seq(S) /\ DOMAIN f = 1..n
    BY <1>1, <1>4
<1> QED
    BY <1>8, <1>9 DEF f

\* NewNews tells the last news of every client and topic the watcher lacks.
LEMMA NewsOfWatched ==
    ASSUME TypeOK, NEW f \in Clients, NEW k \in Kinds
    PROVE  /\ NewNews(f, k) \in Seq(News)
           /\ \A p \in Range(NewNews(f, k)) :
                p.of \in Watched(f) /\ p.kind = k /\ p.nr = latest[p.of][k]
           /\ \A t \in Watched(f) : HasNew(f, t, k) =>
                [of |-> t, kind |-> k, nr |-> latest[t][k]] \in Range(NewNews(f, k))
<1> DEFINE S == {c \in Watched(f) \X (1..3) : HasNew(f, c[1], k) /\ c[2] <= CopiesOf(c[1], k)}
           copies == SetToSeq(S)
           news == [i \in DOMAIN copies |-> [of |-> copies[i][1], kind |-> k, nr |-> latest[copies[i][1]][k]]]
<1>1. IsFiniteSet(S)
    <2>1. IsFiniteSet(Watched(f))
        BY FS_Subset, SessionAssumption DEF Watched
    <2>2. IsFiniteSet(1..3)
        <3>1. 1 \in Int /\ 3 \in Int
            OBVIOUS
        <3> QED
            BY <3>1, FS_Interval
    <2>3. IsFiniteSet(Watched(f) \X (1..3))
        BY <2>1, <2>2, FS_Product
    <2> QED
        BY <2>3, FS_Subset
<1>2. copies \in Seq(S) /\ \A x \in S : \E i \in DOMAIN copies : copies[i] = x
    BY <1>1, Enumerates
<1>3. NewNews(f, k) = news
    BY DEF NewNews
<1>4. \A c \in S : c[1] \in Watched(f) /\ c[1] \in Clients /\ HasNew(f, c[1], k)
    BY DEF Watched
<1>5. ASSUME NEW t \in Watched(f), HasNew(f, t, k)
      PROVE  /\ latest[t][k] \in Nat \ {0} /\ <<t, 1>> \in S
             /\ [of |-> t, kind |-> k, nr |-> latest[t][k]] \in News
    <2>1. t \in Clients /\ watch[f][t] \in [Kinds -> Nat] /\ latest[t] \in [Kinds -> Nat]
        BY DEF Watched, TypeOK
    <2>2. latest[t][k] > watch[f][t][k]
        BY <1>5 DEF HasNew, HasNewName, HasNewPlace, Kinds
    <2>3. latest[t][k] \in Nat \ {0}
        BY <2>1, <2>2
    <2>4. <<t, 1>> \in S
        BY <1>5 DEF CopiesOf
    <2> QED
        BY <2>1, <2>3, <2>4 DEF News
<1> HIDE DEF S
<1>6. Len(copies) \in Nat /\ DOMAIN copies = 1..Len(copies) /\ \A i \in DOMAIN copies : copies[i] \in S
    BY <1>2
<1> HIDE DEF copies
<1>7. \A i \in DOMAIN copies : news[i] \in News
    BY <1>4, <1>5, <1>6
<1>8. news \in Seq(News) /\ DOMAIN news = DOMAIN copies
    BY <1>6, <1>7
<1>9. ASSUME NEW p \in Range(news)
      PROVE  p.of \in Watched(f) /\ p.kind = k /\ p.nr = latest[p.of][k]
    <2>1. PICK i \in DOMAIN copies : p = news[i]
        BY <1>8 DEF Range
    <2> QED
        BY <1>4, <1>6, <2>1
<1>10. ASSUME NEW t \in Watched(f), HasNew(f, t, k)
       PROVE  [of |-> t, kind |-> k, nr |-> latest[t][k]] \in Range(news)
    <2>1. PICK i \in DOMAIN copies : copies[i] = <<t, 1>>
        BY <1>2, <1>5, <1>10
    <2>2. news[i] = [of |-> t, kind |-> k, nr |-> latest[t][k]]
        BY <2>1
    <2> QED
        BY <1>8, <2>2 DEF Range
<1> QED
    BY <1>3, <1>8, <1>9, <1>10

-----------------------------------------------------------------------------
(* Queues and sockets: what a push and a packet change *)

QueuesTyped ==
    /\ mail \in [Clients -> [MailKinds -> Nat]]
    /\ bytes \in [Clients -> 0..PipeCapacity]
    /\ edge \in [Clients -> BOOLEAN]

QueuesGrow ==
    /\ QueuesTyped'
    /\ \A s \in Clients : bytes[s] <= bytes'[s]
    /\ \A s \in Clients, k \in MailKinds : mail[s][k] <= mail'[s][k]

LEMMA MailedMore ==
    ASSUME NEW m \in [Clients -> [MailKinds -> Nat]], NEW S, NEW kind \in MailKinds
    PROVE  /\ Mailed(m, S, kind) \in [Clients -> [MailKinds -> Nat]]
           /\ \A s \in Clients, k \in MailKinds : m[s][k] <= Mailed(m, S, kind)[s][k]
           /\ \A s \in Clients : s \in S => Mailed(m, S, kind)[s][kind] > 0
BY DEF Mailed

LEMMA CountedMore ==
    ASSUME NEW b \in [Clients -> 0..PipeCapacity], NEW S
    PROVE  /\ Counted(b, S) \in [Clients -> 0..PipeCapacity]
           /\ \A s \in Clients : b[s] <= Counted(b, S)[s]
BY SessionAssumption DEF Counted

LEMMA Pushed ==
    ASSUME QueuesTyped, NEW S, NEW kind \in MailKinds, PushTo(S, kind)
    PROVE  QueuesGrow /\ \A s \in Clients : s \in S => mail'[s][kind] > 0
<1>1. edge' \in [Clients -> BOOLEAN]
    BY DEF PushTo, Woken
<1> QED
    BY <1>1, MailedMore, CountedMore DEF PushTo, QueuesTyped, QueuesGrow

LEMMA NotPushed ==
    ASSUME QueuesTyped, UNCHANGED queues
    PROVE  QueuesGrow
BY SessionAssumption DEF QueuesTyped, QueuesGrow, queues

SendingTyped ==
    /\ remaining \in [Clients -> Seq(News)]
    /\ bufferOut \in [Clients -> Lists]
    /\ view \in NewsTable

LEMMA ShownType ==
    ASSUME view \in NewsTable, NEW s \in Clients, NEW a \in Lists
    PROVE  Shown(s, a) \in NewsTable /\ Shown(s, a) = [view EXCEPT ![s] = With(view[s], a)]
<1>1. ASSUME NEW t \in Clients, NEW k \in Kinds
      PROVE  With(view[s], a)[t][k] \in Nat
    <2>1. view[s][t][k] \in Nat
        BY DEF NewsTable
    <2> QED
        BY <2>1, WithLast, RangeType, ItemType
<1>2. With(view[s], a) \in [Clients -> [Kinds -> Nat]]
    BY <1>1 DEF With
<1> QED
    BY <1>2 DEF Shown, NewsTable

LEMMA PacketType ==
    ASSUME SendingTyped, NEW s \in Clients, NEW p \in News \cup {Ack}
    PROVE  /\ Append(bufferOut[s], p) \in Lists
           /\ Taken(s, p) => view' \in NewsTable /\ bufferOut' \in [Clients -> Lists]
           /\ Kept(s, p) => view' \in NewsTable /\ bufferOut' \in [Clients -> Lists] /\ bufferOut'[s] # <<>>
<1>1. Append(bufferOut[s], p) \in Lists /\ Append(bufferOut[s], p) # <<>> /\ <<>> \in Lists
    <2>1. bufferOut[s] \in Lists
        BY DEF SendingTyped
    <2> QED
        BY <2>1, AppendProperties DEF Lists
<1>2. Shown(s, Append(bufferOut[s], p)) \in NewsTable
    <2>1. view \in NewsTable
        BY Zenon DEF SendingTyped
    <2> QED
        BY <1>1, <2>1, ShownType, Zenon
<1> QED
    BY <1>1, <1>2 DEF Taken, Kept, SendingTyped

\* After a turn of the remaining packets either none is left, or a message or
\* the socket will bring the next one.
LEMMA TurnTyped ==
    ASSUME SendingTyped, QueuesTyped, NEW s \in Clients, NEW left \in Seq(News),
           sendRemainingData(s, left), left = <<>> => remaining[s] = <<>>
    PROVE  /\ SendingTyped' /\ QueuesGrow
           /\ \A f \in Clients : f # s => remaining'[f] = remaining[f] /\ bufferOut'[f] = bufferOut[f]
           /\ remaining'[s] = <<>> \/ bufferOut'[s] # <<>> \/ mail'[s]["PacketSend"] > 0
<1>1. CASE left = <<>>
    BY <1>1, NotPushed DEF sendRemainingData, SendingTyped, sending
<1>2. CASE left # <<>>
    <2>1. /\ NextRemaining(s, left)
          /\ Head(left) \in News /\ Head(left) \in News \cup {Ack}
          /\ left \in Seq(News) /\ Tail(left) \in Seq(News)
        BY <1>2 DEF sendRemainingData
    <2>2. CASE Taken(s, Head(left)) /\ PushTo({s}, "PacketSend")
               /\ remaining' = [remaining EXCEPT ![s] = IF HasByte(s) THEN Tail(left) ELSE left]
        <3>1. QueuesGrow /\ mail'[s]["PacketSend"] > 0
            BY <2>2, Pushed DEF MailKinds
        <3>2. remaining' \in [Clients -> Seq(News)] /\ \A f \in Clients : f # s => remaining'[f] = remaining[f]
            BY <2>1, <2>2 DEF SendingTyped
        <3>3. view' \in NewsTable /\ bufferOut' \in [Clients -> Lists]
            BY <2>1, <2>2, PacketType
        <3> QED
            BY <2>2, <3>1, <3>2, <3>3 DEF SendingTyped, Taken
    <2>3. CASE Kept(s, Head(left)) /\ UNCHANGED queues /\ remaining' = [remaining EXCEPT ![s] = Tail(left)]
        <3>1. remaining' \in [Clients -> Seq(News)] /\ \A f \in Clients : f # s => remaining'[f] = remaining[f]
            BY <2>1, <2>3 DEF SendingTyped
        <3>2. view' \in NewsTable /\ bufferOut' \in [Clients -> Lists] /\ bufferOut'[s] # <<>>
            BY <2>1, <2>3, PacketType
        <3> QED
            BY <2>3, <3>1, <3>2, NotPushed DEF SendingTyped, Kept
    <2> QED
        BY <2>1, <2>2, <2>3 DEF NextRemaining
<1> QED
    BY <1>1, <1>2

-----------------------------------------------------------------------------
(* The type invariant *)

DatabaseTyped ==
    /\ latest \in [Clients -> [Kinds -> Nat]] /\ times \in [Clients -> Seq(Times)]
    /\ watch \in [Clients -> [Clients -> [Kinds -> Nat] \cup {None}]]
    /\ allowed \in NewsTable /\ dropped \in NewsTable
    /\ caughtUp \in [Clients -> BOOLEAN] /\ cutShort \in [Clients -> BOOLEAN]

RestTyped ==
    /\ sessions \in 0..MaxSessions /\ toSend \in 0..MaxPackets
    /\ bufferIn \in [Clients -> Packets \cup {None}]
    /\ batch \in SUBSET Clients
    /\ taken \in [of : Clients, kind : MailKinds] \cup {None}
    /\ online \in [Clients -> BOOLEAN]

\* The Server thread holds only sessions that are there, with a byte to read;
\* a session that has caught up is there.
Live ==
    /\ taken # None => online[taken.of]
    /\ \A s \in batch : online[s] /\ bytes[s] > 0
    /\ \A s \in Clients : caughtUp[s] => online[s]

Typed == QueuesTyped /\ SendingTyped /\ DatabaseTyped /\ RestTyped
TInv == Typed /\ Live

LEMMA TypeParts == TypeOK <=> Typed
BY DEF TypeOK, Typed, QueuesTyped, SendingTyped, DatabaseTyped, RestTyped, Lists

LEMMA InitTyped == Init => TInv
<1> SUFFICES ASSUME Init
             PROVE  TInv
    OBVIOUS
<1>1. QueuesTyped
    BY SessionAssumption DEF Init, QueuesTyped, NoMail
<1>2. SendingTyped
    BY NoPacket DEF Init, SendingTyped, NothingSeen, NoNews, NewsTable
<1>3. DatabaseTyped
    <2>1. latest \in [Clients -> [Kinds -> Nat]]
        BY DEF Init
    <2>2. NoNews \in [Kinds -> Nat]
        BY DEF NoNews
    <2>3. watch \in [Clients -> [Clients -> [Kinds -> Nat] \cup {None}]] /\ allowed \in NewsTable
        BY <2>1, <2>2 DEF Init, NewsTable
    <2> QED
        BY <2>1, <2>2, <2>3 DEF Init, DatabaseTyped, NothingSeen, NewsTable
<1>4. RestTyped /\ Live
    BY SessionAssumption DEF Init, RestTyped, Live
<1> QED
    BY <1>1, <1>2, <1>3, <1>4 DEF TInv, Typed

LEMMA PublishTyped ==
    ASSUME DatabaseTyped, NEW s \in Clients, NEW k \in Kinds, Publish(s, k)
    PROVE  /\ latest' \in [Clients -> [Kinds -> Nat]] /\ allowed' \in NewsTable
           /\ watch' = watch
           /\ latest' = [latest EXCEPT ![s] = [latest[s] EXCEPT ![k] = latest[s][k] + 1]]
<1>1. latest' \in [Clients -> [Kinds -> Nat]]
      /\ latest' = [latest EXCEPT ![s] = [latest[s] EXCEPT ![k] = latest[s][k] + 1]]
    BY DEF Publish, DatabaseTyped
<1>2. allowed' \in NewsTable
    BY <1>1 DEF Publish, DatabaseTyped, NewsTable
<1> QED
    BY <1>1, <1>2 DEF Publish

\* What every handler of a packet leaves.
Handled == QueuesGrow /\ SendingTyped' /\ DatabaseTyped' /\ UNCHANGED caughtUp

LEMMA PlaceAdded ==
    ASSUME DatabaseTyped, NEW s \in Clients, AddPosition(s)
    PROVE  times' \in [Clients -> Seq(Times)] /\ \A t \in Clients : t # s => times'[t] = times[t]
<1>1. PICK time \in Times : times' = [times EXCEPT ![s] = Append(times[s], time)]
    BY DEF AddPosition
<1>2. Append(times[s], time) \in Seq(Times)
    BY DEF DatabaseTyped
<1> QED
    BY <1>1, <1>2 DEF DatabaseTyped

LEMMA LocationTyped ==
    ASSUME Typed, NEW s \in Clients, Location(s)
    PROVE  Handled
<1>1. PICK S \in Reached(s) : PushTo(S, "Update") /\ cutShort' = [cutShort EXCEPT ![s] = Throws(S)]
    BY DEF Location
<1>2. QueuesGrow
    BY <1>1, Pushed DEF Typed, MailKinds
<1>3. SendingTyped' /\ dropped' = dropped /\ caughtUp' = caughtUp
    BY DEF Location, Typed, SendingTyped, sending
<1>4. latest' \in [Clients -> [Kinds -> Nat]] /\ allowed' \in NewsTable /\ watch' = watch
    BY PublishTyped DEF Location, Typed, Kinds
<1>5. cutShort' \in [Clients -> BOOLEAN]
    BY <1>1 DEF Typed, DatabaseTyped, Throws
<1>6. times' \in [Clients -> Seq(Times)]
    BY PlaceAdded DEF Location, Typed
<1> QED
    BY <1>2, <1>3, <1>4, <1>5, <1>6 DEF Typed, DatabaseTyped, Handled

\* The Updates and then the notice of the answer.
LEMMA PushedTwice ==
    ASSUME QueuesTyped, NEW S, NEW s \in Clients, NEW e,
           mail' = Mailed(Mailed(mail, S, "Update"), {s}, "PacketSend"),
           bytes' = Counted(Counted(bytes, S), {s}),
           edge' = [Woken(edge, bytes, S) EXCEPT ![s] = @ \/ e]
    PROVE  /\ QueuesGrow
           /\ \A f \in Clients : f \in S => mail'[f]["Update"] > 0
           /\ mail'[s]["PacketSend"] > 0
<1> DEFINE m == Mailed(mail, S, "Update")
           b == Counted(bytes, S)
<1>1. /\ m \in [Clients -> [MailKinds -> Nat]]
      /\ \A f \in Clients, k \in MailKinds : mail[f][k] <= m[f][k]
      /\ \A f \in Clients : f \in S => m[f]["Update"] > 0
    BY MailedMore DEF QueuesTyped, MailKinds
<1>2. b \in [Clients -> 0..PipeCapacity] /\ \A f \in Clients : bytes[f] <= b[f]
    BY CountedMore DEF QueuesTyped
<1> HIDE DEF m, b
<1>3. /\ mail' \in [Clients -> [MailKinds -> Nat]]
      /\ \A f \in Clients, k \in MailKinds : m[f][k] <= mail'[f][k]
      /\ mail'[s]["PacketSend"] > 0
    BY <1>1, MailedMore DEF MailKinds, m
<1>4. bytes' \in [Clients -> 0..PipeCapacity] /\ \A f \in Clients : b[f] <= bytes'[f]
    BY <1>2, CountedMore DEF b
<1>5. edge' \in [Clients -> BOOLEAN]
    BY DEF Woken
<1>6. \A f \in Clients, k \in MailKinds : mail[f][k] \in Nat /\ m[f][k] \in Nat /\ mail'[f][k] \in Nat
    BY <1>1, <1>3 DEF QueuesTyped
<1>7. ASSUME NEW f \in Clients, NEW k \in MailKinds
      PROVE  mail[f][k] <= mail'[f][k]
    <2>1. mail[f][k] <= m[f][k] /\ m[f][k] <= mail'[f][k]
        BY <1>1, <1>3
    <2>2. mail[f][k] \in Nat /\ m[f][k] \in Nat /\ mail'[f][k] \in Nat
        BY <1>6
    <2> QED
        BY <2>1, <2>2
<1>8. ASSUME NEW f \in Clients
      PROVE  bytes[f] <= bytes'[f]
    <2>1. bytes[f] <= b[f] /\ b[f] <= bytes'[f]
        BY <1>2, <1>4
    <2>2. bytes[f] \in 0..PipeCapacity /\ b[f] \in 0..PipeCapacity /\ bytes'[f] \in 0..PipeCapacity
        BY <1>2, <1>4 DEF QueuesTyped
    <2> QED
        BY <2>1, <2>2, SessionAssumption
<1>9. ASSUME NEW f \in Clients, f \in S
      PROVE  mail'[f]["Update"] > 0
    <2>1. "Update" \in MailKinds /\ m[f]["Update"] > 0
        BY <1>1, <1>9 DEF MailKinds
    <2>2. m[f]["Update"] <= mail'[f]["Update"] /\ m[f]["Update"] \in Nat /\ mail'[f]["Update"] \in Nat
        BY <1>3, <1>6, <2>1
    <2> QED
        BY <2>1, <2>2
<1> QED
    BY <1>3, <1>4, <1>5, <1>7, <1>8, <1>9 DEF QueuesGrow, QueuesTyped

LEMMA SetNameTyped ==
    ASSUME Typed, NEW s \in Clients, SetName(s)
    PROVE  Handled
<1>1. PICK S \in Reached(s) :
        LET own == s \in S /\ HasByte(s)
            full == bytes[s] + (IF own THEN 1 ELSE 0) = PipeCapacity
        IN
        /\ cutShort' = [cutShort EXCEPT ![s] = Throws(S)]
        /\ \/ PushTo(S, "Update") /\ UNCHANGED <<view, bufferOut>>
           \/ Kept(s, Ack) /\ PushTo(S, "Update")
           \/ /\ Taken(s, Ack)
              /\ mail' = Mailed(Mailed(mail, S, "Update"), {s}, "PacketSend")
              /\ bytes' = Counted(Counted(bytes, S), {s})
              /\ edge' = [Woken(edge, bytes, S) EXCEPT ![s] = @ \/ ~full]
    BY DEF SetName
<1>2. QueuesGrow
    BY <1>1, Pushed, PushedTwice DEF Typed, MailKinds
<1>3. view' \in NewsTable /\ bufferOut' \in [Clients -> Lists]
    <2>1. Ack \in News \cup {Ack}
        OBVIOUS
    <2> QED
        BY <1>1, <2>1, PacketType DEF Typed, SendingTyped
<1>4. SendingTyped' /\ dropped' = dropped /\ caughtUp' = caughtUp
    BY <1>3 DEF SetName, Typed, SendingTyped
<1>5. latest' \in [Clients -> [Kinds -> Nat]] /\ allowed' \in NewsTable /\ watch' = watch
    BY PublishTyped DEF SetName, Typed, Kinds
<1>6. cutShort' \in [Clients -> BOOLEAN] /\ times' = times
    BY <1>1 DEF SetName, Typed, DatabaseTyped, Throws
<1> QED
    BY <1>2, <1>4, <1>5, <1>6 DEF Typed, DatabaseTyped, Handled

LEMMA SetNameTakenTyped ==
    ASSUME Typed, NEW s \in Clients, SetNameTaken(s)
    PROVE  Handled
<1>1. Ack \in News \cup {Ack} /\ "PacketSend" \in MailKinds
    BY DEF MailKinds
<1>2. QueuesGrow
    BY <1>1, Pushed, NotPushed DEF SetNameTaken, Typed
<1>3. SendingTyped'
    BY <1>1, PacketType DEF SetNameTaken, Typed, SendingTyped
<1>4. UNCHANGED <<latest, times, watch, allowed, dropped, caughtUp, cutShort>>
    BY DEF SetNameTaken, database, history
<1> QED
    BY <1>2, <1>3, <1>4 DEF Typed, DatabaseTyped, Handled

LEMMA EntryType ==
    ASSUME NEW A, NEW g \in [Clients -> [Clients -> A]], NEW f, NEW t, NEW x \in A
    PROVE  [g EXCEPT ![f] = [g[f] EXCEPT ![t] = x]] \in [Clients -> [Clients -> A]]
<1>1. CASE f \in Clients
    <2>1. [g[f] EXCEPT ![t] = x] \in [Clients -> A]
        BY <1>1
    <2> QED
        BY <1>1, <2>1
<1>2. CASE f \notin Clients
    <2>1. [g EXCEPT ![f] = [g[f] EXCEPT ![t] = x]] = g
        BY <1>2
    <2> QED
        BY <2>1
<1> QED
    BY <1>1, <1>2

LEMMA FollowerPacketTyped ==
    ASSUME Typed, NEW s \in Clients, NEW p, FollowerPacket(s, p)
    PROVE  Handled
<1>1. SendingTyped' /\ UNCHANGED <<dropped, caughtUp, cutShort, latest, times>>
    BY DEF FollowerPacket, Typed, SendingTyped, sending, Unfollow
<1>2. QueuesGrow
    BY Pushed, NotPushed DEF FollowerPacket, Typed, Unfollow, MailKinds
<1>3. watch' \in [Clients -> [Clients -> [Kinds -> Nat] \cup {None}]]
    <2>1. NoNews \in [Kinds -> Nat]
        BY DEF NoNews
    <2>2. PICK f, t, x : x \in [Kinds -> Nat] \cup {None} /\ watch' = [watch EXCEPT ![f] = [watch[f] EXCEPT ![t] = x]]
        BY <2>1 DEF FollowerPacket, Unfollow
    <2>3. watch \in [Clients -> [Clients -> [Kinds -> Nat] \cup {None}]]
        BY DEF Typed, DatabaseTyped
    <2> QED
        BY <2>2, <2>3, EntryType
<1>4. allowed' \in NewsTable
    <2>1. allowed' = allowed \/ \E f : allowed' = [allowed EXCEPT ![f] = [allowed[f] EXCEPT ![s] = latest[s]]]
        BY DEF FollowerPacket, Unfollow
    <2>2. latest[s] \in [Kinds -> Nat] /\ allowed \in [Clients -> [Clients -> [Kinds -> Nat]]]
        BY DEF Typed, DatabaseTyped, NewsTable
    <2>3. \A f : [allowed EXCEPT ![f] = [allowed[f] EXCEPT ![s] = latest[s]]]
                    \in [Clients -> [Clients -> [Kinds -> Nat]]]
        BY <2>2, EntryType
    <2>4. CASE allowed' = allowed
        BY <2>2, <2>4 DEF NewsTable
    <2>5. CASE \E f : allowed' = [allowed EXCEPT ![f] = [allowed[f] EXCEPT ![s] = latest[s]]]
        <3>1. PICK f : allowed' = [allowed EXCEPT ![f] = [allowed[f] EXCEPT ![s] = latest[s]]]
            BY <2>5
        <3> QED
            BY <2>3, <3>1 DEF NewsTable
    <2> QED
        BY <2>1, <2>4, <2>5
<1> QED
    BY <1>1, <1>2, <1>3, <1>4 DEF Typed, DatabaseTyped, Handled

\* A step keeps the type and Live when the Server thread gets no new session.
LEMMA QuietTyped ==
    ASSUME TInv, QueuesGrow, SendingTyped', DatabaseTyped', RestTyped',
           batch' = batch, taken' = None \/ taken' = taken,
           \A s \in Clients : online[s] => online'[s],
           \A s \in Clients : caughtUp'[s] => caughtUp[s] \/ online[s]
    PROVE  TInv'
<1>1. \A s \in batch : bytes'[s] > 0
    <2> SUFFICES ASSUME NEW s \in batch
                 PROVE  bytes'[s] > 0
        OBVIOUS
    <2>1. s \in Clients /\ bytes[s] > 0 /\ bytes[s] <= bytes'[s]
        BY DEF TInv, Typed, RestTyped, Live, QueuesGrow
    <2>2. bytes[s] \in 0..PipeCapacity /\ bytes'[s] \in 0..PipeCapacity
        BY <2>1 DEF TInv, Typed, QueuesTyped, QueuesGrow
    <2> QED
        BY <2>1, <2>2, SessionAssumption
<1>2. taken # None => taken.of \in Clients
    BY DEF TInv, Typed, RestTyped
<1>3. Live'
    BY <1>1, <1>2 DEF TInv, Live, Typed, RestTyped
<1> QED
    BY <1>3 DEF TInv, Typed, QueuesGrow

LEMMA HandlePacketTyped ==
    ASSUME TInv, HandlePacket
    PROVE  TInv'
<1> DEFINE s == taken.of
           p == bufferIn[s]
<1>1. s \in Clients /\ taken' = None /\ UNCHANGED <<sessions, online, batch, toSend>>
      /\ bufferIn' = [bufferIn EXCEPT ![s] = None]
    BY DEF HandlePacket, TInv, Typed, RestTyped
<1>2. ASSUME Location(s) \/ SetName(s) \/ SetNameTaken(s) \/ FollowerPacket(s, p)
      PROVE  Handled
    BY <1>1, <1>2, LocationTyped, SetNameTyped, SetNameTakenTyped, FollowerPacketTyped DEF TInv
<1>3. ASSUME UNCHANGED <<database, queues, sending, history>>
      PROVE  Handled
    <2>1. QueuesGrow
        BY <1>3, NotPushed DEF TInv, Typed
    <2>2. SendingTyped' /\ DatabaseTyped' /\ UNCHANGED caughtUp
        BY <1>3 DEF TInv, Typed, SendingTyped, DatabaseTyped, database, sending, history
    <2> QED
        BY <2>1, <2>2 DEF Handled
<1>4. Handled
    BY <1>2, <1>3 DEF HandlePacket
<1>5. RestTyped'
    BY <1>1 DEF TInv, Typed, RestTyped
<1> HIDE DEF s, p
<1> QED
    BY <1>1, <1>4, <1>5, QuietTyped DEF Handled

LEMMA HandleSentTyped ==
    ASSUME TInv, HandleSent
    PROVE  TInv'
<1>1. taken.of \in Clients /\ taken' = None /\ UNCHANGED <<database, sessions, online, bufferIn, batch, toSend, history>>
    BY DEF HandleSent, TInv, Typed, RestTyped
<1>2. remaining[taken.of] \in Seq(News)
    BY <1>1 DEF TInv, Typed, SendingTyped
<1>3. SendingTyped' /\ QueuesGrow
    BY <1>1, <1>2, TurnTyped DEF HandleSent, TInv, Typed
<1>4. DatabaseTyped' /\ RestTyped'
    BY <1>1 DEF TInv, Typed, DatabaseTyped, RestTyped, database, history
<1> QED
    BY <1>1, <1>3, <1>4, QuietTyped DEF history

LEMMA SeenType ==
    ASSUME DatabaseTyped, NEW f \in Clients
    PROVE  Seen(f) \in [Clients -> [Clients -> [Kinds -> Nat] \cup {None}]]
<1>1. ASSUME NEW t \in Watched(f)
      PROVE  [k \in Kinds |-> IF HasNew(f, t, k) THEN latest[t][k] ELSE watch[f][t][k]] \in [Kinds -> Nat]
    <2>1. watch[f][t] \in [Kinds -> Nat] /\ latest[t] \in [Kinds -> Nat]
        BY DEF Watched, DatabaseTyped
    <2> QED
        BY <2>1
<1>2. Watched(f) \subseteq Clients
    BY DEF Watched
<1> QED
    BY <1>1, <1>2 DEF Seen, DatabaseTyped

\* What an Update sends behind the packets that remain.
LEMMA UpdatePackets ==
    ASSUME TInv, NEW f \in Clients
    PROVE  /\ remaining[f] \o NewNews(f, "name") \o NewNews(f, "place") \in Seq(News)
           /\ remaining[f] \o NewNews(f, "name") \o NewNews(f, "place") = <<>> => remaining[f] = <<>>
<1>1. remaining[f] \in Seq(News) /\ NewNews(f, "name") \in Seq(News) /\ NewNews(f, "place") \in Seq(News)
    BY NewsOfWatched, TypeParts DEF TInv, Typed, SendingTyped, Kinds
<1> QED
    BY <1>1

LEMMA HandleUpdateTyped ==
    ASSUME TInv, HandleUpdate
    PROVE  TInv'
<1> DEFINE f == taken.of
           left == remaining[f] \o NewNews(f, "name") \o NewNews(f, "place")
<1>1. /\ f \in Clients /\ online[f] /\ taken' = None /\ watch' = Seen(f)
      /\ sendRemainingData(f, left)
      /\ caughtUp' = [caughtUp EXCEPT ![f] = TRUE]
      /\ UNCHANGED <<latest, times, sessions, online, bufferIn, batch, toSend, allowed, dropped, cutShort>>
    BY DEF HandleUpdate, TInv, Typed, RestTyped, Live
<1>2. left \in Seq(News) /\ (left = <<>> => remaining[f] = <<>>)
    BY <1>1, UpdatePackets
<1> HIDE DEF f, left
<1>3. SendingTyped' /\ QueuesGrow
    BY <1>1, <1>2, TurnTyped DEF TInv, Typed
<1>4. DatabaseTyped'
    BY <1>1, SeenType DEF TInv, Typed, DatabaseTyped
<1>5. RestTyped'
    BY <1>1 DEF TInv, Typed, RestTyped
<1>6. \A s \in Clients : caughtUp'[s] => caughtUp[s] \/ online[s]
    BY <1>1 DEF TInv, Typed, DatabaseTyped
<1> QED
    BY <1>1, <1>3, <1>4, <1>5, <1>6, QuietTyped

LEMMA ComingTyped ==
    ASSUME TInv, NEW s \in Clients, Register(s) \/ \E p \in Packets : Arrive(s, p)
    PROVE  TInv'
<1>1. QueuesGrow
    BY Pushed DEF Register, Arrive, TInv, Typed, MailKinds
<1>2. SendingTyped' /\ DatabaseTyped' /\ UNCHANGED <<batch, taken, caughtUp>>
    BY DEF Register, Arrive, TInv, Typed, SendingTyped, DatabaseTyped, database, sending, server, history
<1>3. RestTyped'
    <2>1. CASE Register(s)
        BY <2>1, SessionAssumption DEF Register, TInv, Typed, RestTyped, server
    <2>2. CASE \E p \in Packets : Arrive(s, p)
        BY <2>2, SessionAssumption DEF Arrive, TInv, Typed, RestTyped, server
    <2> QED
        BY <2>1, <2>2
<1>4. \A f \in Clients : online[f] => online'[f]
    BY DEF Register, Arrive, TInv, Typed, RestTyped
<1> QED
    BY <1>1, <1>2, <1>3, <1>4, QuietTyped

LEMMA EraseTyped ==
    ASSUME TInv, NEW s \in Clients, Erase(s)
    PROVE  TInv'
<1>1. QueuesTyped'
    BY SessionAssumption DEF Erase, TInv, Typed, QueuesTyped, NoMail
<1>2. SendingTyped'
    BY NoPacket DEF Erase, TInv, Typed, SendingTyped
<1>3. DatabaseTyped'
    <2>1. Unsent(s) \in Lists
        BY DEF Unsent, TInv, Typed, SendingTyped, Lists
    <2>2. ASSUME NEW t \in Clients, NEW k \in Kinds
          PROVE  With(dropped[s], Unsent(s))[t][k] \in Nat
        <3>1. dropped[s][t][k] \in Nat
            BY DEF TInv, Typed, DatabaseTyped, NewsTable
        <3> QED
            BY <2>1, <3>1, WithLast, RangeType, ItemType
    <2>3. With(dropped[s], Unsent(s)) \in [Clients -> [Kinds -> Nat]]
        BY <2>2 DEF With
    <2>4. dropped' \in NewsTable
        BY <2>3 DEF Erase, TInv, Typed, DatabaseTyped, NewsTable
    <2> QED
        BY <2>4 DEF Erase, TInv, Typed, DatabaseTyped, database
<1>4. RestTyped'
    BY DEF Erase, TInv, Typed, RestTyped
<1>5. Live'
    BY DEF Erase, TInv, Typed, RestTyped, DatabaseTyped, QueuesTyped, Live
<1> QED
    BY <1>1, <1>2, <1>3, <1>4, <1>5 DEF TInv, Typed

LEMMA WritableTyped ==
    ASSUME TInv, NEW s \in Clients, NEW n, Writable(s, n)
    PROVE  TInv'
<1>1. bufferOut[s] \in Lists /\ n \in 1..Len(bufferOut[s])
    BY DEF Writable, TInv, Typed, SendingTyped
<1>2. SubSeq(bufferOut[s], 1, n) \in Lists /\ SubSeq(bufferOut[s], n + 1, Len(bufferOut[s])) \in Lists
    BY <1>1 DEF Lists
<1>3. SendingTyped'
    BY <1>2, ShownType DEF Writable, TInv, Typed, SendingTyped
<1>4. QueuesGrow
    BY Pushed, NotPushed DEF Writable, TInv, Typed, MailKinds
<1>5. DatabaseTyped' /\ RestTyped' /\ UNCHANGED <<batch, taken, online, caughtUp>>
    BY DEF Writable, TInv, Typed, DatabaseTyped, RestTyped, database, server, history
<1> QED
    BY <1>3, <1>4, <1>5, QuietTyped

LEMMA WaitTyped ==
    ASSUME TInv, Wait
    PROVE  TInv'
BY DEF Wait, Ready, TInv, Typed, QueuesTyped, SendingTyped, DatabaseTyped, RestTyped, Live, database, sending, history

LEMMA TakeTyped ==
    ASSUME TInv, NEW s \in Clients, NEW k \in MailKinds, Take(s, k)
    PROVE  TInv'
<1>1. s \in batch /\ online[s] /\ bytes[s] > 0 /\ bytes[s] \in 0..PipeCapacity /\ mail[s][k] \in Nat /\ mail[s][k] > 0
    BY DEF Take, TInv, Typed, QueuesTyped, Live
<1>2. QueuesTyped'
    <2>1. [mail[s] EXCEPT ![k] = mail[s][k] - 1] \in [MailKinds -> Nat]
        BY <1>1 DEF TInv, Typed, QueuesTyped
    <2>2. bytes[s] - 1 \in 0..PipeCapacity
        BY <1>1, SessionAssumption
    <2> QED
        BY <2>1, <2>2 DEF Take, TInv, Typed, QueuesTyped
<1>3. SendingTyped' /\ DatabaseTyped'
    BY DEF Take, TInv, Typed, SendingTyped, DatabaseTyped, database, sending, history
<1>4. RestTyped'
    BY DEF Take, TInv, Typed, RestTyped
<1>5. Live'
    <2>1. \A f \in batch' : f \in batch /\ bytes'[f] = bytes[f] /\ f # s
        BY DEF Take, TInv, Typed, QueuesTyped, RestTyped
    <2> QED
        BY <1>1, <2>1 DEF Take, TInv, Live, history
<1> QED
    BY <1>2, <1>3, <1>4, <1>5 DEF TInv, Typed

LEMMA StutterTyped ==
    ASSUME TInv, UNCHANGED vars
    PROVE  TInv'
BY DEF TInv, Typed, QueuesTyped, SendingTyped, DatabaseTyped, RestTyped, Live,
       vars, database, queues, sending, server, history

LEMMA StepTyped == TInv /\ [Next]_vars => TInv'
BY HandlePacketTyped, HandleSentTyped, HandleUpdateTyped, ComingTyped, EraseTyped, WritableTyped,
   WaitTyped, TakeTyped, StutterTyped DEF Next, ServerStep, SenderStep

LEMMA AlwaysTyped == Spec => []TInv
BY InitTyped, StepTyped, PTL DEF Spec

\* Every variable keeps its type: in particular no count of messages or bytes
\* of a queue is taken below zero by the Server thread.
THEOREM TypeCorrect == Spec => []TypeOK
<1>1. TInv => TypeOK
    BY TypeParts DEF TInv
<1> QED
    BY <1>1, AlwaysTyped, PTL

-----------------------------------------------------------------------------
(* News that a follower lacks are on their way *)

Told(f) ==
    \A t \in Watched(f), k \in Kinds :
        (HasNew(f, t, k) /\ caughtUp[f]) => UpdateComes(f) \/ cutShort[t]
Brought(f) ==
    remaining[f] # <<>> =>
        \/ UpdateComes(f) \/ mail[f]["PacketSend"] > 0 \/ InHand(f, "PacketSend")
        \/ bufferOut[f] # <<>>

LEMMA MessageStays ==
    ASSUME TInv, QueuesGrow, NEW f \in Clients, NEW k \in MailKinds, mail[f][k] > 0
    PROVE  mail'[f][k] > 0
<1>1. mail[f][k] <= mail'[f][k] /\ mail[f][k] \in Nat /\ mail'[f][k] \in Nat
    BY DEF QueuesGrow, QueuesTyped, TInv, Typed
<1> QED
    BY <1>1

LEMMA UpdateStays ==
    ASSUME TInv, QueuesGrow, NEW f \in Clients, taken' = taken \/ ~InHand(f, "Update"), UpdateComes(f)
    PROVE  UpdateComes(f)'
<1>1. "Update" \in MailKinds
    BY DEF MailKinds
<1> QED
    BY <1>1, MessageStays DEF UpdateComes, InHand

LEMMA ToldStays ==
    ASSUME TInv, QueuesGrow, NEW f \in Clients, taken' = taken \/ ~InHand(f, "Update"), Told(f),
           \A t \in Watched(f)', k \in Kinds : HasNew(f, t, k)' /\ caughtUp'[f] =>
                \/ t \in Watched(f) /\ HasNew(f, t, k) /\ caughtUp[f] /\ cutShort'[t] = cutShort[t]
                \/ UpdateComes(f)' \/ cutShort'[t]
    PROVE  Told(f)'
BY UpdateStays DEF Told

LEMMA SameTold ==
    ASSUME TInv, QueuesGrow, NEW f \in Clients, taken' = taken \/ ~InHand(f, "Update"), Told(f),
           UNCHANGED <<latest, times, watch, cutShort>>, caughtUp'[f] = caughtUp[f]
    PROVE  Told(f)'
<1>1. Watched(f)' = Watched(f) /\ \A t \in Clients, k \in Kinds : HasNew(f, t, k)' = HasNew(f, t, k)
    BY DEF Watched, HasNew, HasNewName, HasNewPlace, TimeOf, Named
<1>2. Watched(f) \subseteq Clients
    BY DEF Watched
<1> QED
    BY <1>1, <1>2, ToldStays

LEMMA BroughtStays ==
    ASSUME TInv, QueuesGrow, NEW f \in Clients, Brought(f), remaining'[f] = remaining[f],
           taken' = taken \/ (~InHand(f, "Update") /\ ~InHand(f, "PacketSend")),
           bufferOut[f] # <<>> => bufferOut'[f] # <<>> \/ mail'[f]["PacketSend"] > 0
    PROVE  Brought(f)'
<1>1. "PacketSend" \in MailKinds
    BY DEF MailKinds
<1> QED
    BY <1>1, UpdateStays, MessageStays DEF Brought, InHand

\* A notification that no full pipe ends reaches every follower that is online.
LEMMA ReachedAll ==
    ASSUME NEW s \in Clients, NEW S \in Reached(s), ~Throws(S)
    PROVE  S = Watchers(s)
<1> DEFINE full == FullPipes(Watchers(s))
<1>1. CASE full = {}
    BY <1>1 DEF Reached
<1>2. CASE full # {}
    <2>1. PICK f \in full : f \in S
        BY <1>2 DEF Reached
    <2>2. f \in FullPipes(S)
        BY <2>1 DEF FullPipes
    <2> QED
        BY <2>2 DEF Throws
<1> QED
    BY <1>1, <1>2

LEMMA Notified ==
    ASSUME TInv, NEW s \in Clients, NEW k \in Kinds, Publish(s, k), NEW S \in Reached(s), QueuesGrow,
           \A f \in Clients : f \in S => mail'[f]["Update"] > 0,
           cutShort' = [cutShort EXCEPT ![s] = Throws(S)], caughtUp' = caughtUp,
           \A t \in Clients : t # s => times'[t] = times[t],
           NEW f \in Clients, online[f], ~InHand(f, "Update"), Told(f)
    PROVE  Told(f)'
<1>1. watch' = watch /\ \A t \in Clients : t # s => latest'[t] = latest[t] /\ cutShort'[t] = cutShort[t]
    BY PublishTyped DEF TInv, Typed, DatabaseTyped
<1>2. Watched(f)' = Watched(f) /\ Watched(f) \subseteq Clients
    BY <1>1 DEF Watched
<1>3. ASSUME NEW t \in Watched(f), t # s, NEW j \in Kinds, HasNew(f, t, j)'
      PROVE  HasNew(f, t, j)
    BY <1>1, <1>2, <1>3 DEF HasNew, HasNewName, HasNewPlace, TimeOf, Named
<1>4. ASSUME s \in Watched(f)
      PROVE  UpdateComes(f)' \/ cutShort'[s]
    <2>1. CASE Throws(S)
        BY <2>1 DEF TInv, Typed, DatabaseTyped
    <2>2. CASE ~Throws(S)
        <3>1. f \in S
            BY <1>4, <2>2, ReachedAll DEF Watchers, Watched
        <3> QED
            BY <3>1 DEF UpdateComes
    <2> QED
        BY <2>1, <2>2
<1> QED
    BY <1>1, <1>2, <1>3, <1>4, ToldStays

LEMMA PacketOnTheWay ==
    ASSUME TInv, TInv', NewsOnTheWay, HandlePacket
    PROVE  NewsOnTheWay'
<1> DEFINE s == taken.of
           p == bufferIn[s]
<1>1. s \in Clients /\ online' = online /\ Typed
      /\ \A f \in Clients : ~InHand(f, "Update") /\ ~InHand(f, "PacketSend")
    <2>1. taken # None /\ taken.kind = "PacketReceive" /\ online' = online
        BY DEF HandlePacket
    <2>2. Typed /\ taken \in [of : Clients, kind : MailKinds]
        BY <2>1 DEF TInv, Typed, RestTyped
    <2>3. \A f \in Clients : ~InHand(f, "Update") /\ ~InHand(f, "PacketSend")
        BY <2>1 DEF InHand
    <2> QED
        BY <2>1, <2>2, <2>3
<1> SUFFICES ASSUME NEW f \in Clients, online[f], Told(f), Brought(f)
             PROVE  Told(f)' /\ Brought(f)'
    BY <1>1 DEF NewsOnTheWay, Told, Brought
<1>2. CASE Location(s)
    <2>1. PICK S \in Reached(s) : PushTo(S, "Update") /\ cutShort' = [cutShort EXCEPT ![s] = Throws(S)]
        BY <1>2 DEF Location
    <2>2. QueuesGrow /\ \A g \in Clients : g \in S => mail'[g]["Update"] > 0
        BY <2>1, Pushed DEF TInv, Typed, MailKinds
    <2>3. Publish(s, "place") /\ caughtUp' = caughtUp /\ UNCHANGED <<remaining, bufferOut>>
        BY <1>2 DEF Location, sending
    <2>4. \A t \in Clients : t # s => times'[t] = times[t]
        BY <1>1, <1>2, PlaceAdded DEF Location, Typed
    <2>5. Told(f)'
        BY <1>1, <2>1, <2>2, <2>3, <2>4, Notified DEF Kinds
    <2> QED
        BY <1>1, <2>2, <2>3, <2>5, BroughtStays
<1>3. CASE SetName(s)
    <2>1. PICK S \in Reached(s) :
            LET own == s \in S /\ HasByte(s)
                full == bytes[s] + (IF own THEN 1 ELSE 0) = PipeCapacity
            IN
            /\ cutShort' = [cutShort EXCEPT ![s] = Throws(S)]
            /\ \/ PushTo(S, "Update") /\ UNCHANGED <<view, bufferOut>>
               \/ Kept(s, Ack) /\ PushTo(S, "Update")
               \/ /\ Taken(s, Ack)
                  /\ mail' = Mailed(Mailed(mail, S, "Update"), {s}, "PacketSend")
                  /\ bytes' = Counted(Counted(bytes, S), {s})
                  /\ edge' = [Woken(edge, bytes, S) EXCEPT ![s] = @ \/ ~full]
        BY <1>3 DEF SetName
    <2>2. QueuesGrow /\ \A g \in Clients : g \in S => mail'[g]["Update"] > 0
        BY <1>1, <2>1, Pushed, PushedTwice DEF Typed, MailKinds
    <2>3. bufferOut[f] # <<>> => bufferOut'[f] # <<>> \/ mail'[f]["PacketSend"] > 0
        <3>1. CASE UNCHANGED <<view, bufferOut>>
            BY <3>1
        <3>2. CASE Kept(s, Ack)
            <4>1. Ack \in News \cup {Ack}
                OBVIOUS
            <4> QED
                BY <1>1, <3>2, <4>1, PacketType DEF Kept, Typed, SendingTyped
        <3>3. CASE Taken(s, Ack) /\ QueuesGrow /\ mail'[s]["PacketSend"] > 0
            BY <1>1, <3>3 DEF Taken, Typed, SendingTyped
        <3> QED
            BY <1>1, <2>1, <2>2, <3>1, <3>2, <3>3, PushedTwice DEF Typed
    <2>4. Publish(s, "name") /\ caughtUp' = caughtUp /\ UNCHANGED <<remaining, times>>
        BY <1>3 DEF SetName
    <2>5. Told(f)'
        BY <1>1, <2>1, <2>2, <2>4, Notified DEF Kinds
    <2> QED
        BY <1>1, <2>2, <2>3, <2>4, <2>5, BroughtStays
<1>4. CASE SetNameTaken(s)
    <2>1. QueuesGrow /\ UNCHANGED <<latest, times, watch, cutShort, caughtUp, remaining>>
        BY <1>1, <1>4, SetNameTakenTyped DEF Handled, SetNameTaken, database, history
    <2>2. bufferOut[f] # <<>> => bufferOut'[f] # <<>> \/ mail'[f]["PacketSend"] > 0
        <3>1. CASE Kept(s, Ack)
            <4>1. Ack \in News \cup {Ack}
                OBVIOUS
            <4> QED
                BY <1>1, <3>1, <4>1, PacketType DEF Kept, Typed, SendingTyped
        <3>2. CASE Taken(s, Ack) /\ PushTo({s}, "PacketSend")
            BY <1>1, <3>2, Pushed DEF Taken, Typed, SendingTyped, MailKinds
        <3> QED
            BY <1>4, <3>1, <3>2 DEF SetNameTaken
    <2> QED
        BY <1>1, <2>1, <2>2, SameTold, BroughtStays
<1>5. CASE FollowerPacket(s, p)
    <2>1. QueuesGrow /\ UNCHANGED <<latest, times, cutShort, caughtUp, remaining, bufferOut>>
        BY <1>1, <1>5, FollowerPacketTyped DEF Handled, FollowerPacket, sending, Unfollow
    <2>2. ASSUME NEW t \in Watched(f)'
          PROVE  watch'[f][t] = watch[f][t] \/ UpdateComes(f)'
        <3>1. t \in Clients /\ watch'[f][t] # None
            BY DEF Watched
        <3>2. CASE watch' = [watch EXCEPT ![p.client][s] = NoNews]
                   /\ PushTo({p.client} \cap {g \in Clients : online[g]}, "Update")
            <4>1. CASE p.client = f
                <5>1. f \in {p.client} \cap {g \in Clients : online[g]}
                    BY <4>1
                <5>2. mail'[f]["Update"] > 0
                    BY <1>1, <3>2, <5>1, Pushed DEF Typed, MailKinds
                <5> QED
                    BY <5>2 DEF UpdateComes
            <4>2. CASE p.client # f
                BY <3>2, <4>2 DEF TInv, Typed, DatabaseTyped
            <4> QED
                BY <4>1, <4>2
        <3>3. ASSUME NEW g, NEW u, Unfollow(g, u)
              PROVE  watch'[f][t] = watch[f][t]
            <4>1. watch' = [watch EXCEPT ![g] = [watch[g] EXCEPT ![u] = None]]
                BY <3>3 DEF Unfollow
            <4>2. watch \in [Clients -> [Clients -> [Kinds -> Nat] \cup {None}]]
                BY DEF TInv, Typed, DatabaseTyped
            <4> QED
                BY <3>1, <4>1, <4>2
        <3> QED
            BY <1>5, <3>2, <3>3 DEF FollowerPacket
    <2>3. ASSUME NEW t \in Watched(f)', NEW k \in Kinds, HasNew(f, t, k)', watch'[f][t] = watch[f][t]
          PROVE  t \in Watched(f) /\ HasNew(f, t, k)
        BY <2>1, <2>3 DEF Watched, HasNew, HasNewName, HasNewPlace, TimeOf, Named
    <2>4. Told(f)'
        BY <1>1, <2>1, <2>2, <2>3, ToldStays
    <2> QED
        BY <1>1, <2>1, <2>4, BroughtStays
<1>6. CASE UNCHANGED <<database, queues, sending, history>>
    <2>1. QueuesGrow /\ UNCHANGED <<latest, times, watch, cutShort, caughtUp, remaining, bufferOut>>
        BY <1>1, <1>6, NotPushed DEF Typed, database, sending, history
    <2> QED
        BY <1>1, <2>1, SameTold, BroughtStays
<1> QED
    BY <1>2, <1>3, <1>4, <1>5, <1>6 DEF HandlePacket

LEMMA SentOnTheWay ==
    ASSUME TInv, NewsOnTheWay, HandleSent
    PROVE  NewsOnTheWay'
<1> DEFINE s == taken.of
<1>1. /\ s \in Clients /\ taken.kind = "PacketSend" /\ sendRemainingData(s, remaining[s])
      /\ UNCHANGED <<latest, times, watch, cutShort, caughtUp, online>> /\ Typed
    BY DEF HandleSent, TInv, Typed, RestTyped, database, history
<1>2. remaining[s] \in Seq(News)
    BY <1>1 DEF TInv, Typed, SendingTyped
<1>3. /\ QueuesGrow
      /\ \A f \in Clients : f # s => remaining'[f] = remaining[f] /\ bufferOut'[f] = bufferOut[f]
      /\ remaining'[s] = <<>> \/ bufferOut'[s] # <<>> \/ mail'[s]["PacketSend"] > 0
    BY <1>1, <1>2, TurnTyped DEF Typed
<1> SUFFICES ASSUME NEW f \in Clients, online[f], Told(f), Brought(f)
             PROVE  Told(f)' /\ Brought(f)'
    BY <1>1 DEF NewsOnTheWay, Told, Brought
<1>4. ~InHand(f, "Update") /\ (f # s => ~InHand(f, "PacketSend"))
    BY <1>1 DEF InHand
<1>5. Told(f)'
    BY <1>1, <1>3, <1>4, SameTold
<1>6. Brought(f)'
    <2>1. CASE f = s
        BY <1>3, <2>1 DEF Brought
    <2>2. CASE f # s
        BY <1>3, <1>4, <2>2, BroughtStays
    <2> QED
        BY <2>1, <2>2
<1> QED
    BY <1>5, <1>6

LEMMA UpdateOnTheWay ==
    ASSUME TInv, NewsOnTheWay, HandleUpdate
    PROVE  NewsOnTheWay'
<1> DEFINE s == taken.of
           left == remaining[s] \o NewNews(s, "name") \o NewNews(s, "place")
<1>1. /\ s \in Clients /\ taken.kind = "Update" /\ sendRemainingData(s, left) /\ watch' = Seen(s)
      /\ caughtUp' = [caughtUp EXCEPT ![s] = TRUE]
      /\ UNCHANGED <<latest, times, cutShort, online>> /\ Typed
    BY DEF HandleUpdate, TInv, Typed, RestTyped
<1>2. left \in Seq(News) /\ (left = <<>> => remaining[s] = <<>>)
    BY <1>1, UpdatePackets
<1> HIDE DEF left
<1>3. /\ QueuesGrow
      /\ \A f \in Clients : f # s => remaining'[f] = remaining[f] /\ bufferOut'[f] = bufferOut[f]
      /\ remaining'[s] = <<>> \/ bufferOut'[s] # <<>> \/ mail'[s]["PacketSend"] > 0
    BY <1>1, <1>2, TurnTyped DEF Typed
<1> SUFFICES ASSUME NEW f \in Clients, online[f], Told(f), Brought(f)
             PROVE  Told(f)' /\ Brought(f)'
    BY <1>1 DEF NewsOnTheWay, Told, Brought
<1>4. CASE f = s
    <2>1. ASSUME NEW t \in Watched(f)', NEW k \in Kinds
          PROVE  ~HasNew(f, t, k)'
        <3>1. t \in Watched(f) /\ t \in Clients
            BY <1>1, <1>4 DEF Watched, Seen, Typed, DatabaseTyped
        <3>2. watch'[f][t] = [j \in Kinds |-> IF HasNew(f, t, j) THEN latest[t][j] ELSE watch[f][t][j]]
            BY <1>1, <1>4, <3>1 DEF Seen, Typed, DatabaseTyped
        <3>3. watch'[f][t][k] = IF HasNew(f, t, k) THEN latest[t][k] ELSE watch[f][t][k]
            BY <3>2
        <3>4. latest[t][k] \in Nat /\ latest'[t] = latest[t]
            BY <1>1, <3>1 DEF Typed, DatabaseTyped
        <3>5. CASE HasNew(f, t, k)
            BY <3>3, <3>4, <3>5 DEF HasNew, HasNewName, HasNewPlace, Kinds
        <3>6. CASE ~HasNew(f, t, k)
            <4>1. CASE k = "name"
                BY <3>3, <3>4, <3>6, <4>1 DEF HasNew, HasNewName
            <4>2. CASE k = "place"
                <5>1. watch'[f][t]["place"] = watch[f][t]["place"] /\ times' = times /\ latest' = latest
                    BY <1>1, <3>3, <3>6, <4>2
                <5> QED
                    BY <3>6, <4>2, <5>1 DEF HasNew, HasNewPlace, TimeOf, Named
            <4> QED
                BY <4>1, <4>2 DEF Kinds
        <3> QED
            BY <3>5, <3>6
    <2>2. Told(f)'
        BY <2>1 DEF Told
    <2>3. Brought(f)'
        BY <1>3, <1>4 DEF Brought
    <2> QED
        BY <2>2, <2>3
<1>5. CASE f # s
    <2>1. ~InHand(f, "Update") /\ ~InHand(f, "PacketSend") /\ caughtUp'[f] = caughtUp[f] /\ watch'[f] = watch[f]
        BY <1>1, <1>5 DEF InHand, Seen, Typed, DatabaseTyped
    <2>2. Watched(f)' = Watched(f) /\ Watched(f) \subseteq Clients
        BY <2>1 DEF Watched
    <2>3. \A t \in Clients, k \in Kinds : HasNew(f, t, k)' => HasNew(f, t, k)
        BY <1>1, <2>1 DEF HasNew, HasNewName, HasNewPlace, TimeOf, Named
    <2>4. Told(f)'
        BY <1>1, <1>3, <2>1, <2>2, <2>3, ToldStays
    <2> QED
        BY <1>3, <1>5, <2>1, <2>4, BroughtStays
<1> QED
    BY <1>4, <1>5

\* The steps that touch neither the database nor what is marked.
LEMMA QuietOnTheWay ==
    ASSUME TInv, NewsOnTheWay, QueuesGrow, UNCHANGED <<latest, times, watch, cutShort, caughtUp, remaining, taken>>,
           \A f \in Clients : bufferOut[f] # <<>> => bufferOut'[f] # <<>> \/ mail'[f]["PacketSend"] > 0,
           \A f \in Clients : online'[f] => online[f] \/ mail'[f]["PacketSend"] > 0
    PROVE  NewsOnTheWay'
<1> SUFFICES ASSUME NEW f \in Clients, online'[f]
             PROVE  Told(f)' /\ Brought(f)'
    BY DEF NewsOnTheWay, Told, Brought
<1>1. CASE online[f]
    <2>1. Told(f) /\ Brought(f)
        BY <1>1 DEF NewsOnTheWay, Told, Brought
    <2> QED
        BY <2>1, SameTold, BroughtStays
<1>2. CASE ~online[f]
    <2>1. ~caughtUp'[f] /\ mail'[f]["PacketSend"] > 0
        BY <1>2 DEF TInv, Live
    <2> QED
        BY <2>1 DEF Told, Brought
<1> QED
    BY <1>1, <1>2

LEMMA OtherOnTheWay ==
    ASSUME TInv, NewsOnTheWay, NEW s \in Clients,
           \/ Register(s) \/ Erase(s) \/ \E p \in Packets : Arrive(s, p)
           \/ \E n \in 1..Len(bufferOut[s]) : Writable(s, n)
           \/ \E k \in MailKinds : Take(s, k)
           \/ Wait
    PROVE  NewsOnTheWay'
<1>0. Typed /\ QueuesTyped /\ "PacketSend" \in MailKinds /\ "Update" \in MailKinds /\ "PacketReceive" \in MailKinds
    BY DEF TInv, Typed, MailKinds
<1>1. CASE Register(s)
    <2>1. QueuesGrow /\ mail'[s]["PacketSend"] > 0
        BY <1>0, <1>1, Pushed DEF Register
    <2>2. UNCHANGED <<latest, times, watch, cutShort, caughtUp, remaining, taken, bufferOut>>
        BY <1>1 DEF Register, database, sending, server, history
    <2>3. \A f \in Clients : online'[f] => online[f] \/ f = s
        BY <1>0, <1>1 DEF Register, Typed, RestTyped
    <2> QED
        BY <2>1, <2>2, <2>3, QuietOnTheWay
<1>2. CASE \E p \in Packets : Arrive(s, p)
    <2>1. QueuesGrow
        BY <1>0, <1>2, Pushed DEF Arrive
    <2>2. UNCHANGED <<latest, times, watch, cutShort, caughtUp, remaining, taken, bufferOut, online>>
        BY <1>2 DEF Arrive, database, sending, server, history
    <2> QED
        BY <2>1, <2>2, QuietOnTheWay
<1>3. ASSUME NEW n \in 1..Len(bufferOut[s]), Writable(s, n)
      PROVE  NewsOnTheWay'
    <2>1. QueuesGrow /\ (n = Len(bufferOut[s]) => mail'[s]["PacketSend"] > 0)
        BY <1>0, <1>3, Pushed, NotPushed DEF Writable
    <2>2. UNCHANGED <<latest, times, watch, cutShort, caughtUp, remaining, taken, online>>
        BY <1>3 DEF Writable, database, server, history
    <2>3. bufferOut'[s] # <<>> \/ n = Len(bufferOut[s])
        <3>1. bufferOut[s] \in Seq(News \cup {Ack}) /\ bufferOut'[s] = SubSeq(bufferOut[s], n + 1, Len(bufferOut[s]))
            BY <1>0, <1>3 DEF Writable, Typed, SendingTyped, Lists
        <3>2. Len(SubSeq(bufferOut[s], n + 1, Len(bufferOut[s]))) = Len(bufferOut[s]) - n
            BY <1>3, <3>1
        <3>3. Len(bufferOut[s]) \in Nat /\ Len(<<>>) = 0
            BY <3>1
        <3> DEFINE rest == SubSeq(bufferOut[s], n + 1, Len(bufferOut[s]))
        <3>4. rest # <<>> \/ n = Len(bufferOut[s])
            <4> HIDE DEF rest
            <4>1. Len(rest) = Len(bufferOut[s]) - n
                BY <3>2 DEF rest
            <4> QED
                BY <1>3, <3>3, <4>1
        <3> QED
            BY <3>1, <3>4
    <2>4. \A f \in Clients : f # s => bufferOut'[f] = bufferOut[f]
        BY <1>0, <1>3 DEF Writable, Typed, SendingTyped
    <2> QED
        BY <2>1, <2>2, <2>3, <2>4, QuietOnTheWay
<1>4. CASE Wait
    <2>1. UNCHANGED <<latest, times, watch, cutShort, caughtUp, remaining, taken, bufferOut, online, mail>>
        BY <1>4 DEF Wait, database, sending, history
    <2> QED
        BY <2>1 DEF NewsOnTheWay, Watched, HasNew, HasNewName, HasNewPlace, TimeOf, Named, UpdateComes, InHand
<1>5. ASSUME NEW k \in MailKinds, Take(s, k)
      PROVE  NewsOnTheWay'
    <2>1. /\ UNCHANGED <<latest, times, watch, cutShort, caughtUp, remaining, bufferOut, online>>
          /\ taken = None /\ taken' = [of |-> s, kind |-> k]
          /\ mail' = [mail EXCEPT ![s] = [mail[s] EXCEPT ![k] = mail[s][k] - 1]]
        BY <1>5 DEF Take, database, sending, history
    <2>2. ASSUME NEW f \in Clients, NEW j \in MailKinds, mail[f][j] > 0 \/ InHand(f, j)
          PROVE  mail'[f][j] > 0 \/ InHand(f, j)'
        <3>1. ~InHand(f, j)
            BY <2>1, SessionAssumption DEF InHand
        <3>2. CASE f = s /\ j = k
            BY <2>1, <3>2 DEF InHand
        <3>3. CASE ~(f = s /\ j = k)
            BY <1>0, <2>1, <2>2, <3>1, <3>3 DEF QueuesTyped
        <3> QED
            BY <3>2, <3>3
    <2>3. \A f \in Clients : UpdateComes(f) => UpdateComes(f)'
        BY <1>0, <2>2 DEF UpdateComes
    <2>4. \A f \in Clients : mail[f]["PacketSend"] > 0 \/ InHand(f, "PacketSend")
                => mail'[f]["PacketSend"] > 0 \/ InHand(f, "PacketSend")'
        BY <1>0, <2>2
    <2> QED
        BY <2>1, <2>3, <2>4 DEF NewsOnTheWay, Watched, HasNew, HasNewName, HasNewPlace, TimeOf, Named
<1>6. CASE Erase(s)
    <2>1. UNCHANGED <<latest, times, watch, cutShort, taken>>
        BY <1>6 DEF Erase, database
    <2>2. ASSUME NEW f \in Clients, f # s
          PROVE  /\ online'[f] = online[f] /\ caughtUp'[f] = caughtUp[f] /\ remaining'[f] = remaining[f]
                 /\ bufferOut'[f] = bufferOut[f] /\ mail'[f] = mail[f]
        BY <1>0, <1>6, <2>2 DEF Erase, Typed, QueuesTyped, SendingTyped, DatabaseTyped, RestTyped
    <2>3. ~online'[s]
        BY <1>0, <1>6 DEF Erase, Typed, RestTyped
    <2> QED
        BY <2>1, <2>2, <2>3 DEF NewsOnTheWay, Watched, HasNew, HasNewName, HasNewPlace, TimeOf, Named, UpdateComes, InHand
<1> QED
    BY <1>1, <1>2, <1>3, <1>4, <1>5, <1>6

\* News that an online follower has not been sent are always on their way: no
\* step of the handlers, of the Sender thread or of a peer takes the last
\* message that would bring them.
THEOREM NewsOnTheWayHolds == Spec => []NewsOnTheWay
<1>1. Init => NewsOnTheWay
    BY DEF Init, NewsOnTheWay
<1>2. TInv /\ TInv' /\ NewsOnTheWay /\ [Next]_vars => NewsOnTheWay'
    <2> SUFFICES ASSUME TInv, TInv', NewsOnTheWay, [Next]_vars
                 PROVE  NewsOnTheWay'
        OBVIOUS
    <2>1. CASE UNCHANGED vars
        BY <2>1 DEF NewsOnTheWay, Watched, HasNew, HasNewName, HasNewPlace, TimeOf, Named, UpdateComes, InHand,
                    vars, database, queues, sending, server, history
    <2>2. CASE HandlePacket \/ HandleSent \/ HandleUpdate
        BY <2>2, PacketOnTheWay, SentOnTheWay, UpdateOnTheWay
    <2>3. ASSUME Wait
          PROVE  NewsOnTheWay'
        <3>1. \E s : s \in Clients
            BY <2>3 DEF Wait, Ready
        <3> QED
            BY <2>3, <3>1, OtherOnTheWay
    <2>4. CASE Next /\ ~Wait /\ ~(HandlePacket \/ HandleSent \/ HandleUpdate)
        BY <2>4, OtherOnTheWay DEF Next, ServerStep, SenderStep
    <2> QED
        BY <2>1, <2>2, <2>3, <2>4
<1> QED
    BY <1>1, <1>2, AlwaysTyped, PTL DEF Spec

-----------------------------------------------------------------------------
(* The lists of packets of every session *)

\* What waits for the peer of f keeps its order, and none of it is older than
\* what the peer or an ended session had, or newer than what f may see.
Listed(f) == Well(Unsent(f), view[f], dropped[f], allowed[f])

LInv ==
    /\ \A f \in Clients : Listed(f) /\ AtMost(allowed[f], latest)
    /\ \A f, t \in Clients : watch[f][t] # None => allowed[f][t] = latest[t]

\* News marked as seen have been sent, were lost with a session, or wait.
Found(f, t, k) ==
    \/ watch[f][t][k] <= view[f][t][k] \/ watch[f][t][k] <= dropped[f][t][k]
    \/ [of |-> t, kind |-> k, nr |-> watch[f][t][k]] \in Range(Unsent(f))

FInv == \A f \in Clients : \A t \in Watched(f), k \in Kinds : Found(f, t, k)

\* A step that sends some of the packets `old' to the peer of f, and keeps the
\* others and their order.
SendsFrom(f, old) ==
    /\ Well(Unsent(f)', view'[f], dropped[f], allowed[f])
    /\ AtMost(view[f], view'[f])
    /\ \A x \in Range(old) \cap News : x \in Range(Unsent(f)') \/ x.nr <= view'[f][x.of][x.kind]

LEMMA TableSame ==
    ASSUME NEW v \in Table
    PROVE  AtMost(v, v)
BY DEF Table, AtMost

LEMMA SameSends ==
    ASSUME NEW f \in Clients, Listed(f), view'[f] = view[f],
           bufferOut'[f] = bufferOut[f], remaining'[f] = remaining[f]
    PROVE  SendsFrom(f, Unsent(f))
<1>1. Unsent(f)' = Unsent(f)
    BY DEF Unsent
<1>2. view[f] \in Table
    BY DEF Listed, Well
<1> QED
    BY <1>1, <1>2, TableSame DEF Listed, SendsFrom

LEMMA AckSends ==
    ASSUME TInv, NEW s \in Clients, Listed(s), Taken(s, Ack) \/ Kept(s, Ack), remaining' = remaining
    PROVE  SendsFrom(s, Unsent(s))
<1> DEFINE b == bufferOut[s]
           r == remaining[s]
           p == Append(b, Ack)
<1>1. b \in Lists /\ r \in Lists /\ p \in Lists /\ Range(b) \subseteq Range(p)
    <2>1. b \in Lists /\ r \in Lists
        BY DEF TInv, Typed, SendingTyped, Lists
    <2>2. Ack \in News \cup {Ack}
        OBVIOUS
    <2>3. p = b \o <<Ack>> /\ <<Ack>> \in Lists
        BY <2>1, <2>2, OnePacket DEF Lists
    <2> QED
        BY <2>1, <2>3, Parts
<1>2. Well(b \o r, view[s], dropped[s], allowed[s])
    BY DEF Listed, Unsent
<1>3. Well(p \o r, view[s], dropped[s], allowed[s])
    BY <1>1, <1>2, AckIn
<1>4. Range(b \o r) = Range(b) \cup Range(r) /\ Range(p \o r) = Range(p) \cup Range(r)
    BY <1>1, Parts
<1>5. CASE Kept(s, Ack)
    <2>1. Unsent(s)' = p \o r /\ view'[s] = view[s]
        BY <1>5 DEF Kept, Unsent, TInv, Typed, SendingTyped
    <2>2. AtMost(view[s], view'[s])
        BY <2>1, <1>2, TableSame DEF Well
    <2>3. Range(Unsent(s)) \subseteq Range(Unsent(s)')
        BY <1>1, <1>4, <2>1 DEF Unsent
    <2>4. Well(Unsent(s)', view'[s], dropped[s], allowed[s])
        BY <1>3, <2>1
    <2> QED
        BY <2>2, <2>3, <2>4 DEF SendsFrom
<1>6. CASE Taken(s, Ack)
    <2>1. Unsent(s)' = r
        BY <1>1, <1>6 DEF Taken, Unsent, TInv, Typed, SendingTyped, Lists
    <2>2. view'[s] = With(view[s], p)
        BY <1>1, <1>6, ShownType DEF Taken, TInv, Typed, SendingTyped, NewsTable
    <2>3. /\ Well(r, With(view[s], p), dropped[s], allowed[s]) /\ AtMost(view[s], With(view[s], p))
          /\ \A x \in Range(p) \cap News : x.nr <= With(view[s], p)[x.of][x.kind]
        BY <1>1, <1>3, SendPart
    <2>4. ASSUME NEW x \in Range(Unsent(s)) \cap News
          PROVE  x \in Range(r) \/ x.nr <= With(view[s], p)[x.of][x.kind]
        BY <1>1, <1>4, <2>3 DEF Unsent
    <2> QED
        BY <2>1, <2>2, <2>3, <2>4 DEF SendsFrom
<1> QED
    BY <1>5, <1>6

LEMMA TurnSends ==
    ASSUME TInv, NEW s \in Clients, NEW left \in Seq(News), sendRemainingData(s, left),
           left = <<>> => remaining[s] = <<>>,
           Well(bufferOut[s] \o left, view[s], dropped[s], allowed[s])
    PROVE  SendsFrom(s, bufferOut[s] \o left)
<1> DEFINE b == bufferOut[s]
           p == Append(b, Head(left))
<1>1. b \in Lists /\ left \in Lists
    BY DEF TInv, Typed, SendingTyped, Lists
<1>2. view[s] \in Table /\ AtMost(view[s], view[s])
    BY TableSame DEF Well
<1>3. CASE left = <<>>
    <2>1. Unsent(s)' = b \o left /\ view'[s] = view[s]
        BY <1>3 DEF sendRemainingData, sending, Unsent
    <2> QED
        BY <1>2, <2>1 DEF SendsFrom
<1>4. CASE left # <<>>
    <2>1. NextRemaining(s, left)
        BY <1>4 DEF sendRemainingData
    <2>2. /\ Head(left) \in News \cup {Ack} /\ Tail(left) \in Lists /\ <<Head(left)>> \in Lists
          /\ left = <<Head(left)>> \o Tail(left) /\ p \in Lists /\ p \o Tail(left) = b \o left
        BY <1>1, <1>4, HeadMoves
    <2>3. CASE Kept(s, Head(left)) /\ remaining' = [remaining EXCEPT ![s] = Tail(left)]
        <3>1. Unsent(s)' = b \o left /\ view'[s] = view[s]
            BY <2>2, <2>3 DEF Kept, Unsent, TInv, Typed, SendingTyped
        <3> QED
            BY <1>2, <3>1 DEF SendsFrom
    <2>4. CASE Taken(s, Head(left)) /\ remaining' = [remaining EXCEPT ![s] = IF HasByte(s) THEN Tail(left) ELSE left]
        <3> DEFINE w == With(view[s], p)
        <3>1. /\ Well(Tail(left), w, dropped[s], allowed[s]) /\ Well(left, w, dropped[s], allowed[s])
              /\ AtMost(view[s], w)
              /\ \A x \in (Range(b) \cup {Head(left)}) \cap News : x.nr <= w[x.of][x.kind]
            BY <1>1, <1>4, SendAndStay
        <3>2. view'[s] = w
            BY <2>2, <2>4, ShownType DEF Taken, TInv, Typed, SendingTyped, NewsTable
        <3>3. Unsent(s)' = Tail(left) \/ Unsent(s)' = left
            <4>1. bufferOut'[s] = <<>> /\ (remaining'[s] = Tail(left) \/ remaining'[s] = left)
                BY <2>4 DEF Taken, TInv, Typed, SendingTyped
            <4>2. <<>> \o Tail(left) = Tail(left) /\ <<>> \o left = left
                BY <1>1, <2>2 DEF Lists
            <4> QED
                BY <4>1, <4>2 DEF Unsent
        <3>4. Range(left) = {Head(left)} \cup Range(Tail(left)) /\ Range(b \o left) = Range(b) \cup Range(left)
            <4>1. Range(<<Head(left)>>) = {Head(left)}
                BY <2>2, OnePacket
            <4>2. Range(<<Head(left)>> \o Tail(left)) = Range(<<Head(left)>>) \cup Range(Tail(left))
                BY <2>2, Parts
            <4>3. Range(left) = {Head(left)} \cup Range(Tail(left))
                BY <2>2, <4>1, <4>2
            <4> QED
                BY <1>1, <4>3, Parts
        <3> HIDE DEF w, b
        <3>5. \A x \in Range(b \o left) \cap News : x \in Range(Unsent(s)') \/ x.nr <= w[x.of][x.kind]
            BY <3>1, <3>3, <3>4
        <3>6. Well(Unsent(s)', w, dropped[s], allowed[s])
            BY <3>1, <3>3
        <3> QED
            BY <3>1, <3>2, <3>5, <3>6 DEF SendsFrom, b
    <2> QED
        BY <2>1, <2>3, <2>4 DEF NextRemaining
<1> QED
    BY <1>3, <1>4

LEMMA WritableSends ==
    ASSUME TInv, NEW s \in Clients, Listed(s), NEW n, Writable(s, n)
    PROVE  SendsFrom(s, Unsent(s))
<1> DEFINE b == bufferOut[s]
           r == remaining[s]
           p == SubSeq(b, 1, n)
           q == SubSeq(b, n + 1, Len(b))
           w == With(view[s], p)
<1>1. b \in Lists /\ r \in Lists /\ n \in 1..Len(b)
    BY DEF Writable, TInv, Typed, SendingTyped, Lists
<1>2. p \in Lists /\ q \in Lists /\ p \o q = b
    <2>1. b \in Seq(News \cup {Ack}) /\ Len(b) \in Nat
        BY <1>1 DEF Lists
    <2>2. p \in Lists /\ q \in Lists
        BY <1>1, <2>1 DEF Lists
    <2>3. 1 \in 1..Len(b) + 1 /\ n \in 1 - 1..Len(b) /\ Len(b) \in n..Len(b)
        BY <1>1, <2>1
    <2>4. p \o q = SubSeq(b, 1, Len(b))
        BY <2>1, <2>3, ConcatAdjacentSubSeq
    <2>5. SubSeq(b, 1, Len(b)) = b
        BY <2>1, SubSeqFull
    <2> QED
        BY <2>2, <2>4, <2>5
<1>3. Unsent(s)' = q \o r /\ view'[s] = w
    <2>1. view' = Shown(s, p) /\ bufferOut' = [bufferOut EXCEPT ![s] = q] /\ remaining' = remaining
        BY DEF Writable
    <2>2. Shown(s, p) = [view EXCEPT ![s] = w]
        BY <1>2, ShownType DEF TInv, Typed, SendingTyped
    <2> HIDE DEF p, q, w
    <2>3. view'[s] = w /\ bufferOut'[s] = q
        BY <2>1, <2>2 DEF TInv, Typed, SendingTyped, NewsTable
    <2> QED
        BY <2>1, <2>3 DEF Unsent
<1> HIDE DEF p, q
<1>4. Unsent(s) = p \o (q \o r) /\ q \o r \in Lists
    <2>1. (p \o q) \o r = p \o (q \o r)
        BY <1>1, <1>2, ThreeParts
    <2> QED
        BY <1>1, <1>2, <2>1, Parts DEF Unsent
<1>5. Well(p \o (q \o r), view[s], dropped[s], allowed[s])
    BY <1>4 DEF Listed
<1>6. /\ Well(q \o r, w, dropped[s], allowed[s]) /\ AtMost(view[s], w)
      /\ \A x \in Range(p) \cap News : x.nr <= w[x.of][x.kind]
    BY <1>2, <1>4, <1>5, SendPart
<1>7. Range(Unsent(s)) = Range(p) \cup Range(q \o r)
    BY <1>2, <1>4, Parts
<1> HIDE DEF w
<1> QED
    BY <1>3, <1>6, <1>7 DEF SendsFrom

-----------------------------------------------------------------------------
(* Three kinds of steps: an Update, the end of a session, and all others,    *)
(* which send some packets and change at most one thing in the database      *)

Granted(f, t) ==
    /\ watch' = [watch EXCEPT ![f] = [watch[f] EXCEPT ![t] = NoNews]]
    /\ allowed' = [allowed EXCEPT ![f] = [allowed[f] EXCEPT ![t] = latest[t]]]
    /\ latest' = latest

Revoked(f, t) ==
    /\ watch' = [watch EXCEPT ![f] = [watch[f] EXCEPT ![t] = None]]
    /\ UNCHANGED <<latest, allowed>>

DatabaseStep ==
    \/ UNCHANGED <<latest, watch, allowed>>
    \/ \E s \in Clients, k \in Kinds : Publish(s, k)
    \/ \E f, t \in Clients : Granted(f, t) \/ Revoked(f, t)

SendingStep ==
    /\ \A f \in Clients : SendsFrom(f, Unsent(f))
    /\ dropped' = dropped
    /\ DatabaseStep

LEMMA AllSend ==
    ASSUME LInv, NEW s, SendsFrom(s, Unsent(s)),
           \A f \in Clients : f # s =>
                view'[f] = view[f] /\ bufferOut'[f] = bufferOut[f] /\ remaining'[f] = remaining[f]
    PROVE  \A f \in Clients : SendsFrom(f, Unsent(f))
BY SameSends DEF LInv

LEMMA NoneSends ==
    ASSUME LInv, UNCHANGED <<view, bufferOut, remaining>>
    PROVE  \A f \in Clients : SendsFrom(f, Unsent(f))
BY SameSends DEF LInv

LEMMA AckStep ==
    ASSUME TInv, LInv, NEW s \in Clients, Taken(s, Ack) \/ Kept(s, Ack), remaining' = remaining
    PROVE  \A f \in Clients : SendsFrom(f, Unsent(f))
<1>1. \A f \in Clients : f # s => view'[f] = view[f] /\ bufferOut'[f] = bufferOut[f]
    <2>1. CASE Kept(s, Ack)
        BY <2>1 DEF Kept, TInv, Typed, SendingTyped
    <2>2. CASE Taken(s, Ack)
        BY <2>2 DEF Taken, Shown, TInv, Typed, SendingTyped, NewsTable
    <2> QED
        BY <2>1, <2>2
<1>2. SendsFrom(s, Unsent(s))
    BY AckSends DEF LInv
<1> QED
    BY <1>1, <1>2, AllSend

LEMMA FollowerStep ==
    ASSUME TInv, NEW s \in Clients, NEW p, FollowerPacket(s, p)
    PROVE  DatabaseStep /\ UNCHANGED <<view, bufferOut, remaining, dropped>>
<1> DEFINE c == p.client
<1>1. UNCHANGED <<view, bufferOut, remaining, dropped>>
    BY DEF FollowerPacket, sending
<1>2. Granted(c, s) \/ Revoked(c, s) \/ Revoked(s, c)
    BY DEF FollowerPacket, Unfollow, Granted, Revoked
<1> HIDE DEF c
<1>3. CASE c \in Clients
    BY <1>1, <1>2, <1>3 DEF DatabaseStep
<1>4. CASE c \notin Clients
    <2>1. /\ watch \in [Clients -> [Clients -> [Kinds -> Nat] \cup {None}]]
          /\ allowed \in [Clients -> [Clients -> [Kinds -> Nat]]]
        BY DEF TInv, Typed, DatabaseTyped, NewsTable
    <2>2. \A x : [watch EXCEPT ![c] = x] = watch /\ [allowed EXCEPT ![c] = x] = allowed
        BY <1>4, <2>1
    <2>3. [watch EXCEPT ![s] = [watch[s] EXCEPT ![c] = None]] = watch
        <3>1. [watch[s] EXCEPT ![c] = None] = watch[s]
            BY <1>4, <2>1
        <3> QED
            BY <2>1, <3>1
    <2> QED
        BY <1>1, <1>2, <2>2, <2>3 DEF Granted, Revoked, DatabaseStep
<1> QED
    BY <1>1, <1>3, <1>4

LEMMA PacketStep ==
    ASSUME TInv, LInv, HandlePacket
    PROVE  SendingStep
<1> DEFINE s == taken.of
           p == bufferIn[s]
<1>1. s \in Clients
    BY DEF HandlePacket, TInv, Typed, RestTyped
<1>2. CASE Location(s)
    <2>1. Publish(s, "place") /\ UNCHANGED <<view, bufferOut, remaining, dropped>>
        BY <1>2 DEF Location, sending
    <2>2. "place" \in Kinds
        BY DEF Kinds
    <2> QED
        BY <1>1, <2>1, <2>2, NoneSends DEF SendingStep, DatabaseStep
<1>3. CASE SetName(s)
    <2>1. /\ Publish(s, "name") /\ UNCHANGED <<remaining, dropped>> /\ "name" \in Kinds
          /\ UNCHANGED <<view, bufferOut>> \/ Kept(s, Ack) \/ Taken(s, Ack)
        BY <1>3 DEF SetName, Kinds
    <2>2. \A f \in Clients : SendsFrom(f, Unsent(f))
        BY <1>1, <2>1, NoneSends, AckStep
    <2> QED
        BY <1>1, <2>1, <2>2 DEF SendingStep, DatabaseStep
<1>4. CASE SetNameTaken(s)
    <2>1. (Taken(s, Ack) \/ Kept(s, Ack)) /\ UNCHANGED <<latest, watch, allowed, remaining, dropped>>
        BY <1>4 DEF SetNameTaken, database, history
    <2> QED
        BY <1>1, <2>1, AckStep DEF SendingStep, DatabaseStep
<1>5. CASE FollowerPacket(s, p)
    BY <1>1, <1>5, FollowerStep, NoneSends DEF SendingStep
<1>6. CASE UNCHANGED <<database, queues, sending, history>>
    <2>1. UNCHANGED <<latest, watch, allowed, view, bufferOut, remaining, dropped>>
        BY <1>6 DEF database, sending, history
    <2> QED
        BY <2>1, NoneSends DEF SendingStep, DatabaseStep
<1> QED
    BY <1>2, <1>3, <1>4, <1>5, <1>6 DEF HandlePacket

\* A turn of the remaining packets of one session leaves the others alone.
LEMMA TurnAlone ==
    ASSUME TInv, NEW s \in Clients, NEW left, sendRemainingData(s, left)
    PROVE  \A f \in Clients : f # s =>
                view'[f] = view[f] /\ bufferOut'[f] = bufferOut[f] /\ remaining'[f] = remaining[f]
<1>1. CASE UNCHANGED sending
    BY <1>1 DEF sending
<1>2. CASE NextRemaining(s, left)
    <2>1. \A f \in Clients : f # s => remaining'[f] = remaining[f]
        BY <1>2 DEF NextRemaining, TInv, Typed, SendingTyped
    <2>2. CASE Kept(s, Head(left))
        BY <2>1, <2>2 DEF Kept, TInv, Typed, SendingTyped
    <2>3. CASE Taken(s, Head(left))
        BY <2>1, <2>3 DEF Taken, Shown, TInv, Typed, SendingTyped, NewsTable
    <2> QED
        BY <1>2, <2>2, <2>3 DEF NextRemaining
<1> QED
    BY <1>1, <1>2 DEF sendRemainingData

LEMMA SentStep ==
    ASSUME TInv, LInv, HandleSent
    PROVE  SendingStep
<1> DEFINE s == taken.of
<1>1. /\ s \in Clients /\ sendRemainingData(s, remaining[s])
      /\ UNCHANGED <<latest, watch, allowed, dropped>>
    BY DEF HandleSent, TInv, Typed, RestTyped, database, history
<1>2. remaining[s] \in Seq(News) /\ Well(bufferOut[s] \o remaining[s], view[s], dropped[s], allowed[s])
    BY <1>1 DEF LInv, Listed, Unsent, TInv, Typed, SendingTyped
<1>3. SendsFrom(s, Unsent(s))
    <2>1. Unsent(s) = bufferOut[s] \o remaining[s]
        BY DEF Unsent
    <2>2. SendsFrom(s, bufferOut[s] \o remaining[s])
        BY <1>1, <1>2, TurnSends
    <2> QED
        BY <2>1, <2>2
<1> HIDE DEF s
<1>4. \A f \in Clients : SendsFrom(f, Unsent(f))
    BY <1>1, <1>3, TurnAlone, AllSend
<1> QED
    BY <1>1, <1>4 DEF SendingStep, DatabaseStep

LEMMA WritableStep ==
    ASSUME TInv, LInv, NEW s \in Clients, NEW n, Writable(s, n)
    PROVE  SendingStep
<1>1. SendsFrom(s, Unsent(s))
    BY WritableSends DEF LInv
<1>2. \A f \in Clients : f # s =>
            view'[f] = view[f] /\ bufferOut'[f] = bufferOut[f] /\ remaining'[f] = remaining[f]
    BY DEF Writable, Shown, TInv, Typed, SendingTyped, NewsTable
<1>3. UNCHANGED <<latest, watch, allowed, dropped>>
    BY DEF Writable, database, history
<1> QED
    BY <1>1, <1>2, <1>3, AllSend DEF SendingStep, DatabaseStep

LEMMA StepKinds ==
    ASSUME TInv, LInv, [Next]_vars
    PROVE  SendingStep \/ HandleUpdate \/ \E s \in Clients : Erase(s)
<1>1. ASSUME UNCHANGED <<latest, watch, allowed, view, bufferOut, remaining, dropped>>
      PROVE  SendingStep
    BY <1>1, NoneSends DEF SendingStep, DatabaseStep
<1>2. CASE UNCHANGED vars
    BY <1>1, <1>2 DEF vars, database, sending, history
<1>3. ASSUME NEW s \in Clients, Register(s) \/ (\E p \in Packets : Arrive(s, p)) \/ \E k \in MailKinds : Take(s, k)
      PROVE  SendingStep
    BY <1>1, <1>3 DEF Register, Arrive, Take, database, sending, history
<1>4. CASE Wait
    BY <1>1, <1>4 DEF Wait, database, sending, history
<1> QED
    BY <1>2, <1>3, <1>4, PacketStep, SentStep, WritableStep DEF Next, ServerStep, SenderStep

\* The last news of every client and topic that f lacks go behind the others.
LEMMA UpdateSends ==
    ASSUME TInv, LInv, HandleUpdate
    PROVE  LET s == taken.of
               news == NewNews(s, "name") \o NewNews(s, "place")
           IN  /\ s \in Clients
               /\ SendsFrom(s, Unsent(s) \o news)
               /\ \A f \in Clients : f # s => SendsFrom(f, Unsent(f))
               /\ Unsent(s) \in Lists /\ news \in Lists
               /\ Range(Unsent(s) \o news) =
                    Range(Unsent(s)) \cup Range(NewNews(s, "name")) \cup Range(NewNews(s, "place"))
<1> DEFINE s == taken.of
           names == NewNews(s, "name")
           places == NewNews(s, "place")
           b == bufferOut[s]
           r == remaining[s]
           left == r \o names \o places
<1>1. s \in Clients /\ sendRemainingData(s, left)
    BY DEF HandleUpdate, TInv, Typed, RestTyped
<1>2. left \in Seq(News) /\ (left = <<>> => r = <<>>)
    BY <1>1, UpdatePackets
<1>3. /\ names \in Seq(News) /\ \A p \in Range(names) : p.of \in Watched(s) /\ p.kind = "name" /\ p.nr = latest[p.of]["name"]
      /\ places \in Seq(News) /\ \A p \in Range(places) : p.of \in Watched(s) /\ p.kind = "place" /\ p.nr = latest[p.of]["place"]
    BY <1>1, NewsOfWatched, TypeParts DEF TInv, Kinds
<1>4. b \in Lists /\ r \in Lists /\ Unsent(s) = b \o r
    BY <1>1 DEF Unsent, TInv, Typed, SendingTyped, Lists
<1>5. names \in Lists /\ places \in Lists
    BY <1>3 DEF Lists
<1>6. \A t \in Watched(s) : allowed[s][t] = latest[t]
    BY <1>1 DEF LInv, Watched
<1>7. Well(b \o r, view[s], dropped[s], allowed[s])
    BY <1>1, <1>4 DEF LInv, Listed
<1> HIDE DEF names, places, b, r, left
<1>8. b \o r \in Lists /\ b \o r \o names \in Lists /\ names \o places \in Lists
    BY <1>4, <1>5, Parts
<1>9. Well(b \o r \o names, view[s], dropped[s], allowed[s])
    BY <1>3, <1>6, <1>7, <1>8, NewsBehind
<1>10. Well(b \o r \o names \o places, view[s], dropped[s], allowed[s])
    BY <1>3, <1>6, <1>8, <1>9, NewsBehind
<1>11. b \o r \o names \o places = b \o left /\ b \o r \o names \o places = (b \o r) \o (names \o places)
    <2>1. r \o names \in Lists
        BY <1>4, <1>5, Parts
    <2>2. b \o r \o names = b \o (r \o names)
        BY <1>4, <1>5, ThreeParts
    <2>3. (b \o (r \o names)) \o places = b \o ((r \o names) \o places)
        BY <1>4, <1>5, <2>1, ThreeParts
    <2>4. ((b \o r) \o names) \o places = (b \o r) \o (names \o places)
        BY <1>5, <1>8, ThreeParts
    <2> QED
        BY <2>2, <2>3, <2>4 DEF left
<1>12. SendsFrom(s, b \o left)
    BY <1>1, <1>2, <1>10, <1>11, TurnSends DEF b, r
<1>13. \A f \in Clients : f # s => SendsFrom(f, Unsent(f))
    BY <1>1, TurnAlone, SameSends DEF LInv
<1>14. Range((b \o r) \o (names \o places)) = Range(b \o r) \cup Range(names) \cup Range(places)
    <2>1. Range((b \o r) \o (names \o places)) = Range(b \o r) \cup Range(names \o places)
        BY <1>8, Parts
    <2>2. Range(names \o places) = Range(names) \cup Range(places)
        BY <1>5, Parts
    <2> QED
        BY <2>1, <2>2
<1>15. Unsent(s) \in Lists /\ SendsFrom(s, Unsent(s) \o (names \o places))
       /\ Range(Unsent(s) \o (names \o places)) = Range(Unsent(s)) \cup Range(names) \cup Range(places)
    BY <1>4, <1>8, <1>11, <1>12, <1>14
<1> QED
    BY <1>1, <1>8, <1>13, <1>15 DEF names, places

-----------------------------------------------------------------------------
(* The invariants of the lists *)

LEMMA SeenWatched ==
    ASSUME TInv, NEW s \in Clients, watch' = Seen(s)
    PROVE  \A f, t \in Clients : watch'[f][t] # None <=> watch[f][t] # None
<1> SUFFICES ASSUME NEW f \in Clients, NEW t \in Clients
             PROVE  watch'[f][t] # None <=> watch[f][t] # None
    OBVIOUS
<1>1. CASE f # s
    BY <1>1 DEF Seen, TInv, Typed, DatabaseTyped
<1>2. CASE f = s
    <2>1. watch'[f][t] = IF t \notin Watched(f) THEN None
            ELSE [k \in Kinds |-> IF HasNew(f, t, k) THEN latest[t][k] ELSE watch[f][t][k]]
        BY <1>2 DEF Seen, TInv, Typed, DatabaseTyped
    <2>2. CASE t \in Watched(f)
        <3>1. latest[t] \in [Kinds -> Nat] /\ watch[f][t] \in [Kinds -> Nat]
            BY <2>2 DEF Watched, TInv, Typed, DatabaseTyped
        <3>2. watch'[f][t] \in [Kinds -> Nat]
            BY <2>1, <2>2, <3>1
        <3> QED
            BY <2>2, <3>2, SessionAssumption DEF Watched
    <2>3. CASE t \notin Watched(f)
        BY <2>1, <2>3 DEF Watched
    <2> QED
        BY <2>2, <2>3
<1> QED
    BY <1>1, <1>2

\* How a step changes what may be seen.
LEMMA AllowedGrows ==
    ASSUME TInv, TInv', LInv, DatabaseStep
    PROVE  /\ \A f \in Clients : AtMost(allowed[f], allowed'[f]) /\ AtMost(allowed'[f], latest')
           /\ \A f, t \in Clients : watch'[f][t] # None => allowed'[f][t] = latest'[t]
<1>1. /\ latest \in Table /\ latest' \in Table
      /\ allowed \in [Clients -> Table] /\ allowed' \in [Clients -> Table]
      /\ watch \in [Clients -> [Clients -> [Kinds -> Nat] \cup {None}]]
    BY DEF TInv, Typed, DatabaseTyped, NewsTable, Table
<1>2. /\ \A f \in Clients : AtMost(allowed[f], latest)
      /\ \A f, t \in Clients : watch[f][t] # None => allowed[f][t] = latest[t]
    BY DEF LInv
<1>3. CASE UNCHANGED <<latest, watch, allowed>>
    BY <1>1, <1>2, <1>3, TableSame
<1>4. ASSUME NEW s \in Clients, NEW k \in Kinds, Publish(s, k), NEW f \in Clients, NEW t \in Clients
      PROVE  /\ \A j \in Kinds : allowed[f][t][j] <= allowed'[f][t][j] /\ allowed'[f][t][j] <= latest'[t][j]
             /\ watch'[f][t] # None => allowed'[f][t] = latest'[t]
    <2>1. /\ watch' = watch
          /\ latest' = [latest EXCEPT ![s] = [latest[s] EXCEPT ![k] = latest[s][k] + 1]]
        BY <1>4, PublishTyped DEF TInv, Typed
    <2>2. allowed'[f] = IF watch[f][s] # None THEN [allowed[f] EXCEPT ![s] = latest'[s]] ELSE allowed[f]
        BY <1>4 DEF Publish
    <2>3. ASSUME NEW j \in Kinds
          PROVE  /\ allowed[f][t][j] \in Nat /\ latest[t][j] \in Nat /\ latest'[t][j] \in Nat
                 /\ allowed[f][t][j] <= latest[t][j] /\ latest[t][j] <= latest'[t][j]
        <3>1. allowed[f][t][j] \in Nat /\ latest[t][j] \in Nat /\ latest[s][k] \in Nat
            BY <1>1 DEF Table
        <3>2. latest'[t][j] = IF t = s /\ j = k THEN latest[s][k] + 1 ELSE latest[t][j]
            BY <1>1, <2>1 DEF Table
        <3>3. allowed[f][t][j] <= latest[t][j]
            BY <1>2 DEF AtMost
        <3> QED
            BY <3>1, <3>2, <3>3
    <2>4. CASE t = s /\ watch[f][s] # None
        <3>1. allowed'[f][t] = latest'[t]
            BY <1>1, <2>2, <2>4 DEF Table
        <3>2. ASSUME NEW j \in Kinds
              PROVE  allowed[f][t][j] <= latest'[t][j] /\ latest'[t][j] <= latest'[t][j]
            BY <2>3
        <3> QED
            BY <3>1, <3>2
    <2>5. CASE ~(t = s /\ watch[f][s] # None)
        <3>1. allowed'[f][t] = allowed[f][t]
            BY <1>1, <2>2, <2>5 DEF Table
        <3>2. ASSUME NEW j \in Kinds
              PROVE  allowed[f][t][j] <= allowed[f][t][j] /\ allowed[f][t][j] <= latest'[t][j]
            BY <2>3
        <3>3. watch[f][t] # None => latest'[t] = latest[t]
            BY <1>1, <2>1, <2>5
        <3> QED
            BY <1>2, <2>1, <3>1, <3>2, <3>3
    <2> QED
        BY <2>4, <2>5
<1>5. ASSUME NEW g \in Clients, NEW u \in Clients, Granted(g, u), NEW f \in Clients, NEW t \in Clients
      PROVE  /\ \A j \in Kinds : allowed[f][t][j] <= allowed'[f][t][j] /\ allowed'[f][t][j] <= latest'[t][j]
             /\ watch'[f][t] # None => allowed'[f][t] = latest'[t]
    <2>1. \A j \in Kinds : allowed[f][t][j] \in Nat /\ latest[t][j] \in Nat /\ allowed[f][t][j] <= latest[t][j]
        BY <1>1, <1>2 DEF Table, AtMost
    <2>2. latest' = latest
        BY <1>5 DEF Granted
    <2>3. CASE f = g /\ t = u
        <3>1. allowed'[f][t] = latest[t]
            BY <1>1, <1>5, <2>3 DEF Granted, Table
        <3> QED
            BY <2>1, <2>2, <3>1
    <2>4. CASE ~(f = g /\ t = u)
        <3>1. allowed'[f][t] = allowed[f][t] /\ watch'[f][t] = watch[f][t]
            BY <1>1, <1>5, <2>4 DEF Granted, Table
        <3> QED
            BY <1>2, <2>1, <2>2, <3>1
    <2> QED
        BY <2>3, <2>4
<1>6. ASSUME NEW g \in Clients, NEW u \in Clients, Revoked(g, u), NEW f \in Clients, NEW t \in Clients
      PROVE  /\ \A j \in Kinds : allowed[f][t][j] <= allowed'[f][t][j] /\ allowed'[f][t][j] <= latest'[t][j]
             /\ watch'[f][t] # None => allowed'[f][t] = latest'[t]
    <2>1. \A j \in Kinds : allowed[f][t][j] \in Nat /\ latest[t][j] \in Nat /\ allowed[f][t][j] <= latest[t][j]
        BY <1>1, <1>2 DEF Table, AtMost
    <2>2. latest' = latest /\ allowed' = allowed
        BY <1>6 DEF Revoked
    <2>3. watch'[f][t] # None => watch[f][t] # None
        BY <1>1, <1>6 DEF Revoked
    <2> QED
        BY <1>2, <2>1, <2>2, <2>3
<1> QED
    BY <1>3, <1>4, <1>5, <1>6 DEF DatabaseStep, AtMost

LEMMA ListsSending ==
    ASSUME TInv, TInv', LInv, SendingStep
    PROVE  LInv'
<1>1. /\ \A f \in Clients : AtMost(allowed[f], allowed'[f]) /\ AtMost(allowed'[f], latest')
      /\ \A f, t \in Clients : watch'[f][t] # None => allowed'[f][t] = latest'[t]
    BY AllowedGrows DEF SendingStep
<1>2. ASSUME NEW f \in Clients
      PROVE  Listed(f)'
    <2>1. Well(Unsent(f)', view'[f], dropped[f], allowed[f]) /\ dropped' = dropped
        BY DEF SendingStep, SendsFrom
    <2>2. allowed'[f] \in Table
        BY DEF TInv, Typed, DatabaseTyped, NewsTable, Table
    <2>3. Well(Unsent(f)', view'[f], dropped[f], allowed'[f])
        BY <1>1, <2>1, <2>2, Grow
    <2> QED
        BY <2>1, <2>3 DEF Listed
<1> QED
    BY <1>1, <1>2 DEF LInv

LEMMA ListsUpdate ==
    ASSUME TInv, TInv', LInv, HandleUpdate
    PROVE  LInv'
<1> DEFINE s == taken.of
<1>1. s \in Clients /\ watch' = Seen(s) /\ UNCHANGED <<latest, allowed, dropped>>
    BY DEF HandleUpdate, TInv, Typed, RestTyped
<1>2. \A f, t \in Clients : watch'[f][t] # None <=> watch[f][t] # None
    BY <1>1, SeenWatched
<1>3. ASSUME NEW f \in Clients
      PROVE  Well(Unsent(f)', view'[f], dropped[f], allowed[f])
    <2>1. \E old : SendsFrom(f, old)
        BY UpdateSends
    <2> QED
        BY <2>1 DEF SendsFrom
<1> QED
    BY <1>1, <1>2, <1>3 DEF LInv, Listed

\* What ends with the session s.
LEMMA EraseLists ==
    ASSUME TInv, LInv, NEW s \in Clients, Erase(s)
    PROVE  /\ UNCHANGED <<latest, watch, allowed, view>>
           /\ Unsent(s)' = <<>> /\ dropped'[s] = With(dropped[s], Unsent(s))
           /\ \A f \in Clients : f # s => Unsent(f)' = Unsent(f) /\ dropped'[f] = dropped[f]
           /\ dropped'[s] \in Table /\ AtMost(dropped[s], dropped'[s]) /\ AtMost(dropped'[s], allowed[s])
           /\ \A p \in Range(Unsent(s)) \cap News : p.nr <= dropped'[s][p.of][p.kind]
<1>1. UNCHANGED <<latest, watch, allowed, view>>
    BY DEF Erase, database
<1>2. Unsent(s)' = <<>>
    BY DEF Erase, Unsent, TInv, Typed, SendingTyped
<1>3. dropped'[s] = With(dropped[s], Unsent(s))
    BY DEF Erase, TInv, Typed, DatabaseTyped, NewsTable
<1>4. \A f \in Clients : f # s => Unsent(f)' = Unsent(f) /\ dropped'[f] = dropped[f]
    BY DEF Erase, Unsent, TInv, Typed, SendingTyped, DatabaseTyped, NewsTable
<1>5. Well(Unsent(s), view[s], dropped[s], allowed[s])
    BY DEF LInv, Listed
<1>6. /\ With(dropped[s], Unsent(s)) \in Table /\ AtMost(dropped[s], With(dropped[s], Unsent(s)))
      /\ AtMost(With(dropped[s], Unsent(s)), allowed[s])
      /\ \A p \in Range(Unsent(s)) \cap News : p.nr <= With(dropped[s], Unsent(s))[p.of][p.kind]
    BY <1>5, Shows DEF Well
<1> QED
    BY <1>1, <1>2, <1>3, <1>4, <1>6

LEMMA ListsErase ==
    ASSUME TInv, LInv, NEW s \in Clients, Erase(s)
    PROVE  LInv'
<1>1. ASSUME NEW f \in Clients
      PROVE  Listed(f)'
    <2>1. Well(Unsent(f), view[f], dropped[f], allowed[f])
        BY DEF LInv, Listed
    <2>2. CASE f # s
        BY <2>1, <2>2, EraseLists DEF Listed
    <2>3. CASE f = s
        <3>1. /\ UNCHANGED <<allowed, view>> /\ Unsent(f)' = <<>>
              /\ dropped'[f] \in Table /\ AtMost(dropped'[f], allowed[f])
            BY <2>3, EraseLists
        <3>2. Well(<<>>, view[f], dropped'[f], allowed[f])
            BY <2>1, <3>1, NoPacket DEF Well, Within
        <3> QED
            BY <3>1, <3>2 DEF Listed
    <2> QED
        BY <2>2, <2>3
<1>2. UNCHANGED <<latest, watch, allowed>>
    BY EraseLists
<1> QED
    BY <1>1, <1>2 DEF LInv

\* At first nothing has been sent, and a follower may see what was there.
LEMMA ListsInit == Init => LInv
<1> SUFFICES ASSUME Init
             PROVE  LInv
    OBVIOUS
<1>1. TInv
    BY InitTyped
<1>2. \A f \in Clients : Unsent(f) = <<>>
    BY DEF Init, Unsent
<1>3. /\ view = NothingSeen /\ dropped = NothingSeen
      /\ \A f, t \in Clients : allowed[f][t] = latest[t] \/ (allowed[f][t] = NoNews /\ watch[f][t] = None)
    BY DEF Init
<1>4. /\ view \in [Clients -> Table] /\ dropped \in [Clients -> Table] /\ allowed \in [Clients -> Table]
      /\ latest \in Table
    BY <1>1 DEF TInv, Typed, SendingTyped, DatabaseTyped, NewsTable, Table
<1>5. ASSUME NEW f \in Clients, NEW t \in Clients, NEW k \in Kinds
      PROVE  0 <= allowed[f][t][k] /\ allowed[f][t][k] <= latest[t][k]
    <2>1. allowed[f][t][k] \in Nat /\ latest[t][k] \in Nat
        BY <1>4 DEF Table
    <2>2. NoNews[k] = 0
        BY DEF NoNews
    <2> QED
        BY <1>3, <2>1, <2>2
<1>6. \A f \in Clients : AtMost(allowed[f], latest) /\ AtMost(NothingSeen[f], allowed[f])
    BY <1>5 DEF AtMost, NothingSeen, NoNews
<1>7. \A f \in Clients : Listed(f)
    BY <1>2, <1>3, <1>4, <1>6, NoPacket DEF Listed, Well, Within
<1> QED
    BY <1>3, <1>6, <1>7 DEF LInv

LEMMA AlwaysListed == Spec => [](TInv /\ LInv)
<1>1. TInv /\ TInv' /\ LInv /\ [Next]_vars => LInv'
    BY StepKinds, ListsSending, ListsUpdate, ListsErase
<1> QED
    BY <1>1, InitTyped, StepTyped, ListsInit, PTL DEF Spec

-----------------------------------------------------------------------------
(* News are lost only with a session *)

\* A packet that was marked stays in the list, or has been sent.
LEMMA StillFound ==
    ASSUME TInv, TInv', NEW f \in Clients, NEW t \in Watched(f), NEW k \in Kinds, Found(f, t, k),
           NEW old, Range(Unsent(f)) \subseteq Range(old), Unsent(f) \in Lists, SendsFrom(f, old),
           dropped' = dropped, watch'[f][t][k] = watch[f][t][k]
    PROVE  Found(f, t, k)'
<1> DEFINE x == [of |-> t, kind |-> k, nr |-> watch[f][t][k]]
<1>1. /\ t \in Clients /\ watch[f][t][k] \in Nat
      /\ view[f][t][k] \in Nat /\ view'[f][t][k] \in Nat /\ view[f][t][k] <= view'[f][t][k]
    BY DEF Watched, SendsFrom, AtMost, TInv, Typed, SendingTyped, DatabaseTyped, NewsTable
<1>2. CASE watch[f][t][k] <= view[f][t][k]
    BY <1>1, <1>2 DEF Found
<1>3. CASE watch[f][t][k] <= dropped[f][t][k]
    BY <1>3 DEF Found
<1>4. CASE x \in Range(Unsent(f))
    <2>1. x \in News
        BY <1>1, <1>4, RangeType, ItemType
    <2>2. x \in Range(Unsent(f)') \/ x.nr <= view'[f][x.of][x.kind]
        BY <1>4, <2>1 DEF SendsFrom
    <2>3. x.of = t /\ x.kind = k /\ x.nr = watch[f][t][k]
        OBVIOUS
    <2>4. x \in Range(Unsent(f)') \/ watch[f][t][k] <= view'[f][t][k]
        BY <2>2, <2>3
    <2> QED
        BY <2>4 DEF Found
<1> QED
    BY <1>2, <1>3, <1>4 DEF Found

LEMMA FoundSending ==
    ASSUME TInv, TInv', LInv, FInv, SendingStep
    PROVE  FInv'
<1> SUFFICES ASSUME NEW f \in Clients, NEW t \in Watched(f)', NEW k \in Kinds
             PROVE  Found(f, t, k)'
    BY DEF FInv
<1>1. SendsFrom(f, Unsent(f)) /\ dropped' = dropped /\ DatabaseStep /\ Unsent(f) \in Lists
    BY DEF SendingStep, LInv, Listed, Well
<1>2. t \in Clients /\ watch'[f][t] # None /\ watch \in [Clients -> [Clients -> [Kinds -> Nat] \cup {None}]]
    BY DEF Watched, TInv, Typed, DatabaseTyped
<1>3. CASE watch'[f][t] = watch[f][t]
    <2>1. t \in Watched(f)
        BY <1>2, <1>3 DEF Watched
    <2>2. Found(f, t, k)
        BY <2>1 DEF FInv
    <2> QED
        BY <1>1, <1>3, <2>1, <2>2, StillFound
<1>4. CASE watch'[f][t] # watch[f][t]
    <2>1. watch' # watch
        BY <1>4
    <2>2. \A g \in Clients, u \in Clients : ~Revoked(g, u)
        <3> SUFFICES ASSUME NEW g \in Clients, NEW u \in Clients, Revoked(g, u)
                     PROVE  FALSE
            OBVIOUS
        <3>1. watch' = [watch EXCEPT ![g] = [watch[g] EXCEPT ![u] = None]]
            BY DEF Revoked
        <3>2. watch'[f][t] = None \/ watch'[f][t] = watch[f][t]
            BY <1>2, <3>1
        <3> QED
            BY <1>2, <1>4, <3>2
    <2>3. PICK g \in Clients, u \in Clients : Granted(g, u)
        BY <1>1, <2>1, <2>2 DEF DatabaseStep, Publish
    <2>4. watch' = [watch EXCEPT ![g] = [watch[g] EXCEPT ![u] = NoNews]]
        BY <2>3 DEF Granted
    <2>5. watch'[f][t] = NoNews
        BY <1>2, <1>4, <2>4
    <2>6. watch'[f][t][k] = 0 /\ view'[f][t][k] \in Nat
        BY <1>2, <2>5 DEF NoNews, TInv, Typed, SendingTyped, NewsTable
    <2> QED
        BY <2>6 DEF Found
<1> QED
    BY <1>3, <1>4

LEMMA FoundUpdate ==
    ASSUME TInv, TInv', LInv, FInv, HandleUpdate
    PROVE  FInv'
<1> DEFINE s == taken.of
           names == NewNews(s, "name")
           places == NewNews(s, "place")
           all == Unsent(s) \o (names \o places)
<1>1. s \in Clients /\ watch' = Seen(s) /\ UNCHANGED <<latest, dropped>>
    BY DEF HandleUpdate, TInv, Typed, RestTyped
<1>2. /\ SendsFrom(s, all) /\ \A f \in Clients : f # s => SendsFrom(f, Unsent(f))
      /\ Range(all) = Range(Unsent(s)) \cup Range(names) \cup Range(places)
    BY UpdateSends
<1>3. \A f \in Clients : Unsent(f) \in Lists
    BY DEF LInv, Listed, Well
<1>4. \A t \in Watched(s), k \in Kinds : HasNew(s, t, k) =>
            [of |-> t, kind |-> k, nr |-> latest[t][k]] \in Range(NewNews(s, k))
    BY <1>1, NewsOfWatched, TypeParts DEF TInv
<1> HIDE DEF s
<1> SUFFICES ASSUME NEW f \in Clients, NEW t \in Watched(f)', NEW k \in Kinds
             PROVE  Found(f, t, k)'
    BY DEF FInv
<1>5. t \in Watched(f) /\ t \in Clients /\ Found(f, t, k)
    BY <1>1, SeenWatched DEF Watched, FInv
<1>6. CASE f # s
    <2>1. watch'[f] = watch[f]
        BY <1>1, <1>6 DEF Seen, TInv, Typed, DatabaseTyped
    <2> QED
        BY <1>1, <1>2, <1>3, <1>5, <1>6, <2>1, StillFound
<1>7. CASE f = s
    <2>1. watch'[f][t][k] = IF HasNew(f, t, k) THEN latest[t][k] ELSE watch[f][t][k]
        BY <1>1, <1>5, <1>7 DEF Seen, TInv, Typed, DatabaseTyped
    <2>2. CASE ~HasNew(f, t, k)
        <3>1. watch'[f][t][k] = watch[f][t][k] /\ SendsFrom(f, all) /\ Range(Unsent(f)) \subseteq Range(all)
            BY <1>2, <1>7, <2>1, <2>2
        <3> HIDE DEF all
        <3> QED
            BY <1>1, <1>3, <1>5, <3>1, StillFound
    <2>3. CASE HasNew(f, t, k)
        <3> DEFINE x == [of |-> t, kind |-> k, nr |-> latest[t][k]]
        <3>1. x \in Range(all)
            BY <1>2, <1>4, <1>5, <1>7, <2>3 DEF Kinds
        <3>2. x \in Range(NewNews(s, k)) /\ Range(NewNews(s, k)) \subseteq News
            <4>1. NewNews(s, k) \in Seq(News)
                BY <1>1, NewsOfWatched, TypeParts DEF TInv
            <4>2. Range(NewNews(s, k)) \subseteq News
                BY <4>1 DEF Range
            <4> QED
                BY <1>4, <1>5, <1>7, <2>3, <4>2
        <3>3. x \in Range(Unsent(f)') \/ x.nr <= view'[f][x.of][x.kind]
            <4>1. SendsFrom(f, all) /\ x \in Range(all) \cap News
                BY <1>2, <1>7, <3>1, <3>2
            <4> HIDE DEF all, x
            <4> QED
                BY <4>1 DEF SendsFrom
        <3>4. x \in Range(Unsent(f)') \/ latest[t][k] <= view'[f][t][k]
            BY <3>3
        <3>5. watch'[f][t][k] = latest[t][k]
            BY <2>1, <2>3
        <3> QED
            BY <3>4, <3>5 DEF Found
    <2> QED
        BY <2>2, <2>3
<1> QED
    BY <1>6, <1>7

LEMMA FoundErase ==
    ASSUME TInv, LInv, FInv, NEW s \in Clients, Erase(s)
    PROVE  FInv'
<1> SUFFICES ASSUME NEW f \in Clients, NEW t \in Watched(f)', NEW k \in Kinds
             PROVE  Found(f, t, k)'
    BY DEF FInv
<1>1. UNCHANGED <<watch, view>>
    BY EraseLists
<1>2. t \in Watched(f) /\ t \in Clients /\ Found(f, t, k)
    BY <1>1 DEF Watched, FInv
<1>3. CASE f # s
    <2>1. Unsent(f)' = Unsent(f) /\ dropped'[f] = dropped[f]
        BY <1>3, EraseLists
    <2> QED
        BY <1>1, <1>2, <2>1 DEF Found
<1>4. CASE f = s
    <2> DEFINE x == [of |-> t, kind |-> k, nr |-> watch[f][t][k]]
    <2>1. /\ watch[f][t][k] \in Nat /\ dropped[f][t][k] \in Nat /\ dropped'[f][t][k] \in Nat
          /\ dropped[f][t][k] <= dropped'[f][t][k]
        BY <1>2, <1>4, EraseLists DEF AtMost, Table, Watched, TInv, Typed, DatabaseTyped, NewsTable
    <2>2. CASE watch[f][t][k] <= view[f][t][k]
        BY <1>1, <2>2 DEF Found
    <2>3. CASE watch[f][t][k] <= dropped[f][t][k]
        <3>1. watch[f][t][k] <= dropped'[f][t][k]
            BY <2>1, <2>3
        <3> QED
            BY <1>1, <3>1 DEF Found
    <2>4. CASE x \in Range(Unsent(f))
        <3>1. Unsent(f) \in Lists
            BY DEF LInv, Listed, Well
        <3>2. x \in News
            BY <1>2, <2>4, <3>1, RangeType, ItemType
        <3>3. x.nr <= dropped'[f][x.of][x.kind]
            BY <1>4, <2>4, <3>2, EraseLists
        <3>4. watch[f][t][k] <= dropped'[f][t][k]
            BY <3>3
        <3> QED
            BY <1>1, <3>4 DEF Found
    <2> QED
        BY <1>2, <2>2, <2>3, <2>4 DEF Found
<1> QED
    BY <1>3, <1>4

LEMMA FoundAccounted ==
    ASSUME TInv, FInv, NEW f \in Clients, NEW t \in Watched(f), NEW k \in Kinds
    PROVE  Accounted(f, t, k, watch[f][t][k])
<1>1. /\ t \in Clients /\ watch[f][t][k] \in Nat /\ view[f][t][k] \in Nat /\ dropped[f][t][k] \in Nat
      /\ Found(f, t, k)
    BY DEF FInv, Watched, TInv, Typed, SendingTyped, DatabaseTyped, NewsTable
<1> DEFINE m == Max({view[f][t][k], dropped[f][t][k]})
<1>2. view[f][t][k] <= m /\ dropped[f][t][k] <= m /\ m \in Nat
    BY <1>1, MaxOfTwo
<1> HIDE DEF m
<1>3. watch[f][t][k] <= m \/ [of |-> t, kind |-> k, nr |-> watch[f][t][k]] \in Range(Unsent(f))
    BY <1>1, <1>2 DEF Found
<1> QED
    BY <1>3 DEF m, Range, Accounted

\* What is marked as seen has been sent in: it is not newer than the last news.
LEMMA SeenIsThere ==
    ASSUME TInv, LInv, FInv, NEW f \in Clients, NEW t \in Watched(f), NEW k \in Kinds
    PROVE  watch[f][t][k] <= latest[t][k]
<1>1. /\ t \in Clients /\ watch[f][t][k] \in Nat /\ latest[t][k] \in Nat /\ allowed[f][t][k] \in Nat
      /\ view[f][t][k] \in Nat /\ dropped[f][t][k] \in Nat /\ Found(f, t, k)
    BY DEF FInv, Watched, TInv, Typed, SendingTyped, DatabaseTyped, NewsTable
<1>2. allowed[f][t][k] <= latest[t][k]
    BY <1>1 DEF LInv, AtMost
<1>3. view[f][t][k] <= allowed[f][t][k] /\ dropped[f][t][k] <= allowed[f][t][k]
    BY <1>1 DEF LInv, Listed, Well, AtMost
<1>4. CASE watch[f][t][k] <= view[f][t][k] \/ watch[f][t][k] <= dropped[f][t][k]
    BY <1>1, <1>2, <1>3, <1>4
<1>5. CASE [of |-> t, kind |-> k, nr |-> watch[f][t][k]] \in Range(Unsent(f)) /\ watch[f][t][k] # 0
    <2>1. [of |-> t, kind |-> k, nr |-> watch[f][t][k]] \in News
        BY <1>1, <1>5 DEF News
    <2>2. watch[f][t][k] <= allowed[f][t][k]
        BY <1>5, <2>1 DEF LInv, Listed, Well, Within
    <2> QED
        BY <1>1, <1>2, <2>2
<1>6. CASE watch[f][t][k] = 0
    BY <1>1, <1>6
<1> QED
    BY <1>1, <1>4, <1>5, <1>6 DEF Found

\* When the last news of a client are not new to a follower, they are those marked
\* as seen, or a place that does not count as new.
LEMMA NothingNew ==
    ASSUME TInv, LInv, FInv, NEW f \in Clients, NEW t \in Watched(f), NEW k \in Kinds
    PROVE  \/ HasNew(f, t, k) \/ watch[f][t][k] = latest[t][k]
           \/ k = "place" /\ (Overtaken(f, t) \/ ~Named(t))
<1>1. t \in Clients /\ watch[f][t][k] \in Nat /\ latest[t][k] \in Nat /\ times[t] \in Seq(Times)
    BY DEF Watched, TInv, Typed, DatabaseTyped
<1>2. watch[f][t][k] <= latest[t][k]
    BY SeenIsThere
<1>3. CASE k = "name"
    BY <1>1, <1>2, <1>3 DEF HasNew, HasNewName
<1>4. CASE k = "place"
    <2> DEFINE last == TimeOf(t, latest[t]["place"])
               seen == TimeOf(t, watch[f][t]["place"])
    <2>1. last \in Int /\ seen \in Int
        <3>1. \A n \in DOMAIN times[t] : times[t][n] \in Times
            BY <1>1, ElementOfSeq
        <3> QED
            BY <3>1, SessionAssumption DEF TimeOf
    <2>2. HasNew(f, t, k) <=> Named(t) /\ latest[t]["place"] > watch[f][t]["place"] /\ last > seen
        BY <1>4 DEF HasNew, HasNewPlace
    <2>3. Overtaken(f, t) <=> latest[t]["place"] > watch[f][t]["place"] /\ last <= seen
        BY DEF Overtaken
    <2> HIDE DEF last, seen
    <2> QED
        BY <1>1, <1>2, <1>4, <2>1, <2>2, <2>3
<1> QED
    BY <1>3, <1>4 DEF Kinds


\* News marked as seen in the database (getNewNames, getNewPositions) have been
\* sent to the follower, are still to be sent by its session, or were lost when a
\* session of its ended; and the last news of a client it watches are, too, unless
\* an update() will still find them or they are a place of a client without a name
\* or of a time that is not after the time of the one that is marked.
THEOREM LostForCauseHolds == Spec => []LostForCause
<1>1. Init => FInv
    <2> SUFFICES ASSUME Init, NEW f \in Clients, NEW t \in Watched(f), NEW k \in Kinds
                 PROVE  Found(f, t, k)
        BY DEF FInv
    <2>1. t \in Clients /\ watch[f][t] = NoNews /\ view[f][t] = NoNews
        BY DEF Init, Watched, NothingSeen
    <2>2. watch[f][t][k] = 0 /\ view[f][t][k] = 0
        BY <2>1 DEF NoNews
    <2> QED
        BY <2>2 DEF Found
<1>2. TInv /\ TInv' /\ LInv /\ FInv /\ [Next]_vars => FInv'
    BY StepKinds, FoundSending, FoundUpdate, FoundErase
<1>3. TInv /\ LInv /\ FInv => LostForCause
    <2> SUFFICES ASSUME TInv, LInv, FInv, NEW f \in Clients, NEW t \in Watched(f), NEW k \in Kinds
                 PROVE  /\ Accounted(f, t, k, watch[f][t][k])
                        /\ \/ HasNew(f, t, k) \/ Accounted(f, t, k, latest[t][k])
                           \/ k = "place" /\ (Overtaken(f, t) \/ ~Named(t))
        BY DEF LostForCause
    <2>1. Accounted(f, t, k, watch[f][t][k])
        BY FoundAccounted
    <2>2. HasNew(f, t, k) \/ watch[f][t][k] = latest[t][k] \/ (k = "place" /\ (Overtaken(f, t) \/ ~Named(t)))
        BY NothingNew
    <2> QED
        BY <2>1, <2>2
<1> QED
    BY <1>1, <1>2, <1>3, AlwaysListed, PTL DEF Spec

-----------------------------------------------------------------------------
(* The sessions keep the promise of Feed *)

LEMMA FeedStarts == Init => Promise!FeedInit
<1> SUFFICES ASSUME Init
             PROVE  Promise!FeedInit
    OBVIOUS
<1>1. PICK Follows \in Starts :
        /\ watch = [f \in Clients |-> [t \in Clients |-> IF <<f, t>> \in Follows THEN NoNews ELSE None]]
        /\ allowed = [f \in Clients |-> [t \in Clients |->
                IF <<f, t>> \in Follows THEN latest[t] ELSE NoNews]]
    BY DEF Init
<1>2. NoNews # None
    <2>1. NoNews \in [Kinds -> Nat]
        BY DEF NoNews
    <2> QED
        BY <2>1, SessionAssumption
<1>3. \A f, t \in Clients : <<f, t>> \in {g \in Clients \X Clients : watch[g[1]][g[2]] # None} <=> <<f, t>> \in Follows
    BY <1>1, <1>2
<1>4. allowed = [f \in Clients |-> [t \in Clients |->
        IF <<f, t>> \in {g \in Clients \X Clients : watch[g[1]][g[2]] # None} THEN latest[t] ELSE Promise!NoNews]]
    BY <1>1, <1>3 DEF NoNews, Promise!NoNews
<1>5. view = [f \in Clients |-> [t \in Clients |-> Promise!NoNews]]
    BY DEF Init, NothingSeen, NoNews, Promise!NoNews
<1> QED
    BY <1>4, <1>5 DEF Promise!FeedInit

\* What a peer is shown: no step takes it back, or shows what may not be seen.
LEMMA FeedShows ==
    ASSUME TInv, TInv', LInv, SendingStep \/ HandleUpdate \/ \E s \in Clients : Erase(s)
    PROVE  Promise!Show
<1> SUFFICES ASSUME NEW f \in Clients, NEW t \in Clients, NEW k \in Kinds
             PROVE  view[f][t][k] <= view'[f][t][k] /\ view'[f][t][k] <= allowed'[f][t][k]
    BY DEF Promise!Show
<1>1. AtMost(view[f], view'[f])
    <2>1. CASE SendingStep
        BY <2>1 DEF SendingStep, SendsFrom
    <2>2. CASE HandleUpdate
        <3>1. \E old : SendsFrom(f, old)
            BY <2>2, UpdateSends
        <3> QED
            BY <3>1 DEF SendsFrom
    <2>3. CASE \E s \in Clients : Erase(s)
        <3>1. view' = view /\ view[f] \in Table
            BY <2>3, EraseLists DEF TInv, Typed, SendingTyped, NewsTable, Table
        <3> QED
            BY <3>1, TableSame
    <2> QED
        BY <2>1, <2>2, <2>3
<1>2. Listed(f)'
    BY ListsSending, ListsUpdate, ListsErase DEF LInv
<1> QED
    BY <1>1, <1>2 DEF Listed, Well, AtMost

LEMMA FeedSteps ==
    ASSUME TInv, TInv', LInv, [Next]_vars
    PROVE  Promise!FeedNext
<1> DEFINE grants == {g \in Clients \X Clients : watch[g[1]][g[2]] # None}
<1>1. SendingStep \/ HandleUpdate \/ \E s \in Clients : Erase(s)
    BY StepKinds
<1>2. Promise!Show
    BY <1>1, FeedShows
<1>3. watch \in [Clients -> [Clients -> [Kinds -> Nat] \cup {None}]]
    BY DEF TInv, Typed, DatabaseTyped
<1>4. ASSUME UNCHANGED <<latest, allowed>>, \A f, t \in Clients : watch'[f][t] # None <=> watch[f][t] # None
      PROVE  Promise!FeedNext
    <2>1. grants' = grants
        BY <1>4
    <2> QED
        BY <1>2, <1>4, <2>1 DEF Promise!FeedNext
<1>5. CASE HandleUpdate
    <2>1. taken.of \in Clients /\ watch' = Seen(taken.of) /\ UNCHANGED <<latest, allowed>>
        BY <1>5 DEF HandleUpdate, TInv, Typed, RestTyped
    <2> QED
        BY <1>4, <2>1, SeenWatched
<1>6. CASE \E s \in Clients : Erase(s)
    BY <1>4, <1>6, EraseLists
<1>7. ASSUME NEW s \in Clients, NEW k \in Kinds, Publish(s, k)
      PROVE  Promise!FeedNext
    <2>1. /\ latest' = [latest EXCEPT ![s][k] = @ + 1] /\ grants' = grants
          /\ allowed' = [f \in Clients |->
                IF watch[f][s] # None THEN [allowed[f] EXCEPT ![s] = latest'[s]] ELSE allowed[f]]
        BY <1>7 DEF Publish
    <2>2. \A f \in Clients : <<f, s>> \in grants <=> watch[f][s] # None
        OBVIOUS
    <2> HIDE DEF grants
    <2>3. allowed' = [f \in Clients |->
                IF <<f, s>> \in grants THEN [allowed[f] EXCEPT ![s] = latest'[s]] ELSE allowed[f]]
        BY <2>1, <2>2
    <2>4. Promise!Publish(s, k)
        BY <2>1, <2>3 DEF Promise!Publish, grants
    <2> QED
        BY <1>2, <2>4 DEF Promise!FeedNext
<1>8. ASSUME NEW f \in Clients, NEW t \in Clients, Granted(f, t)
      PROVE  Promise!FeedNext
    <2>1. NoNews # None
        <3>1. NoNews \in [Kinds -> Nat]
            BY DEF NoNews
        <3> QED
            BY <3>1, SessionAssumption
    <2>2. \A g, u \in Clients : watch'[g][u] = IF g = f /\ u = t THEN NoNews ELSE watch[g][u]
        BY <1>3, <1>8 DEF Granted
    <2>3. grants' = grants \cup {<<f, t>>}
        BY <2>1, <2>2
    <2>4. Promise!Grant(f, t)
        BY <1>8, <2>3 DEF Granted, Promise!Grant
    <2> QED
        BY <1>2, <2>4 DEF Promise!FeedNext
<1>9. ASSUME NEW f \in Clients, NEW t \in Clients, Revoked(f, t)
      PROVE  Promise!FeedNext
    <2>1. \A g, u \in Clients : watch'[g][u] = IF g = f /\ u = t THEN None ELSE watch[g][u]
        BY <1>3, <1>9 DEF Revoked
    <2>2. grants' = grants \ {<<f, t>>}
        BY <2>1
    <2>3. Promise!Revoke(f, t)
        BY <1>9, <2>2 DEF Revoked, Promise!Revoke
    <2> QED
        BY <1>2, <2>3 DEF Promise!FeedNext
<1>10. CASE SendingStep
    <2>1. CASE UNCHANGED <<latest, watch, allowed>>
        BY <1>4, <2>1
    <2> QED
        BY <1>7, <1>8, <1>9, <1>10, <2>1 DEF SendingStep, DatabaseStep
<1> QED
    BY <1>1, <1>5, <1>6, <1>10

\* Every behaviour of the sessions is one of Feed: each peer is shown the news
\* of a client in their order, and none from a time when it did not follow.
THEOREM FeedKept == Spec => ImplementsFeed
<1>1. TInv /\ TInv' /\ LInv /\ [Next]_vars => [Promise!FeedNext]_(Promise!feedVars)
    BY FeedSteps
<1> QED
    BY <1>1, FeedStarts, AlwaysListed, PTL DEF Spec, ImplementsFeed, Promise!FeedSpec
=============================================================================
