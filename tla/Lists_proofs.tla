---------------------------- MODULE Lists_proofs ----------------------------
(***************************************************************************)
(* Lemmas about numbers and sequences that the proofs about the buffers    *)
(* and the sessions share: the least and the greatest of some numbers,     *)
(* counting up to a number, the last member of a sequence, its beginnings, *)
(* and what a list of vectors holds (FlattenSeq).                          *)
(*                                                                         *)
(* FlattenSeq is a recursive function.  The provers cannot use induction   *)
(* with a formula as its parameter, so UpTo says it with a set, and it is  *)
(* proved from a least counterexample.                                     *)
(***************************************************************************)
EXTENDS Integers, SequencesExt, SequenceTheorems, NaturalsInduction, WellFoundedInduction, TLAPS

-----------------------------------------------------------------------------
(* Numbers *)

LEMMA Least ==
    ASSUME NEW S \in SUBSET Nat, S # {}
    PROVE  \E m \in S : \A n \in S : m <= n
<1> DEFINE R == {p \in Nat \X Nat : p[1] < p[2]}
<1>1. IsWellFoundedOn(R, Nat)
    <2>1. R = OpToRel(<, Nat)
        BY DEF OpToRel
    <2> QED
        BY <2>1, NatLessThanWellFounded
<1>2. PICK m \in S : \A n \in S : <<n, m>> \notin R
    <2> HIDE DEF R
    <2> QED
        BY <1>1, WFMin
<1>3. ASSUME NEW n \in S
      PROVE  ~(n < m)
    <2>1. <<n, m>> \in Nat \X Nat
        BY <1>2
    <2>2. <<n, m>>[1] = n /\ <<n, m>>[2] = m
        OBVIOUS
    <2> QED
        BY <1>2, <2>1, <2>2 DEF R
<1> QED
    BY <1>2, <1>3

LEMMA Greatest ==
    ASSUME NEW n \in Nat, NEW S \in SUBSET (1..n), S # {}
    PROVE  Max(S) \in S /\ \A i \in S : i <= Max(S)
<1> DEFINE T == {n - i : i \in S}
<1>1. T \in SUBSET Nat /\ T # {}
    <2>1. \A i \in S : n - i \in Nat
        OBVIOUS
    <2>2. \A d \in T : d \in Nat
        BY <2>1
    <2>3. T # {}
        OBVIOUS
    <2> QED
        BY <2>2, <2>3
<1>2. PICK m \in T : \A d \in T : m <= d
    BY <1>1, Least
<1>3. PICK j \in S : m = n - j
    BY <1>2
<1>4. \A i \in S : j >= i
    <2> TAKE i \in S
    <2>1. m <= n - i
        BY <1>2
    <2> QED
        BY <1>3, <2>1
<1> QED
    BY <1>3, <1>4 DEF Max

\* A set of numbers that holds 1 and, up to n, the next of each has all of 1..n.
LEMMA UpTo ==
    ASSUME NEW n \in Nat, NEW S, n >= 1 => 1 \in S,
           \A i \in 2..n : i - 1 \in S => i \in S
    PROVE  1..n \subseteq S
<1> SUFFICES ASSUME (1..n) \ S # {} PROVE FALSE
    OBVIOUS
<1>1. PICK m \in (1..n) \ S : \A i \in (1..n) \ S : m <= i
    <2>1. (1..n) \ S \in SUBSET Nat
        OBVIOUS
    <2> QED
        BY <2>1, Least
<1>2. m # 1 /\ m \in 2..n /\ m - 1 \in 1..n
    BY <1>1
<1>3. m - 1 \in S
    BY <1>1, <1>2
<1> QED
    BY <1>1, <1>2, <1>3

-----------------------------------------------------------------------------
(* Members and beginnings of a sequence *)

LEMMA FrontLast ==
    ASSUME NEW T, NEW s \in Seq(T)
    PROVE  /\ \A x \in T : Front(Append(s, x)) = s /\ Last(Append(s, x)) = x
           /\ s # <<>> => Front(s) \in Seq(T) /\ Last(s) \in T /\ s = Append(Front(s), Last(s))
                          /\ Len(s) \in Nat \ {0} /\ Front(s) = SubSeq(s, 1, Len(s) - 1)
<1>1. ASSUME NEW r \in Seq(T), NEW x \in T
      PROVE  Front(Append(r, x)) = r /\ Last(Append(r, x)) = x
    <2> DEFINE q == Append(r, x)
    <2>1. /\ q \in Seq(T) /\ Len(r) \in Nat /\ Len(q) = Len(r) + 1 /\ q[Len(q)] = x
          /\ \A i \in 1..Len(r) : q[i] = r[i]
        BY AppendProperties, LenProperties
    <2> HIDE DEF q
    <2>2. SubSeq(q, 1, Len(q) - 1) = r
        <3>1. \A i \in 1..Len(r) : q[i] \in T
            BY <2>1
        <3>2. /\ SubSeq(q, 1, Len(r)) \in Seq(T) /\ Len(SubSeq(q, 1, Len(r))) = Len(r)
              /\ \A i \in 1..Len(r) : SubSeq(q, 1, Len(r))[i] = q[i]
            BY <2>1, <3>1
        <3>3. Len(q) - 1 = Len(r)
            BY <2>1
        <3> QED
            BY <2>1, <3>2, <3>3, SeqEqual
    <2> QED
        BY <2>1, <2>2 DEF Front, Last, q
<1>2. ASSUME s # <<>>
      PROVE  Front(s) \in Seq(T) /\ Last(s) \in T /\ s = Append(Front(s), Last(s))
             /\ Len(s) \in Nat \ {0} /\ Front(s) = SubSeq(s, 1, Len(s) - 1)
    <2>1. PICK r \in Seq(T), x \in T : s = Append(r, x)
        BY <1>2, SequenceEmptyOrAppend
    <2>2. Front(s) = r /\ Last(s) = x
        BY <1>1, <2>1
    <2>3. Len(s) \in Nat \ {0}
        BY <1>2, EmptySeq
    <2> QED
        BY <2>1, <2>2, <2>3 DEF Front
<1> QED
    BY <1>1, <1>2

LEMMA ConcatTyped ==
    ASSUME NEW T, NEW s \in Seq(T), NEW t \in Seq(T)
    PROVE  /\ s \o t \in Seq(T) /\ Len(s) \in Nat /\ Len(t) \in Nat
           /\ Len(s \o t) = Len(s) + Len(t)
           /\ \A i \in 1..Len(s) : (s \o t)[i] = s[i]
           /\ \A i \in 1..Len(t) : (s \o t)[Len(s) + i] = t[i]
OBVIOUS

LEMMA CutInTwo ==
    ASSUME NEW T, NEW s \in Seq(T), NEW n \in 0..Len(s)
    PROVE  /\ SubSeq(s, 1, n) \in Seq(T) /\ Len(SubSeq(s, 1, n)) = n
           /\ SubSeq(s, n + 1, Len(s)) \in Seq(T) /\ Len(SubSeq(s, n + 1, Len(s))) = Len(s) - n
           /\ SubSeq(s, 1, n) \o SubSeq(s, n + 1, Len(s)) = s
<1>1. Len(s) \in Nat /\ \A i \in 1..Len(s) : s[i] \in T
    OBVIOUS
<1>2. /\ SubSeq(s, 1, n) \in Seq(T) /\ Len(SubSeq(s, 1, n)) = n
      /\ SubSeq(s, n + 1, Len(s)) \in Seq(T) /\ Len(SubSeq(s, n + 1, Len(s))) = Len(s) - n
    BY <1>1
<1>3. SubSeq(s, 1, n) \o SubSeq(s, n + 1, Len(s)) = SubSeq(s, 1, Len(s))
    <2>1. 1 \in 1..(Len(s) + 1) /\ n \in (1 - 1)..Len(s) /\ Len(s) \in n..Len(s)
        BY <1>1
    <2>2. \A m \in 1..(Len(s) + 1) : \A k \in (m - 1)..Len(s) : \A l \in k..Len(s) :
             SubSeq(s, m, k) \o SubSeq(s, k + 1, l) = SubSeq(s, m, l)
        BY ConcatAdjacentSubSeq
    <2> QED
        BY <2>1, <2>2, Zenon
<1> QED
    BY <1>2, <1>3, SubSeqFull

\* Two beginnings of the same length are the same, and so is what follows them.
LEMMA SameBeginning ==
    ASSUME NEW T, NEW u \in Seq(T), NEW v \in Seq(T), NEW s \in Seq(T), NEW t \in Seq(T),
           Len(u) = Len(v), u \o s = v \o t
    PROVE  u = v /\ s = t
<1>1. \A i \in 1..Len(u) : u[i] = v[i]
    BY ConcatTyped
<1>2. u = v
    BY <1>1, SeqEqual
<1> QED
    BY <1>2, ConcatSimplifications

LEMMA PrefixOfConcat ==
    ASSUME NEW T, NEW s \in Seq(T), NEW t \in Seq(T)
    PROVE  IsPrefix(s, s \o t)
<1>1. /\ s \o t \in Seq(T) /\ Len(s \o t) = Len(s) + Len(t) /\ Len(s) \in Nat /\ Len(t) \in Nat
      /\ \A i \in 1..Len(s) : (s \o t)[i] = s[i]
    BY ConcatProperties, LenProperties
<1>2. SubSeq(s, 1, Len(s)) = s
    BY SubSeqFull
<1>3. /\ SubSeq(s \o t, 1, Len(s)) \in Seq(T) /\ Len(SubSeq(s \o t, 1, Len(s))) = Len(s)
      /\ \A i \in 1..Len(s) : SubSeq(s \o t, 1, Len(s))[i] = (s \o t)[i]
    <2>1. \A i \in 1..Len(s) : (s \o t)[i] \in T
        BY <1>1
    <2> DEFINE u == s \o t
    <2>2. Len(s) \in Nat /\ \A i \in 1..Len(s) : u[i] \in T
        BY <2>1, LenProperties
    <2> HIDE DEF u
    <2>3. /\ SubSeq(u, 1, Len(s)) \in Seq(T) /\ Len(SubSeq(u, 1, Len(s))) = Len(s)
          /\ \A i \in 1..Len(s) : SubSeq(u, 1, Len(s))[i] = u[i]
        BY <2>2
    <2> QED
        BY <2>3 DEF u
<1>4. SubSeq(s \o t, 1, Len(s)) = s
    BY <1>1, <1>3, SeqEqual
<1> QED
    BY <1>1, <1>2, <1>4 DEF IsPrefix

-----------------------------------------------------------------------------
(* What a list of vectors holds, for lists of any length *)

LEMMA FlattenIs ==
    ASSUME NEW T, NEW q \in Seq(Seq(T)), q # <<>>,
           NEW g \in [1..Len(q) -> Seq(T)], g[1] = q[1], \A i \in 2..Len(q) : g[i] = g[i - 1] \o q[i]
    PROVE  FlattenSeq(q) = g[Len(q)]
<1> DEFINE D(f) == [i \in 1..Len(q) |-> IF i = 1 THEN q[i] ELSE f[i - 1] \o q[i]]
           flatten == CHOOSE f : f = D(f)
<1>1. Len(q) \in Nat \ {0}
    OBVIOUS
<1>2. g = D(g)
    <2>1. \A i \in 1..Len(q) : g[i] = D(g)[i]
        <3> TAKE i \in 1..Len(q)
        <3>1. CASE i = 1
            BY <3>1
        <3>2. CASE i # 1
            <4>1. i \in 2..Len(q)
                BY <3>2
            <4> QED
                BY <4>1
        <3> QED
            BY <3>1, <3>2
    <2>2. DOMAIN g = 1..Len(q) /\ g = [i \in 1..Len(q) |-> g[i]]
        OBVIOUS
    <2> QED
        BY <2>1, <2>2
<1>3. flatten = D(flatten)
    <2> HIDE DEF D
    <2> QED
        BY <1>2
<1>4. FlattenSeq(q) = flatten[Len(q)]
    BY <1>1 DEF FlattenSeq
<1> HIDE DEF flatten
<1>5. 1..Len(q) \subseteq {i \in 1..Len(q) : flatten[i] = g[i]}
    <2> DEFINE S == {i \in 1..Len(q) : flatten[i] = g[i]}
    <2>1. flatten[1] = q[1]
        BY <1>1, <1>3
    <2>2. 1 \in S
        BY <1>1, <2>1
    <2>3. ASSUME NEW i \in 2..Len(q), i - 1 \in S
          PROVE  i \in S
        <3>1. flatten[i] = flatten[i - 1] \o q[i]
            <4>1. i # 1 /\ i \in 1..Len(q)
                BY <1>1
            <4>2. flatten[i] = D(flatten)[i]
                BY <1>3
            <4> QED
                BY <4>1, <4>2
        <3>2. flatten[i - 1] = g[i - 1] /\ i \in 1..Len(q)
            BY <1>1, <2>3
        <3> QED
            BY <3>1, <3>2
    <2> HIDE DEF S
    <2>4. 1..Len(q) \subseteq S
        BY <1>1, <2>2, <2>3, UpTo
    <2> QED
        BY <2>4 DEF S
<1>6. Len(q) \in 1..Len(q)
    BY <1>1
<1> QED
    BY <1>4, <1>5, <1>6

LEMMA FlattenNone == FlattenSeq(<<>>) = <<>>
BY DEF FlattenSeq

\* What the first vectors of a list hold together.
LEMMA FlattenParts ==
    ASSUME NEW T, NEW q \in Seq(Seq(T)), q # <<>>
    PROVE  \E g \in [1..Len(q) -> Seq(T)] : g[1] = q[1] /\ \A i \in 2..Len(q) : g[i] = g[i - 1] \o q[i]
<1> DEFINE Good(g, n) == /\ g \in [1..n -> Seq(T)] /\ g[1] = q[1]
                         /\ \A i \in 2..n : g[i] = g[i - 1] \o q[i]
           S == {n \in 1..Len(q) : \E g : Good(g, n)}
<1>1. Len(q) \in Nat \ {0} /\ \A i \in 1..Len(q) : q[i] \in Seq(T)
    OBVIOUS
<1>2. 1 \in S
    <2>1. Good([i \in 1..1 |-> q[1]], 1)
        BY <1>1
    <2>2. 1 \in 1..Len(q)
        BY <1>1
    <2> QED
        BY <2>1, <2>2
<1>3. ASSUME NEW n \in 2..Len(q), n - 1 \in S
      PROVE  n \in S
    <2>1. PICK g : Good(g, n - 1)
        BY <1>3
    <2> DEFINE h == [i \in 1..n |-> IF i = n THEN g[n - 1] \o q[n] ELSE g[i]]
    <2>2. n \in Nat /\ n \in 1..Len(q) /\ n - 1 \in 1..(n - 1) /\ q[n] \in Seq(T) /\ g[n - 1] \in Seq(T)
        BY <1>1, <2>1
    <2>3. h \in [1..n -> Seq(T)]
        <3>1. g[n - 1] \o q[n] \in Seq(T)
            BY <2>2
        <3> QED
            BY <2>1, <2>2, <3>1
    <2>4. h[1] = q[1]
        BY <2>1, <2>2
    <2>5. ASSUME NEW i \in 2..n
          PROVE  h[i] = h[i - 1] \o q[i]
        <3>1. i \in 1..n /\ i - 1 \in 1..n /\ i - 1 # n
            BY <2>2
        <3>2. h[i - 1] = g[i - 1]
            BY <3>1
        <3>3. CASE i = n
            <4>1. h[i] = g[n - 1] \o q[n]
                BY <3>1, <3>3
            <4> QED
                BY <3>2, <3>3, <4>1
        <3>4. CASE i # n
            <4>1. i \in 2..(n - 1)
                BY <2>2, <3>4
            <4>2. h[i] = g[i] /\ g[i] = g[i - 1] \o q[i]
                BY <2>1, <3>1, <3>4, <4>1
            <4> QED
                BY <3>2, <4>2
        <3> QED
            BY <3>3, <3>4
    <2>6. Good(h, n)
        <3> HIDE DEF h
        <3> QED
            BY <2>3, <2>4, <2>5
    <2> HIDE DEF Good, h
    <2> QED
        BY <2>2, <2>6
<1>4. 1..Len(q) \subseteq S
    <2> HIDE DEF S
    <2> QED
        BY <1>1, <1>2, <1>3, UpTo
<1>5. Len(q) \in S
    <2> HIDE DEF S
    <2>1. Len(q) \in 1..Len(q)
        BY <1>1
    <2> QED
        BY <1>4, <2>1
<1> QED
    BY <1>5

LEMMA FlattenSeqType ==
    ASSUME NEW T, NEW q \in Seq(Seq(T))
    PROVE  FlattenSeq(q) \in Seq(T)
<1>1. CASE q = <<>>
    <2>1. <<>> \in Seq(T)
        OBVIOUS
    <2> QED
        BY <1>1, <2>1, FlattenNone
<1>2. CASE q # <<>>
    <2>1. PICK g \in [1..Len(q) -> Seq(T)] : g[1] = q[1] /\ \A i \in 2..Len(q) : g[i] = g[i - 1] \o q[i]
        BY <1>2, FlattenParts
    <2>2. FlattenSeq(q) = g[Len(q)]
        BY <1>2, <2>1, FlattenIs
    <2>3. Len(q) \in 1..Len(q)
        BY <1>2
    <2> QED
        BY <2>1, <2>2, <2>3
<1> QED
    BY <1>1, <1>2

\* A vector at the end of a list comes behind what the others hold.
LEMMA FlattenLast ==
    ASSUME NEW T, NEW q \in Seq(Seq(T)), NEW x \in Seq(T)
    PROVE  FlattenSeq(Append(q, x)) = FlattenSeq(q) \o x
<1> DEFINE r == Append(q, x)
<1>1. /\ r \in Seq(Seq(T)) /\ r # <<>> /\ Len(q) \in Nat /\ Len(r) = Len(q) + 1 /\ r[Len(r)] = x
      /\ \A i \in 1..Len(q) : r[i] = q[i]
    <2>1. Len(q) \in Nat
        OBVIOUS
    <2> QED
        BY <2>1, AppendProperties
<1> HIDE DEF r
<1>2. CASE q = <<>>
    <2> DEFINE h == [i \in 1..1 |-> x]
    <2>1. Len(r) = 1 /\ r[1] = x
        BY <1>1, <1>2
    <2>2. h \in [1..Len(r) -> Seq(T)] /\ h[1] = r[1] /\ \A i \in 2..Len(r) : h[i] = h[i - 1] \o r[i]
        BY <2>1
    <2>3. FlattenSeq(r) = h[Len(r)]
        <3> HIDE DEF h
        <3> QED
            BY <1>1, <2>2, FlattenIs
    <2>4. h[Len(r)] = x /\ <<>> \o x = x
        BY <2>1
    <2> QED
        BY <1>2, <2>3, <2>4, FlattenNone DEF r
<1>3. CASE q # <<>>
    <2>1. PICK g \in [1..Len(q) -> Seq(T)] : g[1] = q[1] /\ \A i \in 2..Len(q) : g[i] = g[i - 1] \o q[i]
        BY <1>3, FlattenParts
    <2>2. FlattenSeq(q) = g[Len(q)]
        BY <1>3, <2>1, FlattenIs
    <2>3. Len(q) \in 1..Len(q) /\ Len(r) # 1 /\ g[Len(q)] \in Seq(T)
        <3>1. Len(q) \in Nat \ {0}
            BY <1>3, EmptySeq
        <3>2. Len(q) \in 1..Len(q) /\ Len(r) # 1
            BY <1>1, <3>1
        <3> QED
            BY <3>2, Zenon
    <2> DEFINE h == [i \in 1..Len(r) |-> IF i = Len(r) THEN g[Len(q)] \o x ELSE g[i]]
    <2>4. h \in [1..Len(r) -> Seq(T)]
        <3>1. g[Len(q)] \o x \in Seq(T)
            BY <2>3
        <3> QED
            BY <1>1, <2>1, <3>1
    <2>5. h[1] = r[1]
        BY <1>1, <2>1, <2>3
    <2>6. ASSUME NEW i \in 2..Len(r)
          PROVE  h[i] = h[i - 1] \o r[i]
        <3>1. i \in 1..Len(r) /\ i - 1 \in 1..Len(r) /\ i - 1 # Len(r)
            BY <1>1
        <3>2. h[i - 1] = g[i - 1]
            BY <3>1
        <3>3. CASE i = Len(r)
            <4>1. i - 1 = Len(q) /\ h[i] = g[Len(q)] \o x
                BY <1>1, <3>1, <3>3
            <4> QED
                BY <1>1, <3>2, <3>3, <4>1
        <3>4. CASE i # Len(r)
            <4>1. i \in 2..Len(q) /\ i \in 1..Len(q)
                BY <1>1, <3>4
            <4>2. h[i] = g[i] /\ g[i] = g[i - 1] \o q[i] /\ r[i] = q[i]
                BY <1>1, <2>1, <3>1, <3>4, <4>1
            <4> QED
                BY <3>2, <4>2
        <3> QED
            BY <3>3, <3>4
    <2>7. FlattenSeq(r) = h[Len(r)]
        <3> HIDE DEF h
        <3> QED
            BY <1>1, <2>4, <2>5, <2>6, FlattenIs
    <2>8. h[Len(r)] = g[Len(q)] \o x
        BY <1>1
    <2> QED
        BY <2>2, <2>7, <2>8 DEF r
<1> QED
    BY <1>2, <1>3

\* And one at its beginning comes in front of them.
LEMMA FlattenFirst ==
    ASSUME NEW T, NEW q \in Seq(Seq(T)), NEW x \in Seq(T)
    PROVE  FlattenSeq(<<x>> \o q) = x \o FlattenSeq(q)
<1> DEFINE r == <<x>> \o q
<1>1. /\ r \in Seq(Seq(T)) /\ r # <<>> /\ Len(q) \in Nat /\ Len(r) = Len(q) + 1 /\ r[1] = x
      /\ \A i \in 1..Len(q) : r[i + 1] = q[i]
    <2>1. <<x>> \in Seq(Seq(T)) /\ Len(<<x>>) = 1 /\ <<x>>[1] = x /\ Len(q) \in Nat
        OBVIOUS
    <2>2. r \in Seq(Seq(T)) /\ Len(r) = 1 + Len(q)
        BY <2>1, ConcatProperties, Zenon
    <2>3. \A i \in 1..(1 + Len(q)) : r[i] = IF i <= 1 THEN <<x>>[i] ELSE q[i - 1]
        BY <2>1
    <2>4. r # <<>> /\ Len(r) = Len(q) + 1 /\ r[1] = x
        BY <2>1, <2>2, <2>3
    <2>5. \A i \in 1..Len(q) : r[i + 1] = q[i]
        BY <2>1, <2>3
    <2> QED
        BY <2>1, <2>2, <2>4, <2>5
<1> HIDE DEF r
<1>2. CASE q = <<>>
    <2>1. r = Append(<<>>, x) /\ <<>> \in Seq(Seq(T))
        BY <1>2 DEF r
    <2>2. x \o <<>> = x /\ <<>> \o x = x
        BY ConcatEmptySeq
    <2>3. FlattenSeq(Append(<<>>, x)) = FlattenSeq(<<>>) \o x
        BY <2>1, FlattenLast, Zenon
    <2>4. FlattenSeq(r) = x /\ FlattenSeq(q) = <<>>
        BY <1>2, <2>1, <2>2, <2>3, FlattenNone, Zenon
    <2> QED
        BY <2>2, <2>4, Zenon DEF r
<1>3. CASE q # <<>>
    <2>1. PICK g \in [1..Len(q) -> Seq(T)] : g[1] = q[1] /\ \A i \in 2..Len(q) : g[i] = g[i - 1] \o q[i]
        BY <1>3, FlattenParts
    <2>2. FlattenSeq(q) = g[Len(q)]
        BY <1>3, <2>1, FlattenIs
    <2> DEFINE h == [i \in 1..Len(r) |-> IF i = 1 THEN x ELSE x \o g[i - 1]]
    <2>3. Len(q) \in 1..Len(q) /\ \A i \in 1..Len(q) : g[i] \in Seq(T) /\ x \o g[i] \in Seq(T) /\ q[i] \in Seq(T)
        <3>1. Len(q) \in Nat \ {0}
            BY <1>3, EmptySeq
        <3>2. \A i \in 1..Len(q) : g[i] \in Seq(T)
            BY Zenon
        <3>3. \A i \in 1..Len(q) : q[i] \in Seq(T)
            BY ElementOfSeq
        <3> QED
            BY <3>1, <3>2, <3>3
    <2>4. h \in [1..Len(r) -> Seq(T)]
        <3>1. \A i \in 1..Len(r) : i # 1 => i - 1 \in 1..Len(q)
            BY <1>1
        <3> QED
            BY <2>3, <3>1
    <2>5. h[1] = r[1]
        BY <1>1
    <2>6. ASSUME NEW i \in 2..Len(r)
          PROVE  h[i] = h[i - 1] \o r[i]
        <3>1. i \in 1..Len(r) /\ i - 1 \in 1..Len(q) /\ i - 1 \in 1..Len(r) /\ i # 1 /\ r[i] = q[i - 1]
            <4>1. i - 1 \in 1..Len(q) /\ (i - 1) + 1 = i
                BY <1>1
            <4>2. r[(i - 1) + 1] = q[i - 1]
                BY <1>1, <4>1
            <4> QED
                BY <1>1, <4>1, <4>2
        <3>2. h[i] = x \o g[i - 1]
            BY <3>1
        <3>3. CASE i = 2
            <4>1. h[i - 1] = x /\ g[i - 1] = q[i - 1]
                BY <2>1, <3>1, <3>3
            <4> QED
                BY <3>1, <3>2, <4>1
        <3>4. CASE i # 2
            <4>1. i - 1 \in 2..Len(q) /\ i - 2 \in 1..Len(q) /\ (i - 1) - 1 = i - 2 /\ i - 1 # 1
                BY <1>1, <3>4
            <4>2. h[i - 1] = x \o g[i - 2]
                BY <3>1, <4>1
            <4>3. g[i - 1] = g[i - 2] \o q[i - 1]
                BY <2>1, <4>1
            <4>4. x \o (g[i - 2] \o q[i - 1]) = (x \o g[i - 2]) \o q[i - 1]
                <5>1. g[i - 2] \in Seq(T) /\ q[i - 1] \in Seq(T)
                    BY <2>3, <3>1, <4>1
                <5>2. \A u, v \in Seq(T) : x \o (u \o v) = (x \o u) \o v
                    BY ConcatAssociative
                <5> QED
                    BY <5>1, <5>2, Zenon
            <4> QED
                BY <3>1, <3>2, <4>2, <4>3, <4>4
        <3> QED
            BY <3>3, <3>4
    <2>7. FlattenSeq(r) = h[Len(r)]
        <3> HIDE DEF h
        <3> QED
            BY <1>1, <2>4, <2>5, <2>6, FlattenIs
    <2>8. h[Len(r)] = x \o g[Len(q)]
        <3>1. Len(r) \in 1..Len(r) /\ Len(r) # 1 /\ Len(r) - 1 = Len(q)
            BY <1>1, <1>3
        <3> QED
            BY <3>1
    <2> QED
        BY <2>2, <2>7, <2>8 DEF r
<1> QED
    BY <1>2, <1>3

LEMMA FlattenTail ==
    ASSUME NEW T, NEW q \in Seq(Seq(T)), q # <<>>
    PROVE  /\ Tail(q) \in Seq(Seq(T)) /\ Head(q) \in Seq(T)
           /\ FlattenSeq(q) = Head(q) \o FlattenSeq(Tail(q))
<1>1. q = <<Head(q)>> \o Tail(q) /\ Head(q) \in Seq(T) /\ Tail(q) \in Seq(Seq(T))
    OBVIOUS
<1> QED
    BY <1>1, FlattenFirst

\* Parts that follow one another make the text up to the end of the last.
LEMMA FlattenCuts ==
    ASSUME NEW T, NEW s \in Seq(T), NEW k \in Nat \ {0}, NEW e \in [0..k -> 0..Len(s)],
           e[0] = 0, \A i \in 1..k : e[i - 1] <= e[i],
           NEW q \in Seq(Seq(T)), Len(q) = k, \A i \in 1..k : q[i] = SubSeq(s, e[i - 1] + 1, e[i])
    PROVE  FlattenSeq(q) = SubSeq(s, 1, e[k])
<1> DEFINE g == [i \in 1..k |-> SubSeq(s, 1, e[i])]
<1>1. Len(s) \in Nat /\ \A i \in 0..k : e[i] \in 0..Len(s)
    OBVIOUS
<1>2. g \in [1..k -> Seq(T)]
    <2>1. ASSUME NEW i \in 1..k PROVE SubSeq(s, 1, e[i]) \in Seq(T)
        <3>1. e[i] \in 0..Len(s)
            BY <1>1
        <3> QED
            BY <3>1, CutInTwo
    <2> QED
        BY <2>1
<1>3. g[1] = q[1]
    <2>1. 1 \in 1..k /\ e[1 - 1] + 1 = 1
        OBVIOUS
    <2>2. q[1] = SubSeq(s, e[1 - 1] + 1, e[1])
        BY <2>1
    <2> QED
        BY <2>1, <2>2
<1>4. ASSUME NEW i \in 2..k
      PROVE  g[i] = g[i - 1] \o q[i]
    <2>1. i \in 1..k /\ i - 1 \in 1..k /\ e[i - 1] \in 0..Len(s) /\ e[i] \in 0..Len(s) /\ e[i - 1] <= e[i]
        <3>1. i \in 1..k /\ i - 1 \in 1..k /\ i - 1 \in 0..k /\ i \in 0..k
            OBVIOUS
        <3> QED
            BY <1>1, <3>1
    <2>2. \A m \in 1..(Len(s) + 1) : \A a \in (m - 1)..Len(s) : \A b \in a..Len(s) :
             SubSeq(s, m, a) \o SubSeq(s, a + 1, b) = SubSeq(s, m, b)
        BY ConcatAdjacentSubSeq
    <2>3. 1 \in 1..(Len(s) + 1) /\ e[i - 1] \in (1 - 1)..Len(s) /\ e[i] \in e[i - 1]..Len(s)
        BY <1>1, <2>1
    <2>4. SubSeq(s, 1, e[i - 1]) \o SubSeq(s, e[i - 1] + 1, e[i]) = SubSeq(s, 1, e[i])
        BY <2>2, <2>3, Zenon
    <2> QED
        BY <2>1, <2>4
<1>5. q # <<>> /\ k \in 1..k
    OBVIOUS
<1>6. FlattenSeq(q) = g[Len(q)]
    <2> HIDE DEF g
    <2> QED
        BY <1>2, <1>3, <1>4, <1>5, FlattenIs
<1> QED
    BY <1>5, <1>6
=============================================================================
