-------------------------- MODULE CollectionProofs --------------------------
(***************************************************************************)
(* Proofs about Collection, for any plugins, levels, size of a batch and   *)
(* length of an answer, and about Subnet, for every address and prefix.    *)
(***************************************************************************)
EXTENDS MCCollection, SequenceTheorems, FiniteSetTheorems, WellFoundedInduction, TLAPS

-----------------------------------------------------------------------------
(* Induction over the natural numbers, for a set. *)
LEMMA SetInduction ==
    ASSUME NEW S, 0 \in S, \A n \in Nat : n \in S => n + 1 \in S
    PROVE  Nat \subseteq S
  <1> SUFFICES ASSUME Nat \ S # {} PROVE FALSE
    OBVIOUS
  <1>1. IsWellFoundedOn(OpToRel(<, Nat), Nat)
    BY NatLessThanWellFounded
  <1>2. PICK x \in Nat \ S : \A y \in Nat \ S : ~(<<y, x>> \in OpToRel(<, Nat))
    BY <1>1, WFMin
  <1>3. \A y \in Nat \ S : ~(y < x)
    BY <1>2 DEF OpToRel
  <1>4. x # 0
    OBVIOUS
  <1>5. x - 1 \in Nat /\ x - 1 < x /\ (x - 1) + 1 = x
    BY <1>4
  <1>6. x - 1 \in S
    BY <1>3, <1>5
  <1> QED
    BY <1>5, <1>6

(* f starts with base and goes on by step. *)
Iterates(f, X, base, step) ==
    f \in [Nat -> X] /\ f[0] = base /\ \A n \in Nat : f[n + 1] = step[<<n, f[n]>>]

(* A step that stays in X can be repeated from any of its elements: the    *)
(* recursive functions of Collection are defined.                          *)
LEMMA NatRecursion ==
    ASSUME NEW X, NEW base \in X, NEW step,
           \A n \in Nat, x \in X : step[<<n, x>>] \in X
    PROVE  \E f : Iterates(f, X, base, step)
  <1> DEFINE Upto(n) == {f \in [0..n -> X] :
                            f[0] = base /\ \A k \in 0..n - 1 : f[k + 1] = step[<<k, f[k]>>]}
             S == {n \in Nat : Upto(n) # {}}
             T == {k \in Nat : \A m, n \in Nat : \A f \in Upto(m), g \in Upto(n) :
                                  k <= m /\ k <= n => f[k] = g[k]}
             h == [n \in Nat |-> (CHOOSE f : f \in Upto(n))[n]]
  <1>1. Nat \subseteq S
    <2>1. 0 \in S
      <3>1. [k \in 0..0 |-> base] \in Upto(0)
        OBVIOUS
      <3> QED
        BY <3>1
    <2>2. ASSUME NEW n \in Nat, n \in S
          PROVE  n + 1 \in S
      <3>1. PICK f : f \in Upto(n)
        BY <2>2
      <3> DEFINE g == [k \in 0..n + 1 |-> IF k = n + 1 THEN step[<<n, f[n]>>] ELSE f[k]]
      <3>2. g \in [0..n + 1 -> X]
        BY <3>1
      <3>3. g[0] = base
        BY <3>1
      <3>4. ASSUME NEW k \in 0..n
            PROVE  g[k + 1] = step[<<k, g[k]>>]
        <4>1. CASE k = n
          <5>1. g[n + 1] = step[<<n, f[n]>>] /\ g[n] = f[n]
            OBVIOUS
          <5> QED
            BY <4>1, <5>1
        <4>2. CASE k # n
          <5>1. k \in 0..n - 1 /\ g[k + 1] = f[k + 1] /\ g[k] = f[k]
            BY <4>2
          <5>2. f[k + 1] = step[<<k, f[k]>>]
            BY <3>1, <5>1
          <5> QED
            BY <5>1, <5>2
        <4> QED
          BY <4>1, <4>2
      <3>5. g \in Upto(n + 1)
        <4> HIDE DEF g
        <4>1. (n + 1) - 1 = n
          OBVIOUS
        <4> QED
          BY <3>2, <3>3, <3>4, <4>1
      <3> HIDE DEF g, Upto
      <3> QED
        BY <3>5
    <2> HIDE DEF S
    <2> QED
      BY <2>1, <2>2, SetInduction
  <1>2. Nat \subseteq T
    <2>1. 0 \in T
      OBVIOUS
    <2>2. ASSUME NEW n \in Nat, n \in T
          PROVE  n + 1 \in T
      <3>1. ASSUME NEW m1 \in Nat, NEW m2 \in Nat, NEW f \in Upto(m1), NEW g \in Upto(m2),
                   n + 1 <= m1, n + 1 <= m2
            PROVE  f[n + 1] = g[n + 1]
        <4>1. f[n] = g[n]
          <5>1. n <= m1 /\ n <= m2
            BY <3>1
          <5> HIDE DEF Upto
          <5> QED
            BY <2>2, <5>1
        <4>2. n \in 0..m1 - 1 /\ n \in 0..m2 - 1
          BY <3>1
        <4>3. f[n + 1] = step[<<n, f[n]>>] /\ g[n + 1] = step[<<n, g[n]>>]
          BY <4>2
        <4> QED
          BY <4>1, <4>3
      <3> HIDE DEF Upto, S, h
      <3> QED
        BY <3>1
    <2> HIDE DEF T
    <2> QED
      BY <2>1, <2>2, SetInduction
  <1> DEFINE c(n) == CHOOSE f : f \in Upto(n)
  <1>3. \A n \in Nat : c(n) \in Upto(n)
    BY <1>1
  <1>4. \A n \in Nat : h[n] = c(n)[n]
    OBVIOUS
  <1> HIDE DEF c, S, T
  <1>5. h \in [Nat -> X]
    <2>1. \A n \in Nat : c(n)[n] \in X
      BY <1>3
    <2> QED
      BY <2>1 DEF c
  <1> HIDE DEF h
  <1>6. h[0] = base
    BY <1>3, <1>4
  <1>7. ASSUME NEW n \in Nat
        PROVE  h[n + 1] = step[<<n, h[n]>>]
    <2>1. c(n + 1) \in Upto(n + 1) /\ c(n) \in Upto(n)
      BY <1>3
    <2>2. c(n + 1)[n + 1] = step[<<n, c(n + 1)[n]>>]
      <3>1. n \in 0..(n + 1) - 1
        OBVIOUS
      <3> QED
        BY <2>1, <3>1
    <2>3. c(n + 1)[n] = c(n)[n]
      <3>1. n \in T
        BY <1>2
      <3>2. n <= n + 1 /\ n <= n
        OBVIOUS
      <3> HIDE DEF Upto
      <3> QED
        BY <2>1, <3>1, <3>2 DEF T
    <2> QED
      BY <1>4, <2>2, <2>3
  <1> QED
    BY <1>5, <1>6, <1>7 DEF Iterates

-----------------------------------------------------------------------------
(* Sequences and what is kept of them. *)
Good == {e \in Entries : Allowed(e)}

LEMMA ConcatRange ==
    ASSUME NEW X, NEW s \in Seq(X), NEW t \in Seq(X)
    PROVE  ToSet(s \o t) = ToSet(s) \cup ToSet(t)
  <1>1. ASSUME NEW n \in DOMAIN t
        PROVE  t[n] \in ToSet(s \o t)
    <2>1. t[n] = (s \o t)[Len(s) + n] /\ Len(s) + n \in DOMAIN (s \o t)
      OBVIOUS
    <2> QED
      BY <2>1 DEF ToSet
  <1>2. ASSUME NEW n \in DOMAIN s
        PROVE  s[n] \in ToSet(s \o t)
    <2>1. s[n] = (s \o t)[n] /\ n \in DOMAIN (s \o t)
      OBVIOUS
    <2> QED
      BY <2>1 DEF ToSet
  <1>3. ASSUME NEW n \in DOMAIN (s \o t)
        PROVE  (s \o t)[n] \in ToSet(s) \cup ToSet(t)
    BY DEF ToSet
  <1> QED
    BY <1>1, <1>2, <1>3 DEF ToSet

LEMMA PartOfConcat ==
    ASSUME NEW X, NEW S,
           NEW s1 \in Seq(X), NEW t1 \in Seq(X), IsPart(s1, t1, S),
           NEW s2 \in Seq(X), NEW t2 \in Seq(X), IsPart(s2, t2, S)
    PROVE  IsPart(s1 \o s2, t1 \o t2, S)
  <1>1. ToSet(s1 \o s2) = ToSet(t1 \o t2) \cap S
    BY ConcatRange DEF IsPart
  <1>2. ASSUME NEW a \in DOMAIN (s1 \o s2), NEW b \in DOMAIN (s1 \o s2), a < b
        PROVE  \E c, d \in DOMAIN (t1 \o t2) :
                  c < d /\ (s1 \o s2)[a] = (t1 \o t2)[c] /\ (s1 \o s2)[b] = (t1 \o t2)[d]
    <2>1. CASE b <= Len(s1)
      <3>1. a \in DOMAIN s1 /\ b \in DOMAIN s1 /\ (s1 \o s2)[a] = s1[a] /\ (s1 \o s2)[b] = s1[b]
        BY <1>2, <2>1
      <3>2. PICK c \in DOMAIN t1, d \in DOMAIN t1 : c < d /\ s1[a] = t1[c] /\ s1[b] = t1[d]
        BY <1>2, <3>1 DEF IsPart
      <3>3. /\ c \in DOMAIN (t1 \o t2) /\ (t1 \o t2)[c] = t1[c]
            /\ d \in DOMAIN (t1 \o t2) /\ (t1 \o t2)[d] = t1[d]
        OBVIOUS
      <3> QED
        BY <3>1, <3>2, <3>3
    <2>2. CASE a <= Len(s1) /\ b > Len(s1)
      <3>1. /\ a \in DOMAIN s1 /\ (s1 \o s2)[a] = s1[a]
            /\ b - Len(s1) \in DOMAIN s2 /\ (s1 \o s2)[b] = s2[b - Len(s1)]
        BY <2>2
      <3>2. s1[a] \in ToSet(t1) /\ s2[b - Len(s1)] \in ToSet(t2)
        BY <3>1 DEF IsPart, ToSet
      <3>3. PICK c \in DOMAIN t1, d \in DOMAIN t2 : s1[a] = t1[c] /\ s2[b - Len(s1)] = t2[d]
        BY <3>2 DEF ToSet
      <3>4. /\ c \in DOMAIN (t1 \o t2) /\ (t1 \o t2)[c] = t1[c]
            /\ Len(t1) + d \in DOMAIN (t1 \o t2) /\ (t1 \o t2)[Len(t1) + d] = t2[d]
            /\ c < Len(t1) + d
        OBVIOUS
      <3> QED
        BY <3>1, <3>3, <3>4
    <2>3. CASE a > Len(s1)
      <3>1. /\ a - Len(s1) \in DOMAIN s2 /\ (s1 \o s2)[a] = s2[a - Len(s1)]
            /\ b - Len(s1) \in DOMAIN s2 /\ (s1 \o s2)[b] = s2[b - Len(s1)]
            /\ a - Len(s1) < b - Len(s1)
        BY <1>2, <2>3
      <3>2. PICK c \in DOMAIN t2, d \in DOMAIN t2 :
                c < d /\ s2[a - Len(s1)] = t2[c] /\ s2[b - Len(s1)] = t2[d]
        BY <3>1 DEF IsPart
      <3>3. /\ Len(t1) + c \in DOMAIN (t1 \o t2) /\ (t1 \o t2)[Len(t1) + c] = t2[c]
            /\ Len(t1) + d \in DOMAIN (t1 \o t2) /\ (t1 \o t2)[Len(t1) + d] = t2[d]
            /\ Len(t1) + c < Len(t1) + d
        BY <3>2
      <3> QED
        BY <3>1, <3>2, <3>3
    <2>4. b <= Len(s1) \/ (a <= Len(s1) /\ b > Len(s1)) \/ a > Len(s1)
      BY <1>2
    <2> QED
      BY ONLY <2>1, <2>2, <2>3, <2>4
  <1> QED
    BY <1>1, <1>2 DEF IsPart

(* The recursive function of Kept is defined, and goes on entry by entry. *)
LEMMA KeptUnfolds ==
    ASSUME NEW s \in Seq(Entries)
    PROVE  \E kept \in [0..Len(s) -> Seq(Entries)] :
               /\ kept[0] = <<>>
               /\ \A n \in 1..Len(s) :
                     kept[n] = IF Allowed(s[n]) THEN Append(kept[n - 1], s[n]) ELSE kept[n - 1]
               /\ Kept(s) = kept[Len(s)]
  <1> DEFINE Body(k) ==
                 [n \in 0..Len(s) |->
                     IF n = 0 THEN <<>>
                     ELSE IF Allowed(s[n]) THEN Append(k[n - 1], s[n]) ELSE k[n - 1]]
             step == [p \in Nat \X Seq(Entries) |->
                         IF p[1] + 1 \in 1..Len(s) /\ Allowed(s[p[1] + 1])
                         THEN Append(p[2], s[p[1] + 1]) ELSE p[2]]
             kept == CHOOSE k : k = Body(k)
  <1>1. PICK f \in [Nat -> Seq(Entries)] :
            f[0] = <<>> /\ \A n \in Nat : f[n + 1] = step[<<n, f[n]>>]
    <2>1. \A n \in Nat, x \in Seq(Entries) : step[<<n, x>>] \in Seq(Entries)
      OBVIOUS
    <2>2. <<>> \in Seq(Entries)
      OBVIOUS
    <2> HIDE DEF step
    <2>3. \E f : Iterates(f, Seq(Entries), <<>>, step)
      BY <2>1, <2>2, NatRecursion
    <2> QED
      BY <2>3 DEF Iterates
  <1>2. \A n \in 1..Len(s) : f[n] = IF Allowed(s[n]) THEN Append(f[n - 1], s[n]) ELSE f[n - 1]
    <2> TAKE n \in 1..Len(s)
    <2>1. (n - 1) + 1 = n /\ n - 1 \in Nat
      OBVIOUS
    <2>2. f[n] = step[<<n - 1, f[n - 1]>>]
      <3> HIDE DEF step
      <3> QED
        BY <1>1, <2>1
    <2>3. step[<<n - 1, f[n - 1]>>] =
              IF Allowed(s[n]) THEN Append(f[n - 1], s[n]) ELSE f[n - 1]
      <3>1. f[n - 1] \in Seq(Entries)
        BY <1>1, <2>1
      <3> QED
        BY <2>1, <3>1
    <2> QED
      BY <2>2, <2>3
  <1> DEFINE g == [n \in 0..Len(s) |-> f[n]]
  <1>3. g = Body(g)
    <2>1. ASSUME NEW n \in 0..Len(s)
          PROVE  g[n] = Body(g)[n]
      <3>1. CASE n = 0
        BY <1>1, <3>1
      <3>2. CASE n \in 1..Len(s)
        <4>1. g[n - 1] = f[n - 1] /\ g[n] = f[n]
          BY <3>2
        <4>2. Body(g)[n] = IF Allowed(s[n]) THEN Append(g[n - 1], s[n]) ELSE g[n - 1]
          <5> HIDE DEF g
          <5> QED
            BY <3>2
        <4> QED
          BY <1>2, <3>2, <4>1, <4>2
      <3>3. n = 0 \/ n \in 1..Len(s)
        OBVIOUS
      <3> QED
        BY ONLY <3>1, <3>2, <3>3
    <2> QED
      BY <2>1
  <1>4. kept = Body(kept)
    <2> HIDE DEF Body, g
    <2> QED
      BY <1>3
  <1>5. Kept(s) = kept[Len(s)]
    BY Zenon DEF Kept
  <1> HIDE DEF kept
  <1>6. kept[0] = <<>>
    BY <1>4
  <1>7. ASSUME NEW n \in 1..Len(s)
        PROVE  kept[n] = IF Allowed(s[n]) THEN Append(kept[n - 1], s[n]) ELSE kept[n - 1]
    <2>1. Body(kept)[n] = IF Allowed(s[n]) THEN Append(kept[n - 1], s[n]) ELSE kept[n - 1]
      OBVIOUS
    <2> HIDE DEF Body
    <2> QED
      BY <1>4, <2>1
  <1>8. kept \in [0..Len(s) -> Seq(Entries)]
    <2> DEFINE T == {n \in Nat : n <= Len(s) => kept[n] \in Seq(Entries)}
    <2>1. Nat \subseteq T
      <3>1. 0 \in T
        <4>1. <<>> \in Seq(Entries)
          OBVIOUS
        <4> QED
          BY <1>6, <4>1
      <3>2. ASSUME NEW n \in Nat, n \in T
            PROVE  n + 1 \in T
        <4> SUFFICES ASSUME n + 1 <= Len(s) PROVE kept[n + 1] \in Seq(Entries)
          OBVIOUS
        <4>1. kept[n] \in Seq(Entries) /\ n + 1 \in 1..Len(s) /\ (n + 1) - 1 = n /\ s[n + 1] \in Entries
          BY <3>2
        <4>2. kept[n + 1] = IF Allowed(s[n + 1]) THEN Append(kept[n], s[n + 1]) ELSE kept[n]
          BY <1>7, <4>1
        <4> QED
          BY <4>1, <4>2
      <3> HIDE DEF T
      <3> QED
        BY <3>1, <3>2, SetInduction
    <2>2. \A n \in 0..Len(s) : kept[n] \in Seq(Entries)
      BY <2>1
    <2>3. kept = [n \in 0..Len(s) |-> kept[n]]
      BY <1>4
    <2> QED
      BY <2>2, <2>3
  <1> QED
    BY <1>5, <1>6, <1>7, <1>8

(* What the loops of a source keep is the allowed part of its answer. *)
LEMMA KeptIsPart ==
    ASSUME NEW s \in Seq(Entries)
    PROVE  Kept(s) \in Seq(Entries) /\ IsPart(Kept(s), s, Good)
  <1>1. PICK kept \in [0..Len(s) -> Seq(Entries)] :
            /\ kept[0] = <<>>
            /\ \A n \in 1..Len(s) :
                  kept[n] = IF Allowed(s[n]) THEN Append(kept[n - 1], s[n]) ELSE kept[n - 1]
            /\ Kept(s) = kept[Len(s)]
    BY KeptUnfolds
  <1> DEFINE T == {n \in Nat : n <= Len(s) => IsPart(kept[n], SubSeq(s, 1, n), Good)}
  <1>2. Nat \subseteq T
    <2>1. 0 \in T
      <3>1. IsPart(<<>>, <<>>, Good)
        BY DEF IsPart, ToSet
      <3>2. SubSeq(s, 1, 0) = <<>>
        BY SubSeqEmpty
      <3> QED
        BY <1>1, <3>1, <3>2
    <2>2. ASSUME NEW n \in Nat, n \in T
          PROVE  n + 1 \in T
      <3> SUFFICES ASSUME n + 1 <= Len(s)
                   PROVE  IsPart(kept[n + 1], SubSeq(s, 1, n + 1), Good)
        OBVIOUS
      <3> DEFINE e == s[n + 1]
                 t == SubSeq(s, 1, n)
                 k == kept[n]
      <3>1. e \in Entries /\ n + 1 \in 1..Len(s) /\ (n + 1) - 1 = n
        OBVIOUS
      <3>2. t \in Seq(Entries) /\ k \in Seq(Entries) /\ <<e>> \in Seq(Entries) /\ <<>> \in Seq(Entries)
        BY <3>1
      <3>3. SubSeq(s, 1, n + 1) = t \o <<e>>
        BY <3>1, SubSeqRecursiveSecond
      <3>4. IsPart(k, t, Good)
        BY <2>2
      <3>5. kept[n + 1] = IF Allowed(e) THEN Append(k, e) ELSE k
        BY <1>1, <3>1
      <3> HIDE DEF e, t, k
      <3>6. CASE Allowed(e)
        <4>1. kept[n + 1] = k \o <<e>>
          BY <3>1, <3>2, <3>5, <3>6, AppendIsConcat
        <4>2. IsPart(<<e>>, <<e>>, Good)
          BY <3>1, <3>6 DEF IsPart, ToSet, Good
        <4> QED
          BY <3>2, <3>3, <3>4, <4>1, <4>2, PartOfConcat
      <3>7. CASE ~Allowed(e)
        <4>1. kept[n + 1] = k \o <<>>
          BY <3>2, <3>5, <3>7, ConcatEmptySeq
        <4>2. IsPart(<<>>, <<e>>, Good)
          BY <3>1, <3>7 DEF IsPart, ToSet, Good
        <4> QED
          BY <3>2, <3>3, <3>4, <4>1, <4>2, PartOfConcat
      <3> QED
        BY <3>6, <3>7
    <2> HIDE DEF T
    <2> QED
      BY <2>1, <2>2, SetInduction
  <1>3. IsPart(kept[Len(s)], SubSeq(s, 1, Len(s)), Good)
    <2>1. Len(s) \in T
      BY <1>2
    <2> QED
      BY <2>1
  <1>4. SubSeq(s, 1, Len(s)) = s
    BY SubSeqFull
  <1>5. kept[Len(s)] \in Seq(Entries)
    BY <1>1
  <1> QED
    BY <1>1, <1>3, <1>4, <1>5

(* FlattenSeq puts the batches one behind the other. *)
Flattens(flat, bs) ==
    /\ flat \in [1..Len(bs) -> Seq(Entries)]
    /\ flat[1] = bs[1]
    /\ \A n \in 2..Len(bs) : flat[n] = flat[n - 1] \o bs[n]

LEMMA FlattenUnfolds ==
    ASSUME NEW bs \in Seq(Seq(Entries)), bs # <<>>
    PROVE  \E flat : Flattens(flat, bs) /\ FlattenSeq(bs) = flat[Len(bs)]
  <1> DEFINE Body(k) == [n \in 1..Len(bs) |-> IF n = 1 THEN bs[n] ELSE k[n - 1] \o bs[n]]
             step == [p \in Nat \X Seq(Entries) |->
                         IF p[1] + 1 \in 1..Len(bs) THEN p[2] \o bs[p[1] + 1] ELSE p[2]]
             flat == CHOOSE k : k = Body(k)
  <1>0. \A n \in 1..Len(bs) : bs[n] \in Seq(Entries)
    OBVIOUS
  <1>1. PICK f : Iterates(f, Seq(Entries), <<>>, step)
    <2>1. \A n \in Nat, x \in Seq(Entries) : step[<<n, x>>] \in Seq(Entries)
      BY <1>0
    <2>2. <<>> \in Seq(Entries)
      OBVIOUS
    <2> HIDE DEF step
    <2> QED
      BY <2>1, <2>2, NatRecursion
  <1>2. ASSUME NEW n \in 1..Len(bs)
        PROVE  f[n] = f[n - 1] \o bs[n] /\ f[n - 1] \in Seq(Entries)
    <2>1. (n - 1) + 1 = n /\ n - 1 \in Nat
      OBVIOUS
    <2>2. f[n] = step[<<n - 1, f[n - 1]>>] /\ f[n - 1] \in Seq(Entries)
      <3> HIDE DEF step
      <3> QED
        BY <1>1, <2>1 DEF Iterates
    <2> QED
      BY <2>1, <2>2
  <1>3. f[1] = bs[1]
    <2>1. f[0] = <<>> /\ 1 \in 1..Len(bs) /\ 1 - 1 = 0
      BY <1>1 DEF Iterates
    <2>2. f[1] = f[0] \o bs[1]
      BY <1>2, <2>1
    <2>3. bs[1] \in Seq(Entries)
      BY <1>0, <2>1
    <2> QED
      BY <2>1, <2>2, <2>3, ConcatEmptySeq
  <1> DEFINE g == [n \in 1..Len(bs) |-> f[n]]
  <1>4. g = Body(g)
    <2>1. ASSUME NEW n \in 1..Len(bs)
          PROVE  g[n] = Body(g)[n]
      <3>1. CASE n = 1
        BY <1>3, <3>1
      <3>2. CASE n # 1
        <4>1. g[n - 1] = f[n - 1] /\ g[n] = f[n]
          BY <3>2
        <4>2. Body(g)[n] = g[n - 1] \o bs[n]
          <5> HIDE DEF g
          <5> QED
            BY <3>2
        <4> QED
          BY <1>2, <4>1, <4>2
      <3> QED
        BY <3>1, <3>2
    <2> QED
      BY <2>1
  <1>5. flat = Body(flat)
    <2> HIDE DEF Body, g
    <2> QED
      BY <1>4
  <1>6. FlattenSeq(bs) = flat[Len(bs)]
    <2>1. Len(bs) # 0
      OBVIOUS
    <2> QED
      BY <2>1, Zenon DEF FlattenSeq
  <1> HIDE DEF flat
  <1>7. flat[1] = bs[1]
    <2>1. Body(flat)[1] = bs[1]
      OBVIOUS
    <2> HIDE DEF Body
    <2> QED
      BY <1>5, <2>1
  <1>8. ASSUME NEW n \in 2..Len(bs)
        PROVE  flat[n] = flat[n - 1] \o bs[n]
    <2>1. Body(flat)[n] = flat[n - 1] \o bs[n]
      <3>1. n \in 1..Len(bs) /\ n # 1
        OBVIOUS
      <3> QED
        BY <3>1
    <2> HIDE DEF Body
    <2> QED
      BY <1>5, <2>1
  <1>9. flat \in [1..Len(bs) -> Seq(Entries)]
    <2> DEFINE T == {n \in Nat : n + 1 <= Len(bs) => flat[n + 1] \in Seq(Entries)}
    <2>1. Nat \subseteq T
      <3>1. 0 \in T
        BY <1>0, <1>7
      <3>2. ASSUME NEW n \in Nat, n \in T
            PROVE  n + 1 \in T
        <4> SUFFICES ASSUME (n + 1) + 1 <= Len(bs) PROVE flat[(n + 1) + 1] \in Seq(Entries)
          OBVIOUS
        <4>1. /\ (n + 1) + 1 \in 2..Len(bs) /\ ((n + 1) + 1) - 1 = n + 1
              /\ flat[n + 1] \in Seq(Entries)
              /\ bs[(n + 1) + 1] \in Seq(Entries)
          BY <1>0, <3>2
        <4>2. flat[(n + 1) + 1] = flat[n + 1] \o bs[(n + 1) + 1]
          BY <1>8, <4>1
        <4> QED
          BY <4>1, <4>2
      <3> HIDE DEF T
      <3> QED
        BY <3>1, <3>2, SetInduction
    <2>2. ASSUME NEW n \in 1..Len(bs)
          PROVE  flat[n] \in Seq(Entries)
      <3>1. n - 1 \in T /\ (n - 1) + 1 = n
        BY <2>1
      <3> QED
        BY <3>1
    <2>3. flat = [n \in 1..Len(bs) |-> flat[n]]
      BY <1>5
    <2> QED
      BY <2>2, <2>3
  <1> QED
    BY <1>6, <1>7, <1>8, <1>9 DEF Flattens

LEMMA FlattenType ==
    ASSUME NEW bs \in Seq(Seq(Entries))
    PROVE  FlattenSeq(bs) \in Seq(Entries)
  <1>1. CASE bs = <<>>
    <2>1. FlattenSeq(bs) = <<>>
      BY <1>1 DEF FlattenSeq
    <2> QED
      BY <2>1
  <1>2. CASE bs # <<>>
    <2>1. PICK flat : Flattens(flat, bs) /\ FlattenSeq(bs) = flat[Len(bs)]
      BY <1>2, FlattenUnfolds
    <2>2. Len(bs) \in 1..Len(bs)
      BY <1>2
    <2> QED
      BY <2>1, <2>2 DEF Flattens
  <1> QED
    BY <1>1, <1>2

LEMMA FlattenAppend ==
    ASSUME NEW bs \in Seq(Seq(Entries)), NEW b \in Seq(Entries)
    PROVE  FlattenSeq(Append(bs, b)) = FlattenSeq(bs) \o b
  <1> DEFINE ab == Append(bs, b)
             n == Len(bs)
  <1>1. /\ ab \in Seq(Seq(Entries)) /\ ab # <<>> /\ Len(ab) = n + 1
        /\ \A k \in 1..n : ab[k] = bs[k]
        /\ ab[n + 1] = b
    BY AppendProperties
  <1> HIDE DEF ab
  <1>2. PICK flat : Flattens(flat, ab) /\ FlattenSeq(ab) = flat[n + 1]
    BY <1>1, FlattenUnfolds
  <1>3. CASE bs = <<>>
    <2>1. FlattenSeq(bs) = <<>> /\ n = 0
      BY <1>3 DEF FlattenSeq
    <2>2. FlattenSeq(ab) = b
      BY <1>1, <1>2, <2>1 DEF Flattens
    <2> QED
      BY <2>1, <2>2, ConcatEmptySeq DEF ab
  <1>4. CASE bs # <<>>
    <2>1. PICK former : Flattens(former, bs) /\ FlattenSeq(bs) = former[n]
      BY <1>4, FlattenUnfolds
    <2> DEFINE T == {k \in Nat : k + 1 <= n => flat[k + 1] = former[k + 1]}
    <2>2. Nat \subseteq T
      <3>1. 0 \in T
        BY <1>1, <1>2, <2>1 DEF Flattens
      <3>2. ASSUME NEW k \in Nat, k \in T
            PROVE  k + 1 \in T
        <4> SUFFICES ASSUME (k + 1) + 1 <= n PROVE flat[(k + 1) + 1] = former[(k + 1) + 1]
          OBVIOUS
        <4>1. /\ (k + 1) + 1 \in 2..n /\ (k + 1) + 1 \in 2..(n + 1) /\ (k + 1) + 1 \in 1..n
              /\ ((k + 1) + 1) - 1 = k + 1 /\ flat[k + 1] = former[k + 1]
          BY <3>2
        <4>2. flat[(k + 1) + 1] = flat[k + 1] \o ab[(k + 1) + 1]
          BY <1>1, <1>2, <4>1 DEF Flattens
        <4>3. former[(k + 1) + 1] = former[k + 1] \o bs[(k + 1) + 1]
          BY <2>1, <4>1 DEF Flattens
        <4> QED
          BY <1>1, <4>1, <4>2, <4>3
      <3> HIDE DEF T
      <3> QED
        BY <3>1, <3>2, SetInduction
    <2>3. n - 1 \in T /\ (n - 1) + 1 = n /\ n + 1 \in 2..(n + 1) /\ (n + 1) - 1 = n
      <3>1. n \in Nat /\ n # 0
        BY <1>4
      <3>2. n - 1 \in Nat
        BY <3>1
      <3> HIDE DEF T
      <3> QED
        BY <2>2, <3>1, <3>2
    <2>4. flat[n] = former[n]
      BY <2>3
    <2>5. flat[n + 1] = flat[n] \o ab[n + 1]
      BY <1>1, <1>2, <2>3 DEF Flattens
    <2> QED
      BY <1>1, <1>2, <2>1, <2>4, <2>5 DEF ab
  <1> QED
    BY <1>3, <1>4

-----------------------------------------------------------------------------
(* The inductive invariant. *)
CollectionTypeOK ==
    /\ pc \in {"load", "idle", "collect", "unload", "publish", "exit"}
    /\ loader \in BOOLEAN
    /\ loaded \in Seq(Plugins) /\ order \in Seq(Plugins)
    /\ cleaned \in [Plugins -> Nat]
    /\ failed \subseteq Plugins
    /\ i \in Nat \ {0} /\ toRemove \in Seq(Nat)
    /\ given \in Seq(Entries) /\ entries \in Seq(Entries)
    /\ start \in Nat \ {0} /\ batches \in Seq(Seq(Entries))
    /\ rounds \in Nat

(* cleanup() was called once for every plugin that is gone, and those that *)
(* are left are in the order in which they were loaded.                    *)
Gone ==
    /\ IsInjective(order)
    /\ \A p \in Plugins : cleaned[p] = IF p \in ToSet(order) \ ToSet(loaded) THEN 1 ELSE 0
    /\ ToSet(loaded) \subseteq ToSet(order)
    /\ \A a, b \in DOMAIN loaded : a < b =>
          \E c, d \in DOMAIN order : c < d /\ loaded[a] = order[c] /\ loaded[b] = order[d]
    /\ pc = "exit" => loaded = <<>>
    /\ pc # "exit" => ToSet(order) \ failed \subseteq ToSet(loaded)
    /\ pc = "load" => failed = {} /\ loaded = <<>> /\ order = <<>>

(* The places in s of what is in S are in r, the first ones first. *)
Marks(s, r, S) ==
    /\ \A k \in DOMAIN s : s[k] \in S <=> k \in ToSet(r)
    /\ \A a \in DOMAIN r : r[a] \in DOMAIN s
    /\ \A a, b \in DOMAIN r : a < b => r[a] < r[b]

(* A plugin that has failed and is still there has its index in to_remove, *)
(* and what is there yet to remove can be removed from the back.           *)
Marked ==
    /\ Marks(loaded, toRemove, failed)
    /\ pc = "collect" => \A a \in DOMAIN toRemove : toRemove[a] < i
    /\ pc \notin {"collect", "unload"} => toRemove = <<>>

(* No entry is given twice: those of a plugin differ from those of another.*)
GivenOnce ==
    /\ IsInjective(given)
    /\ pc = "collect" =>
          \A a \in DOMAIN given : \E k \in DOMAIN loaded : k < i /\ given[a].source = loaded[k]

(* The batches are the entries up to the next batch, and full before that. *)
Handed == IF start - 1 < Len(entries) THEN start - 1 ELSE Len(entries)
HandedOver == FlattenSeq(batches) = SubSeq(entries, 1, Handed)
Full ==
    /\ \A n \in DOMAIN batches : Len(batches[n]) \in 1..BatchMax
    /\ \A n \in DOMAIN batches : n < Len(batches) \/ start <= Len(entries) => Len(batches[n]) = BatchMax
    /\ pc \in {"collect", "unload"} => batches = <<>> /\ start = 1
    /\ pc \in {"load", "idle"} => start > Len(entries)
Batched == IsPart(entries, given, Good) /\ HandedOver /\ Full

CollectionInv == CollectionTypeOK /\ Gone /\ Marked /\ GivenOnce /\ Batched

-----------------------------------------------------------------------------
(* The answers of a source. *)
AllLevels == Levels \cup {LevelOf(p) : p \in Priorities}

LEMMA EntriesFromType ==
    ASSUME NEW source \in Plugins \cup {Journal}, NEW n \in Nat, NEW levels \in [1..n -> AllLevels]
    PROVE  /\ EntriesFrom(source, levels) \in Seq(Entries)
           /\ Len(EntriesFrom(source, levels)) = n
           /\ IsInjective(EntriesFrom(source, levels))
           /\ \A a \in 1..n : EntriesFrom(source, levels)[a].source = source
  <1> DEFINE answer == [a \in 1..n |-> [source |-> source, nr |-> a, level |-> levels[a]]]
  <1>1. EntriesFrom(source, levels) = answer
    BY DEF EntriesFrom
  <1>2. ASSUME NEW a \in 1..n
        PROVE  answer[a] \in Entries
    <2>1. levels[a] \in AllLevels
      OBVIOUS
    <2> QED
      BY <2>1 DEF Entries, AllLevels
  <1>3. answer \in Seq(Entries) /\ Len(answer) = n
    <2>1. answer \in [1..n -> Entries]
      BY <1>2
    <2> QED
      BY <2>1
  <1>4. ASSUME NEW a \in 1..n, NEW b \in 1..n, answer[a] = answer[b]
        PROVE  a = b
    <2>1. answer[a].nr = a /\ answer[b].nr = b
      OBVIOUS
    <2> QED
      BY <1>4, <2>1
  <1>5. \A a \in 1..n : answer[a].source = source
    OBVIOUS
  <1>6. DOMAIN answer = 1..n
    OBVIOUS
  <1>7. IsInjective(answer)
    BY <1>4, <1>6 DEF IsInjective
  <1> QED
    BY <1>1, <1>3, <1>5, <1>7

LEMMA FrontType ==
    ASSUME NEW X, NEW s \in Seq(X), s # <<>>
    PROVE  /\ Front(s) \in Seq(X) /\ Len(Front(s)) = Len(s) - 1
           /\ \A k \in 1..Len(s) - 1 : Front(s)[k] = s[k]
           /\ Last(s) \in X /\ Len(s) \in DOMAIN s /\ Last(s) = s[Len(s)]
  <1> DEFINE n == Len(s) - 1
  <1>1. n \in Nat /\ \A k \in 1..n : s[k] \in X
    OBVIOUS
  <1> HIDE DEF n
  <1>2. /\ SubSeq(s, 1, n) \in Seq(X)
        /\ Len(SubSeq(s, 1, n)) = n
        /\ \A k \in 1..n : SubSeq(s, 1, n)[k] = s[k]
    BY <1>1
  <1>3. Front(s) = SubSeq(s, 1, n) /\ Last(s) = s[Len(s)]
    BY DEF Front, Last, n
  <1>4. Len(s) \in DOMAIN s /\ s[Len(s)] \in X
    OBVIOUS
  <1> QED
    BY <1>2, <1>3, <1>4 DEF n

(* What is left of a sequence without repetition when one place is erased. *)
LEMMA RemoveAtType ==
    ASSUME NEW X, NEW s \in Seq(X), NEW n \in DOMAIN s
    PROVE  /\ RemoveAt(s, n) \in Seq(X) /\ Len(RemoveAt(s, n)) = Len(s) - 1
           /\ \A k \in 1..n - 1 : RemoveAt(s, n)[k] = s[k]
           /\ \A k \in n..Len(s) - 1 : RemoveAt(s, n)[k] = s[k + 1]
  <1> DEFINE f == SubSeq(s, 1, n - 1)
             g == SubSeq(s, n + 1, Len(s))
  <1>1. f \in Seq(X) /\ Len(f) = n - 1 /\ \A k \in 1..n - 1 : f[k] = s[k]
    OBVIOUS
  <1>2. g \in Seq(X) /\ Len(g) = Len(s) - n /\ \A k \in 1..Len(s) - n : g[k] = s[k + n]
    OBVIOUS
  <1> HIDE DEF f, g
  <1>3. /\ f \o g \in Seq(X) /\ Len(f \o g) = Len(s) - 1
        /\ \A k \in 1..n - 1 : (f \o g)[k] = s[k]
    BY <1>1, <1>2
  <1>4. ASSUME NEW k \in n..Len(s) - 1
        PROVE  (f \o g)[k] = s[k + 1]
    <2>1. (f \o g)[k] = g[k - (n - 1)] /\ k - (n - 1) \in 1..Len(s) - n /\ k - (n - 1) + n = k + 1
      BY <1>1, <1>2
    <2> QED
      BY <1>2, <2>1
  <1>5. RemoveAt(s, n) = f \o g
    BY DEF RemoveAt, f, g
  <1> QED
    BY <1>3, <1>4, <1>5

LEMMA RemoveAtSet ==
    ASSUME NEW X, NEW s \in Seq(X), NEW n \in DOMAIN s, IsInjective(s)
    PROVE  ToSet(RemoveAt(s, n)) = ToSet(s) \ {s[n]}
  <1> DEFINE r == RemoveAt(s, n)
  <1>1. /\ r \in Seq(X) /\ Len(r) = Len(s) - 1
        /\ \A k \in 1..n - 1 : r[k] = s[k]
        /\ \A k \in n..Len(s) - 1 : r[k] = s[k + 1]
    BY RemoveAtType
  <1> HIDE DEF r
  <1>2. ASSUME NEW k \in DOMAIN r
        PROVE  r[k] \in ToSet(s) /\ r[k] # s[n]
    <2>1. CASE k < n
      <3>1. r[k] = s[k] /\ k \in DOMAIN s /\ k # n
        BY <1>1, <2>1
      <3> QED
        BY <3>1 DEF ToSet, IsInjective
    <2>2. CASE k >= n
      <3>1. r[k] = s[k + 1] /\ k + 1 \in DOMAIN s /\ k + 1 # n
        BY <1>1, <2>2
      <3> QED
        BY <3>1 DEF ToSet, IsInjective
    <2> QED
      BY <1>1, <2>1, <2>2
  <1>3. ASSUME NEW k \in DOMAIN s, k # n
        PROVE  s[k] \in ToSet(r)
    <2>1. CASE k < n
      <3>1. r[k] = s[k] /\ k \in DOMAIN r
        BY <1>1, <2>1
      <3> QED
        BY <3>1 DEF ToSet
    <2>2. CASE k > n
      <3>1. r[k - 1] = s[k] /\ k - 1 \in DOMAIN r
        BY <1>1, <2>2
      <3> QED
        BY <3>1 DEF ToSet
    <2> QED
      BY <1>3, <2>1, <2>2
  <1> QED
    BY <1>2, <1>3 DEF ToSet, r

(* The places of what is left are places of the whole, in the same order. *)
LEMMA RemoveAtOrder ==
    ASSUME NEW X, NEW s \in Seq(X), NEW n \in DOMAIN s,
           NEW a \in DOMAIN RemoveAt(s, n), NEW b \in DOMAIN RemoveAt(s, n), a < b
    PROVE  \E c, d \in DOMAIN s : c < d /\ RemoveAt(s, n)[a] = s[c] /\ RemoveAt(s, n)[b] = s[d]
  <1> DEFINE r == RemoveAt(s, n)
  <1>1. /\ r \in Seq(X) /\ Len(r) = Len(s) - 1
        /\ \A k \in 1..n - 1 : r[k] = s[k]
        /\ \A k \in n..Len(s) - 1 : r[k] = s[k + 1]
    BY RemoveAtType
  <1>2. a \in DOMAIN r /\ b \in DOMAIN r
    OBVIOUS
  <1> HIDE DEF r
  <1>3. ASSUME NEW k \in DOMAIN r
        PROVE  /\ k < n => k \in DOMAIN s /\ r[k] = s[k]
               /\ k >= n => k + 1 \in DOMAIN s /\ r[k] = s[k + 1]
               /\ k \in Nat
    BY <1>1
  <1>4. CASE b < n
    <2>1. a < n
      BY <1>2, <1>3, <1>4
    <2> QED
      BY <1>2, <1>3, <1>4, <2>1 DEF r
  <1>5. CASE a < n /\ b >= n
    <2>1. a < b + 1
      BY <1>2, <1>3
    <2> QED
      BY <1>2, <1>3, <1>5, <2>1 DEF r
  <1>6. CASE a >= n
    <2>1. b >= n /\ a + 1 < b + 1
      BY <1>2, <1>3, <1>6
    <2> QED
      BY <1>2, <1>3, <1>6, <2>1 DEF r
  <1>7. b < n \/ (a < n /\ b >= n) \/ a >= n
    BY <1>2, <1>3
  <1> QED
    BY <1>4, <1>5, <1>6, <1>7

(* When r marks places of s, the last of them can be erased, and the others*)
(* still mark what they marked.                                            *)
LEMMA MarksRemoved ==
    ASSUME NEW X, NEW S, NEW s \in Seq(X), NEW r \in Seq(Nat), r # <<>>, Marks(s, r, S)
    PROVE  Marks(RemoveAt(s, Last(r)), Front(r), S)
  <1> DEFINE n == Last(r)
             t == RemoveAt(s, n)
             q == Front(r)
  <1>1. /\ q \in Seq(Nat) /\ Len(q) = Len(r) - 1
        /\ \A a \in 1..Len(r) - 1 : q[a] = r[a]
        /\ n = r[Len(r)] /\ Len(r) \in DOMAIN r
    BY FrontType
  <1> HIDE DEF q, n
  <1>2. n \in DOMAIN s
    BY <1>1 DEF Marks
  <1>3. /\ t \in Seq(X) /\ Len(t) = Len(s) - 1
        /\ \A k \in 1..n - 1 : t[k] = s[k]
        /\ \A k \in n..Len(s) - 1 : t[k] = s[k + 1]
    BY <1>2, RemoveAtType
  <1> HIDE DEF t
  <1>4. ASSUME NEW a \in DOMAIN q
        PROVE  a \in DOMAIN r /\ a < Len(r) /\ q[a] = r[a] /\ r[a] < n /\ r[a] \in DOMAIN s
    <2>1. a \in 1..Len(r) - 1
      BY <1>1
    <2>2. a \in DOMAIN r /\ a < Len(r)
      BY <2>1
    <2>3. q[a] = r[a]
      BY ONLY <1>1, <2>1
    <2> QED
      BY <1>1, <2>2, <2>3 DEF Marks
  <1>5. ASSUME NEW a \in DOMAIN r, a # Len(r)
        PROVE  a \in DOMAIN q
    BY <1>1, <1>5
  <1>6. ASSUME NEW a \in DOMAIN q
        PROVE  q[a] \in DOMAIN t
    <2>1. q[a] < n /\ q[a] \in DOMAIN s
      BY <1>4
    <2> QED
      BY <1>2, <1>3, <2>1
  <1>7. ASSUME NEW a \in DOMAIN q, NEW b \in DOMAIN q, a < b
        PROVE  q[a] < q[b]
    BY <1>4, <1>7 DEF Marks
  <1>8. ASSUME NEW k \in DOMAIN t
        PROVE  t[k] \in S <=> k \in ToSet(q)
    <2>1. CASE k < n
      <3>1. t[k] = s[k] /\ k \in DOMAIN s
        BY <1>2, <1>3, <2>1
      <3>2. \A a \in DOMAIN r : r[a] = k => a \in DOMAIN q /\ q[a] = k
        <4> TAKE a \in DOMAIN r
        <4> HAVE r[a] = k
        <4>1. a # Len(r)
          BY <1>1, <1>2, <2>1
        <4> QED
          BY <1>4, <1>5, <4>1
      <3>3. k \in ToSet(r) <=> k \in ToSet(q)
        BY <1>4, <3>2 DEF ToSet
      <3> QED
        BY <3>1, <3>3 DEF Marks
    <2>2. CASE k >= n
      <3>1. t[k] = s[k + 1] /\ k + 1 \in DOMAIN s /\ k + 1 > n /\ k \in Nat
        BY <1>2, <1>3, <2>2
      <3>2. k + 1 \notin ToSet(r)
        <4>1. ASSUME NEW a \in DOMAIN r
              PROVE  r[a] # k + 1
          <5>1. r[a] = n \/ r[a] < n
            BY <1>1, <1>4, <1>5
          <5> QED
            BY <1>2, <3>1, <5>1
        <4> QED
          BY <4>1 DEF ToSet
      <3>3. k \notin ToSet(q)
        <4>1. ASSUME NEW a \in DOMAIN q
              PROVE  q[a] # k
          <5>1. q[a] < n /\ q[a] \in DOMAIN s
            BY <1>4
          <5> QED
            BY <1>2, <2>2, <3>1, <5>1
        <4> QED
          BY <4>1 DEF ToSet
      <3> QED
        BY <3>1, <3>2, <3>3 DEF Marks
    <2> QED
      BY <1>2, <1>3, <2>1, <2>2
  <1> QED
    BY <1>6, <1>7, <1>8 DEF Marks, t, q, n

(* The next place is marked. *)
LEMMA MarksAdded ==
    ASSUME NEW X, NEW S, NEW s \in Seq(X), NEW r \in Seq(Nat), IsInjective(s), Marks(s, r, S),
           NEW k \in DOMAIN s, \A a \in DOMAIN r : r[a] < k
    PROVE  Marks(s, Append(r, k), S \cup {s[k]}) /\ \A a \in DOMAIN Append(r, k) : Append(r, k)[a] < k + 1
  <1> DEFINE q == Append(r, k)
  <1>1. k \in Nat
    OBVIOUS
  <1>2. /\ q \in Seq(Nat) /\ Len(q) = Len(r) + 1
        /\ \A a \in 1..Len(r) : q[a] = r[a]
        /\ q[Len(r) + 1] = k
    BY <1>1, AppendProperties
  <1> HIDE DEF q
  <1>3. ASSUME NEW a \in DOMAIN q
        PROVE  (a \in DOMAIN r /\ q[a] = r[a]) \/ (a = Len(r) + 1 /\ q[a] = k)
    BY <1>2
  <1>4. ASSUME NEW a \in DOMAIN r
        PROVE  a \in DOMAIN q /\ q[a] = r[a] /\ a < Len(r) + 1 /\ r[a] \in Nat
    BY <1>2
  <1>5. Len(r) + 1 \in DOMAIN q
    BY <1>2
  <1>6. ToSet(q) = ToSet(r) \cup {k}
    BY <1>2, <1>3, <1>4, <1>5 DEF ToSet
  <1>7. \A a \in DOMAIN q : q[a] \in DOMAIN s /\ q[a] < k + 1
    <2> TAKE a \in DOMAIN q
    <2>1. CASE a \in DOMAIN r /\ q[a] = r[a]
      BY <1>1, <1>4, <2>1 DEF Marks
    <2>2. CASE q[a] = k
      BY <1>1, <2>2
    <2> QED
      BY <1>3, <2>1, <2>2
  <1>8. ASSUME NEW a \in DOMAIN q, NEW b \in DOMAIN q, a < b
        PROVE  q[a] < q[b]
    <2>1. CASE b \in DOMAIN r
      <3>1. a \in DOMAIN r
        BY <1>2, <1>8, <2>1
      <3> QED
        BY <1>4, <1>8, <2>1, <3>1 DEF Marks
    <2>2. CASE b = Len(r) + 1
      <3>1. a \in DOMAIN r
        BY <1>2, <1>8, <2>2
      <3> QED
        BY <1>2, <1>4, <2>2, <3>1
    <2> QED
      BY <1>3, <2>1, <2>2
  <1>9. \A j \in DOMAIN s : s[j] \in S \cup {s[k]} <=> j \in ToSet(q)
    BY <1>6 DEF Marks, IsInjective
  <1> QED
    BY <1>7, <1>8, <1>9 DEF Marks, q

LEMMA LoadedType ==
    ASSUME NEW S \in SUBSET Plugins, NEW f \in SetToSeqs(S)
    PROVE  f \in Seq(Plugins) /\ IsInjective(f)
  <1>1. IsFiniteSet(S)
    BY CollectionAssumption, FS_Subset DEF CollectionAssumption
  <1>2. Cardinality(S) \in Nat
    BY <1>1, FS_CardinalityType
  <1>3. f \in [1..Cardinality(S) -> S] /\ \A a, b \in 1..Cardinality(S) : a # b => f[a] # f[b]
    BY DEF SetToSeqs
  <1>4. f \in [1..Cardinality(S) -> Plugins]
    BY <1>3
  <1> QED
    BY <1>2, <1>3, <1>4 DEF IsInjective

(* What a step of a round is when it takes an answer. *)
LEMMA AnswerType ==
    ASSUME CollectionInv, PluginAnswers
    PROVE  \E answer \in Seq(Entries) :
               /\ given' = given \o answer
               /\ entries' = entries \o Kept(answer)
               /\ Kept(answer) \in Seq(Entries)
               /\ IsInjective(answer)
               /\ \A a \in DOMAIN answer : answer[a].source = loaded[i]
  <1>1. PICK levels \in Answers :
            /\ given' = given \o EntriesFrom(loaded[i], levels)
            /\ entries' = entries \o Kept(EntriesFrom(loaded[i], levels))
    BY DEF PluginAnswers
  <1>2. PICK n \in 0..MaxEntries : levels \in [1..n -> Levels]
    BY DEF Answers
  <1>3. n \in Nat /\ levels \in [1..n -> AllLevels]
    BY <1>2, CollectionAssumption DEF AllLevels, CollectionAssumption
  <1>4. loaded[i] \in Plugins \cup {Journal}
    BY DEF PluginAnswers, CollectionInv, CollectionTypeOK
  <1> DEFINE answer == EntriesFrom(loaded[i], levels)
  <1>5. /\ answer \in Seq(Entries) /\ Len(answer) = n /\ IsInjective(answer)
        /\ \A a \in 1..n : answer[a].source = loaded[i]
    BY <1>3, <1>4, EntriesFromType
  <1>6. Kept(answer) \in Seq(Entries)
    BY <1>5, KeptIsPart
  <1>7. DOMAIN answer = 1..n
    BY <1>5
  <1> HIDE DEF answer
  <1> QED
    BY <1>1, <1>5, <1>6, <1>7 DEF answer

LEMMA JournalType ==
    ASSUME CollectionInv, ReadJournal
    PROVE  /\ given' \in Seq(Entries) /\ IsInjective(given')
           /\ entries' = Kept(given') /\ entries' \in Seq(Entries)
  <1>0. PICK n \in 0..MaxEntries :
            \E prios \in [1..n -> Priorities] :
                given' = EntriesFrom(Journal, [k \in 1..n |-> LevelOf(prios[k])])
    BY DEF ReadJournal
  <1>1. PICK prios \in [1..n -> Priorities] :
            given' = EntriesFrom(Journal, [k \in 1..n |-> LevelOf(prios[k])])
    BY <1>0
  <1> DEFINE levels == [k \in 1..n |-> LevelOf(prios[k])]
  <1>2. n \in Nat /\ levels \in [1..n -> AllLevels]
    BY CollectionAssumption DEF AllLevels, CollectionAssumption
  <1> HIDE DEF levels
  <1>3. given' \in Seq(Entries) /\ IsInjective(given')
    <2>1. given' = EntriesFrom(Journal, levels)
      BY <1>1 DEF levels
    <2> QED
      BY <1>2, <2>1, EntriesFromType
  <1>4. entries' = Kept(given')
    BY DEF ReadJournal
  <1> QED
    BY <1>3, <1>4, KeptIsPart

LEMMA TypeStep ==
    ASSUME CollectionInv, [Next]_vars
    PROVE  CollectionTypeOK'
  <1> USE DEF CollectionInv, CollectionTypeOK
  <1>1. CASE LoadAll
    <2>1. loaded' \in Seq(Plugins)
      BY <1>1, LoadedType DEF LoadAll
    <2> QED
      BY <1>1, <2>1 DEF LoadAll
  <1>2. CASE BeginRound
    BY <1>2 DEF BeginRound, pluginVars
  <1>3. CASE ReadJournal
    <2>1. given' \in Seq(Entries) /\ entries' \in Seq(Entries)
      BY <1>3, JournalType
    <2> QED
      BY <1>3, <2>1 DEF ReadJournal, pluginVars
  <1>4. CASE PluginAnswers
    <2>1. PICK answer \in Seq(Entries) :
              given' = given \o answer /\ entries' = entries \o Kept(answer) /\ Kept(answer) \in Seq(Entries)
      BY <1>4, AnswerType
    <2>2. given' \in Seq(Entries) /\ entries' \in Seq(Entries)
      BY <2>1
    <2> QED
      BY <1>4, <2>2 DEF PluginAnswers, pluginVars
  <1>5. CASE PluginThrows
    BY <1>5 DEF PluginThrows
  <1>6. CASE CollectEnds
    BY <1>6 DEF CollectEnds, pluginVars
  <1>7. CASE UnloadNext
    <2>1. Front(toRemove) \in Seq(Nat) /\ Last(toRemove) \in DOMAIN loaded
      <3>1. Len(toRemove) \in DOMAIN toRemove /\ Last(toRemove) = toRemove[Len(toRemove)]
        BY <1>7, FrontType DEF UnloadNext
      <3> QED
        BY <1>7, <3>1, FrontType DEF UnloadNext, Marked, Marks
    <2>2. RemoveAt(loaded, Last(toRemove)) \in Seq(Plugins)
      BY <2>1, RemoveAtType
    <2> QED
      BY <1>7, <2>1, <2>2 DEF UnloadNext, Unload
  <1>8. CASE UnloadEnds
    BY <1>8 DEF UnloadEnds, pluginVars
  <1>9. CASE PublishBatch
    <2>1. BatchMax \in Nat \ {0}
      BY CollectionAssumption DEF CollectionAssumption
    <2> DEFINE end == IF start + BatchMax - 1 < Len(entries) THEN start + BatchMax - 1 ELSE Len(entries)
    <2>2. SubSeq(entries, start, end) \in Seq(Entries)
      <3>1. end \in Nat /\ end <= Len(entries) /\ start \in Nat \ {0}
        BY <2>1
      <3> HIDE DEF end
      <3>2. \A k \in start..end : entries[k] \in Entries
        BY <3>1
      <3> QED
        BY <3>1, <3>2, SubSeqProperties
    <2>3. batches' = Append(batches, SubSeq(entries, start, end))
      BY <1>9 DEF PublishBatch
    <2> HIDE DEF end
    <2>4. batches' \in Seq(Seq(Entries))
      BY <2>2, <2>3
    <2> QED
      BY <1>9, <2>1, <2>4 DEF PublishBatch, pluginVars
  <1>10. CASE RoundEnds
    BY <1>10 DEF RoundEnds, pluginVars
  <1>11. CASE UnloadAll
    BY <1>11 DEF UnloadAll
  <1>12. CASE UNCHANGED vars
    BY <1>12 DEF vars
  <1> QED
    BY <1>1, <1>2, <1>3, <1>4, <1>5, <1>6, <1>7, <1>8, <1>9, <1>10, <1>11, <1>12 DEF Next

(* The steps that leave the plugins alone. *)
LEMMA PluginsUntouched ==
    ASSUME [Next]_vars, ~LoadAll, ~PluginThrows, ~UnloadNext, ~UnloadAll
    PROVE  /\ UNCHANGED <<loaded, order, cleaned, failed>>
           /\ pc' \in {"load", "exit"} => pc' = pc
           /\ pc = "exit" => pc' = "exit"
  BY DEF Next, vars, pluginVars, BeginRound, ReadJournal, PluginAnswers, CollectEnds, UnloadEnds,
         PublishBatch, RoundEnds

LEMMA LoadedOnce ==
    ASSUME CollectionTypeOK, Gone
    PROVE  IsInjective(loaded)
  <1> SUFFICES ASSUME NEW a \in DOMAIN loaded, NEW b \in DOMAIN loaded, a < b
               PROVE  loaded[a] # loaded[b]
    BY DEF IsInjective, CollectionTypeOK
  <1>1. PICK c \in DOMAIN order, d \in DOMAIN order :
            c < d /\ loaded[a] = order[c] /\ loaded[b] = order[d]
    BY DEF Gone
  <1>2. c # d
    BY <1>1 DEF CollectionTypeOK
  <1> QED
    BY <1>1, <1>2 DEF Gone, IsInjective

(* The plugin that is unloaded next. *)
LEMMA UnloadType ==
    ASSUME CollectionInv, UnloadNext
    PROVE  /\ Last(toRemove) \in DOMAIN loaded
           /\ loaded[Last(toRemove)] \in failed \cap ToSet(loaded)
           /\ loaded' = RemoveAt(loaded, Last(toRemove))
           /\ cleaned' = [cleaned EXCEPT ![loaded[Last(toRemove)]] = @ + 1]
           /\ ToSet(loaded') = ToSet(loaded) \ {loaded[Last(toRemove)]}
  <1>1. /\ Len(toRemove) \in DOMAIN toRemove /\ Last(toRemove) = toRemove[Len(toRemove)]
    BY FrontType DEF UnloadNext, CollectionInv, CollectionTypeOK
  <1>2. Last(toRemove) \in DOMAIN loaded /\ Last(toRemove) \in ToSet(toRemove)
    BY <1>1 DEF CollectionInv, Marked, Marks, ToSet
  <1>3. loaded[Last(toRemove)] \in failed \cap ToSet(loaded)
    BY <1>2 DEF CollectionInv, Marked, Marks, ToSet
  <1>4. /\ loaded' = RemoveAt(loaded, Last(toRemove))
        /\ cleaned' = [cleaned EXCEPT ![loaded[Last(toRemove)]] = @ + 1]
    BY DEF UnloadNext, Unload
  <1>5. loaded \in Seq(Plugins) /\ IsInjective(loaded)
    BY LoadedOnce DEF CollectionInv, CollectionTypeOK
  <1> QED
    BY <1>2, <1>3, <1>4, <1>5, RemoveAtSet

LEMMA GoneStep ==
    ASSUME CollectionInv, [Next]_vars
    PROVE  Gone'
  <1> USE DEF CollectionInv
  <1>1. CASE LoadAll
    <2>1. loaded' \in Seq(Plugins) /\ IsInjective(loaded')
      BY <1>1, LoadedType DEF LoadAll
    <2>2. order = <<>> /\ order' = loaded' /\ pc' = "idle" /\ UNCHANGED <<cleaned, failed>>
      BY <1>1 DEF LoadAll, Gone
    <2>3. \A p \in Plugins : cleaned'[p] = 0
      BY <2>2 DEF Gone, ToSet
    <2> QED
      BY <2>1, <2>2, <2>3 DEF Gone
  <1>2. CASE PluginThrows
    BY <1>2 DEF Gone, PluginThrows
  <1>3. CASE UnloadNext
    <2> DEFINE n == Last(toRemove)
    <2>1. /\ n \in DOMAIN loaded /\ loaded[n] \in failed \cap ToSet(loaded)
          /\ loaded' = RemoveAt(loaded, n)
          /\ cleaned' = [cleaned EXCEPT ![loaded[n]] = @ + 1]
          /\ ToSet(loaded') = ToSet(loaded) \ {loaded[n]}
      BY <1>3, UnloadType
    <2>2. UNCHANGED <<pc, order, failed>> /\ pc = "unload"
      BY <1>3 DEF UnloadNext
    <2> HIDE DEF n
    <2>3. ASSUME NEW p \in Plugins
          PROVE  cleaned'[p] = IF p \in ToSet(order) \ ToSet(loaded') THEN 1 ELSE 0
      <3>1. cleaned[p] = IF p \in ToSet(order) \ ToSet(loaded) THEN 1 ELSE 0
        BY DEF Gone
      <3>2. cleaned \in [Plugins -> Nat] /\ ToSet(loaded) \subseteq ToSet(order)
        BY DEF Gone, CollectionTypeOK
      <3>3. CASE p = loaded[n]
        BY <2>1, <3>1, <3>2, <3>3
      <3>4. CASE p # loaded[n]
        BY <2>1, <3>1, <3>2, <3>4
      <3> QED
        BY <3>3, <3>4
    <2>4. ASSUME NEW a \in DOMAIN loaded', NEW b \in DOMAIN loaded', a < b
          PROVE  \E c, d \in DOMAIN order : c < d /\ loaded'[a] = order[c] /\ loaded'[b] = order[d]
      <3>1. loaded \in Seq(Plugins)
        BY DEF CollectionTypeOK
      <3>2. PICK c \in DOMAIN loaded, d \in DOMAIN loaded :
                c < d /\ loaded'[a] = loaded[c] /\ loaded'[b] = loaded[d]
        BY <2>1, <2>4, <3>1, RemoveAtOrder
      <3> QED
        BY <3>2 DEF Gone
    <2> QED
      BY <2>1, <2>2, <2>3, <2>4 DEF Gone
  <1>4. CASE UnloadAll
    <2>1. /\ loaded' = <<>> /\ pc' = "exit" /\ UNCHANGED <<order, failed>>
          /\ cleaned' = [p \in Plugins |-> IF p \in ToSet(loaded) THEN cleaned[p] + 1 ELSE cleaned[p]]
      BY <1>4 DEF UnloadAll
    <2>2. ToSet(loaded') = {}
      BY <2>1 DEF ToSet
    <2>3. \A p \in Plugins : cleaned'[p] = IF p \in ToSet(order) THEN 1 ELSE 0
      BY <2>1 DEF Gone
    <2> QED
      BY <2>1, <2>2, <2>3 DEF Gone
  <1>5. CASE ~LoadAll /\ ~PluginThrows /\ ~UnloadNext /\ ~UnloadAll
    <2>1. /\ UNCHANGED <<loaded, order, cleaned, failed>>
          /\ pc' \in {"load", "exit"} => pc' = pc
          /\ pc = "exit" => pc' = "exit"
      BY <1>5, PluginsUntouched
    <2> QED
      BY <2>1 DEF Gone
  <1> QED
    BY <1>1, <1>2, <1>3, <1>4, <1>5

LEMMA MarkedStep ==
    ASSUME CollectionInv, [Next]_vars
    PROVE  Marked'
  <1> USE DEF CollectionInv
  <1>1. CASE LoadAll
    <2>1. failed' = {} /\ toRemove' = <<>> /\ pc' = "idle"
      BY <1>1 DEF LoadAll, Gone, Marked
    <2> QED
      BY <2>1 DEF Marked, Marks, ToSet
  <1>2. CASE PluginThrows
    <2>1. /\ i \in DOMAIN loaded /\ loaded \in Seq(Plugins) /\ IsInjective(loaded)
          /\ toRemove' = Append(toRemove, i) /\ failed' = failed \cup {loaded[i]}
          /\ i' = i + 1 /\ UNCHANGED <<pc, loaded>> /\ pc = "collect"
          /\ toRemove \in Seq(Nat)
      BY <1>2, LoadedOnce DEF PluginThrows, CollectionTypeOK
    <2>2. Marks(loaded, toRemove, failed) /\ \A a \in DOMAIN toRemove : toRemove[a] < i
      BY <2>1 DEF Marked
    <2>3. /\ Marks(loaded, Append(toRemove, i), failed \cup {loaded[i]})
          /\ \A a \in DOMAIN Append(toRemove, i) : Append(toRemove, i)[a] < i + 1
      BY <2>1, <2>2, MarksAdded
    <2> QED
      BY <2>1, <2>3 DEF Marked
  <1>3. CASE UnloadNext
    <2>1. loaded' = RemoveAt(loaded, Last(toRemove)) /\ toRemove' = Front(toRemove)
      BY <1>3, UnloadType DEF UnloadNext
    <2>2. UNCHANGED <<pc, failed>> /\ pc = "unload" /\ toRemove # <<>>
      BY <1>3 DEF UnloadNext
    <2>3. Marks(RemoveAt(loaded, Last(toRemove)), Front(toRemove), failed)
      BY <2>2, MarksRemoved DEF Marked, CollectionTypeOK
    <2> QED
      BY <2>1, <2>2, <2>3 DEF Marked
  <1>4. CASE UnloadAll
    BY <1>4 DEF UnloadAll, Marked, Marks, ToSet
  <1>5. CASE BeginRound
    <2>1. toRemove = <<>>
      BY <1>5 DEF BeginRound, Marked
    <2> QED
      BY <1>5, <2>1 DEF BeginRound, Marked, Marks, pluginVars, ToSet
  <1>6. CASE PluginAnswers
    <2>1. \A a \in DOMAIN toRemove : toRemove[a] \in Nat /\ toRemove[a] < i
      BY <1>6 DEF PluginAnswers, Marked, CollectionTypeOK
    <2>2. \A a \in DOMAIN toRemove : toRemove[a] < i + 1
      BY <2>1 DEF CollectionTypeOK
    <2> QED
      BY <1>6, <2>2 DEF PluginAnswers, Marked, pluginVars
  <1>7. CASE ReadJournal \/ CollectEnds \/ UnloadEnds \/ PublishBatch \/ RoundEnds \/ UNCHANGED vars
    BY <1>7 DEF ReadJournal, CollectEnds, UnloadEnds, PublishBatch, RoundEnds, vars, Marked, pluginVars
  <1> QED
    BY <1>1, <1>2, <1>3, <1>4, <1>5, <1>6, <1>7 DEF Next

LEMMA GivenStep ==
    ASSUME CollectionInv, [Next]_vars
    PROVE  GivenOnce'
  <1> USE DEF CollectionInv
  <1>1. CASE PluginAnswers
    <2>1. PICK answer \in Seq(Entries) :
              /\ given' = given \o answer
              /\ IsInjective(answer)
              /\ \A a \in DOMAIN answer : answer[a].source = loaded[i]
      BY <1>1, AnswerType
    <2>2. i \in DOMAIN loaded /\ i' = i + 1 /\ UNCHANGED <<pc, loaded>> /\ pc = "collect"
      BY <1>1 DEF PluginAnswers, pluginVars, CollectionTypeOK
    <2>3. given \in Seq(Entries) /\ IsInjective(loaded) /\ IsInjective(given)
      BY LoadedOnce DEF CollectionTypeOK, GivenOnce
    <2>4. ASSUME NEW a \in DOMAIN given
          PROVE  \E k \in DOMAIN loaded : k < i /\ given[a].source = loaded[k]
      BY <2>2 DEF GivenOnce
    <2>5. ASSUME NEW a \in DOMAIN given'
          PROVE  \/ a \in DOMAIN given /\ given'[a] = given[a]
                 \/ a - Len(given) \in DOMAIN answer /\ given'[a] = answer[a - Len(given)] /\ a > Len(given)
      BY <2>1, <2>3
    <2>6. ASSUME NEW a \in DOMAIN given, NEW b \in DOMAIN answer
          PROVE  given[a] # answer[b]
      <3>1. PICK k \in DOMAIN loaded : k < i /\ given[a].source = loaded[k]
        BY <2>4
      <3>2. loaded[k] # loaded[i]
        <4>1. \A a1, b1 \in DOMAIN loaded : loaded[a1] = loaded[b1] => a1 = b1
          BY <2>3 DEF IsInjective
        <4>2. k # i
          BY <2>2, <3>1 DEF CollectionTypeOK
        <4> QED
          BY ONLY <2>2, <3>1, <4>1, <4>2
      <3>3. answer[b].source = loaded[i]
        BY <2>1
      <3> QED
        BY <3>1, <3>2, <3>3
    <2>7. ASSUME NEW a \in DOMAIN given', NEW b \in DOMAIN given', given'[a] = given'[b]
          PROVE  a = b
      <3>1. CASE a \in DOMAIN given /\ given'[a] = given[a] /\ b \in DOMAIN given /\ given'[b] = given[b]
        BY <2>3, <2>7, <3>1 DEF IsInjective
      <3>2. CASE /\ a - Len(given) \in DOMAIN answer /\ given'[a] = answer[a - Len(given)]
                 /\ b - Len(given) \in DOMAIN answer /\ given'[b] = answer[b - Len(given)]
        <4>1. a - Len(given) = b - Len(given)
          BY <2>1, <2>7, <3>2 DEF IsInjective
        <4>2. a \in Nat /\ b \in Nat /\ Len(given) \in Nat
          BY <2>1, <2>3
        <4> QED
          BY <4>1, <4>2
      <3> QED
        BY <2>5, <2>6, <2>7, <3>1, <3>2
    <2>8. ASSUME NEW a \in DOMAIN given'
          PROVE  \E k \in DOMAIN loaded : k < i + 1 /\ given'[a].source = loaded[k]
      <3>1. i \in Nat
        BY DEF CollectionTypeOK
      <3>2. CASE a \in DOMAIN given /\ given'[a] = given[a]
        <4>1. PICK k \in DOMAIN loaded : k < i /\ given[a].source = loaded[k]
          BY <2>4, <3>2
        <4>2. k < i + 1
          BY <3>1, <4>1 DEF CollectionTypeOK
        <4> QED
          BY <3>2, <4>1, <4>2
      <3>3. CASE a - Len(given) \in DOMAIN answer /\ given'[a] = answer[a - Len(given)]
        <4>1. given'[a].source = loaded[i] /\ i < i + 1
          BY <2>1, <3>1, <3>3
        <4> QED
          BY <2>2, <4>1
      <3> QED
        BY <2>5, <3>2, <3>3
    <2>9. IsInjective(given')
      BY <2>7 DEF IsInjective
    <2> QED
      BY <2>2, <2>8, <2>9 DEF GivenOnce
  <1>2. CASE ReadJournal
    <2>1. IsInjective(given') /\ pc' = "publish"
      BY <1>2, JournalType DEF ReadJournal
    <2> QED
      BY <2>1 DEF GivenOnce
  <1>3. CASE BeginRound
    BY <1>3 DEF BeginRound, GivenOnce, IsInjective
  <1>4. CASE PluginThrows
    <2>1. i \in Nat /\ \A k \in DOMAIN loaded : k \in Nat
      BY DEF CollectionTypeOK
    <2>2. \A k \in DOMAIN loaded : k < i => k < i + 1
      BY <2>1
    <2> QED
      BY <1>4, <2>2 DEF PluginThrows, GivenOnce
  <1>5. CASE \/ LoadAll \/ CollectEnds \/ UnloadNext \/ UnloadEnds \/ PublishBatch
             \/ RoundEnds \/ UnloadAll \/ UNCHANGED vars
    BY <1>5 DEF LoadAll, CollectEnds, UnloadNext, UnloadEnds, PublishBatch, RoundEnds, UnloadAll,
                vars, pluginVars, GivenOnce
  <1> QED
    BY <1>1, <1>2, <1>3, <1>4, <1>5 DEF Next

(* The next batch begins where the former ones end, and is full when it    *)
(* does not reach the end.                                                 *)
LEMMA NextBatch ==
    ASSUME NEW s \in Seq(Entries), NEW first \in Nat \ {0}, first <= Len(s), NEW max \in Nat \ {0},
           NEW end, end = IF first + max - 1 < Len(s) THEN first + max - 1 ELSE Len(s)
    PROVE  /\ SubSeq(s, first, end) \in Seq(Entries)
           /\ SubSeq(s, 1, first - 1) \o SubSeq(s, first, end) = SubSeq(s, 1, end)
           /\ end = IF (first + max) - 1 < Len(s) THEN (first + max) - 1 ELSE Len(s)
           /\ Len(SubSeq(s, first, end)) \in 1..max
           /\ first + max <= Len(s) => Len(SubSeq(s, first, end)) = max
  <1>1. end \in Nat /\ end <= Len(s) /\ first <= end /\ end - first + 1 \in 1..max
    OBVIOUS
  <1>2. first + max <= Len(s) => end - first + 1 = max
    OBVIOUS
  <1>3. end = IF (first + max) - 1 < Len(s) THEN (first + max) - 1 ELSE Len(s)
    OBVIOUS
  <1>4. \A k \in first..end : s[k] \in Entries
    BY <1>1
  <1>5. /\ SubSeq(s, first, end) \in Seq(Entries)
        /\ Len(SubSeq(s, first, end)) = end - first + 1
    BY <1>1, <1>4, SubSeqProperties
  <1>6. SubSeq(s, 1, first - 1) \o SubSeq(s, first, end) = SubSeq(s, 1, end)
    <2>1. /\ first - 1 \in 1 - 1 .. Len(s) /\ end \in first - 1 .. Len(s) /\ (first - 1) + 1 = first
          /\ 1 \in 1..Len(s) + 1
      BY <1>1
    <2>2. SubSeq(s, 1, first - 1) \o SubSeq(s, (first - 1) + 1, end) = SubSeq(s, 1, end)
      BY ONLY <2>1, s \in Seq(Entries), ConcatAdjacentSubSeq
    <2> QED
      BY <2>1, <2>2
  <1> QED
    BY <1>1, <1>2, <1>3, <1>5, <1>6

LEMMA BatchedStep ==
    ASSUME CollectionInv, [Next]_vars
    PROVE  Batched'
  <1> USE DEF CollectionInv
  <1>0. <<>> \in Seq(Entries) /\ FlattenSeq(<<>>) = <<>>
    BY DEF FlattenSeq
  <1>1. CASE PublishBatch
    <2> DEFINE end == IF start + BatchMax - 1 < Len(entries) THEN start + BatchMax - 1 ELSE Len(entries)
               b == SubSeq(entries, start, end)
    <2>1. /\ pc = "publish" /\ start <= Len(entries)
          /\ batches' = Append(batches, b) /\ start' = start + BatchMax
          /\ UNCHANGED <<pc, entries, given>>
      BY <1>1 DEF PublishBatch
    <2>2. /\ start \in Nat \ {0} /\ BatchMax \in Nat \ {0} /\ entries \in Seq(Entries)
          /\ batches \in Seq(Seq(Entries))
      BY CollectionAssumption DEF CollectionAssumption, CollectionTypeOK
    <2>3. /\ b \in Seq(Entries)
          /\ SubSeq(entries, 1, start - 1) \o b = SubSeq(entries, 1, end)
          /\ end = IF (start + BatchMax) - 1 < Len(entries) THEN (start + BatchMax) - 1 ELSE Len(entries)
          /\ Len(b) \in 1..BatchMax
          /\ start + BatchMax <= Len(entries) => Len(b) = BatchMax
      BY <2>1, <2>2, NextBatch
    <2> HIDE DEF end, b
    <2>4. HandedOver'
      <3>1. Handed = start - 1
        BY <2>1, <2>2 DEF Handed
      <3>2. Handed' = end
        BY <2>1, <2>3 DEF Handed
      <3>3. FlattenSeq(batches') = FlattenSeq(batches) \o b
        BY <2>1, <2>2, <2>3, FlattenAppend
      <3>4. FlattenSeq(batches) = SubSeq(entries, 1, start - 1)
        BY <3>1 DEF Batched, HandedOver
      <3> QED
        BY <2>1, <2>3, <3>2, <3>3, <3>4 DEF HandedOver
    <2>5. ASSUME NEW n \in DOMAIN batches'
          PROVE  \/ n \in DOMAIN batches /\ batches'[n] = batches[n]
                 \/ n = Len(batches') /\ batches'[n] = b
      BY <2>1, <2>2, <2>3
    <2>6. \A n \in DOMAIN batches : Len(batches[n]) = BatchMax
      BY <2>1 DEF Batched, Full
    <2>7. \A n \in DOMAIN batches' : Len(batches'[n]) \in 1..BatchMax
      BY <2>2, <2>3, <2>5, <2>6
    <2>8. ASSUME NEW n \in DOMAIN batches', n < Len(batches') \/ start' <= Len(entries')
          PROVE  Len(batches'[n]) = BatchMax
      <3>1. CASE n \in DOMAIN batches /\ batches'[n] = batches[n]
        BY <2>6, <3>1
      <3>2. CASE n = Len(batches') /\ batches'[n] = b
        <4>1. ~(n < Len(batches'))
          BY <2>1, <2>2, <2>3, <3>2
        <4> QED
          BY <2>1, <2>3, <2>8, <3>2, <4>1
      <3> QED
        BY <2>5, <3>1, <3>2
    <2>9. IsPart(entries', given', Good)
      BY <2>1 DEF Batched
    <2>10. Full'
      BY <2>1, <2>7, <2>8 DEF Full
    <2> QED
      BY <2>4, <2>9, <2>10 DEF Batched
  <1>2. CASE PluginAnswers
    <2>1. PICK answer \in Seq(Entries) :
              /\ given' = given \o answer
              /\ entries' = entries \o Kept(answer)
              /\ Kept(answer) \in Seq(Entries)
      BY <1>2, AnswerType
    <2>2. UNCHANGED <<pc, batches, start>> /\ pc = "collect"
      BY <1>2 DEF PluginAnswers
    <2>3. batches = <<>> /\ start = 1 /\ entries \in Seq(Entries) /\ given \in Seq(Entries)
      BY <2>2 DEF Batched, Full, CollectionTypeOK
    <2>4. IsPart(entries', given', Good)
      BY <2>1, <2>3, KeptIsPart, PartOfConcat DEF Batched
    <2>5. entries' \in Seq(Entries)
      BY <2>1, <2>3
    <2>6. HandedOver'
      <3>1. Handed' = 0
        BY <2>2, <2>3, <2>5 DEF Handed
      <3>2. SubSeq(entries', 1, 0) = <<>>
        BY <2>5, SubSeqEmpty
      <3> QED
        BY <1>0, <2>2, <2>3, <3>1, <3>2 DEF HandedOver
    <2>7. Full'
      BY <2>2, <2>3 DEF Full
    <2> QED
      BY <2>4, <2>6, <2>7 DEF Batched
  <1>3. CASE ReadJournal
    <2>1. /\ given' \in Seq(Entries) /\ entries' = Kept(given') /\ entries' \in Seq(Entries)
          /\ batches' = <<>> /\ start' = 1 /\ pc' = "publish"
      BY <1>3, JournalType DEF ReadJournal
    <2>2. IsPart(entries', given', Good)
      BY <2>1, KeptIsPart
    <2>3. HandedOver'
      <3>1. Handed' = 0
        BY <2>1 DEF Handed
      <3>2. SubSeq(entries', 1, 0) = <<>>
        BY <2>1, SubSeqEmpty
      <3> QED
        BY <1>0, <2>1, <3>1, <3>2 DEF HandedOver
    <2>4. Full'
      BY <2>1 DEF Full
    <2> QED
      BY <2>2, <2>3, <2>4 DEF Batched
  <1>4. CASE BeginRound
    <2>1. /\ given' = <<>> /\ entries' = <<>> /\ batches' = <<>> /\ start' = 1 /\ pc' = "collect"
      BY <1>4 DEF BeginRound
    <2>2. IsPart(entries', given', Good)
      BY <2>1 DEF IsPart, ToSet
    <2>3. HandedOver'
      <3>1. Handed' = 0
        BY <2>1 DEF Handed
      <3>2. SubSeq(entries', 1, 0) = <<>>
        BY <1>0, <2>1, SubSeqEmpty
      <3> QED
        BY <1>0, <2>1, <3>1, <3>2 DEF HandedOver
    <2>4. Full'
      BY <2>1 DEF Full
    <2> QED
      BY <2>2, <2>3, <2>4 DEF Batched
  <1>5. CASE LoadAll \/ PluginThrows \/ CollectEnds \/ UnloadNext \/ UnloadEnds \/ RoundEnds \/ UnloadAll \/ UNCHANGED vars
    <2>1. /\ UNCHANGED <<given, entries, batches, start>>
          /\ pc' \in {"collect", "unload"} => pc \in {"collect", "unload"}
          /\ pc' \in {"load", "idle"} => pc \in {"load", "idle"} \/ start > Len(entries)
      BY <1>5 DEF LoadAll, PluginThrows, CollectEnds, UnloadNext, UnloadEnds, RoundEnds, UnloadAll, vars, pluginVars
    <2>2. Handed' = Handed
      BY <2>1 DEF Handed
    <2>3. HandedOver' /\ IsPart(entries', given', Good)
      BY <2>1, <2>2 DEF Batched, HandedOver
    <2>4. Full'
      BY <2>1 DEF Batched, Full
    <2> QED
      BY <2>3, <2>4 DEF Batched
  <1> QED
    BY <1>1, <1>2, <1>3, <1>4, <1>5 DEF Next

(* Every reachable state satisfies the inductive invariant. *)
THEOREM CollectionInvariant == Spec => []CollectionInv
  <1>1. Init => CollectionInv
    <2> SUFFICES ASSUME Init PROVE CollectionInv
      OBVIOUS
    <2> USE DEF Init
    <2>1. CollectionTypeOK
      BY DEF CollectionTypeOK
    <2>2. Gone
      BY DEF Gone, IsInjective, ToSet
    <2>3. Marked
      BY DEF Marked, Marks, ToSet
    <2>4. GivenOnce
      BY DEF GivenOnce, IsInjective
    <2>5. Batched
      <3>1. IsPart(entries, given, Good)
        BY DEF IsPart, ToSet
      <3>2. HandedOver
        <4>1. Handed = 0 /\ entries \in Seq(Entries)
          BY DEF Handed
        <4>2. SubSeq(entries, 1, 0) = <<>>
          BY <4>1, SubSeqEmpty
        <4>3. FlattenSeq(<<>>) = <<>>
          BY DEF FlattenSeq
        <4> QED
          BY <4>1, <4>2, <4>3 DEF HandedOver
      <3>3. Full
        BY DEF Full
      <3> QED
        BY <3>1, <3>2, <3>3 DEF Batched
    <2> QED
      BY <2>1, <2>2, <2>3, <2>4, <2>5 DEF CollectionInv
  <1>2. CollectionInv /\ [Next]_vars => CollectionInv'
    BY TypeStep, GoneStep, MarkedStep, GivenStep, BatchedStep DEF CollectionInv
  <1> QED
    BY <1>1, <1>2, PTL DEF Spec

(* Only a plugin that has failed is unloaded during a round, each once, and*)
(* none is asked afterwards; the others keep their order (PluginLoader::   *)
(* collectAll, unloadAll).                                                 *)
THEOREM FailedUnloaded == Spec => []OnlyFailedUnloaded
  <1>1. CollectionInv => OnlyFailedUnloaded
    <2> SUFFICES ASSUME CollectionInv PROVE OnlyFailedUnloaded
      OBVIOUS
    <2> USE DEF CollectionInv
    <2>1. \A p \in Plugins : cleaned[p] = IF p \in ToSet(order) \ ToSet(loaded) THEN 1 ELSE 0
      BY DEF Gone
    <2>2. ToSet(loaded) \subseteq Plugins /\ ToSet(order) \subseteq Plugins
      BY DEF CollectionTypeOK, ToSet
    <2>3. ASSUME pc \in {"publish", "idle"}
          PROVE  IsPart(loaded, order, Plugins \ failed)
      <3>1. toRemove = <<>>
        BY <2>3 DEF Marked
      <3>2. ToSet(loaded) \cap failed = {}
        BY <3>1 DEF Marked, Marks, ToSet
      <3>3. ToSet(loaded) = ToSet(order) \cap (Plugins \ failed)
        BY <2>2, <2>3, <3>2 DEF Gone
      <3> QED
        BY <3>3 DEF IsPart, Gone
    <2>4. ASSUME pc = "exit"
          PROVE  \A p \in ToSet(order) : cleaned[p] = 1
      <3>1. ToSet(loaded) = {}
        BY <2>4 DEF Gone, ToSet
      <3> QED
        BY <2>1, <2>2, <3>1
    <2> QED
      BY <2>1, <2>2, <2>3, <2>4 DEF OnlyFailedUnloaded
  <1> QED
    BY <1>1, CollectionInvariant, PTL

(* After a round every entry of an allowed level has been handed over,     *)
(* once and in order, in full batches but for the last                     *)
(* (LogCollector::collectAndPublish).                                      *)
THEOREM RoundHandsOver == Spec => []EntriesHandedOver
  <1>1. CollectionInv => EntriesHandedOver
    <2> SUFFICES ASSUME CollectionInv, pc = "idle"
                 PROVE  /\ IsPart(FlattenSeq(batches), given, {e \in ToSet(given) : Allowed(e)})
                        /\ IsInjective(FlattenSeq(batches))
                        /\ \A n \in DOMAIN batches :
                              IF n < Len(batches) THEN Len(batches[n]) = BatchMax ELSE Len(batches[n]) \in 1..BatchMax
      BY DEF EntriesHandedOver
    <2>0. /\ CollectionTypeOK /\ GivenOnce
          /\ IsPart(entries, given, Good) /\ HandedOver /\ Full
      BY DEF CollectionInv, Batched
    <2>1. entries \in Seq(Entries) /\ given \in Seq(Entries) /\ IsInjective(given) /\ start \in Nat \ {0}
      BY <2>0 DEF CollectionTypeOK, GivenOnce
    <2>2. FlattenSeq(batches) = entries
      <3>1. Handed = Len(entries)
        BY <2>0, <2>1 DEF Full, Handed
      <3>2. SubSeq(entries, 1, Len(entries)) = entries
        BY <2>1, SubSeqFull
      <3> QED
        BY <2>0, <3>1, <3>2 DEF HandedOver
    <2>3. ToSet(given) \cap Good = ToSet(given) \cap {e \in ToSet(given) : Allowed(e)}
      <3>1. ToSet(given) \subseteq Entries
        BY <2>1 DEF ToSet
      <3> QED
        BY <3>1 DEF Good
    <2>4. IsPart(entries, given, {e \in ToSet(given) : Allowed(e)})
      BY <2>0, <2>3 DEF IsPart
    <2>5. IsInjective(entries)
      <3> SUFFICES ASSUME NEW a \in DOMAIN entries, NEW b \in DOMAIN entries, a < b
                   PROVE  entries[a] # entries[b]
        BY <2>1 DEF IsInjective
      <3>1. PICK c \in DOMAIN given, d \in DOMAIN given : c < d /\ entries[a] = given[c] /\ entries[b] = given[d]
        BY <2>0 DEF IsPart
      <3>2. c # d
        BY <2>1, <3>1
      <3> QED
        BY <2>1, <3>1, <3>2 DEF IsInjective
    <2>6. \A n \in DOMAIN batches :
              IF n < Len(batches) THEN Len(batches[n]) = BatchMax ELSE Len(batches[n]) \in 1..BatchMax
      BY <2>0 DEF Full
    <2> QED
      BY <2>2, <2>4, <2>5, <2>6
  <1> QED
    BY <1>1, CollectionInvariant, PTL

-----------------------------------------------------------------------------
(* The addresses of a scan. *)
UpTo(x, n) == x \in Int /\ 0 <= x /\ x <= n

LEMMA RangeIs == \A n \in Int : \A x : x \in 0..n <=> UpTo(x, n)
  BY DEF UpTo

LEMMA WordIs == \A x : x \in Word <=> UpTo(x, 65535)
  <1>1. 2^16 - 1 = 65535
    OBVIOUS
  <1>2. 2^16 - 1 \in Int
    OBVIOUS
  <1>3. \A x : x \in Word <=> UpTo(x, 2^16 - 1)
    BY ONLY Zenon, <1>2, RangeIs DEF Word
  <1> QED
    BY ONLY <1>1, <1>3

LEMMA Division ==
    ASSUME NEW size \in Nat \ {0}, NEW q \in Int, NEW k \in Nat, k < size
    PROVE  (size * q + k) \div size = q /\ (size * q + k) % size = k
  OBVIOUS

LEMMA Quotient ==
    ASSUME NEW size \in Nat \ {0}, NEW n \in Nat
    PROVE  /\ n = size * (n \div size) + (n % size)
           /\ n \div size \in Nat /\ n % size \in Nat /\ n % size < size
  OBVIOUS

(* What a network can have in addresses. *)
Sizes == {1, 2, 4, 8, 16, 32, 64, 128, 256, 512, 1024, 2048,
          4096, 8192, 16384, 32768, 65536}

LEMMA WholeNetwork ==
    ASSUME NEW size \in Sizes, NEW q \in Nat, size * q <= 65535
    PROVE  size * q + size <= 65536
  BY DEF Sizes

(* A prefix and the size of its network. *)
Measures(prefix, size) ==
    /\ size \in Sizes
    /\ Mask(prefix) = 65536 - size
    /\ prefix \in 24..30 => 4 <= size /\ size <= 256
    /\ prefix \in 16..23 => 512 <= size

LEMMA SizeOf == \A prefix \in 16..32 : Measures(prefix, 2^(32 - prefix))
  <1> SUFFICES ASSUME NEW prefix \in 16..32 PROVE Measures(prefix, 2^(32 - prefix))
    OBVIOUS
  <1>1. CASE prefix = 16
    BY <1>1 DEF Measures, Mask, Sizes
  <1>2. CASE prefix = 17
    BY <1>2 DEF Measures, Mask, Sizes
  <1>3. CASE prefix = 18
    BY <1>3 DEF Measures, Mask, Sizes
  <1>4. CASE prefix = 19
    BY <1>4 DEF Measures, Mask, Sizes
  <1>5. CASE prefix = 20
    BY <1>5 DEF Measures, Mask, Sizes
  <1>6. CASE prefix = 21
    BY <1>6 DEF Measures, Mask, Sizes
  <1>7. CASE prefix = 22
    BY <1>7 DEF Measures, Mask, Sizes
  <1>8. CASE prefix = 23
    BY <1>8 DEF Measures, Mask, Sizes
  <1>9. CASE prefix = 24
    BY <1>9 DEF Measures, Mask, Sizes
  <1>10. CASE prefix = 25
    BY <1>10 DEF Measures, Mask, Sizes
  <1>11. CASE prefix = 26
    BY <1>11 DEF Measures, Mask, Sizes
  <1>12. CASE prefix = 27
    BY <1>12 DEF Measures, Mask, Sizes
  <1>13. CASE prefix = 28
    BY <1>13 DEF Measures, Mask, Sizes
  <1>14. CASE prefix = 29
    BY <1>14 DEF Measures, Mask, Sizes
  <1>15. CASE prefix = 30
    BY <1>15 DEF Measures, Mask, Sizes
  <1>16. CASE prefix = 31
    BY <1>16 DEF Measures, Mask, Sizes
  <1>17. CASE prefix = 32
    BY <1>17 DEF Measures, Mask, Sizes
  <1> QED
    BY <1>1, <1>2, <1>3, <1>4, <1>5, <1>6, <1>7, <1>8, <1>9, <1>10,
       <1>11, <1>12, <1>13, <1>14, <1>15, <1>16, <1>17

(* The recursion that counts leading ones ends: it has a solution. *)
LEMMA LeadingOnesUnfolds ==
    \A m \in Word : LeadingOnes[m] = IF m >= 32768 THEN 1 + LeadingOnes[(2 * m) % 65536] ELSE 0
  <1> DEFINE Body(f) == [m \in Word |-> IF m >= 2^15 THEN 1 + f[(2 * m) % 2^16] ELSE 0]
             count(m) ==
                 IF m < 32768 THEN 0 ELSE IF m < 49152 THEN 1 ELSE
                 IF m < 57344 THEN 2 ELSE IF m < 61440 THEN 3 ELSE
                 IF m < 63488 THEN 4 ELSE IF m < 64512 THEN 5 ELSE
                 IF m < 65024 THEN 6 ELSE IF m < 65280 THEN 7 ELSE
                 IF m < 65408 THEN 8 ELSE IF m < 65472 THEN 9 ELSE
                 IF m < 65504 THEN 10 ELSE IF m < 65520 THEN 11 ELSE
                 IF m < 65528 THEN 12 ELSE IF m < 65532 THEN 13 ELSE
                 IF m < 65534 THEN 14 ELSE IF m < 65535 THEN 15 ELSE 16
             g == [m \in Word |-> count(m)]
             ones == CHOOSE f : f = Body(f)
  <1>1. ASSUME NEW m \in Word, m >= 32768
        PROVE  (2 * m) % 65536 = 2 * m - 65536 /\ 2 * m - 65536 \in Word
    <2>1. m \in Int /\ 0 <= m /\ m <= 65535
      BY WordIs DEF UpTo
    <2>2. 2 * m - 65536 \in Word
      BY <1>1, <2>1, WordIs DEF UpTo
    <2>3. (2 * m) % 65536 = 2 * m - 65536
      BY <1>1, <2>1
    <2> QED
      BY <2>2, <2>3
  <1>2. ASSUME NEW m \in Word
        PROVE  count(m) = IF m >= 32768 THEN 1 + count(2 * m - 65536) ELSE 0
    <2>1. m \in Int /\ 0 <= m /\ m <= 65535
      BY WordIs DEF UpTo
    <2> QED
      BY <2>1
  <1>3. 2^15 = 32768 /\ 2^16 = 65536
    OBVIOUS
  <1> HIDE DEF count
  <1>4. ASSUME NEW m \in Word
        PROVE  g[m] = IF m >= 2^15 THEN 1 + g[(2 * m) % 2^16] ELSE 0
    <2>1. CASE m >= 32768
      BY <1>1, <1>2, <1>3, <2>1
    <2>2. CASE ~(m >= 32768)
      BY <1>2, <1>3, <2>2
    <2> QED
      BY <2>1, <2>2
  <1>5. g = Body(g)
    <2>1. g = [m \in Word |-> g[m]]
      OBVIOUS
    <2> HIDE DEF g
    <2> QED
      BY <1>4, <2>1
  <1>6. ones = Body(ones)
    <2> HIDE DEF Body, g
    <2> QED
      BY <1>5
  <1>7. LeadingOnes = ones
    BY ONLY Zenon DEF LeadingOnes
  <1> HIDE DEF ones
  <1>8. \A m \in Word : ones[m] = IF m >= 2^15 THEN 1 + ones[(2 * m) % 2^16] ELSE 0
    BY <1>6
  <1> QED
    BY <1>3, <1>7, <1>8

(* A mask of consecutive ones has the prefix as its length. *)
LEMMA LeadingOnesOfMask == \A prefix \in 16..32 : 16 + LeadingOnes[Mask(prefix)] = prefix
  <1>1. LeadingOnes[0] = 0
    <2>1. 0 \in Word
      BY WordIs DEF UpTo
    <2> QED
      BY LeadingOnesUnfolds, <2>1
  <1>2. LeadingOnes[32768] = 1
    <2>1. 32768 \in Word /\ (2 * 32768) % 65536 = 0
      BY WordIs DEF UpTo
    <2> QED
      BY LeadingOnesUnfolds, <1>1, <2>1
  <1>3. LeadingOnes[49152] = 2
    <2>1. 49152 \in Word /\ (2 * 49152) % 65536 = 32768
      BY WordIs DEF UpTo
    <2> QED
      BY LeadingOnesUnfolds, <1>2, <2>1
  <1>4. LeadingOnes[57344] = 3
    <2>1. 57344 \in Word /\ (2 * 57344) % 65536 = 49152
      BY WordIs DEF UpTo
    <2> QED
      BY LeadingOnesUnfolds, <1>3, <2>1
  <1>5. LeadingOnes[61440] = 4
    <2>1. 61440 \in Word /\ (2 * 61440) % 65536 = 57344
      BY WordIs DEF UpTo
    <2> QED
      BY LeadingOnesUnfolds, <1>4, <2>1
  <1>6. LeadingOnes[63488] = 5
    <2>1. 63488 \in Word /\ (2 * 63488) % 65536 = 61440
      BY WordIs DEF UpTo
    <2> QED
      BY LeadingOnesUnfolds, <1>5, <2>1
  <1>7. LeadingOnes[64512] = 6
    <2>1. 64512 \in Word /\ (2 * 64512) % 65536 = 63488
      BY WordIs DEF UpTo
    <2> QED
      BY LeadingOnesUnfolds, <1>6, <2>1
  <1>8. LeadingOnes[65024] = 7
    <2>1. 65024 \in Word /\ (2 * 65024) % 65536 = 64512
      BY WordIs DEF UpTo
    <2> QED
      BY LeadingOnesUnfolds, <1>7, <2>1
  <1>9. LeadingOnes[65280] = 8
    <2>1. 65280 \in Word /\ (2 * 65280) % 65536 = 65024
      BY WordIs DEF UpTo
    <2> QED
      BY LeadingOnesUnfolds, <1>8, <2>1
  <1>10. LeadingOnes[65408] = 9
    <2>1. 65408 \in Word /\ (2 * 65408) % 65536 = 65280
      BY WordIs DEF UpTo
    <2> QED
      BY LeadingOnesUnfolds, <1>9, <2>1
  <1>11. LeadingOnes[65472] = 10
    <2>1. 65472 \in Word /\ (2 * 65472) % 65536 = 65408
      BY WordIs DEF UpTo
    <2> QED
      BY LeadingOnesUnfolds, <1>10, <2>1
  <1>12. LeadingOnes[65504] = 11
    <2>1. 65504 \in Word /\ (2 * 65504) % 65536 = 65472
      BY WordIs DEF UpTo
    <2> QED
      BY LeadingOnesUnfolds, <1>11, <2>1
  <1>13. LeadingOnes[65520] = 12
    <2>1. 65520 \in Word /\ (2 * 65520) % 65536 = 65504
      BY WordIs DEF UpTo
    <2> QED
      BY LeadingOnesUnfolds, <1>12, <2>1
  <1>14. LeadingOnes[65528] = 13
    <2>1. 65528 \in Word /\ (2 * 65528) % 65536 = 65520
      BY WordIs DEF UpTo
    <2> QED
      BY LeadingOnesUnfolds, <1>13, <2>1
  <1>15. LeadingOnes[65532] = 14
    <2>1. 65532 \in Word /\ (2 * 65532) % 65536 = 65528
      BY WordIs DEF UpTo
    <2> QED
      BY LeadingOnesUnfolds, <1>14, <2>1
  <1>16. LeadingOnes[65534] = 15
    <2>1. 65534 \in Word /\ (2 * 65534) % 65536 = 65532
      BY WordIs DEF UpTo
    <2> QED
      BY LeadingOnesUnfolds, <1>15, <2>1
  <1>17. LeadingOnes[65535] = 16
    <2>1. 65535 \in Word /\ (2 * 65535) % 65536 = 65534
      BY WordIs DEF UpTo
    <2> QED
      BY LeadingOnesUnfolds, <1>16, <2>1
  <1> SUFFICES ASSUME NEW prefix \in 16..32 PROVE 16 + LeadingOnes[Mask(prefix)] = prefix
    OBVIOUS
  <1>18. CASE prefix = 16
    BY <1>1, <1>18 DEF Mask
  <1>19. CASE prefix = 17
    BY <1>2, <1>19 DEF Mask
  <1>20. CASE prefix = 18
    BY <1>3, <1>20 DEF Mask
  <1>21. CASE prefix = 19
    BY <1>4, <1>21 DEF Mask
  <1>22. CASE prefix = 20
    BY <1>5, <1>22 DEF Mask
  <1>23. CASE prefix = 21
    BY <1>6, <1>23 DEF Mask
  <1>24. CASE prefix = 22
    BY <1>7, <1>24 DEF Mask
  <1>25. CASE prefix = 23
    BY <1>8, <1>25 DEF Mask
  <1>26. CASE prefix = 24
    BY <1>9, <1>26 DEF Mask
  <1>27. CASE prefix = 25
    BY <1>10, <1>27 DEF Mask
  <1>28. CASE prefix = 26
    BY <1>11, <1>28 DEF Mask
  <1>29. CASE prefix = 27
    BY <1>12, <1>29 DEF Mask
  <1>30. CASE prefix = 28
    BY <1>13, <1>30 DEF Mask
  <1>31. CASE prefix = 29
    BY <1>14, <1>31 DEF Mask
  <1>32. CASE prefix = 30
    BY <1>15, <1>32 DEF Mask
  <1>33. CASE prefix = 31
    BY <1>16, <1>33 DEF Mask
  <1>34. CASE prefix = 32
    BY <1>17, <1>34 DEF Mask
  <1> QED
    BY <1>18, <1>19, <1>20, <1>21, <1>22, <1>23, <1>24, <1>25, <1>26,
       <1>27, <1>28, <1>29, <1>30, <1>31, <1>32, <1>33, <1>34

(* The hosts of a network, counted from its first address. *)
LEMMA HostsOfNetwork ==
    ASSUME NEW size \in Sizes, NEW ip \in Word, NEW k \in Nat, k < size
    PROVE  /\ (ip - (ip % size)) + k \in Word
           /\ ((ip - (ip % size)) + k) \div size = ip \div size
           /\ ((ip - (ip % size)) + k) % size = k
  <1> DEFINE q == ip \div size
             r == ip % size
  <1>1. ip \in Nat /\ ip <= 65535
    BY WordIs DEF UpTo
  <1>2. size \in Nat \ {0}
    BY DEF Sizes
  <1>3. ip = size * q + r /\ q \in Nat /\ r \in Nat /\ r < size
    BY <1>1, <1>2, Quotient
  <1> HIDE DEF q, r
  <1>4. size * q \in Nat
    BY <1>2, <1>3
  <1>5. (ip - r) + k = size * q + k
    BY <1>2, <1>3, <1>4
  <1>6. (size * q + k) \div size = q /\ (size * q + k) % size = k
    BY <1>2, <1>3, Division
  <1>7. size * q <= 65535
    BY <1>1, <1>3, <1>4
  <1>8. size * q + size <= 65536
    BY <1>3, <1>7, WholeNetwork
  <1>9. size * q + k \in Int /\ 0 <= size * q + k /\ size * q + k <= 65535
    BY <1>2, <1>4, <1>8
  <1>10. size * q + k \in Word
    BY <1>9, WordIs DEF UpTo
  <1> QED
    BY <1>5, <1>6, <1>10 DEF q, r

(* For every address and prefix, the scan asks what it should              *)
(* (NetworkScanner::detectLocalSubnet, expandCIDR).                        *)
THEOREM NetworkScanned == \A ip \in Word, prefix \in 16..32 : ScansNetworkOf(ip, prefix)
  <1> SUFFICES ASSUME NEW ip \in Word, NEW prefix \in 16..32
               PROVE  ScansNetworkOf(ip, prefix)
    OBVIOUS
  <1> DEFINE size == 2^(32 - prefix)
             net == ip - (ip % size)
             cidr == detectLocalSubnet(ip, Mask(prefix))
             hosts == expandCIDR(cidr)
             count == IF prefix \in 24..30 THEN size - 2 ELSE 254
  <1> HIDE DEF size
  <1>1. /\ size \in Sizes
        /\ Mask(prefix) = 65536 - size
        /\ prefix \in 24..30 => 4 <= size /\ size <= 256
        /\ prefix \in 16..23 => 512 <= size
    <2>1. Measures(prefix, size)
      BY SizeOf DEF size
    <2> QED
      BY <2>1 DEF Measures
  <1>2. size \in Nat \ {0}
    BY <1>1 DEF Sizes
  <1>3. cidr = [net |-> net, prefix |-> prefix]
    <2>1. 2^16 - Mask(prefix) = size
      BY <1>1, <1>2
    <2> QED
      BY <2>1, LeadingOnesOfMask DEF detectLocalSubnet
  <1>4. ip \in Nat /\ ip % size \in Nat /\ ip % size < size
    <2>1. ip \in Nat
      BY WordIs DEF UpTo
    <2> QED
      BY <1>2, <2>1, Quotient
  <1>5. net \in Int /\ net + (ip % size) = ip
    BY <1>2, <1>4
  <1> HIDE DEF cidr, net
  <1>6. CASE prefix > 30
    <2>1. ToSet(hosts) = {}
      <3>1. hosts = <<>>
        BY <1>3, <1>6 DEF expandCIDR
      <3> QED
        BY <3>1 DEF ToSet
    <2>2. Cardinality({}) = 0
      BY FS_EmptySet
    <2> HIDE DEF hosts
    <2>3. ~(prefix \in 24..30)
      BY <1>6
    <2> QED
      BY <1>6, <2>1, <2>2, <2>3 DEF ScansNetworkOf, hosts, cidr
  <1>7. CASE prefix \in 16..30
    <2>1. count \in Nat /\ count <= size - 2
      BY <1>1, <1>2, <1>7
    <2>2. hosts = [k \in 1..count |-> net + k]
      <3>1. cidr.prefix = prefix /\ cidr.net = net
        BY <1>3
      <3>2. (IF size - 2 > 254 THEN 254 ELSE size - 2) = count
        BY <1>1, <1>2, <1>7
      <3> QED
        BY <1>7, <3>1, <3>2 DEF expandCIDR, size
    <2> HIDE DEF hosts, count
    <2>3. ToSet(hosts) = {net + k : k \in 1..count}
      BY <2>2 DEF ToSet
    <2>4. ASSUME NEW k \in 1..count
          PROVE  net + k \in Word /\ (net + k) \div size = ip \div size /\ (net + k) % size = k
      <3>1. k \in Nat /\ k < size
        BY <1>2, <2>1
      <3> QED
        BY <1>1, <3>1, HostsOfNetwork DEF net
    <2>5. ASSUME NEW h \in ToSet(hosts)
          PROVE  h \in Word /\ IsHost(h, ip, prefix)
      <3>1. PICK k \in 1..count : h = net + k
        BY <2>3
      <3>2. k \notin {0, size - 1}
        BY <1>2, <2>1
      <3> QED
        BY <2>4, <3>1, <3>2 DEF IsHost, size
    <2>6. Cardinality(ToSet(hosts)) = count
      <3>1. IsFiniteSet(1..count) /\ Cardinality(1..count) = count
        BY <2>1, FS_Interval
      <3> DEFINE f == [k \in 1..count |-> net + k]
      <3>2. f \in Bijection(1..count, ToSet(hosts))
        <4>1. f \in Injection(1..count, ToSet(hosts))
          BY <1>5, <2>1, <2>3 DEF Injection, IsInjective
        <4>2. f \in Surjection(1..count, ToSet(hosts))
          BY <2>3 DEF Surjection
        <4> QED
          BY <4>1, <4>2 DEF Bijection
      <3>3. ExistsBijection(1..count, ToSet(hosts))
        BY <3>2 DEF ExistsBijection
      <3> QED
        BY <3>1, <3>3, FS_Bijection
    <2>7. ASSUME prefix \in 24..30, IsHost(ip, ip, prefix)
          PROVE  ip \in ToSet(hosts)
      <3>1. ip % size \notin {0, size - 1}
        BY <2>7 DEF IsHost, size
      <3>2. ip % size \in 1..count
        BY <1>2, <1>4, <2>7, <3>1 DEF count
      <3> QED
        BY <1>5, <2>3, <3>2
    <2>8. count = CASE prefix > 30 -> 0 [] prefix \in 24..30 -> size - 2 [] OTHER -> 254
      BY <1>7 DEF count
    <2> QED
      BY <2>5, <2>6, <2>7, <2>8 DEF ScansNetworkOf, hosts, cidr, size
  <1> QED
    BY <1>6, <1>7

(* Every scan of a run stays in the network of its interface, and misses   *)
(* nothing of a small one (NetworkScanner::detectLocalSubnet, expandCIDR). *)
THEOREM OwnSubnetScanned == Spec => []ScansOwnSubnet
  <1>1. Addresses \subseteq Word
    BY WordIs DEF Addresses, UpTo
  <1>2. ScansOwnSubnet
    BY <1>1, NetworkScanned DEF ScansOwnSubnet
  <1> QED
    BY <1>2, PTL

=============================================================================
