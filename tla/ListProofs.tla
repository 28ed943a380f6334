----------------------------- MODULE ListProofs -----------------------------
(***************************************************************************)
(* Facts about lists that the proofs of the components share: induction    *)
(* over the positions of a list, what a recursive function computes, what  *)
(* Sublist picks, and where an insertion moves the elements.  The std::list*)
(* members remove, erase and insert are what these stand for in the code.  *)
(***************************************************************************)
EXTENDS Sublists, Integers, SequenceTheorems, WellFoundedInduction, TLAPS

(* A set of numbers has a least one.                                       *)
LEMMA LeastElement ==
    ASSUME NEW T \in SUBSET Nat, T # {}
    PROVE  \E n \in T : \A m \in T : n <= m
<1> DEFINE Less == OpToRel(<, Nat)
<1>1. PICK n \in T : \A m \in T : ~(<<m, n>> \in Less)
  BY NatLessThanWellFounded, WFMin
<1>2. \A m, k \in Nat : m < k => <<m, k>> \in {ss \in Nat \X Nat : ss[1] < ss[2]}
  OBVIOUS
<1>3. Less = {ss \in Nat \X Nat : ss[1] < ss[2]}
  BY Zenon DEF OpToRel
<1>4. \A m \in T : ~(m < n)
  BY <1>1, <1>2, <1>3
<1> QED
  BY <1>4

(* What holds of 0 and of each next number holds of all of them up to n.   *)
LEMMA InductionUpTo ==
    ASSUME NEW n \in Nat, NEW T, 0 \in T,
           \A k \in 0 .. n - 1 : k \in T => k + 1 \in T
    PROVE  0 .. n \subseteq T
<1> DEFINE Out == {k \in 0 .. n : k \notin T}
<1>1. Out \in SUBSET Nat
  OBVIOUS
<1>2. ASSUME Out # {} PROVE FALSE
  <2>1. PICK k \in Out : \A m \in Out : k <= m
    BY <1>1, <1>2, LeastElement
  <2>2. k - 1 \in 0 .. n - 1 /\ k - 1 \notin Out
    BY <2>1
  <2>3. k \in T
    BY <2>2
  <2> QED
    BY <2>1, <2>3
<1> QED
  BY <1>2

(* f lists what comes of base in n steps.                                  *)
Iterates(f, n, base, step) ==
    f[0] = base /\ \A k \in 1 .. n : f[k] = step[k][f[k - 1]]

(* Whatever the steps are, there is such a list, and it stays in S.        *)
LEMMA Iteration ==
    ASSUME NEW n \in Nat, NEW S, NEW base \in S, NEW step \in [1 .. n -> [S -> S]]
    PROVE  \E f \in [0 .. n -> S] : Iterates(f, n, base, step)
<1> DEFINE Fits(f, m) == f[0] = base /\ \A k \in 1 .. m : f[k] = step[k][f[k - 1]]
           T == {m \in 0 .. n : \E f \in [0 .. m -> S] : Fits(f, m)}
<1>1. 0 \in T
  <2>1. [k \in 0 .. 0 |-> base] \in [0 .. 0 -> S] /\ Fits([k \in 0 .. 0 |-> base], 0)
    OBVIOUS
  <2>2. 0 \in 0 .. n
    OBVIOUS
  <2> QED
    BY <2>1, <2>2, Zenon
<1>2. ASSUME NEW m \in 0 .. n - 1, m \in T PROVE m + 1 \in T
  <2>1. PICK f \in [0 .. m -> S] : Fits(f, m)
    BY <1>2
  <2> DEFINE g == [k \in 0 .. m + 1 |-> IF k = m + 1 THEN step[k][f[k - 1]] ELSE f[k]]
  <2>2. step[m + 1] \in [S -> S] /\ f[m] \in S
    OBVIOUS
  <2>3. g \in [0 .. m + 1 -> S]
    BY <2>2
  <2>4. Fits(g, m + 1)
    BY <2>1
  <2>5. m + 1 \in 0 .. n
    OBVIOUS
  <2> QED
    BY <2>3, <2>4, <2>5, Zenon
<1>3. 0 .. n \subseteq T
  <2> HIDE DEF T
  <2> QED
    BY <1>1, <1>2, InductionUpTo
<1> QED
  BY <1>3 DEF Iterates

(* The recursive definition means what it says.                            *)
LEMMA SublistUpToDef ==
    ASSUME NEW S, NEW s \in Seq(S), NEW K
    PROVE  /\ SublistUpTo(s, K) \in [0 .. Len(s) -> Seq(S)]
           /\ SublistUpTo(s, K)[0] = <<>>
           /\ \A n \in 1 .. Len(s) :
                 SublistUpTo(s, K)[n] =
                    IF n \in K THEN Append(SublistUpTo(s, K)[n - 1], s[n])
                              ELSE SublistUpTo(s, K)[n - 1]
<1> DEFINE N == Len(s)
           Lists == Seq(S)
           none == <<>>
           Next(n, q) == IF n \in K THEN Append(q, s[n]) ELSE q
           Def(f) == [n \in 0 .. N |-> IF n = 0 THEN none ELSE Next(n, f[n - 1])]
           up == CHOOSE f : f = Def(f)
           step == [n \in 1 .. N |-> [q \in Lists |-> Next(n, q)]]
<1>1. /\ N \in Nat /\ none \in Lists
      /\ \A n \in 1 .. N : \A q \in Lists : Next(n, q) \in Lists
  OBVIOUS
<1>2. SublistUpTo(s, K) = up
  BY Zenon DEF SublistUpTo
<1> HIDE DEF N, Lists, none, Next
<1>3. step \in [1 .. N -> [Lists -> Lists]]
  BY <1>1
<1>4. PICK f \in [0 .. N -> Lists] : Iterates(f, N, none, step)
  <2> HIDE DEF step
  <2> QED
    BY <1>1, <1>3, Iteration
<1>5. f = Def(f)
  <2>1. ASSUME NEW n \in 1 .. N PROVE f[n] = Next(n, f[n - 1])
    <3>1. f[n - 1] \in Lists
      BY <1>1
    <3> QED
      BY <1>4, <3>1 DEF Iterates
  <2>2. \A n \in 0 .. N : f[n] = IF n = 0 THEN none ELSE Next(n, f[n - 1])
    BY <1>1, <1>4, <2>1 DEF Iterates
  <2> QED
    BY <2>2
<1>6. up = Def(up)
  <2> HIDE DEF Def
  <2> QED
    BY <1>5, Zenon
<1> HIDE DEF up
<1>7. /\ up = [n \in 0 .. N |-> up[n]] /\ up[0] = none
      /\ \A n \in 1 .. N : up[n] = Next(n, up[n - 1])
  <2>1. DOMAIN up = 0 .. N /\ \A n \in 0 .. N : up[n] = IF n = 0 THEN none ELSE Next(n, up[n - 1])
    <3> DEFINE g == Def(up)
    <3>1. DOMAIN g = 0 .. N /\ \A n \in 0 .. N : g[n] = IF n = 0 THEN none ELSE Next(n, up[n - 1])
      OBVIOUS
    <3> HIDE DEF g
    <3>2. up = g
      BY <1>6 DEF g
    <3> QED
      BY <3>1, <3>2, Zenon
  <2>2. 0 \in 0 .. N /\ \A n \in 1 .. N : n \in 0 .. N /\ n # 0
    BY <1>1
  <2>3. up = [n \in 0 .. N |-> up[n]]
    BY <1>6
  <2> QED
    BY <2>1, <2>2, <2>3
<1>8. \A n \in 0 .. N : up[n] \in Lists
  <2> DEFINE T == {n \in 0 .. N : up[n] \in Lists}
  <2>1. 0 \in T
    BY <1>1, <1>7
  <2>2. ASSUME NEW n \in 0 .. N - 1, n \in T PROVE n + 1 \in T
    <3>1. n + 1 \in 1 .. N /\ (n + 1) - 1 = n
      BY <1>1
    <3>2. up[n + 1] = Next(n + 1, up[n])
      BY <1>7, <3>1
    <3> QED
      BY <1>1, <2>2, <3>1, <3>2
  <2>3. 0 .. N \subseteq T
    <3> HIDE DEF T
    <3> QED
      BY <1>1, <2>1, <2>2, InductionUpTo
  <2> QED
    BY <2>3
<1> QED
  BY <1>2, <1>7, <1>8 DEF N, Lists, none, Next

(* q holds the elements of s at the positions in K up to n, in their       *)
(* order; at tells where each comes from.                                  *)
Picks(at, q, s, K, n) ==
    /\ at \in [1 .. Len(q) -> K \cap (1 .. n)]
    /\ \A i \in 1 .. Len(q) : q[i] = s[at[i]]
    /\ \A i, j \in 1 .. Len(q) : i < j => at[i] < at[j]
    /\ \A k \in K \cap (1 .. n) : \E i \in 1 .. Len(q) : at[i] = k

(* A sublist has just the elements at the positions asked for, each once   *)
(* and in order.                                                           *)
LEMMA SublistProperties ==
    ASSUME NEW S, NEW s \in Seq(S), NEW K
    PROVE  /\ Sublist(s, K) \in Seq(S)
           /\ \E at : Picks(at, Sublist(s, K), s, K, Len(s))
<1> DEFINE up == SublistUpTo(s, K)
           T == {n \in 0 .. Len(s) : \E at : Picks(at, up[n], s, K, n)}
<1>1. Len(s) \in Nat /\ \A n \in 1 .. Len(s) : s[n] \in S
  OBVIOUS
<1>2. /\ up \in [0 .. Len(s) -> Seq(S)] /\ up[0] = <<>>
      /\ \A n \in 1 .. Len(s) :
            up[n] = IF n \in K THEN Append(up[n - 1], s[n]) ELSE up[n - 1]
  BY SublistUpToDef
<1> HIDE DEF up
<1>3. 0 \in T
  <2>1. Picks(<<>>, <<>>, s, K, 0)
    BY DEF Picks
  <2> QED
    BY <1>1, <1>2, <2>1
<1>4. ASSUME NEW n \in 0 .. Len(s) - 1, n \in T PROVE n + 1 \in T
  <2> DEFINE q == up[n]
  <2>1. PICK at : Picks(at, q, s, K, n)
    BY <1>4
  <2>2. /\ n + 1 \in 1 .. Len(s) /\ (n + 1) - 1 = n /\ n \in 0 .. Len(s)
        /\ n + 1 \in 0 .. Len(s) /\ n \in Nat /\ 1 .. n + 1 = (1 .. n) \cup {n + 1}
    BY <1>1
  <2>3. q \in Seq(S) /\ up[n + 1] = IF n + 1 \in K THEN Append(q, s[n + 1]) ELSE q
    BY <1>2, <2>2
  <2> HIDE DEF q
  <2>4. CASE n + 1 \notin K
    <3>1. K \cap (1 .. n + 1) = K \cap (1 .. n)
      BY <2>2, <2>4
    <3>2. Picks(at, up[n + 1], s, K, n + 1)
      BY <2>1, <2>3, <2>4, <3>1 DEF Picks
    <3> QED
      BY <2>2, <3>2
  <2>5. CASE n + 1 \in K
    <3> DEFINE r == Append(q, s[n + 1])
               l == Len(q) + 1
               to == [i \in 1 .. l |-> IF i = l THEN n + 1 ELSE at[i]]
    <3>1. /\ Len(q) \in Nat /\ Len(r) = l /\ r[l] = s[n + 1]
          /\ \A i \in 1 .. Len(q) : r[i] = q[i]
      BY <1>1, <2>2, <2>3, AppendProperties
    <3>2. \A i \in 1 .. l : i = l \/ i \in 1 .. Len(q)
      BY <3>1
    <3>3. \A i \in 1 .. Len(q) : to[i] = at[i] /\ at[i] \in K \cap (1 .. n) /\ i \in 1 .. l
      BY <2>1, <3>1 DEF Picks
    <3>4. l \in 1 .. l /\ to[l] = n + 1
      BY <3>1
    <3> HIDE DEF r, l
    <3>5. to \in [1 .. l -> K \cap (1 .. n + 1)]
      BY <2>2, <2>5, <3>2, <3>3
    <3> HIDE DEF to
    <3>6. \A i \in 1 .. l : r[i] = s[to[i]]
      BY <2>1, <3>1, <3>2, <3>3, <3>4 DEF Picks
    <3>7. ASSUME NEW i \in 1 .. l, NEW j \in 1 .. l, i < j PROVE to[i] < to[j]
      <4>1. i \in 1 .. Len(q)
        BY <3>1, <3>7 DEF l
      <4>2. CASE j = l
        BY <2>2, <3>3, <3>4, <4>1, <4>2
      <4>3. CASE j # l
        BY <2>1, <3>2, <3>3, <3>7, <4>1, <4>3 DEF Picks
      <4> QED
        BY <4>2, <4>3
    <3>8. \A k \in K \cap (1 .. n + 1) : \E i \in 1 .. l : to[i] = k
      <4> SUFFICES ASSUME NEW k \in K \cap (1 .. n + 1) PROVE \E i \in 1 .. l : to[i] = k
        OBVIOUS
      <4>1. CASE k = n + 1
        BY <3>4, <4>1
      <4>2. CASE k # n + 1
        <5>1. PICK i \in 1 .. Len(q) : at[i] = k
          BY <2>1, <2>2, <4>2 DEF Picks
        <5> QED
          BY <3>3, <5>1
      <4> QED
        BY <4>1, <4>2
    <3>9. Picks(to, r, s, K, n + 1)
      BY <3>1, <3>5, <3>6, <3>7, <3>8 DEF Picks
    <3> QED
      BY <2>2, <2>3, <2>5, <3>9 DEF r
  <2> QED
    BY <2>4, <2>5
<1>5. Len(s) \in T
  <2>1. 0 .. Len(s) \subseteq T
    <3> HIDE DEF T
    <3> QED
      BY <1>1, <1>3, <1>4, InductionUpTo
  <2> QED
    BY <1>1, <2>1
<1> QED
  BY <1>1, <1>2, <1>5 DEF Sublist, up

(* s with e before the element at a position, or at the end.               *)
Inserted(s, p, e) == SubSeq(s, 1, p - 1) \o <<e>> \o SubSeq(s, p, Len(s))

(* Insertion moves the later elements by one position.                     *)
LEMMA InsertProperties ==
    ASSUME NEW S, NEW s \in Seq(S), NEW e \in S, NEW p \in 1 .. Len(s) + 1
    PROVE  /\ Inserted(s, p, e) \in Seq(S) /\ Len(Inserted(s, p, e)) = Len(s) + 1
           /\ \A i \in 1 .. p - 1 : Inserted(s, p, e)[i] = s[i]
           /\ Inserted(s, p, e)[p] = e
           /\ \A i \in p .. Len(s) : Inserted(s, p, e)[i + 1] = s[i]
<1> DEFINE f == SubSeq(s, 1, p - 1)
           g == <<e>>
           h == SubSeq(s, p, Len(s))
           fg == f \o g
           new == fg \o h
<1>1. Len(s) \in Nat /\ p \in Nat /\ \A i \in 1 .. Len(s) : s[i] \in S
  OBVIOUS
<1>2. f \in Seq(S) /\ Len(f) = p - 1 /\ \A i \in 1 .. p - 1 : f[i] = s[i]
  BY <1>1, SubSeqProperties
<1>3. h \in Seq(S) /\ Len(h) = Len(s) + 1 - p
      /\ \A i \in 1 .. Len(s) + 1 - p : h[i] = s[p + i - 1]
  BY <1>1, SubSeqProperties
<1>4. g \in Seq(S) /\ Len(g) = 1 /\ g[1] = e
  OBVIOUS
<1> HIDE DEF f, g, h
<1>5. /\ fg \in Seq(S) /\ Len(fg) = p
      /\ \A i \in 1 .. p : fg[i] = IF i <= p - 1 THEN f[i] ELSE g[i - (p - 1)]
  <2>1. /\ fg \in Seq(S) /\ Len(fg) = Len(f) + Len(g)
        /\ \A i \in 1 .. Len(f) + Len(g) : fg[i] = IF i <= Len(f) THEN f[i] ELSE g[i - Len(f)]
    <3>1. f \in Seq(S) /\ g \in Seq(S)
      BY <1>2, <1>4
    <3> QED
      BY <3>1, ConcatProperties, Zenon
  <2>2. Len(f) + Len(g) = p
    BY <1>1, <1>2, <1>4
  <2> HIDE DEF fg
  <2> QED
    BY <1>2, <2>1, <2>2
<1>6. fg[p] = e /\ \A i \in 1 .. p - 1 : fg[i] = s[i]
  BY <1>1, <1>2, <1>4, <1>5
<1> HIDE DEF fg
<1>7. /\ new \in Seq(S) /\ Len(new) = Len(s) + 1
      /\ \A i \in 1 .. Len(s) + 1 : new[i] = IF i <= p THEN fg[i] ELSE h[i - p]
  <2>1. /\ new \in Seq(S) /\ Len(new) = Len(fg) + Len(h)
        /\ \A i \in 1 .. Len(fg) + Len(h) :
              new[i] = IF i <= Len(fg) THEN fg[i] ELSE h[i - Len(fg)]
    <3>1. fg \in Seq(S) /\ h \in Seq(S)
      BY <1>3, <1>5
    <3> QED
      BY <3>1, ConcatProperties, Zenon
  <2>2. Len(fg) + Len(h) = Len(s) + 1
    BY <1>1, <1>3, <1>5
  <2> HIDE DEF new
  <2> QED
    BY <1>5, <2>1, <2>2
<1>8. ASSUME NEW i \in p .. Len(s) PROVE new[i + 1] = s[i]
  <2>1. i + 1 \in 1 .. Len(s) + 1 /\ ~(i + 1 <= p) /\ (i + 1) - p \in 1 .. Len(s) + 1 - p
        /\ p + ((i + 1) - p) - 1 = i
    BY <1>1
  <2> HIDE DEF new
  <2> QED
    BY <1>3, <1>7, <2>1
<1>9. \A i \in 1 .. p - 1 : new[i] = s[i]
  <2> HIDE DEF new
  <2> QED
    BY <1>1, <1>6, <1>7
<1>10. new[p] = e
  <2> HIDE DEF new
  <2> QED
    BY <1>1, <1>6, <1>7
<1>11. Inserted(s, p, e) = new
  BY DEF Inserted, f, g, h, fg
<1> HIDE DEF new
<1> QED
  BY <1>7, <1>8, <1>9, <1>10, <1>11, Zenon
=============================================================================
